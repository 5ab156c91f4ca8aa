----------------------------- MODULE ListsProofs -----------------------------
(***************************************************************************)
(* Theorems about the blocking policy for any handlers, domains, sources   *)
(* and contents: refreshes exclude one another, the health of a source is  *)
(* true of the disk, an undisturbed edit is in force when it is answered,  *)
(* and the copy of a list is replaced by a whole one or not at all.        *)
(***************************************************************************)
EXTENDS Lists, TLAPS

----------------------------------------------------------------------------
(* The inductive invariant *)

Editing == {"append", "truncate", "write"}
Removing == {"truncate", "write"}

(* A worker has a job exactly while it works; only edits touch the files   *)
(* of the administrator, and startup has neither a job nor the lock.       *)
JobFits ==
    /\ job[Boot] = NoJob /\ lock # Boot
    /\ \A w \in Workers : /\ pc[w] = "idle" => job[w] = NoJob
                          /\ pc[w] \in Editing => job[w] \in Edit
                          /\ pc[w] \in Removing => job[w].op = "remove"

(* The steps of fetch_one that have a body in hand.  What is renamed into  *)
(* place is the whole of it.                                               *)
Storing == {"create_tmp", "fill_tmp", "rename"}

Holds(w) ==
    /\ pc[w] \in Storing => body[w] \in Body
    /\ pc[w] = "rename" => tmp[w] = body[w].list

Downloads == \A w \in Workers : Holds(w)

(* What an undisturbed worker has built is what is on disk. *)
Tracks(w) ==
    /\ pc[w] \in {"build_deny", "build_allow", "swap"} => built[w].lists = lists
    /\ pc[w] \in {"build_allow", "swap"} => built[w].deny = Rules(manual["deny"])
    /\ pc[w] = "swap" => built[w].allow = Rules(manual["allow"])
    /\ pc[w] = "ok" => matcher = OnDisk

(* An undisturbed addition is in its file once it has been appended. *)
Added(w) ==
    (job[w].op = "add" /\ pc[w] # "append") => job[w].line \in manual[job[w].file]

Solo(w) ==
    (alone[w] /\ pc[w] # "idle") =>
        /\ \A v \in Workers \ {w} : pc[v] = "idle"
        /\ Tracks(w)
        /\ Added(w)

IInv ==
    /\ TypeOK
    /\ JobFits
    /\ RefreshExclusive
    /\ Downloads
    /\ \A w \in Workers : Solo(w)

----------------------------------------------------------------------------
(* Facts used throughout *)

LEMMA WorkerFacts ==
    /\ Scheduled \in Workers /\ Boot \in Workers /\ NoOne \notin Workers
    /\ \A h \in Handlers : h \in Workers /\ h # Boot
    /\ Scheduled # Boot
BY ListsAssumption DEF Workers

LEMMA RulesType ==
    ASSUME NEW lines \in SUBSET Line
    PROVE  Rules(lines) \in SUBSET Domains
BY DEF Rules, Line

LEMMA OnDiskType == TypeOK => OnDisk \in Matcher
<1> SUFFICES ASSUME TypeOK PROVE OnDisk \in Matcher
  OBVIOUS
<1>1. Rules(manual["deny"]) \in SUBSET Domains /\ Rules(manual["allow"]) \in SUBSET Domains
  BY RulesType DEF TypeOK, Files
<1> QED BY <1>1 DEF OnDisk, Matcher, TypeOK

LEMMA EmptyType == Empty \in Matcher
BY DEF Empty, Matcher, Copy

(* Nobody else is undisturbed while w is at work. *)
LEMMA OthersNotSolo ==
    ASSUME IInv, NEW w \in Workers, pc[w] # "idle",
           NEW v \in Workers, v # w, pc'[v] = pc[v], alone'[v] = alone[v]
    PROVE  Solo(v)'
BY DEF IInv, Solo

(* A step that goes on to something other than storing a body. *)
LEMMA KeepsDownloads ==
    ASSUME IInv, NEW w \in Workers, NEW to \in PcValues \ Storing,
           pc' = [pc EXCEPT ![w] = to], UNCHANGED download
    PROVE  Downloads'
BY DEF IInv, TypeOK, Downloads, Holds, Storing, download

(* A step of a worker that goes on working. *)
LEMMA WorkStep ==
    ASSUME IInv, NEW w \in Workers, pc[w] # "idle",
           NEW to \in PcValues \ ({"idle"} \cup {"append", "truncate"}),
           pc' = [pc EXCEPT ![w] = to], to = "write" => pc[w] = "truncate",
           UNCHANGED <<job, lock, alone>>,
           TypeOK', Downloads',
           alone[w] => Tracks(w)' /\ Added(w)'
    PROVE  IInv'
<1> USE DEF IInv
<1>1. pc'[w] = to /\ \A v \in Workers \ {w} : pc'[v] = pc[v]
  BY DEF TypeOK
<1>2. JobFits'
  BY <1>1 DEF JobFits, Editing, Removing
<1>3. RefreshExclusive'
  BY DEF RefreshExclusive
<1>4. ASSUME NEW v \in Workers PROVE Solo(v)'
  <2>1. CASE v = w
    BY <1>1, <2>1 DEF Solo
  <2>2. CASE v # w
    BY <1>1, <2>2, OthersNotSolo
  <2> QED BY <2>1, <2>2
<1> QED BY <1>2, <1>3, <1>4

(* A worker ends, and drops the lock if it holds it. *)
LEMMA EndStep ==
    ASSUME IInv, NEW w \in Workers, pc[w] # "idle", End(w),
           UNCHANGED <<manual, lists, health, ever>>, made' \subseteq Files,
           matcher' \in Matcher, abandoned' \in BOOLEAN
    PROVE  IInv'
<1> USE DEF IInv
<1>1. /\ pc'[w] = "idle" /\ job'[w] = NoJob
      /\ \A v \in Workers \ {w} : /\ pc'[v] = pc[v] /\ job'[v] = job[v]
                                  /\ alone'[v] = alone[v]
      /\ lock' = IF lock = w THEN NoOne ELSE lock
  BY DEF End, TypeOK
<1>2. TypeOK'
  <2>1. pc' \in [Workers -> PcValues] /\ job' \in [Workers -> Job]
    BY DEF End, TypeOK, PcValues, Job, NoJob
  <2>2. kept' \in [Workers -> SUBSET Line] /\ todo' \in [Workers -> SUBSET Sources]
    BY DEF End, TypeOK
  <2>3. body' \in [Workers -> Body \cup {NoBody}] /\ tmp' \in [Workers -> Copy]
    BY DEF End, TypeOK, Copy
  <2>4. built' \in [Workers -> Matcher] /\ alone' \in [Workers -> BOOLEAN]
    BY EmptyType DEF End, TypeOK
  <2>5. fetched' \in [Workers -> BOOLEAN] /\ lock' \in Workers \cup {NoOne}
    BY DEF End, TypeOK
  <2> QED BY <2>1, <2>2, <2>3, <2>4, <2>5 DEF TypeOK
<1>3. JobFits'
  BY <1>1, WorkerFacts DEF JobFits, Editing, Removing
<1>4. RefreshExclusive'
  BY <1>1, WorkerFacts DEF RefreshExclusive, NoJob, JobFits
<1>5. Downloads'
  BY <1>1 DEF End, Downloads, Holds, Storing, TypeOK
<1>6. ASSUME NEW v \in Workers PROVE Solo(v)'
  <2>1. CASE v = w
    BY <1>1, <2>1 DEF Solo
  <2>2. CASE v # w
    BY <1>1, <2>2, OthersNotSolo
  <2> QED BY <2>1, <2>2
<1> QED BY <1>2, <1>3, <1>4, <1>5, <1>6

(* A worker other than startup takes up a job. *)
LEMMA BeginStep ==
    ASSUME IInv, NEW w \in Workers \ {Boot}, NEW j \in Job,
           NEW to \in PcValues \ {"idle"}, Begin(w, j, to),
           to \in Editing => j \in Edit, to \in Removing => j.op = "remove",
           to \in {"append", "truncate", "build_lists", "mkdir"},
           (j.op = "add" /\ to # "append") => j.line \in manual[j.file],
           \/ j.op # "refresh" /\ lock' = lock
           \/ j.op = "refresh" /\ lock = NoOne /\ lock' = w,
           kept' \in [Workers -> SUBSET Line],
           UNCHANGED <<disk, matcher, health, ever, todo, fetched, download, built,
                       abandoned>>
    PROVE  IInv'
<1> USE DEF IInv
<1>1. /\ pc[w] = "idle" /\ pc'[w] = to /\ job'[w] = j
      /\ \A v \in Workers \ {w} : /\ pc'[v] = pc[v] /\ job'[v] = job[v]
                                  /\ alone'[v] = (alone[v] /\ pc[v] = "idle")
      /\ alone'[w] = \A u \in Workers \ {w} : pc[u] = "idle"
      /\ manual' = manual /\ made' = made /\ lists' = lists
  BY DEF Begin, At, TypeOK, disk
<1>2. TypeOK'
  <2>1. pc' \in [Workers -> PcValues] /\ job' \in [Workers -> Job]
    BY DEF Begin, At, TypeOK
  <2>2. alone' \in [Workers -> BOOLEAN]
    BY DEF Begin, TypeOK
  <2>3. lock' \in Workers \cup {NoOne}
    BY DEF TypeOK
  <2> QED BY <1>1, <2>1, <2>2, <2>3 DEF TypeOK, download
<1>3. JobFits'
  BY <1>1, WorkerFacts DEF JobFits, Editing, Removing
<1>4. RefreshExclusive'
  BY <1>1, WorkerFacts DEF RefreshExclusive, JobFits, NoJob
<1>5. Downloads'
  BY KeepsDownloads DEF Begin, At, Storing
<1>6. ASSUME NEW v \in Workers PROVE Solo(v)'
  <2>1. CASE v = w
    BY <1>1, <2>1 DEF Solo, Tracks, Added
  <2>2. CASE v # w
    BY <1>1, <2>2 DEF Solo
  <2> QED BY <2>1, <2>2
<1> QED BY <1>2, <1>3, <1>4, <1>5, <1>6

----------------------------------------------------------------------------
(* One lemma per action *)

LEMMA StartAddStep ==
    ASSUME IInv, NEW h \in Handlers, NEW file \in Files, NEW line \in Line,
           StartAdd(h, file, line)
    PROVE  IInv'
<1> DEFINE j == [op |-> "add", file |-> file, line |-> line]
           to == IF line \in manual[file] THEN "build_lists" ELSE "append"
<1>1. h \in Workers \ {Boot}
  BY WorkerFacts
<1>2. j \in Edit /\ j \in Job /\ j.op = "add" /\ j.file = file /\ j.line = line
  BY DEF Edit, Job
<1>3. to \in PcValues \ {"idle"} /\ to \in {"append", "truncate", "build_lists", "mkdir"}
      /\ to \notin Removing
  BY DEF PcValues, Removing
<1>4. to # "append" => line \in manual[file]
  OBVIOUS
<1>5. Begin(h, j, to) /\ lock' = lock /\ kept' = kept
      /\ UNCHANGED <<disk, matcher, health, ever, todo, fetched, download, built,
                   abandoned>>
  BY DEF StartAdd
<1>6. kept' \in [Workers -> SUBSET Line]
  BY <1>5 DEF IInv, TypeOK
<1> HIDE DEF j, to
<1> QED BY <1>1, <1>2, <1>3, <1>4, <1>5, <1>6, BeginStep

LEMMA StartRemoveStep ==
    ASSUME IInv, NEW h \in Handlers, NEW file \in Files, NEW line \in Line,
           StartRemove(h, file, line)
    PROVE  IInv'
<1> DEFINE j == [op |-> "remove", file |-> file, line |-> line]
           to == IF file \in made THEN "truncate" ELSE "build_lists"
<1>1. h \in Workers \ {Boot}
  BY WorkerFacts
<1>2. j \in Edit /\ j \in Job /\ j.op = "remove"
  BY DEF Edit, Job
<1>3. to \in PcValues \ {"idle"} /\ to \in {"append", "truncate", "build_lists", "mkdir"}
  BY DEF PcValues
<1>4. Begin(h, j, to) /\ lock' = lock
      /\ UNCHANGED <<disk, matcher, health, ever, todo, fetched, download, built,
                   abandoned>>
  BY DEF StartRemove
<1>5. kept' \in [Workers -> SUBSET Line]
  BY <1>1 DEF StartRemove, IInv, TypeOK
<1> HIDE DEF j, to
<1> QED BY <1>1, <1>2, <1>3, <1>4, <1>5, BeginStep

LEMMA StartRefreshStep ==
    ASSUME IInv, NEW w \in Workers \ {Boot}, StartRefresh(w)
    PROVE  IInv'
<1> DEFINE j == [op |-> "refresh"]
<1>1. j \in Job /\ j.op = "refresh"
  BY DEF Job
<1>2. "mkdir" \in PcValues \ {"idle"} /\ "mkdir" \notin Editing /\ "mkdir" \notin Removing
  BY DEF PcValues, Editing, Removing
<1>3. Begin(w, j, "mkdir") /\ lock = NoOne /\ lock' = w /\ kept' = kept
      /\ UNCHANGED <<disk, matcher, health, ever, todo, fetched, download, built,
                   abandoned>>
  BY DEF StartRefresh
<1>4. kept' \in [Workers -> SUBSET Line]
  BY <1>3 DEF IInv, TypeOK
<1> HIDE DEF j
<1> QED BY <1>1, <1>2, <1>3, <1>4, BeginStep

(* The job of a worker that edits a file. *)
LEMMA EditJob ==
    ASSUME IInv, NEW w \in Workers, pc[w] \in Editing
    PROVE  job[w].file \in Files /\ job[w].line \in Line
BY DEF IInv, JobFits, Edit

LEMMA AppendStep ==
    ASSUME IInv, NEW w \in Workers, Append(w)
    PROVE  IInv'
<1> USE DEF IInv
<1>1. pc[w] = "append" /\ pc' = [pc EXCEPT ![w] = "build_lists"]
  BY DEF Append, At
<1>2. job[w].file \in Files /\ job[w].line \in Line
  BY <1>1, EditJob DEF Editing
<1>8. "build_lists" \in PcValues \ ({"idle"} \cup {"append", "truncate"})
  BY DEF PcValues
<1>3. TypeOK'
  BY <1>1, <1>2 DEF Append, TypeOK, PcValues, download
<1>4. Downloads'
  BY <1>1, <1>8, KeepsDownloads DEF Append, Storing
<1>5. Tracks(w)'
  BY <1>1 DEF Tracks, TypeOK
<1>6. Added(w)'
  BY <1>2 DEF Append, Added, TypeOK
<1>7. UNCHANGED <<job, lock, alone>>
  BY DEF Append
<1> QED BY <1>1, <1>3, <1>4, <1>5, <1>6, <1>7, <1>8, WorkStep

LEMMA TruncateStep ==
    ASSUME IInv, NEW w \in Workers, Truncate(w)
    PROVE  IInv'
<1> USE DEF IInv
<1>1. pc[w] = "truncate" /\ pc' = [pc EXCEPT ![w] = "write"]
  BY DEF Truncate, At
<1>2. job[w].file \in Files /\ job[w].line \in Line
  BY <1>1, EditJob DEF Editing
<1>8. "write" \in PcValues \ ({"idle"} \cup {"append", "truncate"})
  BY DEF PcValues
<1>3. TypeOK'
  BY <1>1, <1>2 DEF Truncate, TypeOK, PcValues, download
<1>4. Downloads'
  BY <1>1, <1>8, KeepsDownloads DEF Truncate, Storing
<1>5. Tracks(w)'
  BY <1>1 DEF Tracks, TypeOK
<1>6. Added(w)'
  BY <1>1 DEF Truncate, JobFits, Removing, Added
<1>7. UNCHANGED <<job, lock, alone>>
  BY DEF Truncate
<1> QED BY <1>1, <1>3, <1>4, <1>5, <1>6, <1>7, <1>8, WorkStep

LEMMA WriteStep ==
    ASSUME IInv, NEW w \in Workers, Write(w)
    PROVE  IInv'
<1> USE DEF IInv
<1>1. pc[w] = "write" /\ pc' = [pc EXCEPT ![w] = "build_lists"]
  BY DEF Write, At
<1>2. job[w].file \in Files /\ job[w].line \in Line
  BY <1>1, EditJob DEF Editing
<1>8. "build_lists" \in PcValues \ ({"idle"} \cup {"append", "truncate"})
  BY DEF PcValues
<1>3. TypeOK'
  BY <1>1, <1>2 DEF Write, TypeOK, PcValues, download
<1>4. Downloads'
  BY <1>1, <1>8, KeepsDownloads DEF Write, Storing
<1>5. Tracks(w)'
  BY <1>1 DEF Tracks, TypeOK
<1>6. Added(w)'
  BY <1>1 DEF Write, JobFits, Removing, Added
<1>7. UNCHANGED <<job, lock, alone>>
  BY DEF Write
<1> QED BY <1>1, <1>3, <1>4, <1>5, <1>6, <1>7, <1>8, WorkStep

LEMMA EditFailsStep ==
    ASSUME IInv, NEW w \in Workers, EditFails(w)
    PROVE  IInv'
<1>1. pc[w] # "idle" /\ End(w) /\ UNCHANGED <<manual, lists, health, ever>>
      /\ matcher' = matcher
      /\ abandoned' = TRUE
  BY DEF EditFails
<1>2. matcher' \in Matcher
  BY <1>1 DEF IInv, TypeOK
<1>3. made' \subseteq Files
  BY EditJob DEF EditFails, IInv, TypeOK, Editing
<1> QED BY <1>1, <1>2, <1>3, EndStep

LEMMA ReplyStep ==
    ASSUME IInv, NEW w \in Workers, Reply(w)
    PROVE  IInv'
<1>1. pc[w] # "idle" /\ End(w) /\ UNCHANGED <<manual, lists, health, ever>>
      /\ matcher' = matcher
      /\ abandoned' = abandoned
  BY DEF Reply, disk
<1>2. matcher' \in Matcher /\ abandoned' \in BOOLEAN
  BY <1>1 DEF IInv, TypeOK
<1>3. made' \subseteq Files
  BY DEF Reply, disk, IInv, TypeOK
<1> QED BY <1>1, <1>2, <1>3, EndStep

LEMMA DeadlineStep ==
    ASSUME IInv, NEW w \in Workers, Deadline(w)
    PROVE  IInv'
<1>1. pc[w] # "idle" /\ End(w) /\ UNCHANGED <<manual, lists, health, ever>>
      /\ matcher' = matcher
      /\ abandoned' = TRUE
  BY DEF Deadline, Awaiting, disk
<1>2. matcher' \in Matcher
  BY <1>1 DEF IInv, TypeOK
<1>3. made' \subseteq Files
  BY DEF Deadline, disk, IInv, TypeOK
<1> QED BY <1>1, <1>2, <1>3, EndStep

----------------------------------------------------------------------------
(* The refresh and the rebuild *)

LEMMA MkdirStep ==
    ASSUME IInv, NEW w \in Workers, Mkdir(w)
    PROVE  IInv'
<1> USE DEF IInv
<1>1. pc[w] = "mkdir" /\ pc' = [pc EXCEPT ![w] = "fetch"]
  BY DEF Mkdir, At
<1>2. UNCHANGED <<job, lock, alone, manual, made, lists, health, ever, download>>
  BY DEF Mkdir, disk
<1>3. TypeOK'
  BY <1>1, <1>2 DEF Mkdir, TypeOK, PcValues, download
<1>4. Downloads'
  BY <1>1, <1>2, KeepsDownloads DEF PcValues, Storing
<1>5. ASSUME alone[w] PROVE Tracks(w)'
  BY <1>1 DEF Tracks, TypeOK
<1>6. ASSUME alone[w] PROVE Added(w)'
  BY <1>1, <1>2, <1>6 DEF Solo, Added, TypeOK
<1>7. "fetch" \in PcValues \ ({"idle"} \cup {"append", "truncate"})
  BY DEF PcValues
<1> QED BY <1>1, <1>2, <1>3, <1>4, <1>5, <1>6, <1>7, WorkStep

(* total_failure() or not, the worker goes on. *)
LEMMA FailOrBuildStep ==
    ASSUME IInv, NEW w \in Workers, pc[w] \in {"mkdir", "fetch"},
           NEW failure \in BOOLEAN, FailOrBuild(w, failure)
    PROVE  IInv'
<1> USE DEF IInv
<1> DEFINE to == IF failure /\ w # Boot THEN "failed" ELSE "build_lists"
<1>1. pc' = [pc EXCEPT ![w] = to] /\ to \in {"failed", "build_lists"}
  BY DEF FailOrBuild
<1>2. UNCHANGED <<job, lock, alone, manual, made, lists, health, ever, matcher,
                  download, kept, todo, fetched, built, abandoned>>
  BY DEF FailOrBuild, disk
<1> HIDE DEF to
<1>3. to \in PcValues \ ({"idle"} \cup {"append", "truncate"}) /\ to # "write"
  BY <1>1 DEF PcValues
<1>4. TypeOK'
  BY <1>1, <1>2, <1>3 DEF TypeOK, download
<1>5. Downloads'
  BY <1>1, <1>2, KeepsDownloads DEF PcValues, Storing
<1>6. ASSUME alone[w] PROVE Tracks(w)' /\ Added(w)'
  BY <1>1, <1>2, <1>6 DEF Solo, Tracks, Added, TypeOK
<1> QED BY <1>1, <1>2, <1>3, <1>4, <1>5, <1>6, WorkStep

(* The steps of fetch_one leave files and lock alone up to the rename. *)
LEMMA DownloadStep ==
    ASSUME IInv, NEW w \in Workers, NEW s \in Sources, NEW v \in Versions,
           Download(w, s, v)
    PROVE  IInv'
<1> USE DEF IInv
<1>1. pc[w] = "fetch" /\ pc' = [pc EXCEPT ![w] = "create_tmp"]
  BY DEF Download, At
<1>2. UNCHANGED <<job, lock, alone, manual, made, lists, health, ever, tmp>>
  BY DEF Download, disk
<1>3. body' = [body EXCEPT ![w] = [source |-> s, list |-> v]]
      /\ [source |-> s, list |-> v] \in Body
  BY DEF Download, Body
<1>4. TypeOK'
  <2>1. todo' \in [Workers -> SUBSET Sources] /\ body' \in [Workers -> Body \cup {NoBody}]
    BY <1>3 DEF Download, TypeOK
  <2> QED BY <1>1, <1>2, <2>1 DEF Download, TypeOK, PcValues
<1>5. Downloads'
  BY <1>1, <1>2, <1>3 DEF Downloads, Holds, Storing, TypeOK
<1>6. ASSUME alone[w] PROVE Tracks(w)' /\ Added(w)'
  BY <1>1, <1>2, <1>6 DEF Solo, Tracks, Added, TypeOK
<1>7. "create_tmp" \in PcValues \ ({"idle"} \cup {"append", "truncate"})
  BY DEF PcValues
<1> QED BY <1>1, <1>2, <1>4, <1>5, <1>6, <1>7, WorkStep

LEMMA CreateTmpStep ==
    ASSUME IInv, NEW w \in Workers, CreateTmp(w)
    PROVE  IInv'
<1> USE DEF IInv
<1>1. pc[w] = "create_tmp" /\ pc' = [pc EXCEPT ![w] = "fill_tmp"]
  BY DEF CreateTmp, At
<1>2. UNCHANGED <<job, lock, alone, manual, made, lists, health, ever, body>>
  BY DEF CreateTmp, disk
<1>3. TypeOK'
  <2>1. tmp' \in [Workers -> Copy]
    BY DEF CreateTmp, TypeOK, Copy
  <2> QED BY <1>1, <1>2, <2>1 DEF CreateTmp, TypeOK, PcValues
<1>4. Downloads'
  BY <1>1, <1>2 DEF CreateTmp, Downloads, Holds, Storing, TypeOK
<1>5. ASSUME alone[w] PROVE Tracks(w)' /\ Added(w)'
  BY <1>1, <1>2, <1>5 DEF Solo, Tracks, Added, TypeOK
<1>6. "fill_tmp" \in PcValues \ ({"idle"} \cup {"append", "truncate"})
  BY DEF PcValues
<1> QED BY <1>1, <1>2, <1>3, <1>4, <1>5, <1>6, WorkStep

LEMMA FillTmpStep ==
    ASSUME IInv, NEW w \in Workers, FillTmp(w)
    PROVE  IInv'
<1> USE DEF IInv
<1>1. pc[w] = "fill_tmp" /\ pc' = [pc EXCEPT ![w] = "rename"]
  BY DEF FillTmp, At
<1>2. UNCHANGED <<job, lock, alone, manual, made, lists, health, ever, body>>
  BY DEF FillTmp, disk
<1>3. tmp' = [tmp EXCEPT ![w] = body[w].list] /\ body[w] \in Body /\ body[w].list \in Copy
  BY <1>1 DEF FillTmp, Downloads, Holds, Storing, Body, Copy
<1>4. TypeOK'
  <2>1. tmp' \in [Workers -> Copy]
    BY <1>3 DEF TypeOK
  <2> QED BY <1>1, <1>2, <2>1 DEF FillTmp, TypeOK, PcValues
<1>5. Downloads'
  BY <1>1, <1>2, <1>3 DEF Downloads, Holds, Storing, TypeOK
<1>6. ASSUME alone[w] PROVE Tracks(w)' /\ Added(w)'
  BY <1>1, <1>2, <1>6 DEF Solo, Tracks, Added, TypeOK
<1>7. "rename" \in PcValues \ ({"idle"} \cup {"append", "truncate"})
  BY DEF PcValues
<1> QED BY <1>1, <1>2, <1>4, <1>5, <1>6, <1>7, WorkStep

(* The body is dropped and the worker goes on with the next source. *)
LEMMA ForgetStep ==
    ASSUME IInv, NEW w \in Workers, pc' = [pc EXCEPT ![w] = "fetch"], Forget(w)
    PROVE  /\ body' \in [Workers -> Body \cup {NoBody}]
           /\ tmp' \in [Workers -> Copy]
           /\ Downloads'
<1>1. body' \in [Workers -> Body \cup {NoBody}] /\ tmp' \in [Workers -> Copy]
  BY DEF Forget, IInv, TypeOK, Copy
<1>2. Downloads'
  BY DEF Forget, IInv, TypeOK, Downloads, Holds, Storing
<1> QED BY <1>1, <1>2

LEMMA RenameStep ==
    ASSUME IInv, NEW w \in Workers, Rename(w)
    PROVE  IInv'
<1> USE DEF IInv
<1>1. pc[w] = "rename" /\ pc' = [pc EXCEPT ![w] = "fetch"] /\ Forget(w)
  BY DEF Rename, At
<1>2. UNCHANGED <<job, lock, alone, manual, made>>
  BY DEF Rename
<1>3. TypeOK'
  <2>1. body[w] \in Body /\ body[w].source \in Sources
    BY <1>1 DEF Downloads, Holds, Storing, Body
  <2>2. /\ lists' \in [Sources -> Copy] /\ ever' \subseteq Sources
        /\ health' \in [Sources -> {"never_fetched", "ok", "stale", "error"}]
    BY <2>1 DEF Rename, TypeOK
  <2>3. fetched' \in [Workers -> BOOLEAN]
    BY DEF Rename, TypeOK
  <2>4. UNCHANGED <<matcher, kept, todo, built, abandoned>>
    BY DEF Rename
  <2>5. body' \in [Workers -> Body \cup {NoBody}] /\ tmp' \in [Workers -> Copy]
    BY <1>1, ForgetStep
  <2> QED BY <1>1, <1>2, <2>2, <2>3, <2>4, <2>5 DEF TypeOK, PcValues
<1>4. Downloads'
  BY <1>1, ForgetStep
<1>5. ASSUME alone[w] PROVE Tracks(w)' /\ Added(w)'
  BY <1>1, <1>2, <1>5 DEF Solo, Tracks, Added, TypeOK
<1>6. "fetch" \in PcValues \ ({"idle"} \cup {"append", "truncate"})
  BY DEF PcValues
<1> QED BY <1>1, <1>2, <1>3, <1>4, <1>5, <1>6, WorkStep

LEMMA BlameType ==
    ASSUME TypeOK, NEW s, Blame(s)
    PROVE  health' \in [Sources -> {"never_fetched", "ok", "stale", "error"}]
BY DEF TypeOK, Blame

LEMMA StoreFailsStep ==
    ASSUME IInv, NEW w \in Workers, StoreFails(w)
    PROVE  IInv'
<1> USE DEF IInv
<1>1. pc[w] \in Storing /\ pc' = [pc EXCEPT ![w] = "fetch"] /\ Forget(w)
  BY DEF StoreFails, Storing
<1>2. UNCHANGED <<job, lock, alone, manual, made, lists, ever>>
  BY DEF StoreFails, disk
<1>3. TypeOK'
  <2>1. health' \in [Sources -> {"never_fetched", "ok", "stale", "error"}]
    BY BlameType DEF StoreFails
  <2>2. UNCHANGED <<matcher, kept, todo, fetched, built, abandoned>>
    BY DEF StoreFails
  <2>3. body' \in [Workers -> Body \cup {NoBody}] /\ tmp' \in [Workers -> Copy]
    BY <1>1, ForgetStep
  <2> QED BY <1>1, <1>2, <2>1, <2>2, <2>3 DEF TypeOK, PcValues
<1>4. Downloads'
  BY <1>1, ForgetStep
<1>5. ASSUME alone[w] PROVE Tracks(w)' /\ Added(w)'
  BY <1>1, <1>2, <1>5 DEF Solo, Tracks, Added, TypeOK, Storing
<1>6. "fetch" \in PcValues \ ({"idle"} \cup {"append", "truncate"}) /\ pc[w] # "idle"
  BY <1>1 DEF PcValues, Storing
<1> QED BY <1>1, <1>2, <1>3, <1>4, <1>5, <1>6, WorkStep

LEMMA FetchFailsStep ==
    ASSUME IInv, NEW w \in Workers, NEW s \in Sources, FetchFails(w, s)
    PROVE  IInv'
<1> USE DEF IInv
<1>1. pc[w] = "fetch" /\ pc' = [pc EXCEPT ![w] = "fetch"]
  BY DEF FetchFails, At
<1>2. UNCHANGED <<job, lock, alone, manual, made, lists, ever, download>>
  BY DEF FetchFails, disk
<1>3. TypeOK'
  <2>1. todo' \in [Workers -> SUBSET Sources]
    BY DEF FetchFails, TypeOK
  <2>2. health' \in [Sources -> {"never_fetched", "ok", "stale", "error"}]
    BY BlameType DEF FetchFails
  <2>3. UNCHANGED <<matcher, kept, fetched, built, abandoned>>
    BY DEF FetchFails
  <2> QED BY <1>1, <1>2, <2>1, <2>2, <2>3 DEF TypeOK, PcValues, download
<1>4. Downloads'
  BY <1>1, <1>2, KeepsDownloads DEF PcValues, Storing
<1>5. ASSUME alone[w] PROVE Tracks(w)' /\ Added(w)'
  BY <1>1, <1>2, <1>5 DEF Solo, Tracks, Added, TypeOK
<1>6. "fetch" \in PcValues \ ({"idle"} \cup {"append", "truncate"})
  BY DEF PcValues
<1> QED BY <1>1, <1>2, <1>3, <1>4, <1>5, <1>6, WorkStep

LEMMA BuildListsStep ==
    ASSUME IInv, NEW w \in Workers, BuildLists(w)
    PROVE  IInv'
<1> USE DEF IInv
<1>1. pc[w] = "build_lists" /\ pc' = [pc EXCEPT ![w] = "build_deny"]
  BY DEF BuildLists, At
<1>2. UNCHANGED <<job, lock, alone, manual, made, lists, health, ever, download>>
  BY DEF BuildLists, disk
<1>3. TypeOK'
  <2>1. lists \in [Sources -> Copy]
    BY DEF TypeOK
  <2>2. built' \in [Workers -> Matcher]
    BY <2>1 DEF BuildLists, TypeOK, Matcher
  <2> QED BY <1>1, <1>2, <2>2 DEF BuildLists, TypeOK, PcValues, download
<1>4. Downloads'
  BY <1>1, <1>2, KeepsDownloads DEF PcValues, Storing
<1>5. ASSUME alone[w] PROVE Tracks(w)'
  BY <1>1, <1>2 DEF BuildLists, Tracks, TypeOK, Matcher
<1>6. ASSUME alone[w] PROVE Added(w)'
  BY <1>1, <1>2, <1>6 DEF Solo, Added, TypeOK
<1>7. "build_deny" \in PcValues \ ({"idle"} \cup {"append", "truncate"})
  BY DEF PcValues
<1> QED BY <1>1, <1>2, <1>3, <1>4, <1>5, <1>6, <1>7, WorkStep

LEMMA BuildDenyStep ==
    ASSUME IInv, NEW w \in Workers, BuildDeny(w)
    PROVE  IInv'
<1> USE DEF IInv
<1>1. pc[w] = "build_deny" /\ pc' = [pc EXCEPT ![w] = "build_allow"]
  BY DEF BuildDeny, At
<1>2. UNCHANGED <<job, lock, alone, manual, made, lists, health, ever, download>>
  BY DEF BuildDeny, disk
<1>3. TypeOK'
  <2>1. Rules(manual["deny"]) \in SUBSET Domains
    BY RulesType DEF TypeOK, Files
  <2>2. built' \in [Workers -> Matcher]
    BY <2>1 DEF BuildDeny, TypeOK, Matcher
  <2> QED BY <1>1, <1>2, <2>2 DEF BuildDeny, TypeOK, PcValues, download
<1>4. Downloads'
  BY <1>1, <1>2, KeepsDownloads DEF PcValues, Storing
<1>5. ASSUME alone[w] PROVE Tracks(w)'
  BY <1>1, <1>2, <1>5 DEF BuildDeny, Solo, Tracks, TypeOK, Matcher
<1>6. ASSUME alone[w] PROVE Added(w)'
  BY <1>1, <1>2, <1>6 DEF Solo, Added, TypeOK
<1>7. "build_allow" \in PcValues \ ({"idle"} \cup {"append", "truncate"})
  BY DEF PcValues
<1> QED BY <1>1, <1>2, <1>3, <1>4, <1>5, <1>6, <1>7, WorkStep

LEMMA BuildAllowStep ==
    ASSUME IInv, NEW w \in Workers, BuildAllow(w)
    PROVE  IInv'
<1> USE DEF IInv
<1>1. pc[w] = "build_allow" /\ pc' = [pc EXCEPT ![w] = "swap"]
  BY DEF BuildAllow, At
<1>2. UNCHANGED <<job, lock, alone, manual, made, lists, health, ever, download>>
  BY DEF BuildAllow, disk
<1>3. TypeOK'
  <2>1. Rules(manual["allow"]) \in SUBSET Domains
    BY RulesType DEF TypeOK, Files
  <2>2. built' \in [Workers -> Matcher]
    BY <2>1 DEF BuildAllow, TypeOK, Matcher
  <2> QED BY <1>1, <1>2, <2>2 DEF BuildAllow, TypeOK, PcValues, download
<1>4. Downloads'
  BY <1>1, <1>2, KeepsDownloads DEF PcValues, Storing
<1>5. ASSUME alone[w] PROVE Tracks(w)'
  BY <1>1, <1>2, <1>5 DEF BuildAllow, Solo, Tracks, TypeOK, Matcher
<1>6. ASSUME alone[w] PROVE Added(w)'
  BY <1>1, <1>2, <1>6 DEF Solo, Added, TypeOK
<1>7. "swap" \in PcValues \ ({"idle"} \cup {"append", "truncate"})
  BY DEF PcValues
<1> QED BY <1>1, <1>2, <1>3, <1>4, <1>5, <1>6, <1>7, WorkStep

LEMMA SwapStep ==
    ASSUME IInv, NEW w \in Workers, Swap(w)
    PROVE  IInv'
<1> USE DEF IInv
<1>1. pc[w] = "swap" /\ pc' = [pc EXCEPT ![w] = "ok"]
  BY DEF Swap, At
<1>2. UNCHANGED <<job, lock, alone, manual, made, lists, health, ever, download>>
  BY DEF Swap, disk
<1>3. TypeOK'
  BY <1>1, <1>2 DEF Swap, TypeOK, PcValues, download
<1>4. Downloads'
  BY <1>1, <1>2, KeepsDownloads DEF PcValues, Storing
<1>5. ASSUME alone[w] PROVE Tracks(w)'
  <2>1. built[w] = OnDisk
    BY <1>1, <1>5 DEF Solo, Tracks, OnDisk, TypeOK, Matcher
  <2>2. matcher' = OnDisk'
    BY <1>2, <2>1 DEF Swap, OnDisk
  <2> QED BY <1>1, <2>2 DEF Tracks, TypeOK
<1>6. ASSUME alone[w] PROVE Added(w)'
  BY <1>1, <1>2, <1>6 DEF Solo, Added, TypeOK
<1>7. "ok" \in PcValues \ ({"idle"} \cup {"append", "truncate"})
  BY DEF PcValues
<1> QED BY <1>1, <1>2, <1>3, <1>4, <1>5, <1>6, <1>7, WorkStep

----------------------------------------------------------------------------
(* Startup, the first and any later one *)

(* A freshly started process: startup is at work and nobody else is. *)
Fresh ==
    /\ job = [w \in Workers |-> NoJob]
    /\ kept = [w \in Workers |-> {}]
    /\ todo = [w \in Workers |-> {}]
    /\ fetched = [w \in Workers |-> FALSE]
    /\ body = [w \in Workers |-> NoBody]
    /\ tmp = [w \in Workers |-> Absent]
    /\ built = [w \in Workers |-> Empty]
    /\ lock = NoOne
    /\ matcher = Empty
    /\ health = [s \in Sources |-> "never_fetched"]
    /\ ever = {}
    /\ alone = [w \in Workers |-> TRUE]
    /\ abandoned = FALSE
    /\ manual \in [Files -> SUBSET Line]
    /\ made \subseteq Files
    /\ lists \in [Sources -> Copy]
    /\ \E first \in {"mkdir", "build_lists"} :
           pc = [w \in Workers |-> IF w = Boot THEN first ELSE "idle"]

LEMMA FreshIsSound == Fresh => IInv
<1> SUFFICES ASSUME Fresh PROVE IInv
  OBVIOUS
<1>1. TypeOK
  <2>1. pc \in [Workers -> PcValues]
    BY DEF Fresh, PcValues
  <2>2. job \in [Workers -> Job] /\ kept \in [Workers -> SUBSET Line]
    BY DEF Fresh, Job, NoJob
  <2>3. todo \in [Workers -> SUBSET Sources] /\ fetched \in [Workers -> BOOLEAN]
    BY DEF Fresh
  <2>4. built \in [Workers -> Matcher] /\ matcher \in Matcher
    BY EmptyType DEF Fresh
  <2>5. body \in [Workers -> Body \cup {NoBody}] /\ tmp \in [Workers -> Copy]
    BY DEF Fresh, Copy
  <2> QED BY <2>1, <2>2, <2>3, <2>4, <2>5 DEF Fresh, TypeOK
<1>2. JobFits
  BY WorkerFacts DEF Fresh, JobFits, Editing, Removing
<1>3. RefreshExclusive
  BY WorkerFacts DEF Fresh, RefreshExclusive, NoJob
<1>4. Downloads
  BY DEF Fresh, Downloads, Holds, Storing
<1>5. ASSUME NEW w \in Workers PROVE Solo(w)
  <2>1. job[w].op # "add"
    BY DEF Fresh, NoJob
  <2> QED BY <2>1 DEF Fresh, Solo, Tracks, Added
<1> QED BY <1>1, <1>2, <1>3, <1>4, <1>5 DEF IInv

LEMMA InitIsSound == Init => IInv
BY FreshIsSound DEF Init, Fresh, Copy

LEMMA RestartStep ==
    ASSUME IInv, Restart
    PROVE  IInv'
<1>1. \E first \in {"mkdir", "build_lists"} :
          pc' = [w \in Workers |-> IF w = Boot THEN first ELSE "idle"]
  BY DEF Restart
<1>2. Fresh'
  BY <1>1 DEF Restart, Fresh, IInv, TypeOK, disk
<1> QED BY <1>2, FreshIsSound, PTL

----------------------------------------------------------------------------
(* The theorems *)

LEMMA WorkPreserves ==
    ASSUME IInv, NEW w \in Workers, Work(w)
    PROVE  IInv'
<1>1. CASE Append(w) \/ Truncate(w) \/ Write(w) \/ EditFails(w)
  BY <1>1, AppendStep, TruncateStep, WriteStep, EditFailsStep
<1>2. CASE Mkdir(w)
  BY <1>2, MkdirStep
<1>3. CASE MkdirFails(w)
  BY <1>3, FailOrBuildStep DEF MkdirFails
<1>4. CASE FetchEnds(w)
  BY <1>4, FailOrBuildStep DEF FetchEnds, IInv, TypeOK
<1>5. CASE \E s \in Sources : FetchFails(w, s)
  BY <1>5, FetchFailsStep
<1>6. CASE \E s \in Sources, v \in Versions : Download(w, s, v)
  BY <1>6, DownloadStep
<1>7. CASE CreateTmp(w) \/ FillTmp(w) \/ Rename(w) \/ StoreFails(w)
  BY <1>7, CreateTmpStep, FillTmpStep, RenameStep, StoreFailsStep
<1>8. CASE BuildLists(w) \/ BuildDeny(w) \/ BuildAllow(w) \/ Swap(w) \/ Reply(w)
  BY <1>8, BuildListsStep, BuildDenyStep, BuildAllowStep, SwapStep, ReplyStep
<1> QED BY <1>1, <1>2, <1>3, <1>4, <1>5, <1>6, <1>7, <1>8 DEF Work

LEMMA NextPreserves ==
    ASSUME IInv, [Next]_vars
    PROVE  IInv'
<1>1. CASE \E h \in Handlers : HandlerStep(h)
  <2> PICK h \in Handlers : HandlerStep(h)
    BY <1>1
  <2>1. h \in Workers /\ h \in Workers \ {Boot}
    BY WorkerFacts
  <2>2. CASE \E file \in Files, line \in Line : StartAdd(h, file, line)
    BY <2>2, StartAddStep
  <2>3. CASE \E file \in Files, line \in Line : StartRemove(h, file, line)
    BY <2>3, StartRemoveStep
  <2>4. CASE StartRefresh(h) \/ Deadline(h) \/ Work(h)
    BY <2>1, <2>4, StartRefreshStep, DeadlineStep, WorkPreserves
  <2> QED BY <2>2, <2>3, <2>4 DEF HandlerStep
<1>2. CASE StartRefresh(Scheduled)
  BY <1>2, StartRefreshStep, WorkerFacts
<1>3. CASE Work(Scheduled) \/ Work(Boot)
  BY <1>3, WorkPreserves, WorkerFacts
<1>4. CASE Restart
  BY <1>4, RestartStep
<1>5. CASE UNCHANGED vars
  BY <1>5 DEF vars, disk, workVars, download, IInv, TypeOK, JobFits,
              RefreshExclusive, Downloads, Holds, Solo, Tracks, Added, OnDisk
<1> QED BY <1>1, <1>2, <1>3, <1>4, <1>5 DEF Next

(* The strengthened invariant holds in every reachable state. *)
THEOREM Invariance == Spec => []IInv
<1>1. Init => IInv
  BY InitIsSound
<1>2. IInv /\ [Next]_vars => IInv'
  BY NextPreserves
<1> QED BY <1>1, <1>2, PTL DEF Spec

(* Every variable keeps its type, whatever the handlers and sources. *)
THEOREM TypeCorrect == Spec => []TypeOK
<1>1. IInv => TypeOK
  BY DEF IInv
<1> QED BY <1>1, Invariance, PTL

(* The refresh lock and the refreshes agree for any number of concurrent   *)
(* handlers and deadlines: no two refreshes at once, and no lock is left   *)
(* behind by a cancelled one.                                              *)
THEOREM OneRefreshAtATime == Spec => []RefreshExclusive
<1>1. IInv => RefreshExclusive
  BY DEF IInv
<1> QED BY <1>1, Invariance, PTL

(* When an edit or reload that overlapped nobody answers ok, the resolver  *)
(* matches against exactly the files on disk, an added rule among them.    *)
THEOREM EditInForce == Spec => []AppliesWhenAlone
<1>1. ASSUME IInv PROVE AppliesWhenAlone
  <2> SUFFICES ASSUME NEW w \in Workers, pc[w] = "ok", alone[w]
               PROVE  /\ matcher = OnDisk
                      /\ job[w].op = "add" =>
                             job[w].line.domain \in matcher[job[w].file]
    BY DEF AppliesWhenAlone
  <2>1. matcher = OnDisk /\ Added(w)
    BY <1>1 DEF IInv, Solo, Tracks
  <2>2. ASSUME job[w].op = "add" PROVE job[w].line.domain \in OnDisk[job[w].file]
    <3>1. job[w] \in Edit
      BY <1>1, <2>2 DEF IInv, TypeOK, Job
    <3>2. job[w].file \in Files /\ job[w].line \in manual[job[w].file]
      BY <2>1, <2>2, <3>1 DEF Added, Edit
    <3>3. job[w].line.domain \in Rules(manual[job[w].file])
      BY <3>2 DEF Rules
    <3> QED BY <3>2, <3>3 DEF OnDisk, Files
  <2> QED BY <2>1, <2>2
<1> QED BY <1>1, Invariance, PTL

----------------------------------------------------------------------------
(* What is stored, on the strength of IInv *)

(* last_success is set only for a source that has its copy. *)
EverHonest == \A s \in ever : lists[s] \in Versions

(* Part of a list is in no cached copy and in no matcher. *)
Whole(m) == \A s \in Sources : m.lists[s] # Cut

Stored ==
    /\ EverHonest
    /\ HealthHonest
    /\ \A s \in Sources : lists[s] # Cut
    /\ Whole(matcher)
    /\ \A w \in Workers : Whole(built[w])

StoredVars == <<lists, health, ever, matcher, built>>

LEMMA EmptyIsWhole == Whole(Empty)
BY ListsAssumption DEF Whole, Empty

LEMMA StoredUnchanged == Stored /\ UNCHANGED StoredVars => Stored'
BY DEF StoredVars, Stored, EverHonest, HealthHonest, Whole

(* Only the rename changes a copy, and what it puts there is whole. *)
LEMMA RenamePuts ==
    ASSUME IInv, NEW w \in Workers, Rename(w)
    PROVE  /\ body[w].source \in Sources /\ body[w].list \in Versions
           /\ lists' = [lists EXCEPT ![body[w].source] = body[w].list]
<1>1. body[w] \in Body /\ tmp[w] = body[w].list
  BY DEF IInv, Downloads, Holds, Storing, Rename, At
<1> QED BY <1>1 DEF Rename, Body

LEMMA RenameStores ==
    ASSUME IInv, Stored, NEW w \in Workers, Rename(w)
    PROVE  Stored'
<1> DEFINE s == body[w].source
<1>1. /\ s \in Sources /\ body[w].list \in Versions
      /\ lists' = [lists EXCEPT ![s] = body[w].list]
  BY RenamePuts
<1>2. /\ health' = [health EXCEPT ![s] = "ok"] /\ ever' = ever \cup {s}
      /\ matcher' = matcher /\ built' = built
  BY DEF Rename
<1>3. lists \in [Sources -> Copy] /\ ever \subseteq Sources
      /\ health \in [Sources -> {"never_fetched", "ok", "stale", "error"}]
  BY DEF IInv, TypeOK
<1> HIDE DEF s
<1>4. EverHonest' /\ HealthHonest'
  BY <1>1, <1>2, <1>3 DEF Stored, EverHonest, HealthHonest
<1>5. \A t \in Sources : lists'[t] # Cut
  BY <1>1, <1>3, ListsAssumption DEF Stored
<1> QED BY <1>2, <1>4, <1>5 DEF Stored, Whole

(* A failed source is called stale only if it was fetched before. *)
LEMMA BlameStores ==
    ASSUME IInv, Stored, NEW s, Blame(s), UNCHANGED <<lists, ever, matcher, built>>
    PROVE  Stored'
<1>1. EverHonest' /\ HealthHonest'
  BY DEF Blame, Stored, EverHonest, HealthHonest, IInv, TypeOK
<1> QED BY <1>1 DEF Stored, Whole

(* A matcher being built takes its lists from the disk. *)
LEMMA BuiltStores ==
    ASSUME IInv, Stored, NEW w \in Workers, NEW m, Whole(m),
           built' = [built EXCEPT ![w] = m], UNCHANGED <<lists, health, ever, matcher>>
    PROVE  Stored'
<1>1. EverHonest' /\ HealthHonest'
  BY DEF Stored, EverHonest, HealthHonest
<1>2. \A v \in Workers : built'[v] = IF v = w THEN m ELSE built[v]
  BY DEF IInv, TypeOK
<1> QED BY <1>1, <1>2 DEF Stored, Whole

LEMMA WorkStores ==
    ASSUME IInv, Stored, NEW w \in Workers, Work(w)
    PROVE  Stored'
<1>1. CASE Append(w) \/ Truncate(w) \/ Write(w)
  <2>1. UNCHANGED StoredVars
    BY <1>1 DEF Append, Truncate, Write, StoredVars
  <2> QED BY <2>1, StoredUnchanged
<1>2. CASE EditFails(w) \/ Reply(w)
  BY <1>2, BuiltStores, EmptyIsWhole DEF EditFails, Reply, End, disk
<1>3. CASE Mkdir(w) \/ MkdirFails(w) \/ FetchEnds(w)
  <2>1. UNCHANGED StoredVars
    BY <1>3 DEF Mkdir, MkdirFails, FetchEnds, FailOrBuild, StoredVars, disk
  <2> QED BY <2>1, StoredUnchanged
<1>4. CASE \E s \in Sources : FetchFails(w, s)
  BY <1>4, BlameStores DEF FetchFails, disk
<1>5. CASE \/ \E s \in Sources, v \in Versions : Download(w, s, v)
           \/ CreateTmp(w) \/ FillTmp(w)
  <2>1. UNCHANGED StoredVars
    BY <1>5 DEF Download, CreateTmp, FillTmp, StoredVars, disk
  <2> QED BY <2>1, StoredUnchanged
<1>6. CASE Rename(w)
  BY <1>6, RenameStores
<1>7. CASE StoreFails(w)
  BY <1>7, BlameStores DEF StoreFails, disk
<1>8. CASE BuildLists(w)
  <2> DEFINE m == [built[w] EXCEPT !.lists = lists]
  <2>1. m.lists = lists
    BY DEF IInv, TypeOK, Matcher
  <2>2. Whole(m)
    BY <2>1 DEF Whole, Stored
  <2>3. built' = [built EXCEPT ![w] = m] /\ UNCHANGED <<lists, health, ever, matcher>>
    BY <1>8 DEF BuildLists, disk
  <2> HIDE DEF m
  <2> QED BY <2>2, <2>3, BuiltStores
<1>9. CASE BuildDeny(w)
  <2> DEFINE m == [built[w] EXCEPT !.deny = Rules(manual["deny"])]
  <2>1. m.lists = built[w].lists
    BY DEF IInv, TypeOK, Matcher
  <2>2. Whole(m)
    BY <2>1 DEF Whole, Stored
  <2>3. built' = [built EXCEPT ![w] = m] /\ UNCHANGED <<lists, health, ever, matcher>>
    BY <1>9 DEF BuildDeny, disk
  <2> HIDE DEF m
  <2> QED BY <2>2, <2>3, BuiltStores
<1>10. CASE BuildAllow(w)
  <2> DEFINE m == [built[w] EXCEPT !.allow = Rules(manual["allow"])]
  <2>1. m.lists = built[w].lists
    BY DEF IInv, TypeOK, Matcher
  <2>2. Whole(m)
    BY <2>1 DEF Whole, Stored
  <2>3. built' = [built EXCEPT ![w] = m] /\ UNCHANGED <<lists, health, ever, matcher>>
    BY <1>10 DEF BuildAllow, disk
  <2> HIDE DEF m
  <2> QED BY <2>2, <2>3, BuiltStores
<1>11. CASE Swap(w)
  <2>1. EverHonest' /\ HealthHonest'
    BY <1>11 DEF Swap, disk, Stored, EverHonest, HealthHonest
  <2> QED BY <1>11, <2>1 DEF Swap, disk, Stored, Whole
<1> QED BY <1>1, <1>2, <1>3, <1>4, <1>5, <1>6, <1>7, <1>8, <1>9, <1>10, <1>11 DEF Work

LEMMA NextStores ==
    ASSUME IInv, Stored, [Next]_vars
    PROVE  Stored'
<1>1. CASE \E h \in Handlers : HandlerStep(h)
  <2> PICK h \in Handlers : HandlerStep(h)
    BY <1>1
  <2>1. h \in Workers
    BY WorkerFacts
  <2>2. CASE \/ \E file \in Files, line \in Line : StartAdd(h, file, line)
             \/ \E file \in Files, line \in Line : StartRemove(h, file, line)
             \/ StartRefresh(h)
    <3>1. UNCHANGED StoredVars
      BY <2>2 DEF StartAdd, StartRemove, StartRefresh, StoredVars, disk
    <3> QED BY <3>1, StoredUnchanged
  <2>3. CASE Deadline(h)
    BY <2>1, <2>3, BuiltStores, EmptyIsWhole DEF Deadline, End, disk
  <2>4. CASE Work(h)
    BY <2>1, <2>4, WorkStores
  <2> QED BY <2>2, <2>3, <2>4 DEF HandlerStep
<1>2. CASE StartRefresh(Scheduled) \/ UNCHANGED vars
  <2>1. UNCHANGED StoredVars
    BY <1>2 DEF StartRefresh, vars, workVars, StoredVars, disk
  <2> QED BY <2>1, StoredUnchanged
<1>3. CASE Work(Scheduled) \/ Work(Boot)
  BY <1>3, WorkStores, WorkerFacts
<1>4. CASE Restart
  <2>1. EverHonest' /\ HealthHonest'
    BY <1>4 DEF Restart, EverHonest, HealthHonest
  <2>2. lists' = lists /\ matcher' = Empty /\ \A w \in Workers : built'[w] = Empty
    BY <1>4 DEF Restart, disk
  <2> QED BY <2>1, <2>2, EmptyIsWhole DEF Stored, Whole
<1> QED BY <1>1, <1>2, <1>3, <1>4 DEF Next

(* Cached copies and matchers are whole in every reachable state. *)
THEOREM StoredInvariance == Spec => []Stored
<1>1. Init => Stored
  <2> SUFFICES ASSUME Init PROVE Stored
    OBVIOUS
  <2>1. EverHonest /\ HealthHonest
    BY DEF Init, EverHonest, HealthHonest
  <2> QED BY <2>1, EmptyIsWhole, ListsAssumption DEF Init, Stored
<1>2. IInv /\ Stored /\ [Next]_vars => Stored'
  BY NextStores
<1> QED BY <1>1, <1>2, Invariance, PTL DEF Spec

(* A source shown as ok or stale has a whole copy on disk, through failed  *)
(* downloads and writes, cancelled refreshes and restarts.                 *)
THEOREM HealthIsTrue == Spec => []HealthHonest
<1>1. Stored => HealthHonest
  BY DEF Stored
<1> QED BY <1>1, StoredInvariance, PTL

(* A cached copy is replaced by a whole download or stays as it is, and    *)
(* the resolver never matches against part of one, wherever a download,    *)
(* the writing of its temporary file or a rebuild is broken off.           *)
THEOREM CopiesSurvive == Spec => CachedListSurvives
<1> DEFINE Survives == \A s \in Sources : /\ lists'[s] # lists[s] => lists'[s] \in Versions
                                          /\ matcher'.lists[s] # Cut
<1>1. ASSUME IInv, Stored', [Next]_vars
      PROVE  Survives
  <2>1. ASSUME NEW w \in Workers, Work(w)
        PROVE  \A s \in Sources : lists'[s] # lists[s] => lists'[s] \in Versions
    <3>1. CASE Rename(w)
      <4>1. /\ body[w].list \in Versions
            /\ lists' = [lists EXCEPT ![body[w].source] = body[w].list]
        BY <1>1, <3>1, RenamePuts
      <4>2. lists \in [Sources -> Copy]
        BY <1>1 DEF IInv, TypeOK
      <4> QED BY <4>1, <4>2
    <3>2. CASE ~Rename(w)
      <4>1. lists' = lists
        BY <2>1, <3>2 DEF Work, Append, Truncate, Write, EditFails, Mkdir, MkdirFails,
           FetchEnds, FetchFails, Download, CreateTmp, FillTmp, StoreFails, FailOrBuild,
           BuildLists, BuildDeny, BuildAllow, Swap, Reply, disk
      <4> QED BY <4>1
    <3> QED BY <3>1, <3>2
  <2>2. \A s \in Sources : lists'[s] # lists[s] => lists'[s] \in Versions
    <3>1. CASE \E h \in Handlers : HandlerStep(h)
      <4> PICK h \in Handlers : HandlerStep(h)
        BY <3>1
      <4>1. CASE Work(h)
        BY <2>1, <4>1, WorkerFacts
      <4>2. CASE ~Work(h)
        BY <4>2 DEF HandlerStep, StartAdd, StartRemove, StartRefresh, Deadline, disk
      <4> QED BY <4>1, <4>2
    <3>2. CASE Work(Scheduled) \/ Work(Boot)
      BY <2>1, <3>2, WorkerFacts
    <3>3. CASE StartRefresh(Scheduled) \/ Restart \/ UNCHANGED vars
      BY <3>3 DEF StartRefresh, Restart, vars, disk
    <3> QED BY <1>1, <3>1, <3>2, <3>3 DEF Next
  <2>3. \A s \in Sources : matcher'.lists[s] # Cut
    BY <1>1 DEF Stored, Whole
  <2> QED BY <2>2, <2>3
<1>2. IInv /\ Stored' /\ [Next]_vars => [Survives]_vars
  BY <1>1
<1>3. Spec => [][Survives]_vars
  BY <1>2, Invariance, StoredInvariance, PTL DEF Spec
<1> QED BY <1>3 DEF CachedListSurvives
=============================================================================
