-------------------------------- MODULE Lists --------------------------------
(***************************************************************************)
(* The blocking policy: the manual deny and allow lists and the downloaded *)
(* lists on disk (blocklist.rs), the matcher in memory that is rebuilt     *)
(* from them, and everyone who changes either: the admin endpoints         *)
(* (api.rs), the scheduled refresh and the startup sequence (main.rs).     *)
(*                                                                         *)
(* A worker is one of these.  Endpoint handlers run on a thread pool with  *)
(* nothing to serialise them but the refresh lock, which edits do not      *)
(* take; a handler is cancelled at an await by the HTTP deadline.  A file  *)
(* operation is one step each, fs::write two (it empties the file and then *)
(* fills it), and a rebuild reads the files one after the other.  What a   *)
(* list contains is a version for a downloaded list and a set of lines for *)
(* a manual one, each line a domain spelled with or without its trailing   *)
(* dot.  blocking.enabled is true throughout.                              *)
(***************************************************************************)
EXTENDS Integers, FiniteSets

CONSTANTS
    Handlers,    \* concurrent requests to the admin endpoints
    Scheduled,   \* the refresh task of main.rs
    Boot,        \* the startup sequence of main.rs
    Domains,     \* domains an administrator may list
    Sources,     \* blocking.sources
    Versions,    \* contents a source may serve
    Absent,      \* no such file on disk
    Cut,         \* a file that holds only part of a list
    NoOne        \* the refresh lock is free

ASSUME ListsAssumption ==
    /\ Scheduled \notin Handlers /\ Boot \notin Handlers /\ Scheduled # Boot
    /\ NoOne \notin Handlers \cup {Scheduled, Boot}
    /\ Absent \notin Versions /\ Cut \notin Versions /\ Absent # Cut

VARIABLES
    manual,    \* deny.list and allow.list: sets of lines
    made,      \* which of these two files exist
    lists,     \* the cached copy of each source
    matcher,   \* the Blocklist the resolver reads
    health,    \* SourceHealth.state of each source
    ever,      \* sources fetched since startup: last_success is set
    lock,      \* holder of the refresh lock
    pc,        \* where each worker is
    job,       \* what each worker was asked to do
    kept,      \* lines remove_manual is about to write back
    todo,      \* sources a refresh has not tried yet
    fetched,   \* whether the refresh got any source
    body,      \* the list a refresh has in memory, and its source
    tmp,       \* the temporary file it writes that to
    built,     \* the matcher a worker is building
    alone,     \* history: nobody else was at work since the worker began
    abandoned  \* history: an edit or reload was given up half way

disk == <<manual, made, lists>>
download == <<body, tmp>>
workVars == <<pc, job, kept, todo, fetched, download, built>>
vars == <<disk, matcher, health, ever, lock, workVars, alone, abandoned>>

Workers == Handlers \cup {Scheduled, Boot}

----------------------------------------------------------------------------
Files == {"deny", "allow"}

(* A line as stored: trimmed and lower-cased, the trailing dot kept. *)
Line == [domain : Domains, dot : BOOLEAN]

Edit == [op : {"add", "remove"}, file : Files, line : Line]

Job == Edit \cup [op : {"refresh", "none"}]

NoJob == [op |-> "none"]

(* Faulty variant: lines are taken as they are spelled. *)
RulesAsSpelled(lines) == lines

(* normalize() drops the trailing dot, so both spellings are one rule. *)
Rules(lines) == {l.domain : l \in lines}

(* What a file in the list directory may hold. *)
Copy == Versions \cup {Absent, Cut}

Body == [source : Sources, list : Versions]
NoBody == [source |-> NoOne, list |-> Absent]

Matcher == [lists : [Sources -> Copy],
            deny  : SUBSET Domains,
            allow : SUBSET Domains]

(* What build() makes of the files as they are. *)
OnDisk == [lists |-> lists,
           deny  |-> Rules(manual["deny"]),
           allow |-> Rules(manual["allow"])]

Empty == [lists |-> [s \in Sources |-> Absent], deny |-> {}, allow |-> {}]

PcValues == {"idle", "append", "truncate", "write", "mkdir", "fetch",
             "create_tmp", "fill_tmp", "rename", "build_lists", "build_deny",
             "build_allow", "swap", "ok", "failed"}

(* The awaits of a handler: the downloads and the wait for a build.  What  *)
(* fetch_one does with a body, once it has it, is not interrupted.         *)
Awaiting(h) ==
    \/ pc[h] = "fetch" /\ todo[h] # {}
    \/ pc[h] \in {"build_lists", "build_deny", "build_allow", "swap"}

Running == pc[Boot] = "idle"

At(w, from, to) ==
    /\ pc[w] = from
    /\ pc' = [pc EXCEPT ![w] = to]

Begin(w, j, to) ==
    /\ At(w, "idle", to)
    /\ job' = [job EXCEPT ![w] = j]
    /\ alone' = [v \in Workers |->
                   IF v = w THEN \A u \in Workers \ {w} : pc[u] = "idle"
                   ELSE alone[v] /\ pc[v] = "idle"]

(* The worker is done, whatever it achieved; a guard it held is dropped. *)
End(w) ==
    /\ pc' = [pc EXCEPT ![w] = "idle"]
    /\ job' = [job EXCEPT ![w] = NoJob]
    /\ kept' = [kept EXCEPT ![w] = {}]
    /\ todo' = [todo EXCEPT ![w] = {}]
    /\ fetched' = [fetched EXCEPT ![w] = FALSE]
    /\ body' = [body EXCEPT ![w] = NoBody]
    /\ tmp' = [tmp EXCEPT ![w] = Absent]
    /\ built' = [built EXCEPT ![w] = Empty]
    /\ lock' = IF lock = w THEN NoOne ELSE lock
    /\ alone' = [alone EXCEPT ![w] = TRUE]

----------------------------------------------------------------------------
(* append_manual and remove_manual *)

(* add_deny, add_allow: read the file first, a line already there is not   *)
(* appended again.                                                         *)
StartAdd(h, file, line) ==
    /\ Running
    /\ Begin(h, [op |-> "add", file |-> file, line |-> line],
             IF line \in manual[file] THEN "build_lists" ELSE "append")
    /\ UNCHANGED <<disk, matcher, health, ever, lock, kept, todo, fetched,
                   download, built, abandoned>>

Append(h) ==
    /\ At(h, "append", "build_lists")
    /\ manual' = [manual EXCEPT ![job[h].file] = @ \cup {job[h].line}]
    /\ made' = made \cup {job[h].file}
    /\ UNCHANGED <<lists, matcher, health, ever, lock, job, kept, todo,
                   fetched, download, built, alone, abandoned>>

(* remove_deny, remove_allow: read the file, keep the lines spelled        *)
(* otherwise; without a file there is nothing to do.                       *)
StartRemove(h, file, line) ==
    /\ Running
    /\ Begin(h, [op |-> "remove", file |-> file, line |-> line],
             IF file \in made THEN "truncate" ELSE "build_lists")
    /\ kept' = [kept EXCEPT ![h] = manual[file] \ {line}]
    /\ UNCHANGED <<disk, matcher, health, ever, lock, todo, fetched,
                   download, built, abandoned>>

(* fs::write empties the file and then fills it. *)
Truncate(h) ==
    /\ At(h, "truncate", "write")
    /\ manual' = [manual EXCEPT ![job[h].file] = {}]
    /\ UNCHANGED <<made, lists, matcher, health, ever, lock, job, kept,
                   todo, fetched, download, built, alone, abandoned>>

Write(h) ==
    /\ At(h, "write", "build_lists")
    /\ manual' = [manual EXCEPT ![job[h].file] = kept[h]]
    /\ kept' = [kept EXCEPT ![h] = {}]
    /\ UNCHANGED <<made, lists, matcher, health, ever, lock, job, todo,
                   fetched, download, built, alone, abandoned>>

(* The file cannot be opened or written: 500, and nothing is rebuilt.  An  *)
(* append may have made the file, and an fs::write that fails half way     *)
(* leaves it empty.                                                        *)
EditFails(h) ==
    /\ pc[h] \in {"append", "truncate", "write"}
    /\ End(h)
    /\ \/ UNCHANGED made
       \/ pc[h] = "append" /\ made' = made \cup {job[h].file}
    /\ abandoned' = TRUE
    /\ UNCHANGED <<manual, lists, matcher, health, ever>>

----------------------------------------------------------------------------
(* refresh_sources, under the refresh lock except at startup *)

(* Faulty variant: the lock is taken without being tried. *)
StartRefreshUnguarded(w) ==
    /\ Running
    /\ lock' = w
    /\ Begin(w, [op |-> "refresh"], "mkdir")
    /\ UNCHANGED <<disk, matcher, health, ever, kept, todo, fetched,
                   download, built, abandoned>>

(* try_lock: a refresh that finds the lock taken is refused or skipped. *)
StartRefresh(w) ==
    /\ Running
    /\ lock = NoOne
    /\ lock' = w
    /\ Begin(w, [op |-> "refresh"], "mkdir")
    /\ UNCHANGED <<disk, matcher, health, ever, kept, todo, fetched,
                   download, built, abandoned>>

Mkdir(w) ==
    /\ At(w, "mkdir", "fetch")
    /\ todo' = [todo EXCEPT ![w] = Sources]
    /\ UNCHANGED <<disk, matcher, health, ever, lock, job, kept, fetched,
                   download, built, alone, abandoned>>

(* total_failure(): something was tried and nothing succeeded.  A refresh  *)
(* then fails without a rebuild; startup carries on with what it has.      *)
FailOrBuild(w, total_failure) ==
    /\ pc' = [pc EXCEPT ![w] = IF total_failure /\ w # Boot
                               THEN "failed" ELSE "build_lists"]
    /\ UNCHANGED <<disk, matcher, health, ever, lock, job, kept, todo,
                   fetched, download, built, alone, abandoned>>

(* The list directory cannot be created, or the HTTP client not be built:  *)
(* every source counts as failed and none is tried.                        *)
MkdirFails(w) ==
    /\ pc[w] = "mkdir"
    /\ FailOrBuild(w, Sources # {})

(* fetch_one: send and chunk bring the whole body into memory. *)
Download(w, s, version) ==
    /\ At(w, "fetch", "create_tmp")
    /\ s \in todo[w]
    /\ todo' = [todo EXCEPT ![w] = @ \ {s}]
    /\ body' = [body EXCEPT ![w] = [source |-> s, list |-> version]]
    /\ UNCHANGED <<disk, matcher, health, ever, lock, job, kept, fetched, tmp,
                   built, alone, abandoned>>

(* Faulty variant: the download is written over the cached copy. *)
CreateInPlace(w) ==
    /\ At(w, "create_tmp", "fill_tmp")
    /\ lists' = [lists EXCEPT ![body[w].source] = Cut]
    /\ tmp' = [tmp EXCEPT ![w] = Cut]
    /\ UNCHANGED <<manual, made, matcher, health, ever, lock, job, kept, todo,
                   fetched, body, built, alone, abandoned>>

(* fs::write to a temporary name of this worker's own, in two steps, and   *)
(* the rename over the cached copy, which is atomic.                       *)
CreateTmp(w) ==
    /\ At(w, "create_tmp", "fill_tmp")
    /\ tmp' = [tmp EXCEPT ![w] = Cut]
    /\ UNCHANGED <<disk, matcher, health, ever, lock, job, kept, todo, fetched,
                   body, built, alone, abandoned>>

FillTmp(w) ==
    /\ At(w, "fill_tmp", "rename")
    /\ tmp' = [tmp EXCEPT ![w] = body[w].list]
    /\ UNCHANGED <<disk, matcher, health, ever, lock, job, kept, todo, fetched,
                   body, built, alone, abandoned>>

Forget(w) ==
    /\ body' = [body EXCEPT ![w] = NoBody]
    /\ tmp' = [tmp EXCEPT ![w] = Absent]

Rename(w) ==
    LET s == body[w].source
    IN  /\ At(w, "rename", "fetch")
        /\ lists' = [lists EXCEPT ![s] = tmp[w]]
        /\ fetched' = [fetched EXCEPT ![w] = TRUE]
        /\ health' = [health EXCEPT ![s] = "ok"]
        /\ ever' = ever \cup {s}
        /\ Forget(w)
        /\ UNCHANGED <<manual, made, matcher, lock, job, kept, todo, built,
                       alone, abandoned>>

(* Faulty variant: a source that never worked is reported as stale. *)
BlameStale(s) == health' = [health EXCEPT ![s] = "stale"]

(* What a failed source is shown as. *)
Blame(s) ==
    health' = [health EXCEPT ![s] = IF s \in ever THEN "stale" ELSE "error"]

(* No answer, a bad status, too long, broken off, or empty. *)
FetchFails(w, s) ==
    /\ At(w, "fetch", "fetch")
    /\ s \in todo[w]
    /\ todo' = [todo EXCEPT ![w] = @ \ {s}]
    /\ Blame(s)
    /\ UNCHANGED <<disk, matcher, ever, lock, job, kept, fetched, download,
                   built, alone, abandoned>>

(* The temporary file cannot be created, filled or renamed.  A rename that *)
(* fails removes it; a write that fails leaves it under a name that nobody *)
(* reads, as a crash does.                                                 *)
StoreFails(w) ==
    /\ pc[w] \in {"create_tmp", "fill_tmp", "rename"}
    /\ pc' = [pc EXCEPT ![w] = "fetch"]
    /\ Blame(body[w].source)
    /\ Forget(w)
    /\ UNCHANGED <<disk, matcher, ever, lock, job, kept, todo, fetched,
                   built, alone, abandoned>>

FetchEnds(w) ==
    /\ pc[w] = "fetch"
    /\ todo[w] = {}
    /\ FailOrBuild(w, Sources # {} /\ ~fetched[w])

----------------------------------------------------------------------------
(* rebuild: build() on a blocking thread, then the swap *)

BuildLists(w) ==
    /\ At(w, "build_lists", "build_deny")
    /\ built' = [built EXCEPT ![w].lists = lists]
    /\ UNCHANGED <<disk, matcher, health, ever, lock, job, kept, todo,
                   fetched, download, alone, abandoned>>

BuildDeny(w) ==
    /\ At(w, "build_deny", "build_allow")
    /\ built' = [built EXCEPT ![w].deny = Rules(manual["deny"])]
    /\ UNCHANGED <<disk, matcher, health, ever, lock, job, kept, todo,
                   fetched, download, alone, abandoned>>

(* Faulty variant: the allow list is not layered on top. *)
BuildAllowSkipped(w) ==
    /\ At(w, "build_allow", "swap")
    /\ UNCHANGED <<disk, matcher, health, ever, lock, job, kept, todo,
                   fetched, download, built, alone, abandoned>>

BuildAllow(w) ==
    /\ At(w, "build_allow", "swap")
    /\ built' = [built EXCEPT ![w].allow = Rules(manual["allow"])]
    /\ UNCHANGED <<disk, matcher, health, ever, lock, job, kept, todo,
                   fetched, download, alone, abandoned>>

Swap(w) ==
    /\ At(w, "swap", "ok")
    /\ matcher' = built[w]
    /\ UNCHANGED <<disk, health, ever, lock, job, kept, todo, fetched,
                   download, built, alone, abandoned>>

(* The reply of a handler (ok or 502); the other workers just end. *)
Reply(w) ==
    /\ pc[w] \in {"ok", "failed"}
    /\ End(w)
    /\ UNCHANGED <<disk, matcher, health, ever, abandoned>>

(* The HTTP deadline drops the handler where it waits: 504.  What it wrote *)
(* stays written, what it was building is thrown away.                     *)
Deadline(h) ==
    /\ Awaiting(h)
    /\ End(h)
    /\ abandoned' = TRUE
    /\ UNCHANGED <<disk, matcher, health, ever>>

----------------------------------------------------------------------------
(* The process dies at any point and starts again.  Startup downloads only *)
(* if some source has no cached copy, and serves nothing until its build   *)
(* is in place.                                                            *)
Restart ==
    /\ pc' = [w \in Workers |->
                IF w # Boot THEN "idle"
                ELSE IF \A s \in Sources : lists[s] # Absent
                     THEN "build_lists" ELSE "mkdir"]
    /\ job' = [w \in Workers |-> NoJob]
    /\ kept' = [w \in Workers |-> {}]
    /\ todo' = [w \in Workers |-> {}]
    /\ fetched' = [w \in Workers |-> FALSE]
    /\ body' = [w \in Workers |-> NoBody]
    /\ tmp' = [w \in Workers |-> Absent]
    /\ built' = [w \in Workers |-> Empty]
    /\ lock' = NoOne
    /\ matcher' = Empty
    /\ health' = [s \in Sources |-> "never_fetched"]
    /\ ever' = {}
    /\ alone' = [w \in Workers |-> TRUE]
    /\ abandoned' = FALSE
    /\ UNCHANGED disk

----------------------------------------------------------------------------
Init ==
    /\ manual = [f \in Files |-> {}]
    /\ made = {}
    /\ lists = [s \in Sources |-> Absent]
    /\ matcher = Empty
    /\ health = [s \in Sources |-> "never_fetched"]
    /\ ever = {}
    /\ lock = NoOne
    /\ pc = [w \in Workers |-> IF w = Boot THEN "mkdir" ELSE "idle"]
    /\ job = [w \in Workers |-> NoJob]
    /\ kept = [w \in Workers |-> {}]
    /\ todo = [w \in Workers |-> {}]
    /\ fetched = [w \in Workers |-> FALSE]
    /\ body = [w \in Workers |-> NoBody]
    /\ tmp = [w \in Workers |-> Absent]
    /\ built = [w \in Workers |-> Empty]
    /\ alone = [w \in Workers |-> TRUE]
    /\ abandoned = FALSE

(* The steps of a worker that need nobody else. *)
Work(w) ==
    \/ Append(w) \/ Truncate(w) \/ Write(w) \/ EditFails(w)
    \/ Mkdir(w) \/ MkdirFails(w) \/ FetchEnds(w)
    \/ \E s \in Sources : FetchFails(w, s)
    \/ \E s \in Sources, v \in Versions : Download(w, s, v)
    \/ CreateTmp(w) \/ FillTmp(w) \/ Rename(w) \/ StoreFails(w)
    \/ BuildLists(w) \/ BuildDeny(w) \/ BuildAllow(w) \/ Swap(w)
    \/ Reply(w)

HandlerStep(h) ==
    \/ \E file \in Files, line \in Line : StartAdd(h, file, line)
    \/ \E file \in Files, line \in Line : StartRemove(h, file, line)
    \/ StartRefresh(h)
    \/ Deadline(h)
    \/ Work(h)

Next ==
    \/ \E h \in Handlers : HandlerStep(h)
    \/ StartRefresh(Scheduled)
    \/ Work(Scheduled)
    \/ Work(Boot)
    \/ Restart

Spec == Init /\ [][Next]_vars

----------------------------------------------------------------------------
(* Properties *)

TypeOK ==
    /\ manual \in [Files -> SUBSET Line]
    /\ made \subseteq Files
    /\ lists \in [Sources -> Copy]
    /\ matcher \in Matcher
    /\ health \in [Sources -> {"never_fetched", "ok", "stale", "error"}]
    /\ ever \subseteq Sources
    /\ lock \in Workers \cup {NoOne}
    /\ pc \in [Workers -> PcValues]
    /\ job \in [Workers -> Job]
    /\ kept \in [Workers -> SUBSET Line]
    /\ todo \in [Workers -> SUBSET Sources]
    /\ fetched \in [Workers -> BOOLEAN]
    /\ body \in [Workers -> Body \cup {NoBody}]
    /\ tmp \in [Workers -> Copy]
    /\ built \in [Workers -> Matcher]
    /\ alone \in [Workers -> BOOLEAN]
    /\ abandoned \in BOOLEAN

(* "applies immediately" for one administrator at a time: when an edit or  *)
(* a reload that overlapped no other work answers ok, the resolver matches *)
(* against exactly what is on disk, and an added rule is among it.         *)
AppliesWhenAlone ==
    \A w \in Workers :
        (pc[w] = "ok" /\ alone[w]) =>
            /\ matcher = OnDisk
            /\ job[w].op = "add" =>
                   job[w].line.domain \in matcher[job[w].file]

(* Refreshes exclude one another: whoever is refreshing holds the lock,    *)
(* and the lock is held only by a worker that still is, also after the     *)
(* HTTP deadline has cancelled one in the middle of a download.            *)
RefreshExclusive ==
    \A w \in Workers \ {Boot} : job[w].op = "refresh" <=> lock = w

(* What the dashboard says of a source is true of the disk: a source shown *)
(* as ok or stale has a whole cached copy that filtering works from.       *)
HealthHonest ==
    \A s \in Sources : health[s] \in {"ok", "stale"} => lists[s] \in Versions

(* "A failing source leaves its previously cached copy untouched": the     *)
(* copy in place changes only from one whole download to the next.  It     *)
(* does not vanish, and neither the disk nor the resolver gets part of a   *)
(* list, wherever in a download or its writing a failure, the HTTP         *)
(* deadline or a crash falls and whoever rebuilds meanwhile.               *)
CachedListSurvives ==
    [][\A s \in Sources :
         /\ lists'[s] # lists[s] => lists'[s] \in Versions
         /\ matcher'.lists[s] # Cut]_vars

(* README, on POST and DELETE of /api/deny and /api/allow: "applies        *)
(* immediately".  Once nobody is at work any more, and unless an edit was  *)
(* given up half way, the resolver matches against what is on disk.        *)
SettledMatchesDisk ==
    ((\A w \in Workers : pc[w] = "idle") /\ ~abandoned) => matcher = OnDisk
=============================================================================
