------------------------------ MODULE Matching ------------------------------
(***************************************************************************)
(* The matcher of blocklist.rs: build() reads the configured lists one     *)
(* after the other into a Blocklist, and the resolver asks it which list,  *)
(* if any, blocks a name.                                                  *)
(*                                                                         *)
(* A domain is a sequence of labels, the most specific first.  A line is   *)
(* what is left of it once comments and blanks are gone: an Adblock Plus   *)
(* rule, a hosts line, or fields of which one alone is a rule.  Characters *)
(* matter only for whether a label is one a hostname can have.  Fewer      *)
(* lists than SourceId::MAX are configured, so that intern never clamps.   *)
(* ingest() takes one step per line: the Blocklist is local to build(),    *)
(* and nobody can look anything up in it before build() returns.           *)
(***************************************************************************)
EXTENDS Integers, FiniteSets, SequencesExt

CONSTANTS
    Plan,        \* what build() reads, in order: [list, allow] records
    Contents,    \* what a list file may hold: sequences of lines
    BadLabels,   \* labels with characters no hostname has, or too long
    IpLiterals,  \* label sequences that read as an address
    LocalNames,  \* localhost and the like
    Queries,     \* names the resolver asks about
    NoList       \* None

Lists == {Plan[i].list : i \in DOMAIN Plan}
Lines == UNION {Range(lines) : lines \in Contents}

(* What the parser can tell apart. *)
IsLine(line) ==
    \/ /\ line.form \in {"hosts", "fields"}
       /\ line.fields \in Seq(Range(line.fields))
       /\ \A e \in Range(line.fields) : e.wild \in BOOLEAN
    \/ line.form \in {"block", "exception"} /\ line.modified \in BOOLEAN

ASSUME MatchingAssumption ==
    /\ Plan \in Seq([list : Lists, allow : BOOLEAN])
    /\ NoList \notin Lists
    /\ \A lines \in Contents : lines \in Seq(Lines)
    /\ \A line \in Lines : IsLine(line)
    /\ \A domain \in Queries : domain \in Seq(Range(domain))

VARIABLES
    bl,          \* the Blocklist
    at,          \* the list build() reads now or next
    file,        \* ingest(): the lines left, source_id and before
    asked,       \* the name last looked up
    verdict,     \* what lookup() said
    read         \* history: the lines read, as [line, list, allow]

matchingVars == <<bl, at, file, asked, verdict, read>>

----------------------------------------------------------------------------
(* Lines.  An entry is a domain with or without a leading "*.". *)

Bare(entry)            == [form |-> "fields", fields |-> <<entry>>]
Fields(entries)        == [form |-> "fields", fields |-> entries]
Hosts(entries)         == [form |-> "hosts", fields |-> entries]
Adblock(domain)        == [form |-> "block", domain |-> domain, modified |-> FALSE]
AdblockWith(domain)    == [form |-> "block", domain |-> domain, modified |-> TRUE]
Exception(domain)      == [form |-> "exception", domain |-> domain, modified |-> FALSE]

Exact(domain)    == [wild |-> FALSE, domain |-> domain]
Wildcard(domain) == [wild |-> TRUE, domain |-> domain]

(* normalize: what it lets through; spelling is canonical already. *)
Normalizes(entry) ==
    /\ Len(entry.domain) > 1
    /\ entry.domain \notin IpLiterals
    /\ Range(entry.domain) \cap BadLabels = {}

----------------------------------------------------------------------------
(* Building *)

EmptyList == [exact |-> <<>>, wildcards |-> <<>>,
              allow |-> {}, allow_wildcards |-> {}, sources |-> <<>>]

(* HashMap::entry().or_insert(), for each of the keys: the first list to   *)
(* name a domain keeps it.                                                 *)
OrInsert(map, keys, value) ==
    [k \in DOMAIN map \cup keys |-> IF k \in DOMAIN map THEN map[k] ELSE value]

(* len *)
Size(b) == Cardinality(DOMAIN b.exact) + Cardinality(DOMAIN b.wildcards)

(* Position of a list in the interning table. *)
SourceId(b, list) == CHOOSE i \in DOMAIN b.sources : b.sources[i].name = list

Intern(b, list) ==
    IF \E i \in DOMAIN b.sources : b.sources[i].name = list THEN b
    ELSE [b EXCEPT !.sources = Append(@, [name |-> list, entries |-> 0])]

(* The domains that normalize() gets out of entries as Entry::Wildcard, or *)
(* as Entry::Exact.                                                        *)
Domains(entries, wild) ==
    {e.domain : e \in {f \in entries : Normalizes(f) /\ f.wild = wild}}

(* add_block and add_allow, once for each of the entries of a line.  Their *)
(* order is of no matter: they are all credited to the same list.          *)
AddBlock(b, entries, id) ==
    [b EXCEPT !.exact = OrInsert(@, Domains(entries, FALSE), id),
              !.wildcards = OrInsert(@, Domains(entries, TRUE), id)]

AddAllow(b, entries) ==
    [b EXCEPT !.allow = @ \cup Domains(entries, FALSE),
              !.allow_wildcards = @ \cup Domains(entries, TRUE)]

Add(b, entries, id, allow) ==
    IF allow THEN AddAllow(b, entries) ELSE AddBlock(b, entries, id)

(* parse_adblock: a rule with a modifier, a path or a star is not one.  It *)
(* then is a single field that no domain is spelled like.                  *)
ParseAdblock(line) == line.form \in {"block", "exception"} /\ ~line.modified

IngestLine(b, line, id, allow) ==
    CASE line.form = "block" /\ ParseAdblock(line) ->
             Add(b, {Wildcard(line.domain)}, id, allow)
      [] line.form = "exception" /\ ParseAdblock(line) ->
             AddAllow(b, {Wildcard(line.domain)})
      [] line.form = "hosts" ->
             Add(b, {e \in Range(line.fields) : e.domain \notin LocalNames}, id, allow)
      [] line.form = "fields" /\ Len(line.fields) = 1 ->
             Add(b, {line.fields[1]}, id, allow)
      [] OTHER -> b

(* Faulty variant: the count of a list is set, not added to. *)
CountEntriesAfresh(b, id, added) == [b EXCEPT !.sources[id].entries = added]

CountEntries(b, id, added) == [b EXCEPT !.sources[id].entries = @ + added]

----------------------------------------------------------------------------
(* Asking *)

Suffix(domain, k) == SubSeq(domain, k, Len(domain))

(* The name itself and every name above it. *)
WalkUp(domain) == {Suffix(domain, k) : k \in 1..Len(domain)}

(* Faulty variant: an allow rule for *.example.com leaves out example.com. *)
IsAllowedBelow(b, domain) ==
    \/ domain \in b.allow
    \/ (WalkUp(domain) \ {domain}) \cap b.allow_wildcards # {}

IsAllowed(b, domain) ==
    domain \in b.allow \/ WalkUp(domain) \cap b.allow_wildcards # {}

(* The walk up the labels stops at the first rule: the id of the closest   *)
(* wildcard, or 0.                                                         *)
ClosestWildcard(b, domain) ==
    LET hits == {k \in 1..Len(domain) : Suffix(domain, k) \in DOMAIN b.wildcards}
    IN  IF hits = {} THEN 0 ELSE b.wildcards[Suffix(domain, Min(hits))]

SourceName(b, id) == IF id = 0 THEN NoList ELSE b.sources[id].name

(* lookup *)
LookupName(b, domain) ==
    IF IsAllowed(b, domain) THEN NoList
    ELSE IF domain \in DOMAIN b.exact
         THEN SourceName(b, b.exact[domain])
         ELSE SourceName(b, ClosestWildcard(b, domain))

----------------------------------------------------------------------------
(* build() and its reader *)

NoFile == [open |-> FALSE, lines |-> <<>>, id |-> 0, before |-> 0]

MatchingInit ==
    /\ bl = EmptyList
    /\ at = 1
    /\ file = NoFile
    /\ asked = <<>>
    /\ verdict = NoList
    /\ read = {}

Built == at > Len(Plan)

(* ingest() up to its loop.  An allow list gets no source slot, and what   *)
(* it adds is not counted.                                                 *)
OpenList(lines) ==
    /\ ~Built /\ ~file.open
    /\ IF Plan[at].allow
       THEN /\ bl' = bl
            /\ file' = [open |-> TRUE, lines |-> lines, id |-> 0, before |-> 0]
       ELSE /\ bl' = Intern(bl, Plan[at].list)
            /\ file' = [open |-> TRUE, lines |-> lines,
                        id |-> SourceId(bl', Plan[at].list), before |-> Size(bl)]
    /\ UNCHANGED <<at, asked, verdict, read>>

ReadLine ==
    /\ file.open /\ file.lines # <<>>
    /\ bl' = IngestLine(bl, Head(file.lines), file.id, Plan[at].allow)
    /\ file' = [file EXCEPT !.lines = Tail(@)]
    /\ read' = read \cup {[line |-> Head(file.lines), list |-> Plan[at].list,
                           allow |-> Plan[at].allow]}
    /\ UNCHANGED <<at, asked, verdict>>

CloseList ==
    /\ file.open /\ file.lines = <<>>
    /\ bl' = IF Plan[at].allow THEN bl
             ELSE CountEntries(bl, file.id, Size(bl) - file.before)
    /\ file' = NoFile
    /\ at' = at + 1
    /\ UNCHANGED <<asked, verdict, read>>

(* The file is not there, or cannot be read. *)
SkipList ==
    /\ ~Built /\ ~file.open
    /\ at' = at + 1
    /\ UNCHANGED <<bl, file, asked, verdict, read>>

(* blocking.enabled = false *)
BlockingDisabled ==
    /\ at = 1 /\ ~file.open
    /\ at' = Len(Plan) + 1
    /\ UNCHANGED <<bl, file, asked, verdict, read>>

Ask(domain) ==
    /\ Built
    /\ asked' = domain
    /\ verdict' = LookupName(bl, domain)
    /\ UNCHANGED <<bl, at, file, read>>

(* Every edit and refresh builds a Blocklist from scratch. *)
Rebuild ==
    /\ Built
    /\ bl' = EmptyList
    /\ at' = 1
    /\ file' = NoFile
    /\ asked' = <<>>
    /\ verdict' = NoList
    /\ read' = {}

MatchingNext ==
    \/ \E lines \in Contents : OpenList(lines)
    \/ ReadLine \/ CloseList
    \/ SkipList
    \/ BlockingDisabled
    \/ \E domain \in Queries : Ask(domain)
    \/ Rebuild

MatchingSpec == MatchingInit /\ [][MatchingNext]_matchingVars

----------------------------------------------------------------------------
(* Properties *)

(* What a line says, apart from any table: the entries it lists. *)
EntriesOf(line) ==
    CASE line.form = "hosts"  -> {e \in Range(line.fields) : e.domain \notin LocalNames}
      [] line.form = "fields" -> {e \in Range(line.fields) : Len(line.fields) = 1}
      [] OTHER                -> IF line.modified THEN {} ELSE {Wildcard(line.domain)}

Covers(entry, domain) ==
    /\ Normalizes(entry)
    /\ IF entry.wild THEN entry.domain \in WalkUp(domain) ELSE entry.domain = domain

(* A rule is a line that was read, and the list it was on. *)
RuleCovers(rule, domain) == \E e \in EntriesOf(rule.line) : Covers(e, domain)

AllowRule(rule) == rule.allow \/ rule.line.form = "exception"

Allows(rules, domain) == \E r \in rules : AllowRule(r) /\ RuleCovers(r, domain)

(* The lists with a rule against the name. *)
Blockers(rules, domain) ==
    {r.list : r \in {s \in rules : ~AllowRule(s) /\ RuleCovers(s, domain)}}

(* "Allow rules always win", and otherwise any rule of any list that       *)
(* covers a name blocks it: lookup(), which probes three tables along the  *)
(* suffixes of the name, decides as the lines of the files do, whatever    *)
(* their order and overlap, and the list it blames has such a rule.        *)
LookupIsDecision ==
    asked # <<>> =>
        IF Allows(read, asked) \/ Blockers(read, asked) = {}
        THEN verdict = NoList
        ELSE verdict \in Blockers(read, asked)

(* The entry count the dashboard shows for a list is the number of rules   *)
(* that blame it, also when lists overlap or share a file name: each rule  *)
(* is credited to one list, and the counts add up to len().  While a list  *)
(* is being read, its count is behind.                                     *)
CountsAddUp ==
    ~file.open => \A i \in DOMAIN bl.sources :
        bl.sources[i].entries =
            Cardinality({d \in DOMAIN bl.exact : bl.exact[d] = i})
          + Cardinality({d \in DOMAIN bl.wildcards : bl.wildcards[d] = i})
=============================================================================
