--------------------------- MODULE MatchingProofs ---------------------------
(***************************************************************************)
(* Theorems about the matcher of blocklist.rs, for any lists, any lines in *)
(* them and any names asked about: lookup() decides as the lines do, and   *)
(* the counts of the lists add up.                                         *)
(***************************************************************************)
EXTENDS Matching, FiniteSetTheorems, TLAPS

----------------------------------------------------------------------------
(* The inductive invariant *)

IsTable(map) == map = [d \in DOMAIN map |-> map[d]] /\ IsFiniteSet(DOMAIN map)

IsBlocklist(b) ==
    /\ b = [exact |-> b.exact, wildcards |-> b.wildcards, allow |-> b.allow,
            allow_wildcards |-> b.allow_wildcards, sources |-> b.sources]
    /\ IsTable(b.exact) /\ IsTable(b.wildcards)
    /\ b.sources \in Seq([name : Lists, entries : Int])

Typed ==
    /\ IsBlocklist(bl)
    /\ at \in 1..(Len(Plan) + 1)
    /\ file \in [open : BOOLEAN, lines : Seq(Lines), id : Nat, before : Int]
    /\ read \subseteq [line : Lines, list : Lists, allow : BOOLEAN]
    /\ asked # <<>> => Built

(* While a list is read, file.id is its place in the interning table. *)
Reading ==
    file.open =>
        /\ ~Built
        /\ ~Plan[at].allow => /\ file.id \in DOMAIN bl.sources
                              /\ bl.sources[file.id].name = Plan[at].list

(* The domains that the lines read so far name. *)
RulesRead(allow) == {r \in read : AllowRule(r) = allow}
Told(allow, wild) ==
    UNION {Domains(EntriesOf(r.line), wild) : r \in RulesRead(allow)}

(* Each table holds what the lines read so far say, no more and no less. *)
TablesTell ==
    /\ DOMAIN bl.exact = Told(FALSE, FALSE)
    /\ DOMAIN bl.wildcards = Told(FALSE, TRUE)
    /\ bl.allow = Told(TRUE, FALSE)
    /\ bl.allow_wildcards = Told(TRUE, TRUE)

(* The list an entry is credited to has a line with it. *)
Credited(map, wild) ==
    \A d \in DOMAIN map :
        /\ map[d] \in DOMAIN bl.sources
        /\ \E r \in RulesRead(FALSE) :
              r.list = bl.sources[map[d]].name /\ d \in Domains(EntriesOf(r.line), wild)

(* The entries credited to a list. *)
Blaming(map, i) == {d \in DOMAIN map : map[d] = i}
Blamed(b, i) == Cardinality(Blaming(b.exact, i)) + Cardinality(Blaming(b.wildcards, i))

(* What the list being read added so far and ingest() has not counted yet. *)
Uncounted(i) ==
    IF file.open /\ ~Plan[at].allow /\ i = file.id THEN Size(bl) - file.before ELSE 0

CountsKept ==
    \A i \in DOMAIN bl.sources : bl.sources[i].entries + Uncounted(i) = Blamed(bl, i)

IInv ==
    /\ Typed
    /\ Reading
    /\ TablesTell
    /\ Credited(bl.exact, FALSE) /\ Credited(bl.wildcards, TRUE)
    /\ CountsKept
    /\ LookupIsDecision

----------------------------------------------------------------------------
(* Tables that grow *)

(* Each of the keys that is new is credited to the list being read, and    *)
(* nothing else changes hands.                                             *)
LEMMA InsertTable ==
    ASSUME NEW map, IsTable(map), NEW keys, IsFiniteSet(keys), NEW id
    PROVE  /\ IsTable(OrInsert(map, keys, id))
           /\ DOMAIN OrInsert(map, keys, id) = DOMAIN map \cup keys
           /\ \A d \in DOMAIN map : OrInsert(map, keys, id)[d] = map[d]
           /\ \A d \in keys \ DOMAIN map : OrInsert(map, keys, id)[d] = id
<1>1. IsFiniteSet(DOMAIN map \cup keys)
  BY FS_Union DEF IsTable
<1> QED BY <1>1 DEF IsTable, OrInsert

LEMMA InsertBlames ==
    ASSUME NEW map, IsTable(map), NEW keys, IsFiniteSet(keys), NEW id, NEW i
    PROVE  /\ Cardinality(DOMAIN map) \in Nat
           /\ Cardinality(DOMAIN OrInsert(map, keys, id)) \in Nat
           /\ Cardinality(Blaming(map, i)) \in Nat
           /\ Cardinality(Blaming(OrInsert(map, keys, id), i)) =
                 IF i = id
                 THEN Cardinality(Blaming(map, i))
                        + Cardinality(DOMAIN OrInsert(map, keys, id))
                        - Cardinality(DOMAIN map)
                 ELSE Cardinality(Blaming(map, i))
<1> DEFINE fresh == keys \ DOMAIN map
           grown == OrInsert(map, keys, id)
<1>1. /\ IsTable(grown)
      /\ DOMAIN grown = DOMAIN map \cup fresh
      /\ \A d \in DOMAIN map : grown[d] = map[d]
      /\ \A d \in fresh : grown[d] = id
  <2>1. DOMAIN map \cup keys = DOMAIN map \cup fresh
    OBVIOUS
  <2>2. /\ IsTable(grown)
        /\ DOMAIN grown = DOMAIN map \cup keys
        /\ \A d \in DOMAIN map : grown[d] = map[d]
        /\ \A d \in fresh : grown[d] = id
    BY InsertTable
  <2> HIDE DEF fresh, grown
  <2> QED BY <2>1, <2>2
<1>2. IsFiniteSet(DOMAIN map) /\ IsFiniteSet(DOMAIN grown)
  BY <1>1 DEF IsTable
<1>3. IsFiniteSet(fresh) /\ Cardinality(fresh) \in Nat
  BY FS_Difference, FS_CardinalityType
<1>4. Cardinality(DOMAIN map) \in Nat /\ Cardinality(DOMAIN grown) \in Nat
  BY <1>2, FS_CardinalityType
<1>5. DOMAIN map \cap fresh = {}
  OBVIOUS
<1>6. Cardinality(DOMAIN grown) = Cardinality(DOMAIN map) + Cardinality(fresh)
  <2>1. Cardinality(DOMAIN map \cup fresh)
          = Cardinality(DOMAIN map) + Cardinality(fresh) - Cardinality({})
    BY <1>2, <1>3, <1>5, FS_Union
  <2> QED BY <2>1, <1>1, <1>3, <1>4, FS_EmptySet
<1>7. IsFiniteSet(Blaming(map, i)) /\ Cardinality(Blaming(map, i)) \in Nat
  <2>1. Blaming(map, i) \in SUBSET DOMAIN map
    BY DEF Blaming
  <2> QED BY <2>1, <1>2, FS_Subset, FS_CardinalityType
<1>8. CASE i = id
  <2>1. Blaming(grown, i) = Blaming(map, i) \cup fresh
    BY <1>1, <1>8 DEF Blaming
  <2>2. Blaming(map, i) \cap fresh = {}
    BY DEF Blaming
  <2>3. Cardinality(Blaming(map, i) \cup fresh)
          = Cardinality(Blaming(map, i)) + Cardinality(fresh) - Cardinality({})
    BY <1>3, <1>7, <2>2, FS_Union
  <2> QED BY <2>1, <2>3, <1>3, <1>4, <1>6, <1>7, <1>8, FS_EmptySet
<1>9. CASE i # id
  <2>1. Blaming(grown, i) = Blaming(map, i)
    BY <1>1, <1>9 DEF Blaming
  <2> QED BY <2>1, <1>4, <1>7, <1>9
<1> QED BY <1>8, <1>9

----------------------------------------------------------------------------
(* Lines *)

(* A line names finitely many domains. *)
LEMMA DomainsFinite ==
    ASSUME NEW line, IsLine(line), NEW wild
    PROVE  IsFiniteSet(Domains(EntriesOf(line), wild))
<1>1. CASE line.form \in {"hosts", "fields"}
  <2> DEFINE fields == line.fields
  <2>1. fields \in Seq(Range(fields)) /\ Len(fields) \in Nat /\ DOMAIN fields = 1..Len(fields)
    BY <1>1 DEF IsLine
  <2> DEFINE places == {k \in 1..Len(fields) :
                          /\ fields[k] \in EntriesOf(line)
                          /\ Normalizes(fields[k])
                          /\ fields[k].wild = wild}
             named == [k \in places |-> fields[k].domain]
  <2>2. IsFiniteSet(places)
    <3>1. IsFiniteSet(1..Len(fields))
      BY <2>1, FS_Interval
    <3>2. places \in SUBSET (1..Len(fields))
      OBVIOUS
    <3> HIDE DEF places, fields
    <3> QED BY <3>1, <3>2, FS_Subset
  <2>3. EntriesOf(line) \subseteq Range(fields)
    BY <1>1 DEF EntriesOf
  <2>4. Domains(EntriesOf(line), wild) = {fields[k].domain : k \in places}
    <3> HIDE DEF fields
    <3>1. \A e \in EntriesOf(line) : \E k \in 1..Len(fields) : e = fields[k]
      BY <2>1, <2>3 DEF Range
    <3> QED BY <3>1 DEF Domains
  <2>5. named \in Surjection(places, Domains(EntriesOf(line), wild))
    <3> HIDE DEF fields, places
    <3> QED BY <2>4 DEF Surjection
  <2> QED BY <2>2, <2>5, FS_Surjection
<1>2. CASE line.form \in {"block", "exception"}
  <2>1. EntriesOf(line) \subseteq {Wildcard(line.domain)}
    BY <1>2 DEF EntriesOf
  <2>2. Domains(EntriesOf(line), wild) \in SUBSET {Wildcard(line.domain).domain}
    BY <2>1 DEF Domains
  <2>3. IsFiniteSet({Wildcard(line.domain).domain})
    BY FS_Singleton
  <2> QED BY <2>2, <2>3, FS_Subset
<1> QED BY <1>1, <1>2 DEF IsLine

LEMMA NoEntries ==
    ASSUME NEW b, IsBlocklist(b), NEW id
    PROVE  AddBlock(b, {}, id) = b /\ AddAllow(b, {}) = b
<1>1. Domains({}, TRUE) = {} /\ Domains({}, FALSE) = {}
  BY DEF Domains
<1>2. OrInsert(b.exact, {}, id) = b.exact /\ OrInsert(b.wildcards, {}, id) = b.wildcards
  BY DEF OrInsert, IsBlocklist, IsTable
<1> QED BY <1>1, <1>2 DEF AddBlock, AddAllow, IsBlocklist

(* What ingest() does with a line is to add the entries the line lists,    *)
(* whatever way it recognised it, to the tables the line is for.           *)
LEMMA LineAddsItsEntries ==
    ASSUME NEW b, IsBlocklist(b), NEW line, IsLine(line), NEW id, NEW allow \in BOOLEAN
    PROVE  IngestLine(b, line, id, allow) =
              IF allow \/ line.form = "exception" THEN AddAllow(b, EntriesOf(line))
              ELSE AddBlock(b, EntriesOf(line), id)
<1>0. AddBlock(b, {}, id) = b /\ AddAllow(b, {}) = b
  BY NoEntries
<1>1. CASE line.form = "hosts"
  BY <1>1 DEF IngestLine, EntriesOf, Add
<1>2. CASE line.form = "fields" /\ Len(line.fields) = 1
  <2>1. EntriesOf(line) = {line.fields[1]}
    <3>1. DOMAIN line.fields = {1}
      BY <1>2 DEF IsLine
    <3>2. EntriesOf(line) = Range(line.fields)
      BY <1>2 DEF EntriesOf
    <3> QED BY <3>1, <3>2 DEF Range
  <2> QED BY <2>1, <1>2 DEF IngestLine, Add
<1>3. CASE line.form = "fields" /\ Len(line.fields) # 1
  <2>1. EntriesOf(line) = {}
    BY <1>3 DEF EntriesOf
  <2>2. IngestLine(b, line, id, allow) = b
    BY <1>3 DEF IngestLine
  <2> QED BY <2>1, <2>2, <1>0, <1>3
<1>4. CASE line.form \in {"block", "exception"} /\ ~line.modified
  <2>1. EntriesOf(line) = {Wildcard(line.domain)}
    BY <1>4 DEF EntriesOf
  <2> QED BY <2>1, <1>4 DEF IngestLine, ParseAdblock, Add
<1>5. CASE line.form \in {"block", "exception"} /\ line.modified
  <2>1. EntriesOf(line) = {}
    BY <1>5 DEF EntriesOf
  <2>2. IngestLine(b, line, id, allow) = b
    BY <1>5 DEF IngestLine, ParseAdblock
  <2> QED BY <2>1, <2>2, <1>0
<1> QED BY <1>1, <1>2, <1>3, <1>4, <1>5 DEF IsLine

(* An entry is one with a leading "*." or without. *)
LEMMA EntriesAreEntries ==
    ASSUME NEW line, IsLine(line)
    PROVE  \A e \in EntriesOf(line) : e.wild \in BOOLEAN
<1>1. CASE line.form \in {"hosts", "fields"}
  <2>1. EntriesOf(line) \subseteq Range(line.fields)
    BY <1>1 DEF EntriesOf
  <2> QED BY <2>1, <1>1 DEF IsLine
<1>2. CASE line.form \in {"block", "exception"}
  <2>1. EntriesOf(line) \subseteq {Wildcard(line.domain)}
    BY <1>2 DEF EntriesOf
  <2>2. Wildcard(line.domain).wild \in BOOLEAN
    BY DEF Wildcard
  <2> QED BY <2>1, <2>2
<1> QED BY <1>1, <1>2 DEF IsLine

----------------------------------------------------------------------------
(* lookup() *)

(* A line covers a name if it lists the name, or a wildcard on the way up. *)
LEMMA CoversByTables ==
    ASSUME NEW rule, IsLine(rule.line), NEW domain
    PROVE  RuleCovers(rule, domain) <=>
              \/ domain \in Domains(EntriesOf(rule.line), FALSE)
              \/ \E d \in Domains(EntriesOf(rule.line), TRUE) : d \in WalkUp(domain)
<1> DEFINE E == EntriesOf(rule.line)
<1>1. \A e \in E : e.wild \in BOOLEAN
  BY EntriesAreEntries
<1>2. domain \in Domains(E, FALSE)
        <=> \E e \in E : Normalizes(e) /\ e.wild = FALSE /\ e.domain = domain
  BY DEF Domains
<1>3. (\E d \in Domains(E, TRUE) : d \in WalkUp(domain))
        <=> \E e \in E : Normalizes(e) /\ e.wild = TRUE /\ e.domain \in WalkUp(domain)
  BY DEF Domains
<1>4. RuleCovers(rule, domain) <=> \E e \in E : Covers(e, domain)
  BY DEF RuleCovers
<1>5. \A e \in E : Covers(e, domain) <=>
          /\ Normalizes(e)
          /\ \/ e.wild = TRUE /\ e.domain \in WalkUp(domain)
             \/ e.wild = FALSE /\ e.domain = domain
  BY <1>1 DEF Covers
<1> HIDE DEF E
<1>6. RuleCovers(rule, domain) <=>
          \/ domain \in Domains(E, FALSE)
          \/ \E d \in Domains(E, TRUE) : d \in WalkUp(domain)
  BY ONLY <1>2, <1>3, <1>4, <1>5
<1> QED BY <1>6 DEF E

LEMMA ToldCovers ==
    ASSUME Typed, NEW allow \in BOOLEAN, NEW domain
    PROVE  (\E r \in RulesRead(allow) : RuleCovers(r, domain)) <=>
              \/ domain \in Told(allow, FALSE)
              \/ \E d \in Told(allow, TRUE) : d \in WalkUp(domain)
<1>1. \A r \in RulesRead(allow) : IsLine(r.line)
  BY MatchingAssumption DEF Typed, RulesRead
<1>2. \A r \in RulesRead(allow) : RuleCovers(r, domain) <=>
              \/ domain \in Domains(EntriesOf(r.line), FALSE)
              \/ \E d \in Domains(EntriesOf(r.line), TRUE) : d \in WalkUp(domain)
  BY <1>1, CoversByTables
<1>3. domain \in Told(allow, FALSE) <=>
          \E r \in RulesRead(allow) : domain \in Domains(EntriesOf(r.line), FALSE)
  BY DEF Told
<1>4. (\E d \in Told(allow, TRUE) : d \in WalkUp(domain)) <=>
          \E r \in RulesRead(allow) :
              \E d \in Domains(EntriesOf(r.line), TRUE) : d \in WalkUp(domain)
  BY DEF Told
<1> QED BY <1>2, <1>3, <1>4

(* The walk has a first rule, if it has any. *)
LEMMA FirstHit ==
    ASSUME NEW hits \in SUBSET Nat, hits # {}
    PROVE  Min(hits) \in hits
<1> DEFINE below == {ss \in Nat \X Nat : ss[1] < ss[2]}
<1>1. IsWellFoundedOn(below, Nat)
  BY NatLessThanWellFounded DEF OpToRel
<1>2. \A x, y \in Nat : <<y, x>> \in below <=> y < x
  OBVIOUS
<1> HIDE DEF below
<1>3. PICK x \in hits : \A y \in hits : ~(<<y, x>> \in below)
  BY <1>1, WFMin
<1>4. \A y \in hits : ~(y < x)
  BY <1>2, <1>3
<1>5. \A y \in hits : x <= y
  BY <1>4
<1> QED BY <1>5 DEF Min

(* lookup(), which probes the tables, decides as the lines do. *)
LEMMA LookupDecides ==
    ASSUME Typed, TablesTell, Credited(bl.exact, FALSE), Credited(bl.wildcards, TRUE),
           NEW domain \in Queries
    PROVE  IF Allows(read, domain) \/ Blockers(read, domain) = {}
           THEN LookupName(bl, domain) = NoList
           ELSE LookupName(bl, domain) \in Blockers(read, domain)
<1>1. IsAllowed(bl, domain) <=> Allows(read, domain)
  <2>1. Allows(read, domain) <=> \E r \in RulesRead(TRUE) : RuleCovers(r, domain)
    BY DEF Allows, RulesRead, AllowRule, Typed
  <2>2. Allows(read, domain) <=>
            \/ domain \in Told(TRUE, FALSE)
            \/ \E d \in Told(TRUE, TRUE) : d \in WalkUp(domain)
    BY <2>1, ToldCovers
  <2> QED BY <2>2 DEF IsAllowed, TablesTell
<1>2. \A list : list \in Blockers(read, domain) <=>
          \E r \in RulesRead(FALSE) : r.list = list /\ RuleCovers(r, domain)
  BY DEF Blockers, RulesRead, AllowRule, Typed
<1>3. \A r \in RulesRead(FALSE) : IsLine(r.line)
  BY MatchingAssumption DEF Typed, RulesRead
<1>4. 0 \notin DOMAIN bl.sources
  BY DEF Typed, IsBlocklist
<1>5. CASE IsAllowed(bl, domain)
  BY <1>1, <1>5 DEF LookupName
<1>6. CASE ~IsAllowed(bl, domain) /\ domain \in DOMAIN bl.exact
  <2>1. LookupName(bl, domain) = bl.sources[bl.exact[domain]].name
    BY <1>4, <1>6 DEF LookupName, SourceName, Credited
  <2>2. PICK r \in RulesRead(FALSE) :
            /\ r.list = bl.sources[bl.exact[domain]].name
            /\ domain \in Domains(EntriesOf(r.line), FALSE)
    BY <1>6 DEF Credited
  <2>3. RuleCovers(r, domain)
    BY <1>3, <2>2, CoversByTables
  <2>4. LookupName(bl, domain) \in Blockers(read, domain)
    BY <1>2, <2>1, <2>2, <2>3
  <2> QED BY <1>1, <1>6, <2>4
<1> DEFINE hits == {k \in 1..Len(domain) : Suffix(domain, k) \in DOMAIN bl.wildcards}
<1>7. Len(domain) \in Nat
  BY MatchingAssumption
<1>8. CASE ~IsAllowed(bl, domain) /\ domain \notin DOMAIN bl.exact /\ hits # {}
  <2> DEFINE found == Suffix(domain, Min(hits))
  <2>1. hits \in SUBSET Nat
    BY <1>7
  <2>2. Min(hits) \in hits
    BY <1>8, <2>1, FirstHit
  <2>3. found \in DOMAIN bl.wildcards /\ found \in WalkUp(domain)
    BY <2>2 DEF WalkUp
  <2>4. ClosestWildcard(bl, domain) = bl.wildcards[found]
    BY <1>8 DEF ClosestWildcard
  <2> HIDE DEF hits, found
  <2>5. bl.wildcards[found] \in DOMAIN bl.sources
    BY <2>3 DEF Credited
  <2>6. LookupName(bl, domain) = bl.sources[bl.wildcards[found]].name
    BY <1>4, <1>8, <2>4, <2>5 DEF LookupName, SourceName
  <2>7. PICK r \in RulesRead(FALSE) :
            /\ r.list = bl.sources[bl.wildcards[found]].name
            /\ found \in Domains(EntriesOf(r.line), TRUE)
    BY <2>3 DEF Credited
  <2>8. RuleCovers(r, domain)
    BY <1>3, <2>3, <2>7, CoversByTables
  <2>9. LookupName(bl, domain) \in Blockers(read, domain)
    BY <1>2, <2>6, <2>7, <2>8
  <2> QED BY <1>1, <1>8, <2>9
<1>9. CASE ~IsAllowed(bl, domain) /\ domain \notin DOMAIN bl.exact /\ hits = {}
  <2>1. ClosestWildcard(bl, domain) = 0
    BY <1>9 DEF ClosestWildcard
  <2>2. LookupName(bl, domain) = NoList
    BY <1>9, <2>1 DEF LookupName, SourceName
  <2>3. \A d \in DOMAIN bl.wildcards : d \notin WalkUp(domain)
    BY <1>9 DEF WalkUp
  <2>4. ~\E r \in RulesRead(FALSE) : RuleCovers(r, domain)
    BY <1>9, <2>3, ToldCovers DEF TablesTell
  <2>5. Blockers(read, domain) = {}
    BY <1>2, <2>4
  <2> QED BY <2>2, <2>5
<1> HIDE DEF hits
<1> QED BY <1>5, <1>6, <1>8, <1>9
----------------------------------------------------------------------------
(* build() *)

LEMMA ElementTyped ==
    ASSUME NEW S, NEW seq \in Seq(S), NEW i \in 1..Len(seq)
    PROVE  seq[i] \in S
OBVIOUS

LEMMA SlotTyped ==
    ASSUME NEW b, IsBlocklist(b), NEW i \in DOMAIN b.sources
    PROVE  i \in Nat /\ b.sources[i].entries \in Int
<1>1. b.sources \in Seq([name : Lists, entries : Int]) /\ i \in 1..Len(b.sources)
  BY DEF IsBlocklist
<1>2. b.sources[i] \in [name : Lists, entries : Int]
  BY <1>1, ElementTyped
<1>3. i \in Nat
  BY DEF IsBlocklist
<1> QED BY <1>2, <1>3

LEMMA PlanTyped ==
    ASSUME at \in 1..(Len(Plan) + 1), ~Built
    PROVE  at \in 1..Len(Plan) /\ Plan[at].list \in Lists /\ Plan[at].allow \in BOOLEAN
<1>1. Plan \in Seq([list : Lists, allow : BOOLEAN]) /\ Len(Plan) \in Nat
  BY MatchingAssumption
<1>2. at \in 1..Len(Plan)
  BY <1>1 DEF Built
<1>3. Plan[at] \in [list : Lists, allow : BOOLEAN]
  BY <1>1, <1>2, ElementTyped
<1> QED BY <1>2, <1>3

LEMMA EmptyTable == IsTable(<<>>) /\ DOMAIN <<>> = {} /\ \A i : Blaming(<<>>, i) = {}
<1>1. DOMAIN <<>> = {}
  OBVIOUS
<1>2. <<>> = [d \in DOMAIN <<>> |-> <<>>[d]]
  OBVIOUS
<1> QED BY <1>1, <1>2, FS_EmptySet DEF IsTable, Blaming

(* MatchingInit, and what Rebuild starts from. *)
LEMMA StartIInv == MatchingInit => IInv
<1> SUFFICES ASSUME MatchingInit
             PROVE  IInv
  OBVIOUS
<1> USE DEF MatchingInit
<1>1. /\ bl.exact = <<>> /\ bl.wildcards = <<>> /\ bl.allow = {}
      /\ bl.allow_wildcards = {} /\ bl.sources = <<>>
  BY DEF EmptyList
<1>2. bl = [exact |-> bl.exact, wildcards |-> bl.wildcards, allow |-> bl.allow,
            allow_wildcards |-> bl.allow_wildcards, sources |-> bl.sources]
  BY DEF EmptyList
<1>3. IsBlocklist(bl)
  BY <1>1, <1>2, EmptyTable DEF IsBlocklist
<1>4. file \in [open : BOOLEAN, lines : Seq(Lines), id : Nat, before : Int] /\ ~file.open
  <2>1. <<>> \in Seq(Lines)
    OBVIOUS
  <2> QED BY <2>1 DEF NoFile
<1>5. at \in 1..(Len(Plan) + 1)
  BY MatchingAssumption
<1>6. Typed
  BY <1>3, <1>4, <1>5 DEF Typed
<1>7. \A allow, wild : Told(allow, wild) = {}
  BY DEF Told, RulesRead
<1>8. TablesTell /\ Credited(bl.exact, FALSE) /\ Credited(bl.wildcards, TRUE)
  BY <1>1, <1>7, EmptyTable DEF TablesTell, Credited
<1>9. CountsKept
  BY <1>1 DEF CountsKept
<1> QED BY <1>4, <1>6, <1>8, <1>9 DEF IInv, Reading, LookupIsDecision
LEMMA SizeIsInt ==
    ASSUME NEW b, IsBlocklist(b)
    PROVE  Size(b) \in Int /\ \A i : Blamed(b, i) \in Int
<1>1. IsFiniteSet(DOMAIN b.exact) /\ IsFiniteSet(DOMAIN b.wildcards)
  BY DEF IsBlocklist, IsTable
<1>2. Cardinality(DOMAIN b.exact) \in Nat /\ Cardinality(DOMAIN b.wildcards) \in Nat
  BY <1>1, FS_CardinalityType
<1>3. ASSUME NEW i
      PROVE  /\ Cardinality(Blaming(b.exact, i)) \in Nat
             /\ Cardinality(Blaming(b.wildcards, i)) \in Nat
  <2>1. /\ Blaming(b.exact, i) \in SUBSET DOMAIN b.exact
        /\ Blaming(b.wildcards, i) \in SUBSET DOMAIN b.wildcards
    BY DEF Blaming
  <2>2. IsFiniteSet(Blaming(b.exact, i)) /\ IsFiniteSet(Blaming(b.wildcards, i))
    BY <1>1, <2>1, FS_Subset
  <2> QED BY <2>2, FS_CardinalityType
<1> QED BY <1>2, <1>3 DEF Size, Blamed

(* intern() finds the list in the interning table, or puts it there with   *)
(* nothing credited to it.                                                 *)
LEMMA InternKeeps ==
    ASSUME NEW b, IsBlocklist(b), NEW list \in Lists
    PROVE  LET c == Intern(b, list) IN
           /\ IsBlocklist(c)
           /\ c.exact = b.exact /\ c.wildcards = b.wildcards
           /\ c.allow = b.allow /\ c.allow_wildcards = b.allow_wildcards
           /\ DOMAIN b.sources \subseteq DOMAIN c.sources
           /\ \A i \in DOMAIN b.sources : c.sources[i] = b.sources[i]
           /\ \A i \in DOMAIN c.sources \ DOMAIN b.sources : c.sources[i].entries = 0
           /\ SourceId(c, list) \in DOMAIN c.sources
           /\ c.sources[SourceId(c, list)].name = list
<1> DEFINE c == Intern(b, list)
           slot == [name |-> list, entries |-> 0]
           Known == \E i \in DOMAIN b.sources : b.sources[i].name = list
<1>1. b.sources \in Seq([name : Lists, entries : Int]) /\ Len(b.sources) \in Nat
      /\ DOMAIN b.sources = 1..Len(b.sources)
  BY DEF IsBlocklist
<1>2. CASE Known
  <2>1. c = b
    BY <1>2 DEF Intern
  <2>2. \E i \in DOMAIN b.sources : b.sources[i].name = list
    BY <1>2
  <2>3. /\ SourceId(b, list) \in DOMAIN b.sources
        /\ b.sources[SourceId(b, list)].name = list
    BY <2>2 DEF SourceId
  <2> QED BY <2>1, <2>3
<1>3. CASE ~Known
  <2>1. c = [b EXCEPT !.sources = Append(@, slot)]
    BY <1>3 DEF Intern
  <2> HIDE DEF c, Known
  <2>2. slot \in [name : Lists, entries : Int] /\ slot.entries = 0 /\ slot.name = list
    OBVIOUS
  <2> HIDE DEF slot
  <2>3. /\ c = [exact |-> b.exact, wildcards |-> b.wildcards, allow |-> b.allow,
                allow_wildcards |-> b.allow_wildcards,
                sources |-> Append(b.sources, slot)]
    BY <2>1 DEF IsBlocklist
  <2>4. /\ c.exact = b.exact /\ c.wildcards = b.wildcards
        /\ c.allow = b.allow /\ c.allow_wildcards = b.allow_wildcards
        /\ c.sources = Append(b.sources, slot)
    BY <2>3
  <2>5. /\ c.sources \in Seq([name : Lists, entries : Int])
        /\ DOMAIN c.sources = 1..(Len(b.sources) + 1)
        /\ c.sources[Len(b.sources) + 1] = slot
        /\ \A i \in DOMAIN b.sources : c.sources[i] = b.sources[i]
    BY <1>1, <2>2, <2>4
  <2>6. IsBlocklist(c)
    BY <2>3, <2>4, <2>5 DEF IsBlocklist
  <2>7. \E i \in DOMAIN c.sources : c.sources[i].name = list
    BY <1>1, <2>2, <2>5
  <2>8. /\ SourceId(c, list) \in DOMAIN c.sources
        /\ c.sources[SourceId(c, list)].name = list
    BY <2>7 DEF SourceId
  <2>9. /\ DOMAIN b.sources \subseteq DOMAIN c.sources
        /\ \A i \in DOMAIN c.sources \ DOMAIN b.sources : c.sources[i].entries = 0
    BY <1>1, <2>2, <2>5
  <2> QED BY <2>4, <2>5, <2>6, <2>8, <2>9 DEF c
<1> QED BY <1>2, <1>3

LEMMA OpenKeepsIInv ==
    ASSUME IInv, NEW lines \in Contents, OpenList(lines)
    PROVE  IInv'
<1>0. /\ Typed /\ IsBlocklist(bl) /\ at' = at /\ read' = read /\ asked' = asked
      /\ verdict' = verdict /\ ~Built /\ ~file.open
  BY DEF IInv, Typed, OpenList
<1>1. at \in 1..Len(Plan) /\ Plan[at].list \in Lists /\ Plan[at].allow \in BOOLEAN
  BY <1>0, PlanTyped DEF Typed
<1>2. lines \in Seq(Lines)
  BY MatchingAssumption
<1>3. asked = <<>> /\ asked' = <<>>
  BY <1>0 DEF Typed
<1>4. \A allow, wild : Told(allow, wild)' = Told(allow, wild) /\ RulesRead(allow)' = RulesRead(allow)
  BY <1>0 DEF Told, RulesRead
<1>5. LookupIsDecision'
  BY <1>3 DEF LookupIsDecision
<1>6. \A i \in DOMAIN bl.sources : bl.sources[i].entries \in Int
  BY <1>0, SlotTyped
<1>7. \A i \in DOMAIN bl.sources : bl.sources[i].entries = Blamed(bl, i)
  BY <1>0, <1>6 DEF IInv, CountsKept, Uncounted
<1>8. CASE Plan[at].allow
  <2>1. /\ bl' = bl
        /\ file' = [open |-> TRUE, lines |-> lines, id |-> 0, before |-> 0]
    BY <1>8 DEF OpenList
  <2>2. Typed'
    BY <1>0, <1>2, <2>1 DEF Typed, Built
  <2>3. Reading'
    BY <1>0, <1>8 DEF Reading, Built
  <2>4. TablesTell' /\ Credited(bl.exact, FALSE)' /\ Credited(bl.wildcards, TRUE)'
    BY <1>4, <2>1 DEF IInv, TablesTell, Credited
  <2>5. CountsKept'
    BY <1>0, <1>6, <1>7, <1>8, <2>1 DEF CountsKept, Uncounted
  <2> QED BY <1>5, <2>2, <2>3, <2>4, <2>5 DEF IInv
<1>9. CASE ~Plan[at].allow
  <2>1. /\ bl' = Intern(bl, Plan[at].list)
        /\ file' = [open |-> TRUE, lines |-> lines,
                    id |-> SourceId(bl', Plan[at].list), before |-> Size(bl)]
    BY <1>9 DEF OpenList
  <2>2. /\ IsBlocklist(bl')
        /\ bl'.exact = bl.exact /\ bl'.wildcards = bl.wildcards
        /\ bl'.allow = bl.allow /\ bl'.allow_wildcards = bl.allow_wildcards
        /\ DOMAIN bl.sources \subseteq DOMAIN bl'.sources
        /\ \A i \in DOMAIN bl.sources : bl'.sources[i] = bl.sources[i]
        /\ \A i \in DOMAIN bl'.sources \ DOMAIN bl.sources : bl'.sources[i].entries = 0
        /\ SourceId(bl', Plan[at].list) \in DOMAIN bl'.sources
        /\ bl'.sources[SourceId(bl', Plan[at].list)].name = Plan[at].list
    BY <1>0, <1>1, <2>1, InternKeeps
  <2>3. SourceId(bl', Plan[at].list) \in Nat
    BY <2>2 DEF IsBlocklist
  <2>4. Size(bl) \in Int /\ Size(bl') = Size(bl)
    BY <1>0, <2>2, SizeIsInt DEF Size
  <2>5. file' \in [open : BOOLEAN, lines : Seq(Lines), id : Nat, before : Int]
    BY <1>2, <2>1, <2>3, <2>4
  <2>6. Typed'
    BY <1>0, <1>3, <2>2, <2>5 DEF Typed
  <2>7. Reading'
    BY <1>0, <2>1, <2>2 DEF Reading, Built
  <2>8. TablesTell'
    BY <1>4, <2>2 DEF IInv, TablesTell
  <2>9. Credited(bl.exact, FALSE)' /\ Credited(bl.wildcards, TRUE)'
    BY <1>4, <2>2 DEF IInv, Credited
  <2>10. ASSUME NEW i \in DOMAIN bl'.sources
         PROVE  bl'.sources[i].entries = Blamed(bl', i)
    <3>1. Blamed(bl', i) = Blamed(bl, i)
      BY <2>2 DEF Blamed
    <3>2. CASE i \in DOMAIN bl.sources
      BY <1>7, <2>2, <3>1, <3>2
    <3>3. CASE i \notin DOMAIN bl.sources
      <4>1. Blaming(bl.exact, i) = {} /\ Blaming(bl.wildcards, i) = {}
        BY <3>3 DEF Blaming, IInv, Credited
      <4>2. Blamed(bl, i) = 0
        BY <4>1, FS_EmptySet DEF Blamed
      <4> QED BY <2>2, <3>1, <3>3, <4>2
    <3> QED BY <3>2, <3>3
  <2>11. \A i \in DOMAIN bl'.sources : bl'.sources[i].entries \in Int
    BY <2>2, SlotTyped
  <2>12. \A i : Uncounted(i)' = 0
    BY <2>1, <2>4 DEF Uncounted
  <2>13. CountsKept'
    BY <2>10, <2>11, <2>12 DEF CountsKept
  <2> QED BY <1>5, <2>6, <2>7, <2>8, <2>9, <2>13 DEF IInv
<1> QED BY <1>8, <1>9
(* Two fields of a Blocklist replaced. *)
LEMMA UpdateBlock ==
    ASSUME NEW b, NEW e, NEW w, NEW a, NEW x, NEW s, NEW u, NEW v,
           b = [exact |-> e, wildcards |-> w, allow |-> a, allow_wildcards |-> x, sources |-> s]
    PROVE  [b EXCEPT !.exact = u, !.wildcards = v] =
             [exact |-> u, wildcards |-> v, allow |-> a, allow_wildcards |-> x, sources |-> s]
<1>1. [b EXCEPT !.exact = u] =
          [exact |-> u, wildcards |-> w, allow |-> a, allow_wildcards |-> x, sources |-> s]
  OBVIOUS
<1>2. [b EXCEPT !.exact = u, !.wildcards = v] = [[b EXCEPT !.exact = u] EXCEPT !.wildcards = v]
  OBVIOUS
<1>3. [[exact |-> u, wildcards |-> w, allow |-> a, allow_wildcards |-> x, sources |-> s]
          EXCEPT !.wildcards = v] =
          [exact |-> u, wildcards |-> v, allow |-> a, allow_wildcards |-> x, sources |-> s]
  OBVIOUS
<1> QED BY <1>1, <1>2, <1>3

LEMMA UpdateAllow ==
    ASSUME NEW b, NEW e, NEW w, NEW a, NEW x, NEW s, NEW u, NEW v,
           b = [exact |-> e, wildcards |-> w, allow |-> a, allow_wildcards |-> x, sources |-> s]
    PROVE  [b EXCEPT !.allow = u, !.allow_wildcards = v] =
             [exact |-> e, wildcards |-> w, allow |-> u, allow_wildcards |-> v, sources |-> s]
<1>1. [b EXCEPT !.allow = u] =
          [exact |-> e, wildcards |-> w, allow |-> u, allow_wildcards |-> x, sources |-> s]
  OBVIOUS
<1>2. [b EXCEPT !.allow = u, !.allow_wildcards = v] = [[b EXCEPT !.allow = u] EXCEPT !.allow_wildcards = v]
  OBVIOUS
<1>3. [[exact |-> e, wildcards |-> w, allow |-> u, allow_wildcards |-> x, sources |-> s]
          EXCEPT !.allow_wildcards = v] =
          [exact |-> e, wildcards |-> w, allow |-> u, allow_wildcards |-> v, sources |-> s]
  OBVIOUS
<1> QED BY <1>1, <1>2, <1>3

(* c is b with entries blocked by the list id. *)
Grown(c, b, entries, id) ==
    /\ IsBlocklist(c) /\ c.sources = b.sources
    /\ c.allow = b.allow /\ c.allow_wildcards = b.allow_wildcards
    /\ DOMAIN c.exact = DOMAIN b.exact \cup Domains(entries, FALSE)
    /\ DOMAIN c.wildcards = DOMAIN b.wildcards \cup Domains(entries, TRUE)
    /\ \A d \in DOMAIN b.exact : c.exact[d] = b.exact[d]
    /\ \A d \in DOMAIN b.wildcards : c.wildcards[d] = b.wildcards[d]
    /\ \A d \in Domains(entries, FALSE) \ DOMAIN b.exact : c.exact[d] = id
    /\ \A d \in Domains(entries, TRUE) \ DOMAIN b.wildcards : c.wildcards[d] = id
    /\ \A i : Blamed(c, i) =
          IF i = id THEN Blamed(b, i) + Size(c) - Size(b) ELSE Blamed(b, i)

(* add_block puts the domains that are new into the two tables, under the  *)
(* list being read.                                                        *)
LEMMA AddBlockKeeps ==
    ASSUME NEW b, IsBlocklist(b), NEW entries, NEW id,
           IsFiniteSet(Domains(entries, FALSE)), IsFiniteSet(Domains(entries, TRUE))
    PROVE  Grown(AddBlock(b, entries, id), b, entries, id)
<1> DEFINE c == AddBlock(b, entries, id)
           ek == Domains(entries, FALSE)
           wk == Domains(entries, TRUE)
           e0 == b.exact
           w0 == b.wildcards
           e1 == OrInsert(e0, ek, id)
           w1 == OrInsert(w0, wk, id)
<1>0. b = [exact |-> b.exact, wildcards |-> b.wildcards, allow |-> b.allow,
           allow_wildcards |-> b.allow_wildcards, sources |-> b.sources]
  BY DEF IsBlocklist
<1>1. c = [exact |-> e1, wildcards |-> w1, allow |-> b.allow,
           allow_wildcards |-> b.allow_wildcards, sources |-> b.sources]
  <2>1. c = [b EXCEPT !.exact = e1, !.wildcards = w1]
    BY DEF AddBlock
  <2> HIDE DEF c, e1, w1
  <2> QED BY <1>0, <2>1, UpdateBlock
<1>2. /\ c.exact = e1 /\ c.wildcards = w1 /\ c.sources = b.sources
      /\ c.allow = b.allow /\ c.allow_wildcards = b.allow_wildcards
  BY <1>1
<1>3. IsTable(e0) /\ IsTable(w0) /\ b.sources \in Seq([name : Lists, entries : Int])
  BY DEF IsBlocklist
<1>4. IsFiniteSet(ek) /\ IsFiniteSet(wk)
  OBVIOUS
<1> HIDE DEF c, ek, wk, e0, w0
<1>5. /\ IsTable(e1) /\ DOMAIN e1 = DOMAIN e0 \cup ek
      /\ \A d \in DOMAIN e0 : e1[d] = e0[d]
      /\ \A d \in ek \ DOMAIN e0 : e1[d] = id
  <2>1. IsFiniteSet(DOMAIN e0 \cup ek)
    BY <1>3, <1>4, FS_Union DEF IsTable
  <2> QED BY <2>1 DEF IsTable, OrInsert
<1>6. /\ IsTable(w1) /\ DOMAIN w1 = DOMAIN w0 \cup wk
      /\ \A d \in DOMAIN w0 : w1[d] = w0[d]
      /\ \A d \in wk \ DOMAIN w0 : w1[d] = id
  <2>1. IsFiniteSet(DOMAIN w0 \cup wk)
    BY <1>3, <1>4, FS_Union DEF IsTable
  <2> QED BY <2>1 DEF IsTable, OrInsert
<1>7. ASSUME NEW i
      PROVE  Blamed(c, i) = IF i = id THEN Blamed(b, i) + Size(c) - Size(b) ELSE Blamed(b, i)
  <2>1. /\ Cardinality(DOMAIN e0) \in Nat /\ Cardinality(DOMAIN e1) \in Nat
        /\ Cardinality(Blaming(e0, i)) \in Nat
        /\ Cardinality(Blaming(e1, i)) =
              IF i = id THEN Cardinality(Blaming(e0, i))
                               + Cardinality(DOMAIN e1) - Cardinality(DOMAIN e0)
              ELSE Cardinality(Blaming(e0, i))
    BY ONLY <1>3, <1>4, InsertBlames
  <2>2. /\ Cardinality(DOMAIN w0) \in Nat /\ Cardinality(DOMAIN w1) \in Nat
        /\ Cardinality(Blaming(w0, i)) \in Nat
        /\ Cardinality(Blaming(w1, i)) =
              IF i = id THEN Cardinality(Blaming(w0, i))
                               + Cardinality(DOMAIN w1) - Cardinality(DOMAIN w0)
              ELSE Cardinality(Blaming(w0, i))
    BY ONLY <1>3, <1>4, InsertBlames
  <2> HIDE DEF e1, w1
  <2>3. /\ Blamed(c, i) = Cardinality(Blaming(e1, i)) + Cardinality(Blaming(w1, i))
        /\ Size(c) = Cardinality(DOMAIN e1) + Cardinality(DOMAIN w1)
    BY <1>2 DEF Blamed, Size
  <2>4. /\ Blamed(b, i) = Cardinality(Blaming(e0, i)) + Cardinality(Blaming(w0, i))
        /\ Size(b) = Cardinality(DOMAIN e0) + Cardinality(DOMAIN w0)
    BY DEF Blamed, Size, e0, w0
  <2> QED BY ONLY <2>1, <2>2, <2>3, <2>4
<1> HIDE DEF e1, w1
<1>8. IsBlocklist(c)
  <2>1. c = [exact |-> c.exact, wildcards |-> c.wildcards, allow |-> c.allow,
             allow_wildcards |-> c.allow_wildcards, sources |-> c.sources]
    BY <1>1, <1>2
  <2> QED BY <1>2, <1>3, <1>5, <1>6, <2>1 DEF IsBlocklist
<1> QED BY <1>2, <1>5, <1>6, <1>7, <1>8 DEF Grown, c, ek, wk, e0, w0

LEMMA AddAllowKeeps ==
    ASSUME NEW b, IsBlocklist(b), NEW entries
    PROVE  LET c == AddAllow(b, entries) IN
           /\ IsBlocklist(c) /\ c.sources = b.sources
           /\ c.exact = b.exact /\ c.wildcards = b.wildcards
           /\ c.allow = b.allow \cup Domains(entries, FALSE)
           /\ c.allow_wildcards = b.allow_wildcards \cup Domains(entries, TRUE)
<1> DEFINE c == AddAllow(b, entries)
           a1 == b.allow \cup Domains(entries, FALSE)
           aw1 == b.allow_wildcards \cup Domains(entries, TRUE)
<1>0. b = [exact |-> b.exact, wildcards |-> b.wildcards, allow |-> b.allow,
           allow_wildcards |-> b.allow_wildcards, sources |-> b.sources]
  BY DEF IsBlocklist
<1>1. c = [exact |-> b.exact, wildcards |-> b.wildcards, allow |-> a1,
           allow_wildcards |-> aw1, sources |-> b.sources]
  <2>1. c = [b EXCEPT !.allow = a1, !.allow_wildcards = aw1]
    BY DEF AddAllow
  <2> HIDE DEF c, a1, aw1
  <2> QED BY <1>0, <2>1, UpdateAllow
<1> HIDE DEF c
<1>2. /\ c.sources = b.sources /\ c.exact = b.exact /\ c.wildcards = b.wildcards
      /\ c.allow = b.allow \cup Domains(entries, FALSE)
      /\ c.allow_wildcards = b.allow_wildcards \cup Domains(entries, TRUE)
  BY <1>1
<1>3. c = [exact |-> c.exact, wildcards |-> c.wildcards, allow |-> c.allow,
           allow_wildcards |-> c.allow_wildcards, sources |-> c.sources]
  BY <1>1, <1>2
<1>4. IsBlocklist(c)
  BY <1>2, <1>3 DEF IsBlocklist
<1> QED BY <1>2, <1>4 DEF c

LEMMA ReadKeepsIInv ==
    ASSUME IInv, ReadLine
    PROVE  IInv'
<1> DEFINE line == Head(file.lines)
           rule == [line |-> line, list |-> Plan[at].list, allow |-> Plan[at].allow]
           E == EntriesOf(line)
<1>0. /\ Typed /\ IsBlocklist(bl) /\ Reading /\ ~Built /\ file.open
      /\ at' = at /\ asked' = asked /\ verdict' = verdict
      /\ file' = [file EXCEPT !.lines = Tail(@)]
      /\ read' = read \cup {rule}
      /\ bl' = IngestLine(bl, line, file.id, Plan[at].allow)
  BY DEF IInv, Typed, Reading, ReadLine
<1>1. at \in 1..Len(Plan) /\ Plan[at].list \in Lists /\ Plan[at].allow \in BOOLEAN
  BY <1>0, PlanTyped DEF Typed
<1>2. line \in Lines /\ Tail(file.lines) \in Seq(Lines)
  BY DEF IInv, Typed, ReadLine
<1>3. IsLine(line)
  BY <1>2, MatchingAssumption
<1>4. rule.line = line /\ rule.list = Plan[at].list /\ rule.allow = Plan[at].allow
      /\ AllowRule(rule) \in BOOLEAN
      /\ rule \in [line : Lines, list : Lists, allow : BOOLEAN]
  BY <1>1, <1>2 DEF AllowRule
<1>5. AllowRule(rule) <=> Plan[at].allow \/ line.form = "exception"
  BY DEF AllowRule
<1>6. bl' = IF AllowRule(rule) THEN AddAllow(bl, E) ELSE AddBlock(bl, E, file.id)
  BY <1>0, <1>1, <1>3, <1>5, LineAddsItsEntries
<1>7. IsFiniteSet(Domains(E, TRUE)) /\ IsFiniteSet(Domains(E, FALSE))
  BY <1>3, DomainsFinite
<1>8. asked = <<>> /\ asked' = <<>>
  BY <1>0 DEF Typed
<1>9. LookupIsDecision'
  BY <1>8 DEF LookupIsDecision
<1>10. /\ file' \in [open : BOOLEAN, lines : Seq(Lines), id : Nat, before : Int]
       /\ file'.open = file.open /\ file'.id = file.id /\ file'.before = file.before
  BY <1>0, <1>2 DEF Typed
<1>11. read' \subseteq [line : Lines, list : Lists, allow : BOOLEAN]
  BY <1>0, <1>4 DEF Typed
<1> HIDE DEF rule, E
<1>12. \A allow : RulesRead(allow)' =
          IF AllowRule(rule) = allow THEN RulesRead(allow) \cup {rule} ELSE RulesRead(allow)
  BY <1>0 DEF RulesRead
<1>13. \A allow, wild : Told(allow, wild)' =
          IF AllowRule(rule) = allow THEN Told(allow, wild) \cup Domains(E, wild)
          ELSE Told(allow, wild)
  <2> SUFFICES ASSUME NEW allow, NEW wild
               PROVE  Told(allow, wild)' =
                        IF AllowRule(rule) = allow THEN Told(allow, wild) \cup Domains(E, wild)
                        ELSE Told(allow, wild)
    OBVIOUS
  <2>1. EntriesOf(rule.line) = E
    BY <1>4 DEF E
  <2>2. Told(allow, wild)' = UNION {Domains(EntriesOf(r.line), wild) : r \in RulesRead(allow)'}
    BY DEF Told
  <2>3. CASE AllowRule(rule) = allow
    <3>1. RulesRead(allow)' = RulesRead(allow) \cup {rule}
      BY <1>12, <2>3
    <3> QED BY <2>1, <2>2, <2>3, <3>1 DEF Told
  <2>4. CASE AllowRule(rule) # allow
    BY <1>12, <2>2, <2>4 DEF Told
  <2> QED BY <2>3, <2>4
<1>14. CASE AllowRule(rule)
  <2>1. /\ bl'.exact = bl.exact /\ bl'.wildcards = bl.wildcards
        /\ bl'.allow = bl.allow \cup Domains(E, FALSE)
        /\ bl'.allow_wildcards = bl.allow_wildcards \cup Domains(E, TRUE)
        /\ bl'.sources = bl.sources
        /\ IsBlocklist(bl')
    <3> DEFINE c == AddAllow(bl, E)
    <3>1. /\ IsBlocklist(c) /\ c.sources = bl.sources
          /\ c.exact = bl.exact /\ c.wildcards = bl.wildcards
          /\ c.allow = bl.allow \cup Domains(E, FALSE)
          /\ c.allow_wildcards = bl.allow_wildcards \cup Domains(E, TRUE)
      BY <1>0, AddAllowKeeps
    <3>2. bl' = c
      BY <1>6, <1>14
    <3> HIDE DEF c
    <3> QED BY <3>1, <3>2
  <2>2. Typed'
    BY <1>0, <1>8, <1>10, <1>11, <2>1 DEF Typed
  <2>3. Reading'
    BY <1>0, <1>10, <2>1 DEF Reading, Built
  <2>4. /\ \A wild : Told(TRUE, wild)' = Told(TRUE, wild) \cup Domains(E, wild)
        /\ \A wild : Told(FALSE, wild)' = Told(FALSE, wild)
        /\ RulesRead(FALSE)' = RulesRead(FALSE)
    BY <1>4, <1>12, <1>13, <1>14
  <2>5. TablesTell'
    BY <2>1, <2>4 DEF IInv, TablesTell
  <2>6. Credited(bl.exact, FALSE)' /\ Credited(bl.wildcards, TRUE)'
    BY <2>1, <2>4 DEF IInv, Credited
  <2>7. \A i : Uncounted(i)' = Uncounted(i)
    BY <1>0, <1>10, <2>1 DEF Uncounted, Size
  <2>8. \A i : Blamed(bl', i) = Blamed(bl, i)
    BY <2>1 DEF Blamed
  <2>9. CountsKept'
    BY <2>1, <2>7, <2>8 DEF IInv, CountsKept
  <2> QED BY <1>9, <2>2, <2>3, <2>5, <2>6, <2>9 DEF IInv
<1>15. CASE ~AllowRule(rule)
  <2>0. /\ ~Plan[at].allow
        /\ file.id \in DOMAIN bl.sources /\ bl.sources[file.id].name = Plan[at].list
    BY <1>0, <1>5, <1>15 DEF Reading
  <2>1. bl' = AddBlock(bl, E, file.id)
    BY <1>6, <1>15
  <2>2. Grown(bl', bl, E, file.id)
    BY <1>0, <1>7, <2>1, AddBlockKeeps
  <2>3. \A i : Blamed(bl', i) =
           IF i = file.id THEN Blamed(bl, i) + Size(bl') - Size(bl) ELSE Blamed(bl, i)
    BY <2>2 DEF Grown
  <2>4. Typed'
    BY <1>0, <1>8, <1>10, <1>11, <2>2 DEF Typed, Grown
  <2>5. Reading'
    BY <1>0, <1>10, <2>2 DEF Reading, Built, Grown
  <2>6. /\ \A wild : Told(FALSE, wild)' = Told(FALSE, wild) \cup Domains(E, wild)
        /\ \A wild : Told(TRUE, wild)' = Told(TRUE, wild)
        /\ RulesRead(FALSE)' = RulesRead(FALSE) \cup {rule}
    BY <1>4, <1>12, <1>13, <1>15
  <2>7. TablesTell'
    BY <2>2, <2>6 DEF IInv, TablesTell, Grown
  <2>8. EntriesOf(rule.line) = E /\ rule.list = bl.sources[file.id].name
    BY <1>4, <2>0 DEF E
  <2>9. Credited(bl.exact, FALSE)'
    <3> SUFFICES ASSUME NEW d \in DOMAIN bl'.exact
                 PROVE  /\ bl'.exact[d] \in DOMAIN bl.sources
                        /\ \E r \in RulesRead(FALSE)' :
                              /\ r.list = bl.sources[bl'.exact[d]].name
                              /\ d \in Domains(EntriesOf(r.line), FALSE)
      BY <2>2 DEF Credited, Grown
    <3>1. CASE d \in DOMAIN bl.exact
      BY <2>2, <2>6, <3>1 DEF IInv, Credited, Grown
    <3>2. CASE d \in Domains(E, FALSE) \ DOMAIN bl.exact
      BY <2>0, <2>2, <2>6, <2>8, <3>2 DEF Grown
    <3> QED BY <2>2, <3>1, <3>2 DEF Grown
  <2>10. Credited(bl.wildcards, TRUE)'
    <3> SUFFICES ASSUME NEW d \in DOMAIN bl'.wildcards
                 PROVE  /\ bl'.wildcards[d] \in DOMAIN bl.sources
                        /\ \E r \in RulesRead(FALSE)' :
                              /\ r.list = bl.sources[bl'.wildcards[d]].name
                              /\ d \in Domains(EntriesOf(r.line), TRUE)
      BY <2>2 DEF Credited, Grown
    <3>1. CASE d \in DOMAIN bl.wildcards
      BY <2>2, <2>6, <3>1 DEF IInv, Credited, Grown
    <3>2. CASE d \in Domains(E, TRUE) \ DOMAIN bl.wildcards
      BY <2>0, <2>2, <2>6, <2>8, <3>2 DEF Grown
    <3> QED BY <2>2, <3>1, <3>2 DEF Grown
  <2>11. CountsKept'
    <3> SUFFICES ASSUME NEW i \in DOMAIN bl.sources
                 PROVE  bl.sources[i].entries + Uncounted(i)' = Blamed(bl', i)
      BY <2>2 DEF CountsKept, Grown
    <3>1. bl.sources[i].entries + Uncounted(i) = Blamed(bl, i)
      BY DEF IInv, CountsKept
    <3>2. bl.sources[i].entries \in Int /\ file.before \in Int
      BY <1>0, SlotTyped DEF Typed
    <3>3. Size(bl) \in Int /\ Size(bl') \in Int /\ Blamed(bl, i) \in Int
      BY <1>0, <2>2, SizeIsInt DEF Grown
    <3>4. Uncounted(i) = IF i = file.id THEN Size(bl) - file.before ELSE 0
      BY <1>0, <2>0 DEF Uncounted
    <3>5. Uncounted(i)' = IF i = file.id THEN Size(bl') - file.before ELSE 0
      BY <1>0, <1>10, <2>0 DEF Uncounted
    <3> QED BY <2>3, <3>1, <3>2, <3>3, <3>4, <3>5
  <2> QED BY <1>9, <2>4, <2>5, <2>7, <2>9, <2>10, <2>11 DEF IInv
<1> QED BY <1>14, <1>15
(* Counting changes one slot of the interning table, and no name. *)
Recounted(slots, src, id, n) ==
    /\ slots \in Seq([name : Lists, entries : Int])
    /\ DOMAIN slots = DOMAIN src
    /\ \A i \in DOMAIN src :
          /\ slots[i].name = src[i].name
          /\ slots[i].entries = IF i = id THEN src[i].entries + n ELSE src[i].entries

LEMMA CountingSlots ==
    ASSUME NEW src \in Seq([name : Lists, entries : Int]), NEW id \in DOMAIN src, NEW n \in Int
    PROVE  Recounted([src EXCEPT ![id].entries = @ + n], src, id, n)
<1> DEFINE Slot == [name : Lists, entries : Int]
           slots == [src EXCEPT ![id].entries = @ + n]
<1>1. Len(src) \in Nat /\ DOMAIN src = 1..Len(src) /\ \A i \in DOMAIN src : src[i] \in Slot
  <2>1. src \in Seq(Slot)
    OBVIOUS
  <2> HIDE DEF Slot
  <2> QED BY <2>1, ElementTyped
<1>2. DOMAIN slots = DOMAIN src
  OBVIOUS
<1>3. slots[id] = [src[id] EXCEPT !.entries = src[id].entries + n]
  BY <1>1
<1>4. \A i \in DOMAIN src : i # id => slots[i] = src[i]
  BY <1>1
<1>5. /\ slots[id] \in Slot /\ slots[id].name = src[id].name
      /\ slots[id].entries = src[id].entries + n
  <2>1. src[id] \in Slot
    BY <1>1
  <2> HIDE DEF slots
  <2> QED BY <1>3, <2>1
<1>6. \A i \in DOMAIN src : slots[i] \in Slot
  BY ONLY <1>1, <1>4, <1>5
<1>7. slots = [i \in 1..Len(src) |-> slots[i]]
  BY <1>1
<1> HIDE DEF slots, Slot
<1>8. slots \in Seq(Slot)
  BY <1>1, <1>6, <1>7
<1>9. \A i \in DOMAIN src :
         /\ slots[i].name = src[i].name
         /\ slots[i].entries = IF i = id THEN src[i].entries + n ELSE src[i].entries
  BY <1>4, <1>5
<1> QED BY <1>2, <1>8, <1>9 DEF Recounted, slots, Slot

LEMMA CloseKeepsIInv ==
    ASSUME IInv, CloseList
    PROVE  IInv'
<1>0. /\ Typed /\ IsBlocklist(bl) /\ Reading /\ ~Built /\ file.open
      /\ at' = at + 1 /\ asked' = asked /\ verdict' = verdict /\ read' = read
      /\ file' = NoFile
  BY DEF IInv, Typed, Reading, CloseList
<1>1. at \in 1..Len(Plan) /\ Plan[at].allow \in BOOLEAN /\ Len(Plan) \in Nat
  BY <1>0, PlanTyped, MatchingAssumption DEF Typed
<1>2. asked = <<>> /\ asked' = <<>>
  BY <1>0 DEF Typed
<1>3. LookupIsDecision'
  BY <1>2 DEF LookupIsDecision
<1>4. /\ file' \in [open : BOOLEAN, lines : Seq(Lines), id : Nat, before : Int]
      /\ ~file'.open
  <2>1. <<>> \in Seq(Lines)
    OBVIOUS
  <2> QED BY <1>0, <2>1 DEF NoFile
<1>5. \A allow, wild : Told(allow, wild)' = Told(allow, wild) /\ RulesRead(allow)' = RulesRead(allow)
  BY <1>0 DEF Told, RulesRead
<1>6. at' \in 1..(Len(Plan) + 1)
  BY <1>0, <1>1
<1>7. \A i \in DOMAIN bl.sources : bl.sources[i].entries \in Int
  BY <1>0, SlotTyped
<1>8. Reading'
  BY <1>4 DEF Reading
<1>9. \A i : Uncounted(i)' = 0
  BY <1>4 DEF Uncounted
<1>10. CASE Plan[at].allow
  <2>1. bl' = bl
    BY <1>10 DEF CloseList
  <2>2. Typed'
    BY <1>0, <1>2, <1>4, <1>6, <2>1 DEF Typed
  <2>3. TablesTell' /\ Credited(bl.exact, FALSE)' /\ Credited(bl.wildcards, TRUE)'
    BY <1>5, <2>1 DEF IInv, TablesTell, Credited
  <2>4. \A i : Uncounted(i) = 0
    BY <1>10 DEF Uncounted
  <2>5. CountsKept'
    BY <1>7, <1>9, <2>1, <2>4 DEF IInv, CountsKept
  <2> QED BY <1>3, <1>8, <2>2, <2>3, <2>5 DEF IInv
<1>11. CASE ~Plan[at].allow
  <2> DEFINE added == Size(bl) - file.before
             slots == [bl.sources EXCEPT ![file.id].entries = @ + added]
  <2>0. file.id \in DOMAIN bl.sources
    BY <1>0, <1>11 DEF Reading
  <2>1. added \in Int
    BY <1>0, SizeIsInt DEF Typed
  <2>2. bl' = [bl EXCEPT !.sources = slots]
    BY <1>11 DEF CloseList, CountEntries
  <2> HIDE DEF added
  <2>3. Recounted(slots, bl.sources, file.id, added)
    <3>1. bl.sources \in Seq([name : Lists, entries : Int])
      BY <1>0 DEF IsBlocklist
    <3> QED BY <2>0, <2>1, <3>1, CountingSlots
  <2> HIDE DEF slots
  <2>4. bl' = [exact |-> bl.exact, wildcards |-> bl.wildcards, allow |-> bl.allow,
               allow_wildcards |-> bl.allow_wildcards, sources |-> slots]
    BY <1>0, <2>2 DEF IsBlocklist
  <2>5. /\ bl'.exact = bl.exact /\ bl'.wildcards = bl.wildcards /\ bl'.allow = bl.allow
        /\ bl'.allow_wildcards = bl.allow_wildcards /\ bl'.sources = slots
    BY <2>4
  <2>6. IsBlocklist(bl')
    BY <1>0, <2>3, <2>4, <2>5 DEF IsBlocklist, Recounted
  <2>7. Typed'
    BY <1>0, <1>2, <1>4, <1>6, <2>6 DEF Typed
  <2>8. TablesTell'
    BY <1>5, <2>5 DEF IInv, TablesTell
  <2>9. Credited(bl.exact, FALSE)' /\ Credited(bl.wildcards, TRUE)'
    <3>1. /\ DOMAIN slots = DOMAIN bl.sources
          /\ \A i \in DOMAIN bl.sources : slots[i].name = bl.sources[i].name
      BY <2>3 DEF Recounted
    <3>2. ASSUME NEW map, NEW wild, Credited(map, wild), NEW d \in DOMAIN map
          PROVE  /\ map[d] \in DOMAIN slots
                 /\ \E r \in RulesRead(FALSE) :
                       r.list = slots[map[d]].name /\ d \in Domains(EntriesOf(r.line), wild)
      BY <3>1, <3>2 DEF Credited
    <3>3. RulesRead(FALSE)' = RulesRead(FALSE)
      BY <1>5
    <3>4. Credited(bl.exact, FALSE)'
      <4>1. Credited(bl.exact, FALSE)
        BY DEF IInv
      <4>2. \A d \in DOMAIN bl.exact :
               /\ bl.exact[d] \in DOMAIN slots
               /\ \E r \in RulesRead(FALSE) :
                     r.list = slots[bl.exact[d]].name /\ d \in Domains(EntriesOf(r.line), FALSE)
        BY <3>2, <4>1
      <4> QED BY <2>5, <3>3, <4>2 DEF Credited
    <3>5. Credited(bl.wildcards, TRUE)'
      <4>1. Credited(bl.wildcards, TRUE)
        BY DEF IInv
      <4>2. \A d \in DOMAIN bl.wildcards :
               /\ bl.wildcards[d] \in DOMAIN slots
               /\ \E r \in RulesRead(FALSE) :
                     r.list = slots[bl.wildcards[d]].name /\ d \in Domains(EntriesOf(r.line), TRUE)
        BY <3>2, <4>1
      <4> QED BY <2>5, <3>3, <4>2 DEF Credited
    <3> QED BY <3>4, <3>5
  <2>10. CountsKept'
    <3> SUFFICES ASSUME NEW i \in DOMAIN bl.sources
                 PROVE  slots[i].entries + 0 = Blamed(bl, i)
      <4>1. \A j : Blamed(bl', j) = Blamed(bl, j)
        BY <2>5 DEF Blamed
      <4> QED BY <1>9, <2>3, <2>5, <4>1 DEF CountsKept, Recounted
    <3>1. bl.sources[i].entries + Uncounted(i) = Blamed(bl, i)
      BY DEF IInv, CountsKept
    <3>2. Uncounted(i) = IF i = file.id THEN added ELSE 0
      BY <1>0, <1>11 DEF Uncounted, added
    <3> QED BY <1>7, <2>1, <2>3, <3>1, <3>2 DEF Recounted
  <2> QED BY <1>3, <1>8, <2>7, <2>8, <2>9, <2>10 DEF IInv
<1> QED BY <1>1, <1>10, <1>11

(* A step that leaves the Blocklist and what was read alone. *)
LEMMA TablesKeptIInv ==
    ASSUME IInv, UNCHANGED <<bl, file, read>>, ~file.open \/ at' = at,
           at' \in 1..(Len(Plan) + 1), (asked # <<>> => Built)', LookupIsDecision'
    PROVE  IInv'
<1>1. Typed' /\ Reading'
  BY DEF IInv, Typed, Reading, Built
<1>2. TablesTell' /\ Credited(bl.exact, FALSE)' /\ Credited(bl.wildcards, TRUE)'
  BY DEF IInv, TablesTell, Credited, Told, RulesRead
<1>3. \A i : Uncounted(i)' = Uncounted(i)
  BY DEF Uncounted
<1>4. CountsKept'
  BY <1>3 DEF IInv, CountsKept
<1> QED BY <1>1, <1>2, <1>4 DEF IInv

LEMMA NextIInv == IInv /\ [MatchingNext]_matchingVars => IInv'
<1> SUFFICES ASSUME IInv, [MatchingNext]_matchingVars
             PROVE  IInv'
  OBVIOUS
<1>0. Len(Plan) \in Nat /\ at \in 1..(Len(Plan) + 1) /\ (asked # <<>> => Built)
  BY MatchingAssumption DEF IInv, Typed
<1>1. ASSUME NEW lines \in Contents, OpenList(lines) PROVE IInv'
  BY <1>1, OpenKeepsIInv
<1>2. CASE ReadLine
  BY <1>2, ReadKeepsIInv
<1>3. CASE CloseList
  BY <1>3, CloseKeepsIInv
<1>4. CASE SkipList
  <2>1. asked' = <<>> /\ LookupIsDecision'
    BY <1>0, <1>4 DEF SkipList, LookupIsDecision
  <2>2. at' \in 1..(Len(Plan) + 1)
    BY <1>0, <1>4 DEF SkipList, Built
  <2> QED BY <1>4, <2>1, <2>2, TablesKeptIInv DEF SkipList
<1>5. CASE BlockingDisabled
  <2>1. at' = Len(Plan) + 1 /\ Built' /\ UNCHANGED <<bl, file, asked, verdict, read>>
    BY <1>0, <1>5 DEF BlockingDisabled, Built
  <2>2. LookupIsDecision'
    BY <2>1 DEF IInv, LookupIsDecision
  <2> QED BY <1>0, <1>5, <2>1, <2>2, TablesKeptIInv DEF BlockingDisabled
<1>6. ASSUME NEW domain \in Queries, Ask(domain) PROVE IInv'
  <2>1. /\ Built /\ Built' /\ UNCHANGED <<bl, at, file, read>>
        /\ asked' = domain /\ verdict' = LookupName(bl, domain)
    BY <1>6 DEF Ask, Built
  <2>2. LookupIsDecision'
    BY <2>1, LookupDecides DEF IInv, LookupIsDecision
  <2> QED BY <1>0, <2>1, <2>2, TablesKeptIInv
<1>7. CASE Rebuild
  <2>1. MatchingInit'
    BY <1>7 DEF Rebuild, MatchingInit
  <2>2. MatchingInit' => IInv'
    BY StartIInv, PTL
  <2> QED BY <2>1, <2>2
<1>8. CASE UNCHANGED matchingVars
  <2>1. LookupIsDecision'
    BY <1>8 DEF IInv, LookupIsDecision, matchingVars
  <2> QED BY <1>0, <1>8, <2>1, TablesKeptIInv DEF matchingVars, Built
<1> QED BY <1>1, <1>2, <1>3, <1>4, <1>5, <1>6, <1>7, <1>8 DEF MatchingNext

----------------------------------------------------------------------------
(* The tables of the matcher hold exactly what the lines read so far say,  *)
(* each entry is credited to a list that has it, and what is credited to a *)
(* list is counted for it, but for what the list being read has added.     *)
THEOREM Invariance == MatchingSpec => []IInv
BY StartIInv, NextIInv, PTL DEF MatchingSpec

(* Allow rules always win, and otherwise any rule of any list that covers  *)
(* a name blocks it, in the name of a list that has such a rule: for any   *)
(* lists in any order, with any overlap between them.                      *)
THEOREM LookupDecidesAsTheLines == MatchingSpec => []LookupIsDecision
<1>1. IInv => LookupIsDecision
  BY DEF IInv
<1> QED BY <1>1, Invariance, PTL

(* The entry counts on the dashboard are the numbers of rules that blame   *)
(* each list, for any lists, overlapping or of the same name.              *)
THEOREM CountsTellTheRules == MatchingSpec => []CountsAddUp
<1>1. IInv => CountsAddUp
  <2> SUFFICES ASSUME IInv, ~file.open, NEW i \in DOMAIN bl.sources
               PROVE  bl.sources[i].entries = Blamed(bl, i)
    BY DEF CountsAddUp, Blamed, Blaming
  <2>1. bl.sources[i].entries \in Int
    BY SlotTyped DEF IInv, Typed
  <2> QED BY <2>1 DEF IInv, CountsKept, Uncounted
<1> QED BY <1>1, Invariance, PTL
=============================================================================
