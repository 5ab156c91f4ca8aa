---------------------------- MODULE CacheProofs ----------------------------
(***************************************************************************)
(* Proofs about Cache for every value of its constants: any requests and   *)
(* messages, any configured limits, any clock resolution.                  *)
(***************************************************************************)
EXTENDS Cache, FiniteSetTheorems, TLAPS

----------------------------------------------------------------------------
(* The inductive invariant *)

(* The time a TTL is counted down from is the time the answer arrived, and *)
(* no record that governs an entry's lifetime is outlived by the entry.    *)
EntrySound(e) ==
    /\ e.inserted <= now
    /\ e.arrived = e.inserted
    /\ \A r \in e.answers \cup e.authorities :
           e.expires <= e.inserted + r.ttl * TicksPerSec

EntriesSound == \A k \in DOMAIN map : EntrySound(map[k])

(* Every entry is under the key of the request it answers. *)
KeysMatch == \A k \in DOMAIN map : KeyOf(map[k].from) = k

FiniteMap == IsFiniteSet(DOMAIN map)

IInv ==
    /\ TypeOK
    /\ FiniteMap
    /\ SizeBound
    /\ EntriesSound
    /\ KeysMatch
    /\ NeverExtendsTtl

----------------------------------------------------------------------------
(* Arithmetic of the clock *)

(* An entry looked up before `ttl` seconds have passed has spent fewer     *)
(* than `ttl` whole seconds in the cache.                                  *)
LEMMA WholeSeconds ==
    ASSUME NEW x \in Nat, NEW ttl \in Nat, NEW t \in Nat \ {0}, x < ttl * t
    PROVE  x \div t < ttl
<1>1. x \div t \in Nat /\ x = t * (x \div t) + (x % t) /\ x % t >= 0
  OBVIOUS
<1>2. SUFFICES ASSUME x \div t >= ttl PROVE FALSE
  BY <1>1
<1> DEFINE q == x \div t
<1>3. PICK d \in Nat : q = ttl + d
  <2>1. q - ttl \in Nat /\ q = ttl + (q - ttl)
    BY <1>1, <1>2
  <2> QED BY <2>1
<1>4. t * q = ttl * t + t * d
  BY <1>3
<1>5. t * d \in Nat
  OBVIOUS
<1> QED BY <1>1, <1>4, <1>5

(* The TTL less the whole seconds spent is the time left, rounded up. *)
LEMMA RoundsUp ==
    ASSUME NEW x \in Nat, NEW granted \in Nat, NEW ttl \in Nat,
           NEW t \in Nat \ {0}, ttl + x \div t = granted
    PROVE  /\ (ttl - 1) * t < granted * t - x
           /\ granted * t - x <= ttl * t
<1> DEFINE q == x \div t
           m == x % t
<1>1. /\ q \in Nat /\ m \in Nat /\ m < t /\ x = t * q + m
  OBVIOUS
<1> HIDE DEF q, m
<1>2. granted = ttl + q
  BY <1>1 DEF q
<1>3. granted * t = ttl * t + t * q
  BY <1>1, <1>2
<1>4. (ttl - 1) * t = ttl * t - t
  OBVIOUS
<1>5. ttl * t \in Nat /\ t * q \in Nat
  BY <1>1
<1> QED BY <1>1, <1>3, <1>4, <1>5

(* Counting a TTL down by less than itself never reaches the clamp. *)
LEMMA CountDownExact ==
    ASSUME NEW ttl \in Nat, NEW elapsed \in Nat, elapsed < ttl
    PROVE  CountDown(ttl, elapsed) + elapsed = ttl
BY DEF CountDown

----------------------------------------------------------------------------
(* Cardinalities *)

LEMMA CapacityPositive == Capacity \in Nat /\ Capacity >= 1
BY ConfigAssumption DEF Capacity

(* Dropping at least one key makes room for one more. *)
LEMMA RoomForOne ==
    ASSUME NEW S, IsFiniteSet(S), NEW T \in SUBSET S, T # S,
           NEW n \in Nat, Cardinality(S) <= n
    PROVE  IsFiniteSet(T) /\ Cardinality(T) < n
<1>1. IsFiniteSet(T) /\ Cardinality(T) <= Cardinality(S)
      /\ (Cardinality(T) = Cardinality(S) => T = S)
  BY FS_Subset
<1>2. Cardinality(S) \in Nat /\ Cardinality(T) \in Nat
  BY <1>1, FS_CardinalityType
<1> QED BY <1>1, <1>2

(* Inserting one key adds at most one to the size. *)
LEMMA OneMore ==
    ASSUME NEW S, IsFiniteSet(S), NEW x
    PROVE  /\ IsFiniteSet(S \cup {x})
           /\ Cardinality(S \cup {x}) <= Cardinality(S) + 1
<1>1. /\ IsFiniteSet(S \cup {x})
      /\ Cardinality(S \cup {x}) = IF x \in S THEN Cardinality(S) ELSE Cardinality(S) + 1
  BY FS_AddElement
<1>2. Cardinality(S) \in Nat
  BY FS_CardinalityType
<1> QED BY <1>1, <1>2

(* evict() always frees a place in a full map, and only drops entries. *)
LEMMA EvictFrees ==
    ASSUME FiniteMap, SizeBound, NEW kept \in Evicted
    PROVE  /\ kept \subseteq DOMAIN map
           /\ IsFiniteSet(kept)
           /\ Cardinality(kept) < Capacity
<1>1. kept \subseteq DOMAIN map
  BY DEF Evicted, LiveKeys, SoonestToExpire
<1>2. kept # DOMAIN map
  <2>1. CASE LiveKeys # DOMAIN map
    BY <2>1 DEF Evicted
  <2>2. CASE LiveKeys = DOMAIN map
    <3>1. PICK gone \in SoonestToExpire : kept = DOMAIN map \ gone
      BY <2>2 DEF Evicted
    <3>2. /\ gone \in SUBSET DOMAIN map
          /\ Cardinality(gone) = Cardinality(DOMAIN map) \div 10 + 1
      BY DEF SoonestToExpire
    <3>3. Cardinality(DOMAIN map) \in Nat
      BY FS_CardinalityType DEF FiniteMap
    <3>4. Cardinality(gone) # 0
      BY <3>2, <3>3
    <3>5. gone # {}
      BY <3>4, FS_EmptySet
    <3> QED BY <3>1, <3>2, <3>5
  <2> QED BY <2>1, <2>2
<1> QED BY <1>1, <1>2, RoomForOne, CapacityPositive DEF FiniteMap, SizeBound

----------------------------------------------------------------------------
(* Each action preserves the invariant *)

LEMMA InitIInv == Init => IInv
<1> SUFFICES ASSUME Init PROVE IInv
  OBVIOUS
<1>1. DOMAIN map = {} /\ result = [hit |-> FALSE] /\ now = 0
  BY DEF Init, NoAnswer
<1>2. map \in [DOMAIN map -> Entry]
  BY <1>1 DEF Init
<1>3. TypeOK
  BY <1>1, <1>2 DEF TypeOK, NoAnswer
<1>4. FiniteMap /\ SizeBound
  BY <1>1, FS_EmptySet, CapacityPositive DEF FiniteMap, SizeBound
<1>5. EntriesSound /\ KeysMatch /\ NeverExtendsTtl
  BY <1>1 DEF EntriesSound, KeysMatch, NeverExtendsTtl
<1> QED BY <1>3, <1>4, <1>5 DEF IInv

(* Dropping entries, in a call that answers nothing, is always safe: the   *)
(* removal of an expired entry by get(), sweep() and clear().              *)
LEMMA DropIInv ==
    ASSUME IInv, NEW kept \in SUBSET DOMAIN map,
           map' = Only(kept), result' = NoAnswer, now' = now
    PROVE  IInv'
<1>1. DOMAIN map' = kept /\ \A k \in kept : map'[k] = map[k]
  BY DEF Only
<1>2. TypeOK'
  <2>1. map' \in [DOMAIN map' -> Entry]
    BY <1>1 DEF IInv, TypeOK, Only
  <2> QED BY <1>1, <2>1 DEF IInv, TypeOK, Keys
<1>3. FiniteMap' /\ SizeBound'
  <2>1. IsFiniteSet(kept) /\ Cardinality(kept) <= Cardinality(DOMAIN map)
    BY FS_Subset DEF IInv, FiniteMap
  <2>2. Cardinality(kept) \in Nat /\ Cardinality(DOMAIN map) \in Nat
    BY <2>1, FS_CardinalityType DEF IInv, FiniteMap
  <2> QED BY <1>1, <2>1, <2>2, CapacityPositive
          DEF IInv, FiniteMap, SizeBound, Capacity
<1>4. EntriesSound'
  BY <1>1 DEF IInv, EntriesSound, EntrySound
<1>5. KeysMatch'
  BY <1>1 DEF IInv, KeysMatch, KeyOf
<1>6. NeverExtendsTtl'
  BY DEF NeverExtendsTtl, NoAnswer
<1> QED BY <1>2, <1>3, <1>4, <1>5, <1>6 DEF IInv

(* Age keeps the TTL the upstream granted and, on an entry looked up       *)
(* within the shortest of its TTLs, takes exactly the elapsed time off.    *)
LEMMA AgeExact ==
    ASSUME NEW records \in SUBSET Record, NEW elapsed \in Nat
    PROVE  /\ Age(records, elapsed) \in SUBSET AgedRecord
           /\ (\A r \in records : elapsed < r.ttl) =>
                 \A a \in Age(records, elapsed) : a.ttl + elapsed = a.granted
<1>1. ASSUME NEW a \in Age(records, elapsed)
      PROVE  /\ a \in AgedRecord
             /\ (\A r \in records : elapsed < r.ttl) => a.ttl + elapsed = a.granted
  <2>1. PICK r \in records : a = [opt |-> r.opt, granted |-> r.ttl,
                                  ttl |-> CountDown(r.ttl, elapsed)]
    BY <1>1 DEF Age
  <2>2. r.opt \in BOOLEAN /\ r.ttl \in Nat
    BY DEF Record
  <2>3. CountDown(r.ttl, elapsed) \in Nat
    BY <2>2 DEF CountDown
  <2>4. a \in AgedRecord
    BY <2>1, <2>2, <2>3 DEF AgedRecord
  <2>5. a.ttl = CountDown(r.ttl, elapsed) /\ a.granted = r.ttl
    BY <2>1
  <2> QED BY <2>4, <2>5, <2>2, CountDownExact
<1> QED BY <1>1

LEMMA GetIInv ==
    ASSUME IInv, NEW req \in Requests, Get(req)
    PROVE  IInv'
<1> DEFINE key == KeyOf(req)
<1>1. CASE key \notin DOMAIN map
  <2>1. map' = map /\ result' = NoAnswer /\ now' = now
    BY <1>1 DEF Get
  <2>2. map' = Only(DOMAIN map)
    BY <2>1 DEF Only, IInv, TypeOK
  <2> QED BY <2>1, <2>2, DropIInv
<1>2. CASE key \in DOMAIN map /\ ~Live(map[key])
  BY <1>2, DropIInv DEF Get
<1>3. CASE key \in DOMAIN map /\ Live(map[key])
  <2>1. map' = map /\ now' = now /\ result' = CachedAnswer(req, map[key])
    BY <1>3 DEF Get
  <2> DEFINE e == map[key]
             elapsed == Elapsed(e)
  <2>2. e \in Entry /\ EntrySound(e) /\ now \in Nat
    BY <1>3 DEF IInv, TypeOK, EntriesSound
  <2>3. /\ e.inserted \in Nat /\ e.expires \in Nat /\ e.arrived \in Nat
        /\ e.answers \in SUBSET Record /\ e.authorities \in SUBSET Record
        /\ e.additionals \in SUBSET Record
        /\ e.from \in Requests /\ e.rcode \in Rcode
    BY <2>2 DEF Entry
  <2>4. now - e.inserted \in Nat /\ elapsed \in Nat
    BY <2>2, <2>3, ConfigAssumption DEF EntrySound, Elapsed
  <2>5. ASSUME NEW r \in e.answers \cup e.authorities
        PROVE  elapsed < r.ttl
    <3>1. r.ttl \in Nat
      BY <2>3 DEF Record
    <3>2. now < e.expires /\ e.expires <= e.inserted + r.ttl * TicksPerSec
      BY <1>3, <2>2 DEF Live, EntrySound
    <3>3. r.ttl * TicksPerSec \in Nat
      BY <3>1, ConfigAssumption
    <3>4. now - e.inserted < r.ttl * TicksPerSec
      BY <3>2, <3>3, <2>2, <2>3
    <3> QED BY <3>1, <3>4, <2>4, WholeSeconds, ConfigAssumption DEF Elapsed
  <2>6. result'.hit = TRUE /\ result'.arrived = e.inserted
        /\ result'.answers = Age(e.answers, elapsed)
        /\ result'.authorities = Age(e.authorities, elapsed)
    BY <2>1, <2>2 DEF CachedAnswer, EntrySound
  <2>7. NeverExtendsTtl'
    <3>1. ASSUME NEW r \in Age(e.answers, elapsed) \cup Age(e.authorities, elapsed)
          PROVE  /\ r.granted \in Nat /\ r.ttl \in Nat
                 /\ r.ttl + elapsed = r.granted
      <4>1. r \in AgedRecord /\ r.ttl + elapsed = r.granted
        BY <2>3, <2>4, <2>5, AgeExact
      <4> QED BY <4>1 DEF AgedRecord
    <3>2. ASSUME NEW r \in Age(e.answers, elapsed) \cup Age(e.authorities, elapsed)
          PROVE  /\ (r.ttl - 1) * TicksPerSec
                        < r.granted * TicksPerSec - (now - e.inserted)
                 /\ r.granted * TicksPerSec - (now - e.inserted)
                        <= r.ttl * TicksPerSec
      BY <3>1, <2>4, RoundsUp, ConfigAssumption DEF Elapsed
    <3> HIDE DEF e, elapsed
    <3> QED BY <3>2, <2>1, <2>6 DEF NeverExtendsTtl, TimeLeft
  <2>8. result' \in Hit
    <3>1. /\ Age(e.answers, elapsed) \in SUBSET AgedRecord
          /\ Age(e.authorities, elapsed) \in SUBSET AgedRecord
          /\ Age(e.additionals, elapsed) \in SUBSET AgedRecord
      BY <2>3, <2>4, AgeExact
    <3> HIDE DEF elapsed, e
    <3>2. e.arrived \in Nat
      BY <2>3
    <3> QED BY <3>1, <3>2, <2>1, <2>3, <2>4 DEF CachedAnswer, Hit, e, elapsed
  <2>9. TypeOK'
    BY <2>1, <2>8 DEF IInv, TypeOK, Keys
  <2>10. FiniteMap' /\ SizeBound' /\ EntriesSound' /\ KeysMatch'
    BY <2>1 DEF IInv, FiniteMap, SizeBound, EntriesSound, EntrySound, Capacity, KeysMatch
  <2> QED BY <2>7, <2>9, <2>10 DEF IInv
<1> QED BY <1>1, <1>2, <1>3

LEMMA InsertIInv ==
    ASSUME IInv, NEW req \in Requests, NEW msg \in Messages, Insert(req, msg)
    PROVE  IInv'
<1> DEFINE key == KeyOf(req)
<1>1. PICK shortest \in GoverningTtls(msg),
           kept \in IF Full THEN Evicted ELSE {DOMAIN map} :
        /\ IsShortest(shortest, msg)
        /\ map' = Put(kept, key, NewEntry(req, msg, shortest))
  BY DEF Insert
<1>2. result' = NoAnswer /\ now' = now /\ now \in Nat
  BY DEF Insert, IInv, TypeOK
<1>3. msg \in Message
  BY MessagesAssumption
<1>4. /\ msg.answers \in SUBSET Record /\ msg.authorities \in SUBSET Record
      /\ msg.additionals \in SUBSET Record /\ msg.rcode \in Rcode
  BY <1>3 DEF Message
<1>5. shortest \in Nat
  BY <1>4 DEF GoverningTtls, Record
<1>6. /\ kept \subseteq DOMAIN map
      /\ IsFiniteSet(kept)
      /\ Cardinality(kept) < Capacity
  <2>1. CASE Full
    BY <2>1, EvictFrees DEF IInv
  <2>2. CASE ~Full
    <3>1. kept = DOMAIN map /\ IsFiniteSet(kept)
      BY <2>2 DEF IInv, FiniteMap
    <3>2. Cardinality(kept) \in Nat
      BY <3>1, FS_CardinalityType
    <3> QED BY <3>1, <3>2, <2>2, CapacityPositive DEF Full
  <2> QED BY <2>1, <2>2
<1> DEFINE e == NewEntry(req, msg, shortest)
<1>7. /\ DOMAIN map' = kept \cup {key}
      /\ map'[key] = e
      /\ \A k \in kept : k # key => map'[k] = map[k]
  BY <1>1 DEF Put
<1>8. Lifetime(shortest) \in Nat /\ Lifetime(shortest) <= shortest
  BY <1>5, ConfigAssumption DEF Lifetime
<1>9. Lifetime(shortest) * TicksPerSec \in Nat
  BY <1>8, ConfigAssumption
<1>10. e \in Entry
  <2>1. {r \in msg.additionals : ~r.opt} \in SUBSET Record
    BY <1>4
  <2>2. now + Lifetime(shortest) * TicksPerSec \in Nat
    BY <1>2, <1>9
  <2> QED BY <2>1, <2>2, <1>2, <1>4 DEF NewEntry, Entry
<1>11. EntrySound(e)
  <2>1. /\ e.inserted = now /\ e.arrived = now
        /\ e.expires = now + Lifetime(shortest) * TicksPerSec
        /\ e.answers = msg.answers /\ e.authorities = msg.authorities
    BY DEF NewEntry
  <2>2. ASSUME NEW r \in msg.answers \cup msg.authorities
        PROVE  Lifetime(shortest) * TicksPerSec <= r.ttl * TicksPerSec
    <3>1. r.ttl \in Nat /\ shortest <= r.ttl
      BY <1>1, <1>4 DEF IsShortest, GoverningTtls, Record
    <3>2. Lifetime(shortest) <= r.ttl
      BY <3>1, <1>5, <1>8
    <3> QED BY <3>1, <3>2, <1>8, ConfigAssumption
  <2>3. \A r \in e.answers \cup e.authorities :
           e.expires <= e.inserted + r.ttl * TicksPerSec
    <3>1. SUFFICES ASSUME NEW r \in msg.answers \cup msg.authorities
                   PROVE  now + Lifetime(shortest) * TicksPerSec
                            <= now + r.ttl * TicksPerSec
      BY <2>1
    <3>2. r.ttl \in Nat
      BY <1>4 DEF Record
    <3>3. r.ttl * TicksPerSec \in Nat
      BY <3>2, ConfigAssumption
    <3> QED BY <3>3, <2>2, <1>2, <1>9
  <2> QED BY <2>1, <2>3, <1>2 DEF EntrySound
<1>12. TypeOK'
  <2>1. key \in Keys
    BY DEF Keys
  <2>2. map' \in [kept \cup {key} -> Entry]
    <3>1. \A k \in kept : map[k] \in Entry
      BY <1>6 DEF IInv, TypeOK
    <3> HIDE DEF e, key
    <3> QED BY <1>1, <1>10, <3>1 DEF Put, e
  <2> QED BY <1>2, <1>6, <1>7, <2>1, <2>2 DEF IInv, TypeOK, Keys
<1>13. FiniteMap' /\ SizeBound'
  <2>1. /\ IsFiniteSet(kept \cup {key})
        /\ Cardinality(kept \cup {key}) <= Cardinality(kept) + 1
    BY <1>6, OneMore
  <2>2. Cardinality(kept) \in Nat /\ Cardinality(kept \cup {key}) \in Nat
    BY <1>6, <2>1, FS_CardinalityType
  <2> QED BY <1>6, <1>7, <2>1, <2>2, CapacityPositive
          DEF FiniteMap, SizeBound, Capacity
<1>14. EntriesSound'
  <2>1. \A k \in kept : EntrySound(map[k])
    BY <1>6 DEF IInv, EntriesSound
  <2>2. ASSUME NEW k \in DOMAIN map' PROVE EntrySound(map'[k])
    <3>1. map'[k] = e \/ (k \in kept /\ map'[k] = map[k])
      BY <1>7
    <3> HIDE DEF e
    <3> QED BY <3>1, <2>1, <1>11
  <2> QED BY <2>2, <1>2 DEF EntriesSound, EntrySound
<1>15. KeysMatch'
  <2>1. e.from = req
    BY DEF NewEntry
  <2>2. \A k \in kept : KeyOf(map[k].from) = k
    BY <1>6 DEF IInv, KeysMatch
  <2> HIDE DEF e
  <2> QED BY <1>7, <2>1, <2>2 DEF KeysMatch
<1>16. NeverExtendsTtl'
  BY <1>2 DEF NeverExtendsTtl, NoAnswer
<1> QED BY <1>12, <1>13, <1>14, <1>15, <1>16 DEF IInv

LEMMA NextIInv == IInv /\ [Next]_vars => IInv'
<1> SUFFICES ASSUME IInv, [Next]_vars PROVE IInv'
  OBVIOUS
<1>1. ASSUME NEW req \in Requests, Get(req) PROVE IInv'
  BY <1>1, GetIInv
<1>2. ASSUME NEW req \in Requests, NEW msg \in Messages, Insert(req, msg)
      PROVE  IInv'
  BY <1>2, InsertIInv
<1>3. ASSUME NEW msg \in Messages, InsertDeclined(msg) PROVE IInv'
  <2>1. map' = map /\ now' = now /\ result' = NoAnswer
    BY <1>3 DEF InsertDeclined
  <2>2. map' = Only(DOMAIN map)
    BY <2>1 DEF Only, IInv, TypeOK
  <2> QED BY <2>1, <2>2, DropIInv
<1>4. CASE Sweep
  BY <1>4, DropIInv DEF Sweep, LiveKeys
<1>5. CASE Clear
  BY <1>5, DropIInv DEF Clear
<1>6. CASE Tick
  <2>1. map' = map /\ result' = NoAnswer /\ now' = now + 1 /\ now \in Nat
    BY <1>6 DEF Tick, IInv, TypeOK
  <2>2. TypeOK'
    BY <2>1 DEF IInv, TypeOK, Keys
  <2>3. EntriesSound'
    <3>1. \A k \in DOMAIN map : map[k].inserted \in Nat
      BY DEF IInv, TypeOK, Entry
    <3> QED BY <2>1, <3>1 DEF IInv, EntriesSound, EntrySound
  <2>4. FiniteMap' /\ SizeBound' /\ KeysMatch' /\ NeverExtendsTtl'
    BY <2>1 DEF IInv, FiniteMap, SizeBound, Capacity, KeysMatch, NeverExtendsTtl,
                NoAnswer
  <2> QED BY <2>2, <2>3, <2>4 DEF IInv
<1>7. CASE UNCHANGED vars
  BY <1>7 DEF vars, IInv, TypeOK, Keys, FiniteMap, SizeBound, Capacity,
              EntriesSound, EntrySound, KeysMatch, NeverExtendsTtl, TimeLeft
<1> QED BY <1>1, <1>2, <1>3, <1>4, <1>5, <1>6, <1>7 DEF Next

(* Every reachable state satisfies the inductive invariant. *)
THEOREM Invariance == Spec => []IInv
<1>1. Init => IInv
  BY InitIInv
<1>2. IInv /\ [Next]_vars => IInv'
  BY NextIInv
<1> QED BY <1>1, <1>2, PTL DEF Spec

----------------------------------------------------------------------------
(* The theorems *)

(* The cache's data structures keep their shape: only keys of requests,    *)
(* well-formed entries, and a well-formed result of the last get().        *)
THEOREM TypeCorrect == Spec => []TypeOK
<1>1. IInv => TypeOK
  BY DEF IInv
<1> QED BY <1>1, Invariance, PTL

(* Whatever dns.cache_max_entries is, and whatever is inserted when, the   *)
(* map never grows beyond it (or beyond 1 when it is 0).                   *)
THEOREM SizeBounded == Spec => []SizeBound
<1>1. IInv => SizeBound
  BY DEF IInv
<1> QED BY <1>1, Invariance, PTL

(* Whatever TTLs upstream grants, whatever cache_min_ttl and cache_max_ttl *)
(* are and however finely time is measured, a TTL that get() hands out is  *)
(* the time upstream's grant has left, rounded up to a whole second.       *)
THEOREM TtlNeverExtended == Spec => []NeverExtendsTtl
<1>1. IInv => NeverExtendsTtl
  BY DEF IInv
<1> QED BY <1>1, Invariance, PTL

(* However the map fills up, insert() drops a live answer only for want of *)
(* an expired one, and never one that would outlive an answer it keeps.    *)
THEOREM OnlyTheSoonestGo == Spec => LosesOnlyTheSoonest
<1> DEFINE Fair == \A k \in DOMAIN map :
                     (k \notin DOMAIN map' /\ Live(map[k])) =>
                        \/ DOMAIN map' = {}
                        \/ /\ Full
                           /\ \A j \in DOMAIN map : Live(map[j])
                           /\ \E new \in DOMAIN map' :
                              \A j \in DOMAIN map' \ {new} :
                                 /\ j \in DOMAIN map /\ map'[j] = map[j]
                                 /\ map[k].expires <= map[j].expires
<1>1. [Next]_vars => [Fair]_vars
  <2> SUFFICES ASSUME Next, NEW k \in DOMAIN map, k \notin DOMAIN map', Live(map[k]),
                      DOMAIN map' # {}
               PROVE  /\ Full
                      /\ \A j \in DOMAIN map : Live(map[j])
                      /\ \E new \in DOMAIN map' :
                         \A j \in DOMAIN map' \ {new} :
                            /\ j \in DOMAIN map /\ map'[j] = map[j]
                            /\ map[k].expires <= map[j].expires
    OBVIOUS
  <2>1. ASSUME NEW req \in Requests, Get(req) PROVE FALSE
    BY <2>1 DEF Get, Only
  <2>2. CASE Sweep
    BY <2>2 DEF Sweep, Only, LiveKeys
  <2>3. CASE Clear
    BY <2>3 DEF Clear, Only
  <2>4. CASE Tick \/ \E msg \in Messages : InsertDeclined(msg)
    BY <2>4 DEF Tick, InsertDeclined
  <2>5. ASSUME NEW req \in Requests, NEW msg \in Messages, Insert(req, msg)
        PROVE  /\ Full
               /\ \A j \in DOMAIN map : Live(map[j])
               /\ \E new \in DOMAIN map' :
                  \A j \in DOMAIN map' \ {new} :
                     /\ j \in DOMAIN map /\ map'[j] = map[j]
                     /\ map[k].expires <= map[j].expires
    <3> DEFINE key == KeyOf(req)
    <3>1. PICK shortest \in GoverningTtls(msg),
               kept \in IF Full THEN Evicted ELSE {DOMAIN map} :
                  map' = Put(kept, key, NewEntry(req, msg, shortest))
      BY <2>5 DEF Insert
    <3>2. /\ DOMAIN map' = kept \cup {key}
          /\ \A j \in kept \ {key} : map'[j] = map[j]
      BY <3>1 DEF Put
    <3>3. k \notin kept
      BY <3>2
    <3>4. Full /\ kept \in Evicted
      BY <3>1, <3>3
    <3>5. LiveKeys = DOMAIN map
      BY <3>3, <3>4 DEF Evicted, LiveKeys
    <3>6. PICK gone \in SoonestToExpire : kept = DOMAIN map \ gone
      BY <3>4, <3>5 DEF Evicted
    <3>7. /\ k \in gone
          /\ \A j \in DOMAIN map \ gone : map[k].expires <= map[j].expires
      BY <3>3, <3>6 DEF SoonestToExpire
    <3>8. \A j \in DOMAIN map' \ {key} :
             /\ j \in DOMAIN map /\ map'[j] = map[j]
             /\ map[k].expires <= map[j].expires
      BY <3>2, <3>6, <3>7
    <3>9. \A j \in DOMAIN map : Live(map[j])
      BY <3>5 DEF LiveKeys
    <3>10. key \in DOMAIN map'
      BY <3>2
    <3> HIDE DEF key
    <3> QED BY <3>4, <3>8, <3>9, <3>10
  <2> QED BY <2>1, <2>2, <2>3, <2>4, <2>5 DEF Next
<1> QED BY <1>1, PTL DEF Spec, LosesOnlyTheSoonest

----------------------------------------------------------------------------
(* The cache implements LossyStore *)

(* Two requests have one key exactly when they ask in the same terms. *)
LEMMA KeysAreTerms ==
    ASSUME NEW a, NEW b
    PROVE  KeyOf(a) = KeyOf(b) <=> Lossy!SameTerms(a, b)
<1>1. ASSUME KeyOf(a) = KeyOf(b) PROVE Lossy!SameTerms(a, b)
  <2>1. /\ KeyOf(a).name = KeyOf(b).name /\ KeyOf(a).qtype = KeyOf(b).qtype
        /\ KeyOf(a).qclass = KeyOf(b).qclass
        /\ KeyOf(a).dnssec_ok = KeyOf(b).dnssec_ok
        /\ KeyOf(a).checking_disabled = KeyOf(b).checking_disabled
    BY <1>1
  <2> QED BY <2>1 DEF KeyOf, Lossy!SameTerms
<1>2. ASSUME Lossy!SameTerms(a, b) PROVE KeyOf(a) = KeyOf(b)
  BY <1>2 DEF KeyOf, Lossy!SameTerms
<1> QED BY <1>1, <1>2

(* What was granted can be read back from an aged section. *)
LEMMA GrantedIsStored ==
    ASSUME NEW records \in SUBSET Record, NEW elapsed
    PROVE  AsGranted(Age(records, elapsed)) = records
<1>1. ASSUME NEW r \in records PROVE r = [opt |-> r.opt, ttl |-> r.ttl]
  BY DEF Record
<1>2. ASSUME NEW r \in records PROVE r \in AsGranted(Age(records, elapsed))
  <2> DEFINE a == [opt |-> r.opt, granted |-> r.ttl, ttl |-> CountDown(r.ttl, elapsed)]
  <2>1. a \in Age(records, elapsed) /\ a.opt = r.opt /\ a.granted = r.ttl
    BY DEF Age
  <2> HIDE DEF a
  <2>2. [opt |-> a.opt, ttl |-> a.granted] \in AsGranted(Age(records, elapsed))
    BY <2>1 DEF AsGranted
  <2> QED BY <1>1, <2>1, <2>2
<1>3. ASSUME NEW g \in AsGranted(Age(records, elapsed)) PROVE g \in records
  <2>1. PICK a \in Age(records, elapsed) : g = [opt |-> a.opt, ttl |-> a.granted]
    BY <1>3 DEF AsGranted
  <2>2. PICK r \in records : a = [opt |-> r.opt, granted |-> r.ttl,
                                  ttl |-> CountDown(r.ttl, elapsed)]
    BY <2>1 DEF Age
  <2>3. a.opt = r.opt /\ a.granted = r.ttl
    BY <2>2
  <2> QED BY <1>1, <2>1, <2>3
<1> QED BY <1>2, <1>3

(* A call that answers nothing and only drops entries is a Forget. *)
LEMMA DropForgets ==
    ASSUME NEW kept \in SUBSET DOMAIN map, map' = Only(kept), result' = NoAnswer
    PROVE  Lossy!Forget
<1>1. DOMAIN map' = kept /\ \A k \in kept : map'[k] = map[k]
  BY DEF Only
<1>2. Held' = {StoredAnswer(map'[k]) : k \in DOMAIN map'}
  BY DEF Held, StoredAnswer
<1>3. Held' \subseteq Held
  BY <1>1, <1>2 DEF Held
<1>4. FoundAnswer' = Lossy!Nothing
  BY DEF FoundAnswer, NoAnswer, Lossy!Nothing
<1> QED BY <1>3, <1>4 DEF Lossy!Forget

(* A hit is a Find: the entry under the key answers the same question in   *)
(* the same terms.                                                         *)
LEMMA HitFinds ==
    ASSUME IInv, NEW req \in Requests, Get(req),
           KeyOf(req) \in DOMAIN map, Live(map[KeyOf(req)])
    PROVE  Lossy!Find(req)
<1> DEFINE e == map[KeyOf(req)]
           elapsed == Elapsed(e)
           v == StoredAnswer(e)
<1>1. map' = map /\ result' = CachedAnswer(req, e)
  BY DEF Get
<1>2. /\ e.answers \in SUBSET Record /\ e.authorities \in SUBSET Record
      /\ e.additionals \in SUBSET Record
  BY DEF IInv, TypeOK, Entry
<1>3. Held' = Held
  BY <1>1 DEF Held, StoredAnswer
<1>4. v \in Held
  BY DEF Held
<1>5. Lossy!SameTerms(v.from, req)
  <2>1. v.from = e.from /\ KeyOf(e.from) = KeyOf(req)
    BY DEF StoredAnswer, IInv, KeysMatch
  <2> HIDE DEF v, e
  <2> QED BY <2>1, KeysAreTerms
<1>6. FoundAnswer' = [found |-> TRUE, to |-> req, value |-> v]
  <2>1. /\ result'.hit /\ result'.to = req
        /\ result'.from = e.from /\ result'.rcode = e.rcode
        /\ result'.answers = Age(e.answers, elapsed)
        /\ result'.authorities = Age(e.authorities, elapsed)
        /\ result'.additionals = Age(e.additionals, elapsed)
    BY <1>1 DEF CachedAnswer
  <2> HIDE DEF e, elapsed
  <2>2. /\ AsGranted(result'.answers) = e.answers
        /\ AsGranted(result'.authorities) = e.authorities
        /\ AsGranted(result'.additionals) = e.additionals
    BY <1>2, <2>1, GrantedIsStored
  <2>3. FoundAnswer' = [found |-> TRUE,
                        to    |-> result'.to,
                        value |-> [from        |-> result'.from,
                                   rcode       |-> result'.rcode,
                                   answers     |-> AsGranted(result'.answers),
                                   authorities |-> AsGranted(result'.authorities),
                                   additionals |-> AsGranted(result'.additionals)]]
    BY <2>1 DEF FoundAnswer, AsGranted
  <2> QED BY <2>1, <2>2, <2>3 DEF StoredAnswer
<1> HIDE DEF v
<1> QED BY <1>3, <1>4, <1>5, <1>6 DEF Lossy!Find

(* An insertion is a Store: what stays besides has other keys. *)
LEMMA InsertStores ==
    ASSUME IInv, NEW req \in Requests, NEW msg \in Messages, Insert(req, msg)
    PROVE  \E v \in Storable : Lossy!Store(v)
<1> DEFINE key == KeyOf(req)
           extra == {r \in msg.additionals : ~r.opt}
<1>1. PICK shortest \in GoverningTtls(msg),
           kept \in IF Full THEN Evicted ELSE {DOMAIN map} :
              map' = Put(kept, key, NewEntry(req, msg, shortest))
  BY DEF Insert
<1>2. kept \subseteq DOMAIN map
  BY <1>1, EvictFrees DEF IInv
<1> DEFINE e == NewEntry(req, msg, shortest)
           v == StoredAnswer(e)
           others == {StoredAnswer(map[k]) : k \in kept \ {key}}
<1>3. /\ DOMAIN map' = kept \cup {key} /\ map'[key] = e
      /\ \A k \in kept \ {key} : map'[k] = map[k]
  BY <1>1 DEF Put
<1>4. v = Stripped(req, msg)
  BY DEF NewEntry, StoredAnswer, Stripped
<1>5. v \in Storable
  BY <1>4 DEF Storable
<1>6. v.from = req /\ v.rcode = msg.rcode /\ v.additionals = extra
  BY DEF NewEntry, StoredAnswer
<1>7. Lossy!Reusable(v)
  BY <1>6 DEF Insert, Cacheable, Lossy!Reusable
<1> HIDE DEF e
<1>8. Held' = others \cup {v}
  <2>1. Held' = {StoredAnswer(map'[k]) : k \in DOMAIN map'}
    BY DEF Held, StoredAnswer
  <2> QED BY <1>3, <2>1
<1> HIDE DEF v
<1>9. ASSUME NEW w \in others PROVE w \in Held /\ ~Lossy!SameTerms(w.from, v.from)
  <2>1. PICK k \in kept \ {key} : w = StoredAnswer(map[k])
    BY <1>9
  <2>2. w \in Held
    BY <1>2, <2>1 DEF Held
  <2>3. w.from = map[k].from
    BY <2>1 DEF StoredAnswer
  <2>4. KeyOf(w.from) = k /\ KeyOf(v.from) = key
    BY <1>2, <1>6, <2>3 DEF IInv, KeysMatch
  <2>5. KeyOf(w.from) # KeyOf(v.from)
    BY <2>4
  <2> QED BY <2>2, <2>5, KeysAreTerms
<1> HIDE DEF others
<1>10. others \in SUBSET {w \in Held : ~Lossy!SameTerms(w.from, v.from)}
  BY <1>9
<1>11. FoundAnswer' = Lossy!Nothing
  BY DEF Insert, FoundAnswer, NoAnswer, Lossy!Nothing
<1>12. Lossy!Store(v)
  BY <1>7, <1>8, <1>10, <1>11 DEF Lossy!Store
<1> QED BY <1>5, <1>12

LEMMA StepRefines == IInv /\ [Next]_vars => [Lossy!Next]_(Lossy!vars)
<1> SUFFICES ASSUME IInv, [Next]_vars PROVE Lossy!Next \/ UNCHANGED Lossy!vars
  OBVIOUS
<1>0. map = Only(DOMAIN map)
  BY DEF IInv, TypeOK, Only
<1>1. ASSUME NEW req \in Requests, Get(req) PROVE Lossy!Next
  <2>1. CASE KeyOf(req) \in DOMAIN map /\ Live(map[KeyOf(req)])
    BY <1>1, <2>1, HitFinds DEF Lossy!Next
  <2>2. CASE KeyOf(req) \notin DOMAIN map
    BY <1>0, <1>1, <2>2, DropForgets DEF Get, Lossy!Next
  <2>3. CASE KeyOf(req) \in DOMAIN map /\ ~Live(map[KeyOf(req)])
    <3>1. map' = Only(DOMAIN map \ {KeyOf(req)}) /\ result' = NoAnswer
      BY <1>1, <2>3 DEF Get
    <3> QED BY <3>1, DropForgets DEF Lossy!Next
  <2> QED BY <2>1, <2>2, <2>3
<1>2. ASSUME NEW req \in Requests, NEW msg \in Messages, Insert(req, msg) PROVE Lossy!Next
  BY <1>2, InsertStores DEF Lossy!Next
<1>3. CASE Tick \/ \E msg \in Messages : InsertDeclined(msg)
  BY <1>0, <1>3, DropForgets DEF Tick, InsertDeclined, Lossy!Next
<1>4. CASE Sweep
  BY <1>4, DropForgets DEF Sweep, LiveKeys, Lossy!Next
<1>5. CASE Clear
  BY <1>5, DropForgets DEF Clear, Lossy!Next
<1>6. CASE UNCHANGED vars
  BY <1>6 DEF vars, Lossy!vars, Held, StoredAnswer, FoundAnswer, AsGranted
<1> QED BY <1>1, <1>2, <1>3, <1>4, <1>5, <1>6 DEF Next

(* Rule 1 of cache.rs for any requests, messages, limits and clock: every  *)
(* step of the cache is a step of the abstract store or invisible in it,   *)
(* so that an answer served is the last one stored for that very question. *)
THEOREM CacheIsLossyStore == Spec => ImplementsLossyStore
<1>1. Init => Lossy!Init
  BY DEF Init, NoAnswer, Lossy!Init, Lossy!Nothing, Held, FoundAnswer
<1> QED BY <1>1, StepRefines, Invariance, PTL DEF Spec, ImplementsLossyStore, Lossy!Spec

============================================================================
