---------------------------- MODULE AlertsProofs ----------------------------
(***************************************************************************)
(* Theorems about the two periodic tasks that feed the writer, for any     *)
(* subjects, queue depth, map limit and cooldown, and for any interfaces   *)
(* and counter width: a subject alerts once per cooldown, the dashboard    *)
(* claims no push that was not accepted, and the throughput sampler never  *)
(* shows more than was carried.                                            *)
(***************************************************************************)
EXTENDS Alerts, Sampler, TLAPS

----------------------------------------------------------------------------
(* The inductive invariant of alerting *)

(* The map holds no slot of the future. *)
SlotsPast == \A s \in DOMAIN cooldown : cooldown[s] <= now

(* The alert in hand: pending or pushed only while there is one. *)
HandHonest ==
    /\ hand = NoAlert => notified = "no"
    /\ notified = "yes" => hand \in pushed

(* An alert within its cooldown still has its slot in the map, or a later  *)
(* one of the same subject has.                                            *)
Guarded(a) ==
    /\ a.at <= now
    /\ \/ now - a.at >= Cooldown
       \/ a.subject \in DOMAIN cooldown /\ cooldown[a.subject] >= a.at

IInv ==
    /\ TypeOK
    /\ SlotsPast
    /\ HandHonest
    /\ NotifiedHonest
    /\ \A a \in Raised : Guarded(a)

----------------------------------------------------------------------------
(* Facts used throughout *)

LEMMA NoAlertIsNone == NoAlert \notin Alert
BY AlertsAssumption DEF Alert, Subjects

LEMMA RaisedIsAlert == TypeOK => Raised \subseteq Alert
<1> SUFFICES ASSUME TypeOK PROVE Raised \subseteq Alert
  OBVIOUS
<1>1. Elements(queue) \subseteq Alert
  BY DEF TypeOK, Elements
<1>2. {kept.alert : kept \in stored} \subseteq Alert
  BY DEF TypeOK
<1>3. {sending[r] : r \in Raisers} \subseteq Alert \cup {NoAlert}
  BY DEF TypeOK
<1> QED BY <1>1, <1>2, <1>3 DEF TypeOK, Raised

LEMMA ElementsOfAppend ==
    ASSUME NEW S, NEW q \in Seq(S), NEW e \in S
    PROVE  Elements(Append(q, e)) = Elements(q) \cup {e}
<1>1. \A i \in 1..Len(q) : Append(q, e)[i] = q[i]
  OBVIOUS
<1>2. Len(Append(q, e)) = Len(q) + 1 /\ Append(q, e)[Len(q) + 1] = e /\ Len(q) \in Nat
  OBVIOUS
<1>3. 1..(Len(q) + 1) = 1..Len(q) \cup {Len(q) + 1}
  BY <1>2
<1> QED BY <1>1, <1>2, <1>3 DEF Elements

LEMMA ElementsOfTail ==
    ASSUME NEW S, NEW q \in Seq(S), q # <<>>
    PROVE  Elements(Tail(q)) \subseteq Elements(q) /\ Head(q) \in Elements(q)
<1>1. Len(q) \in Nat \ {0} /\ Head(q) = q[1]
  OBVIOUS
<1>2. Len(Tail(q)) = Len(q) - 1 /\ \A i \in 1..(Len(q) - 1) : Tail(q)[i] = q[i + 1]
  OBVIOUS
<1>3. \A i \in 1..(Len(q) - 1) : i + 1 \in 1..Len(q)
  BY <1>1
<1> QED BY <1>1, <1>2, <1>3 DEF Elements

(* A step that raises nothing and leaves the clock and the map alone. *)
LEMMA NothingRaised ==
    ASSUME IInv, TypeOK', UNCHANGED <<now, cooldown>>, Raised' \subseteq Raised,
           HandHonest', NotifiedHonest'
    PROVE  IInv'
BY DEF IInv, SlotsPast, Guarded

----------------------------------------------------------------------------
(* One lemma per action *)

LEMMA RetainedDomain == DOMAIN Retained(cooldown) \subseteq DOMAIN cooldown
BY DEF Retained

LEMMA RetainedKeepsRecent ==
    ASSUME NEW s \in DOMAIN cooldown, s \notin DOMAIN Retained(cooldown)
    PROVE  ~Recent(cooldown[s])
BY DEF Retained

(* A slot is taken, or the subject is still cooling down. *)
LEMMA TakeSlotStep ==
    ASSUME IInv, NEW r \in Raisers, NEW s \in Subjects, TakeSlot(r, s), scan' \subseteq Clients,
           UNCHANGED <<now, queue, hand, notified, pushed, stored, dropped, counter>>
    PROVE  /\ IInv'
           /\ \A q \in Raisers : sending[q] = NoAlert /\ sending'[q] # NoAlert =>
                 \A a \in Raised :
                     a.subject = sending'[q].subject => now - a.at >= Cooldown
<1> USE DEF IInv
<1>1. HandHonest' /\ NotifiedHonest'
  BY DEF HandHonest, NotifiedHonest
<1>2. CASE CoolingDown(s)
  <2>1. UNCHANGED <<cooldown, sending>>
    BY <1>2 DEF TakeSlot
  <2>2. TypeOK'
    BY <2>1 DEF TypeOK
  <2>3. Raised' = Raised
    BY <2>1 DEF Raised, Elements
  <2> QED BY <1>1, <2>1, <2>2, <2>3, NothingRaised
<1>3. CASE ~CoolingDown(s)
  <2> DEFINE e == [subject |-> s, at |-> now]
  <2>1. /\ DOMAIN cooldown' = DOMAIN Retained(cooldown) \cup {s}
        /\ cooldown'[s] = now
        /\ \A x \in DOMAIN Retained(cooldown) : x # s => cooldown'[x] = cooldown[x]
        /\ cooldown' = [x \in DOMAIN cooldown' |-> cooldown'[x]]
    BY <1>3 DEF TakeSlot
  <2>2. sending' = [sending EXCEPT ![r] = e] /\ sending[r] = NoAlert
    BY <1>3 DEF TakeSlot
  <2>3. now \in Nat /\ e \in Alert /\ now \in 0..MaxClock /\ MaxClock \in Nat /\ Cooldown \in Nat
    BY AlertsAssumption DEF TypeOK, Alert
  <2>4. cooldown \in [DOMAIN cooldown -> 0..MaxClock] /\ DOMAIN cooldown \subseteq Subjects
    BY DEF TypeOK
  <2>5. TypeOK'
    <3>1. DOMAIN cooldown' \subseteq Subjects
      BY <2>1, <2>4, RetainedDomain
    <3>2. cooldown' \in [DOMAIN cooldown' -> 0..MaxClock]
      BY <2>1, <2>3, <2>4, RetainedDomain
    <3>3. sending' \in [Raisers -> Alert \cup {NoAlert}]
      BY <2>2, <2>3 DEF TypeOK
    <3> QED BY <3>1, <3>2, <3>3 DEF TypeOK
  <2>6. SlotsPast'
    BY <2>1, <2>3, <2>4, RetainedDomain DEF SlotsPast
  <2>7. Raised' \subseteq Raised \cup {e}
    <3>1. {sending'[q] : q \in Raisers} \subseteq {sending[q] : q \in Raisers} \cup {e}
      BY <2>2 DEF TypeOK
    <3> QED BY <3>1 DEF Raised, Elements
  <2>8. ASSUME NEW a \in Raised, a.subject = s PROVE now - a.at >= Cooldown
    <3>1. a.at \in Nat /\ Guarded(a)
      BY RaisedIsAlert DEF Alert
    <3>2. CASE s \notin DOMAIN cooldown
      BY <2>8, <3>1, <3>2 DEF Guarded
    <3>3. CASE s \in DOMAIN cooldown
      <4>1. now - cooldown[s] >= Cooldown /\ cooldown[s] \in Nat
        BY <1>3, <2>3, <2>4, <3>3 DEF CoolingDown, Recent
      <4> QED BY <2>3, <2>8, <3>1, <3>3, <4>1 DEF Guarded
    <3> QED BY <3>2, <3>3
  <2>9. ASSUME NEW a \in Raised' PROVE Guarded(a)'
    <3>1. CASE a = e
      BY <2>1, <2>3, <3>1 DEF Guarded
    <3>2. CASE a \in Raised
      <4>1. a.at \in Nat /\ Guarded(a)
        BY <3>2, RaisedIsAlert DEF Alert
      <4>2. CASE a.subject = s
        BY <2>8, <3>2, <4>1, <4>2 DEF Guarded
      <4>3. CASE a.subject # s /\ now - a.at < Cooldown
        <5>1. a.subject \in DOMAIN cooldown /\ cooldown[a.subject] >= a.at
              /\ cooldown[a.subject] \in Nat
          BY <2>3, <2>4, <4>1, <4>3 DEF Guarded
        <5>2. Recent(cooldown[a.subject])
          BY <2>3, <4>1, <4>3, <5>1 DEF Recent
        <5>3. a.subject \in DOMAIN Retained(cooldown)
          BY <5>1, <5>2, RetainedKeepsRecent
        <5> QED BY <2>1, <4>1, <4>3, <5>1, <5>3 DEF Guarded
      <4> QED BY <2>3, <4>1, <4>2, <4>3 DEF Guarded
    <3> QED BY <2>7, <3>1, <3>2
  <2>10. \A q \in Raisers : sending[q] = NoAlert /\ sending'[q] # NoAlert =>
            \A a \in Raised : a.subject = sending'[q].subject => now - a.at >= Cooldown
    <3> SUFFICES ASSUME NEW q \in Raisers, sending[q] = NoAlert, sending'[q] # NoAlert
                 PROVE  sending'[q].subject = s
      BY <2>8
    <3> QED BY <2>2 DEF TypeOK
  <2> QED BY <1>1, <2>5, <2>6, <2>9, <2>10
<1> QED BY <1>2, <1>3

LEMMA TrySendStep ==
    ASSUME IInv, NEW r \in Raisers, TrySend(r)
    PROVE  IInv'
<1> USE DEF IInv
<1>1. sending[r] \in Alert /\ sending[r] # NoAlert
  BY DEF TrySend, TypeOK
<1>2. UNCHANGED <<now, cooldown, scan, hand, notified, pushed, stored, counter>>
  BY DEF TrySend
<1>3. sending' \in [Raisers -> Alert \cup {NoAlert}]
      /\ {sending'[q] : q \in Raisers} \subseteq {sending[q] : q \in Raisers} \cup {NoAlert}
  BY DEF TrySend, TypeOK
<1>4. HandHonest' /\ NotifiedHonest'
  BY <1>2 DEF HandHonest, NotifiedHonest
<1>5. CASE queue' = Append(queue, sending[r]) /\ Len(queue) < QueueDepth /\ dropped' = dropped
  <2>1. queue' \in Seq(Alert) /\ Len(queue') <= QueueDepth
    BY <1>1, <1>5, AlertsAssumption DEF TypeOK
  <2>2. Elements(queue') = Elements(queue) \cup {sending[r]}
    BY <1>1, <1>5, ElementsOfAppend DEF TypeOK
  <2>3. TypeOK'
    BY <1>2, <1>3, <1>5, <2>1 DEF TypeOK
  <2>4. Raised' \subseteq Raised
    BY <1>2, <1>3, <1>5, <2>2 DEF Raised
  <2> QED BY <1>2, <1>4, <2>3, <2>4, NothingRaised
<1>6. CASE dropped' = dropped \cup {sending[r]} /\ queue' = queue
  <2>1. TypeOK'
    BY <1>1, <1>2, <1>3, <1>6 DEF TypeOK
  <2>2. Raised' \subseteq Raised
    BY <1>2, <1>3, <1>6 DEF Raised
  <2> QED BY <1>2, <1>4, <2>1, <2>2, NothingRaised
<1> QED BY <1>5, <1>6 DEF TrySend

LEMMA ScanStep ==
    ASSUME IInv, NEW offenders \in SUBSET Clients, Scan(offenders)
    PROVE  IInv'
<1>1. TypeOK' /\ Raised' = Raised /\ HandHonest' /\ NotifiedHonest'
  BY DEF Scan, IInv, TypeOK, Raised, Elements, HandHonest, NotifiedHonest
<1> QED BY <1>1, NothingRaised DEF Scan

LEMMA ReceiveStep ==
    ASSUME IInv, Receive
    PROVE  IInv'
<1> USE DEF IInv
<1>1. queue \in Seq(Alert) /\ queue # <<>> /\ hand' = Head(queue) /\ queue' = Tail(queue)
      /\ hand = NoAlert
  BY DEF Receive, TypeOK
<1>2. Elements(queue') \subseteq Elements(queue) /\ hand' \in Elements(queue)
  BY <1>1, ElementsOfTail
<1>3. hand' \in Alert /\ queue' \in Seq(Alert) /\ Len(queue') <= QueueDepth
  BY <1>1, AlertsAssumption DEF TypeOK
<1>4. TypeOK'
  BY <1>3 DEF Receive, TypeOK
<1>5. Raised' \subseteq Raised
  BY <1>2 DEF Receive, Raised
<1>6. HandHonest' /\ NotifiedHonest'
  BY <1>3, NoAlertIsNone DEF Receive, HandHonest, NotifiedHonest
<1> QED BY <1>4, <1>5, <1>6, NothingRaised DEF Receive

LEMMA NotifyStep ==
    ASSUME IInv, NEW accepted \in BOOLEAN, NEW answered \in BOOLEAN,
           Notify(accepted, answered)
    PROVE  IInv'
<1> USE DEF IInv
<1>1. hand \in Alert /\ hand' = hand /\ hand # NoAlert
  BY DEF Notify, HandHonest, TypeOK
<1>2. TypeOK'
  BY <1>1 DEF Notify, TypeOK
<1>3. Raised' = Raised
  BY DEF Notify, Raised, Elements
<1>4. HandHonest' /\ NotifiedHonest'
  BY <1>1 DEF Notify, HandHonest, NotifiedHonest
<1> QED BY <1>2, <1>3, <1>4, NothingRaised DEF Notify

LEMMA StoreStep ==
    ASSUME IInv, NEW accepted \in BOOLEAN, Store(accepted)
    PROVE  IInv'
<1> USE DEF IInv
<1>1. hand \in Alert /\ hand' = NoAlert /\ notified' = "no"
      /\ UNCHANGED <<now, cooldown, sending, scan, queue, pushed>>
  BY DEF Store, TypeOK
<1>2. HandHonest'
  BY <1>1 DEF HandHonest
<1>3. CASE accepted
  <2> DEFINE new == [alert |-> hand, notified |-> notified = "yes"]
  <2>1. stored' = stored \cup {new} /\ UNCHANGED <<dropped, counter>>
    BY <1>3 DEF Store
  <2>2. new \in [alert : Alert, notified : BOOLEAN] /\ new.alert = hand
        /\ new.notified = (notified = "yes")
    BY <1>1
  <2> HIDE DEF new
  <2>3. TypeOK'
    BY <1>1, <2>1, <2>2 DEF TypeOK
  <2>4. Raised' \subseteq Raised
    <3>1. {x.alert : x \in stored'} = {x.alert : x \in stored} \cup {hand}
      BY <2>1, <2>2
    <3> QED BY <1>1, <2>1, <3>1 DEF Raised, Elements
  <2>5. NotifiedHonest'
    BY <1>1, <2>1, <2>2 DEF NotifiedHonest, HandHonest
  <2> QED BY <1>1, <1>2, <2>3, <2>4, <2>5, NothingRaised
<1>4. CASE ~accepted
  <2>1. dropped' = dropped \cup {hand} /\ counter' = counter + 1 /\ stored' = stored
    BY <1>4 DEF Store
  <2>2. TypeOK'
    BY <1>1, <2>1 DEF TypeOK
  <2>3. Raised' \subseteq Raised
    BY <1>1, <2>1 DEF Raised, Elements
  <2>4. NotifiedHonest'
    BY <1>1, <2>1 DEF NotifiedHonest
  <2> QED BY <1>1, <1>2, <2>2, <2>3, <2>4, NothingRaised
<1> QED BY <1>3, <1>4

(* Time only widens the distance to what was raised. *)
LEMMA TickStep ==
    ASSUME IInv, Tick
    PROVE  IInv'
<1> USE DEF IInv
<1>1. now \in Nat /\ now' = now + 1 /\ now' \in 0..MaxClock /\ Cooldown \in Nat
  BY AlertsAssumption DEF Tick, TypeOK
<1>2. UNCHANGED <<cooldown, sending, scan, queue, hand, notified, pushed,
                  stored, dropped, counter>>
  BY DEF Tick
<1>3. TypeOK'
  BY <1>1, <1>2 DEF TypeOK
<1>4. Raised' = Raised
  BY <1>2 DEF Raised, Elements
<1>5. SlotsPast'
  BY <1>1, <1>2 DEF SlotsPast, TypeOK
<1>6. HandHonest' /\ NotifiedHonest'
  BY <1>2 DEF HandHonest, NotifiedHonest
<1>7. ASSUME NEW a \in Raised' PROVE Guarded(a)'
  <2>1. a.at \in Nat /\ Guarded(a)
    BY <1>4, RaisedIsAlert DEF Alert
  <2> QED BY <1>1, <1>2, <2>1 DEF Guarded
<1> QED BY <1>3, <1>5, <1>6, <1>7

----------------------------------------------------------------------------
(* The theorems about alerting *)

(* A step keeps the invariant, and takes a slot only for a subject that    *)
(* has none within its cooldown.                                           *)
LEMMA NextPreserves ==
    ASSUME IInv, [Next]_vars
    PROVE  /\ IInv'
           /\ \A q \in Raisers : sending[q] = NoAlert /\ sending'[q] # NoAlert =>
                 \A a \in Raised :
                     a.subject = sending'[q].subject => now - a.at >= Cooldown
<1>1. CASE \E s \in Devices : RaiseNewDevice(s)
  <2> PICK s \in Devices : RaiseNewDevice(s)
    BY <1>1
  <2>1. scan' \subseteq Clients
    BY DEF RaiseNewDevice, IInv, TypeOK
  <2> QED BY <2>1, TakeSlotStep DEF RaiseNewDevice, Raisers, Subjects
<1>2. CASE \E s \in Clients : RaiseStorm(s)
  <2> PICK s \in Clients : RaiseStorm(s)
    BY <1>2
  <2>1. scan' \subseteq Clients
    BY DEF RaiseStorm, IInv, TypeOK
  <2> QED BY <2>1, TakeSlotStep DEF RaiseStorm, Raisers, Subjects
<1>3. CASE \E r \in Raisers : TrySend(r)
  <2> PICK r \in Raisers : TrySend(r)
    BY <1>3
  <2>1. \A q \in Raisers : sending'[q] \in {sending[q], NoAlert}
    BY DEF TrySend, IInv, TypeOK
  <2> QED BY <2>1, TrySendStep
<1>4. CASE \E offenders \in SUBSET Clients : Scan(offenders)
  BY <1>4, ScanStep DEF Scan
<1>5. CASE Drain
  <2>1. sending' = sending
    BY <1>5 DEF Drain, Receive, Notify, Store
  <2>2. IInv'
    BY <1>5, ReceiveStep, NotifyStep, StoreStep DEF Drain
  <2> QED BY <2>1, <2>2
<1>6. CASE Tick
  BY <1>6, TickStep DEF Tick
<1>7. CASE UNCHANGED vars
  BY <1>7 DEF vars, IInv, TypeOK, SlotsPast, HandHonest, NotifiedHonest, Guarded,
              Raised, Elements
<1> QED BY <1>1, <1>2, <1>3, <1>4, <1>5, <1>6, <1>7 DEF Next

LEMMA InitIsSound == Init => IInv
<1> SUFFICES ASSUME Init PROVE IInv
  OBVIOUS
<1>1. TypeOK
  BY AlertsAssumption DEF Init, TypeOK
<1>2. Raised = {}
  BY DEF Init, Raised, Elements
<1> QED BY <1>1, <1>2 DEF Init, IInv, SlotsPast, HandHonest, NotifiedHonest

(* The strengthened invariant holds in every reachable state. *)
THEOREM Invariance == Spec => []IInv
<1>1. IInv /\ [Next]_vars => IInv'
  BY NextPreserves
<1> QED BY <1>1, InitIsSound, PTL DEF Spec

(* The queue keeps its bound, the map its slots, and every other variable  *)
(* its type.                                                               *)
THEOREM TypeCorrect == Spec => []TypeOK
<1>1. IInv => TypeOK
  BY DEF IInv
<1> QED BY <1>1, Invariance, PTL

(* A row says "notified" only for an alert that ntfy accepted. *)
THEOREM NoPushClaimedInVain == Spec => []NotifiedHonest
<1>1. IInv => NotifiedHonest
  BY DEF IInv
<1> QED BY <1>1, Invariance, PTL

(* A subject takes no second slot within its cooldown, whatever became of  *)
(* its earlier alert and however the map was thinned out.                  *)
THEOREM OncePerCooldown == Spec => CooldownHolds
<1>1. IInv /\ [Next]_vars =>
        [\A r \in Raisers :
          sending[r] = NoAlert /\ sending'[r] # NoAlert =>
              \A a \in Raised :
                  a.subject = sending'[r].subject => now - a.at >= Cooldown]_vars
  BY NextPreserves
<1>2. Spec => [][\A r \in Raisers :
          sending[r] = NoAlert /\ sending'[r] # NoAlert =>
              \A a \in Raised :
                  a.subject = sending'[r].subject => now - a.at >= Cooldown]_vars
  BY <1>1, Invariance, PTL DEF Spec
<1> QED BY <1>2 DEF CooldownHolds

----------------------------------------------------------------------------
(* The sampler *)

Reading == 0..(CounterSize - 1)

SamplerTypes ==
    /\ rx \in [Ifaces -> Reading \cup {Absent}]
    /\ last \in [Ifaces -> Reading \cup {Absent}]
    /\ elapsed \in [Ifaces -> Nat]
    /\ carried \in [Ifaces -> Nat]

(* A counter is never further ahead of its last reading than the traffic   *)
(* since: wrapping and replacement only set it back.                       *)
NotAhead ==
    \A i \in Ifaces :
        (rx[i] # Absent /\ last[i] # Absent) => rx[i] <= last[i] + carried[i]

SamplerInv == SamplerTypes /\ NotAhead /\ NeverOverstates

(* A rate times its time is no more than the bits it was made from. *)
LEMMA RateTimesTime ==
    ASSUME NEW b \in Nat, NEW e \in Nat \ {0}
    PROVE  (b \div e) * e <= b
OBVIOUS

(* A counter modulo its size is no more than the plain sum. *)
LEMMA WrapsBack ==
    ASSUME NEW b \in Nat
    PROVE  b % CounterSize \in Reading /\ b % CounterSize <= b
<1>1. CounterSize \in Nat \ {0}
  BY SamplerAssumption
<1>2. b % CounterSize \in 0..(CounterSize - 1) /\ b \div CounterSize \in Nat
  BY <1>1
<1>3. (b \div CounterSize) * CounterSize \in Nat
  BY <1>1, <1>2
<1>4. b % CounterSize = b - (b \div CounterSize) * CounterSize
  BY <1>1
<1>5. b % CounterSize <= b
  BY <1>2, <1>3, <1>4
<1> QED BY <1>2, <1>5 DEF Reading

(* Without a sample the chart gets nothing. *)
LEMMA NoRowIsFine ==
    ASSUME row' = [i \in Ifaces |-> NoRow]
    PROVE  NeverOverstates'
BY DEF NeverOverstates, NoRow

LEMMA SampleStep ==
    ASSUME SamplerInv, Sample
    PROVE  SamplerInv'
<1> USE DEF SamplerInv
<1>1. Kept \subseteq Ifaces /\ \A i \in Kept : rx[i] \in Reading /\ rx[i] # Absent
  BY DEF Kept, Listed, SamplerTypes
<1>2. SamplerTypes'
  BY <1>1 DEF Sample, SamplerTypes
<1>3. NotAhead'
  <2> SUFFICES ASSUME NEW i \in Ifaces, rx'[i] # Absent, last'[i] # Absent
               PROVE  rx'[i] <= last'[i] + carried'[i]
    BY DEF NotAhead
  <2>1. CASE i \in Kept
    BY <1>1, <2>1, SamplerAssumption DEF Sample, Reading
  <2>2. CASE i \notin Kept
    BY <2>2 DEF Sample, NotAhead
  <2> QED BY <2>1, <2>2
<1>4. NeverOverstates'
  <2> SUFFICES ASSUME NEW i \in Ifaces
               PROVE  row'[i].bps * row'[i].secs <= 8 * row'[i].bytes
    BY DEF NeverOverstates
  <2>1. CASE i \in Kept /\ last[i] # Absent
    <3> DEFINE d == Delta(rx[i], last[i])
    <3>1. rx[i] \in Nat /\ last[i] \in Nat /\ carried[i] \in Nat /\ elapsed[i] \in Nat \ {0}
      BY <1>1, <2>1, SamplerAssumption DEF SamplerTypes, Reading, Kept
    <3>2. rx[i] <= last[i] + carried[i]
      BY <1>1, <2>1 DEF NotAhead
    <3>3. d \in Nat /\ d <= carried[i]
      BY <3>1, <3>2 DEF Delta
    <3>4. row'[i].bps = (8 * d) \div elapsed[i] /\ row'[i].secs = elapsed[i]
          /\ row'[i].bytes = carried[i]
      BY <2>1 DEF Sample
    <3> HIDE DEF d
    <3>5. 8 * d \in Nat /\ 8 * d <= 8 * carried[i]
      BY <3>1, <3>3
    <3>6. ((8 * d) \div elapsed[i]) * elapsed[i] <= 8 * d
      BY <3>1, <3>5, RateTimesTime
    <3>7. ((8 * d) \div elapsed[i]) * elapsed[i] \in Int
      BY <3>1, <3>5
    <3> QED BY <3>1, <3>4, <3>5, <3>6, <3>7
  <2>2. CASE ~(i \in Kept /\ last[i] # Absent)
    BY <2>2 DEF Sample, NoRow
  <2> QED BY <2>1, <2>2
<1> QED BY <1>2, <1>3, <1>4

LEMMA TrafficStep ==
    ASSUME SamplerInv, NEW i \in Ifaces, NEW n \in 1..MaxCarried, Traffic(i, n)
    PROVE  SamplerInv'
<1> USE DEF SamplerInv
<1>1. rx[i] \in Nat /\ n \in Nat /\ carried[i] \in Nat
  BY SamplerAssumption DEF Traffic, SamplerTypes, Reading
<1>2. rx'[i] \in Reading /\ rx'[i] <= rx[i] + n /\ rx'[i] \in Nat
  <2>1. rx'[i] = (rx[i] + n) % CounterSize /\ rx[i] + n \in Nat
    BY <1>1 DEF Traffic, SamplerTypes
  <2>2. rx'[i] \in Reading /\ rx'[i] <= rx[i] + n
    BY <2>1, WrapsBack
  <2> QED BY <2>2, SamplerAssumption DEF Reading
<1>3. SamplerTypes'
  BY <1>1, <1>2 DEF Traffic, SamplerTypes
<1>4. NotAhead'
  <2> SUFFICES ASSUME NEW j \in Ifaces, rx'[j] # Absent, last'[j] # Absent
               PROVE  rx'[j] <= last'[j] + carried'[j]
    BY DEF NotAhead
  <2>1. CASE j = i
    <3>1. last[i] \in Nat /\ last'[i] = last[i] /\ carried'[i] = carried[i] + n
      BY <2>1, SamplerAssumption DEF Traffic, SamplerTypes, Reading
    <3>2. rx[i] <= last[i] + carried[i]
      BY <2>1, <3>1 DEF Traffic, NotAhead
    <3> QED BY <1>1, <1>2, <2>1, <3>1, <3>2
  <2>2. CASE j # i
    BY <2>2 DEF Traffic, NotAhead, SamplerTypes
  <2> QED BY <2>1, <2>2
<1> QED BY <1>3, <1>4, NoRowIsFine DEF Traffic

LEMMA SamplerNextPreserves ==
    ASSUME SamplerInv, [SamplerNext]_samplerVars
    PROVE  SamplerInv'
<1> USE DEF SamplerInv
<1>1. CASE SampleFails
  BY <1>1, NoRowIsFine DEF SampleFails, SamplerTypes, NotAhead
<1>2. CASE SecondPasses
  <2>1. SamplerTypes'
    BY <1>2 DEF SecondPasses, SamplerTypes
  <2> QED BY <1>2, <2>1, NoRowIsFine DEF SecondPasses, NotAhead
<1>3. ASSUME NEW i \in Ifaces, IfaceGoes(i) PROVE SamplerInv'
  <2>1. SamplerTypes' /\ NotAhead'
    BY <1>3 DEF IfaceGoes, SamplerTypes, NotAhead
  <2> QED BY <1>3, <2>1, NoRowIsFine DEF IfaceGoes
<1>4. ASSUME NEW i \in Ifaces, IfaceComes(i) PROVE SamplerInv'
  <2>1. SamplerTypes'
    BY <1>4, SamplerAssumption DEF IfaceComes, SamplerTypes, Reading
  <2>2. NotAhead'
    BY <1>4, SamplerAssumption DEF IfaceComes, SamplerTypes, Reading, NotAhead
  <2> QED BY <1>4, <2>1, <2>2, NoRowIsFine DEF IfaceComes
<1>5. CASE UNCHANGED samplerVars
  BY <1>5 DEF samplerVars, SamplerTypes, NotAhead, NeverOverstates
<1> QED BY <1>1, <1>2, <1>3, <1>4, <1>5, SampleStep, TrafficStep DEF SamplerNext

(* No sample shows more than was really carried since the reading before   *)
(* it, through wrapped counters, replaced interfaces and failed readings.  *)
THEOREM SamplesNeverOverstate == SamplerSpec => []NeverOverstates
<1>1. SamplerInit => SamplerInv
  BY SamplerAssumption DEF SamplerInit, SamplerInv, SamplerTypes, NotAhead,
     NeverOverstates, Reading, NoRow
<1>2. SamplerInv /\ [SamplerNext]_samplerVars => SamplerInv'
  BY SamplerNextPreserves
<1>3. SamplerInv => NeverOverstates
  BY DEF SamplerInv
<1> QED BY <1>1, <1>2, <1>3, PTL DEF SamplerSpec
=============================================================================
