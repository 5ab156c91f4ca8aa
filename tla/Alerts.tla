-------------------------------- MODULE Alerts --------------------------------
(***************************************************************************)
(* Alerting, alerts.rs: the sink with its cooldown, the bounded queue, the *)
(* task that pushes an alert to ntfy and hands it to the database writer,  *)
(* and the watcher that scans for NXDOMAIN storms.                         *)
(*                                                                         *)
(* An alert is told apart by its subject (of a kind: a device's MAC or a   *)
(* client's address) and by the time it took its cooldown slot.  The       *)
(* cooldown map is behind a mutex; the queue is entered after the mutex is *)
(* released, so two raisers may enter it in either order.                  *)
(***************************************************************************)
EXTENDS Integers, Sequences, FiniteSets

CONSTANTS
    Devices,      \* subjects discovery raises new_device for
    Clients,      \* subjects the storm watcher raises nxdomain_storm for
    Discovery,    \* the thread in observe()
    Watcher,      \* the storm_watcher task
    QueueDepth,   \* QUEUE_DEPTH, 256 in the code
    MapLimit,     \* 4096 in the code
    Cooldown,     \* alerts.cooldown_mins
    PushEnabled,  \* whether alerts.ntfy_url is set
    MaxClock,     \* bound on the clock
    NoAlert

ASSUME AlertsAssumption ==
    /\ Devices \cap Clients = {}
    /\ Discovery # Watcher
    /\ QueueDepth \in Nat \ {0} /\ MapLimit \in Nat
    /\ Cooldown \in Nat \ {0} /\ MaxClock \in Nat
    /\ PushEnabled \in BOOLEAN
    /\ NoAlert \notin [subject : Devices \cup Clients, at : Nat]

VARIABLES
    now,        \* Instant::now()
    cooldown,   \* the map: subject -> when it last took a slot
    sending,    \* the alert each raiser is about to enqueue
    scan,       \* offenders the watcher has still to raise
    queue,      \* the channel
    hand,       \* the alert the task has taken from it
    notified,   \* what notify() returned for it
    pushed,     \* alerts ntfy accepted
    stored,     \* rows handed to the writer's queue
    dropped,    \* history: alerts that were lost on the way
    counter     \* DropCounts.alerts

vars == <<now, cooldown, sending, scan, queue, hand, notified, pushed, stored,
          dropped, counter>>

Subjects == Devices \cup Clients

Raisers == {Discovery, Watcher}

Alert == [subject : Subjects, at : Nat]

----------------------------------------------------------------------------
(* AlertSink::raise *)

Recent(at) == now - at < Cooldown

(* Faulty variant: the recent entries are the ones that go. *)
RetainedOld(map) ==
    LET keep == IF Cardinality(DOMAIN map) > MapLimit
                THEN {s \in DOMAIN map : ~Recent(map[s])} ELSE DOMAIN map
    IN  [s \in keep |-> map[s]]

(* Past the limit, entries past their cooldown go. *)
Retained(map) ==
    LET keep == IF Cardinality(DOMAIN map) > MapLimit
                THEN {s \in DOMAIN map : Recent(map[s])} ELSE DOMAIN map
    IN  [s \in keep |-> map[s]]

CoolingDown(s) == s \in DOMAIN cooldown /\ Recent(cooldown[s])

(* take_cooldown_slot; without a slot raise() returns. *)
TakeSlot(r, s) ==
    /\ sending[r] = NoAlert
    /\ \/ /\ CoolingDown(s)
          /\ UNCHANGED <<cooldown, sending>>
       \/ /\ ~CoolingDown(s)
          /\ cooldown' = [x \in DOMAIN Retained(cooldown) \cup {s} |->
                             IF x = s THEN now ELSE cooldown[x]]
          /\ sending' = [sending EXCEPT ![r] = [subject |-> s, at |-> now]]

RaiseNewDevice(s) ==
    /\ TakeSlot(Discovery, s)
    /\ UNCHANGED <<now, scan, queue, hand, notified, pushed, stored, dropped, counter>>

(* Faulty variant: the queue has no bound. *)
TrySendUnbounded(r) ==
    /\ sending[r] # NoAlert
    /\ sending' = [sending EXCEPT ![r] = NoAlert]
    /\ queue' = Append(queue, sending[r])
    /\ UNCHANGED <<now, cooldown, scan, hand, notified, pushed, stored, dropped, counter>>

(* try_send: a full queue loses the alert. *)
TrySend(r) ==
    /\ sending[r] # NoAlert
    /\ sending' = [sending EXCEPT ![r] = NoAlert]
    /\ \/ /\ Len(queue) < QueueDepth
          /\ queue' = Append(queue, sending[r])
          /\ UNCHANGED dropped
       \/ /\ Len(queue) = QueueDepth
          /\ dropped' = dropped \cup {sending[r]}
          /\ UNCHANGED queue
    /\ UNCHANGED <<now, cooldown, scan, hand, notified, pushed, stored, counter>>

----------------------------------------------------------------------------
(* storm_watcher: one scan after the other; the database says who offends. *)

Scan(offenders) ==
    /\ scan = {}
    /\ sending[Watcher] = NoAlert
    /\ scan' = offenders
    /\ UNCHANGED <<now, cooldown, sending, queue, hand, notified, pushed,
                   stored, dropped, counter>>

RaiseStorm(s) ==
    /\ s \in scan
    /\ scan' = scan \ {s}
    /\ TakeSlot(Watcher, s)
    /\ UNCHANGED <<now, queue, hand, notified, pushed, stored, dropped, counter>>

----------------------------------------------------------------------------
(* The task that drains the queue *)

Receive ==
    /\ hand = NoAlert
    /\ queue # <<>>
    /\ hand' = Head(queue)
    /\ queue' = Tail(queue)
    /\ notified' = IF PushEnabled THEN "pending" ELSE "no"
    /\ UNCHANGED <<now, cooldown, sending, scan, pushed, stored, dropped, counter>>

(* notify(): accepted; or accepted without the reply arriving before the   *)
(* timeout; or refused or unreachable.                                     *)
Notify(accepted, answered) ==
    /\ notified = "pending"
    /\ notified' = IF accepted /\ answered THEN "yes" ELSE "no"
    /\ pushed' = IF accepted THEN pushed \cup {hand} ELSE pushed
    /\ UNCHANGED <<now, cooldown, sending, scan, queue, hand, stored, dropped, counter>>

(* Faulty variant: an alert that could not be pushed is not stored. *)
StoreIfPushed(accepted) ==
    /\ hand # NoAlert
    /\ notified # "pending"
    /\ hand' = NoAlert
    /\ notified' = "no"
    /\ IF accepted /\ notified = "yes"
       THEN stored' = stored \cup {[alert |-> hand, notified |-> TRUE]}
       ELSE UNCHANGED stored
    /\ UNCHANGED <<now, cooldown, sending, scan, queue, pushed, dropped, counter>>

(* Faulty variant: a push that was tried is recorded as made. *)
StoreOptimist(accepted) ==
    /\ hand # NoAlert
    /\ notified # "pending"
    /\ hand' = NoAlert
    /\ notified' = "no"
    /\ stored' = stored \cup {[alert |-> hand, notified |-> PushEnabled]}
    /\ UNCHANGED <<now, cooldown, sending, scan, queue, pushed, dropped, counter>>

(* writer.send: accepted by the writer's queue, or dropped and counted. *)
Store(accepted) ==
    /\ hand # NoAlert
    /\ notified # "pending"
    /\ hand' = NoAlert
    /\ notified' = "no"
    /\ \/ /\ accepted
          /\ stored' = stored \cup {[alert |-> hand, notified |-> notified = "yes"]}
          /\ UNCHANGED <<dropped, counter>>
       \/ /\ ~accepted
          /\ dropped' = dropped \cup {hand}
          /\ counter' = counter + 1
          /\ UNCHANGED stored
    /\ UNCHANGED <<now, cooldown, sending, scan, queue, pushed>>

Tick ==
    /\ now < MaxClock
    /\ now' = now + 1
    /\ UNCHANGED <<cooldown, sending, scan, queue, hand, notified, pushed,
                   stored, dropped, counter>>

----------------------------------------------------------------------------
Init ==
    /\ now = 0
    /\ cooldown = [s \in {} |-> 0]
    /\ sending = [r \in Raisers |-> NoAlert]
    /\ scan = {}
    /\ queue = <<>>
    /\ hand = NoAlert
    /\ notified = "no"
    /\ pushed = {}
    /\ stored = {}
    /\ dropped = {}
    /\ counter = 0

Drain ==
    \/ Receive
    \/ \E accepted, answered \in BOOLEAN : Notify(accepted, answered)
    \/ \E accepted \in BOOLEAN : Store(accepted)

Next ==
    \/ \E s \in Devices : RaiseNewDevice(s)
    \/ \E offenders \in SUBSET Clients : Scan(offenders)
    \/ \E s \in Clients : RaiseStorm(s)
    \/ \E r \in Raisers : TrySend(r)
    \/ Drain
    \/ Tick

Spec == Init /\ [][Next]_vars

(* The task runs on, and a push ends within NOTIFY_TIMEOUT. *)
Fairness == WF_vars(Drain)

FairSpec == Spec /\ Fairness

----------------------------------------------------------------------------
(* Properties *)

TypeOK ==
    /\ now \in 0..MaxClock
    /\ DOMAIN cooldown \subseteq Subjects
    /\ cooldown \in [DOMAIN cooldown -> 0..MaxClock]
    /\ sending \in [Raisers -> Alert \cup {NoAlert}]
    /\ scan \subseteq Clients
    /\ queue \in Seq(Alert) /\ Len(queue) <= QueueDepth
    /\ hand \in Alert \cup {NoAlert}
    /\ notified \in {"no", "pending", "yes"}
    /\ pushed \subseteq Alert
    /\ stored \subseteq [alert : Alert, notified : BOOLEAN]
    /\ dropped \subseteq Alert
    /\ counter \in Nat

Elements(seq) == {seq[i] : i \in 1..Len(seq)}

(* Every alert that took a slot. *)
Raised ==
    ({sending[r] : r \in Raisers} \cup Elements(queue) \cup {hand}
        \cup {row.alert : row \in stored} \cup dropped) \ {NoAlert}

(* "A persistent condition alerts once per cooldown_mins": whatever became *)
(* of the earlier alert, and however the map was thinned out meanwhile, a  *)
(* subject takes no second slot within its cooldown.                       *)
CooldownHolds ==
    [][\A r \in Raisers :
          sending[r] = NoAlert /\ sending'[r] # NoAlert =>
              \A a \in Raised :
                  a.subject = sending'[r].subject => now - a.at >= Cooldown]_vars

(* The dashboard does not claim a push that ntfy never accepted. *)
NotifiedHonest == \A row \in stored : row.notified => row.alert \in pushed

(* "a failed push must never lose the alert": an alert in the queue is     *)
(* eventually handed to the writer, or counted when that refuses it,       *)
(* whatever ntfy does.                                                     *)
RecordedOrCounted ==
    \A s \in Subjects, at \in 0..MaxClock :
        LET a == [subject |-> s, at |-> at]
        IN  a \in Elements(queue) ~>
                \/ \E row \in stored : row.alert = a
                \/ a \in dropped /\ counter > 0
=============================================================================
