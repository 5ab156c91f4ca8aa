-------------------------------- MODULE Writer --------------------------------
(***************************************************************************)
(* The database writer of db.rs: a bounded queue that producers never wait *)
(* on, the thread that collects a batch from it, the transaction that      *)
(* writes the batch, and the device table with its upsert.                 *)
(*                                                                         *)
(* Readers have a connection of their own and see committed rows only:     *)
(* db is what they see, staged what the open transaction would commit.     *)
(* Queries, samples and alerts are inserted and never updated, and are one *)
(* table of numbered events here, keyed by the AUTOINCREMENT id of queries *)
(* and alerts; nothing reads the row ids of samples.  A device row keeps   *)
(* the address and the hostname; vendor and randomized follow from the     *)
(* MAC, first_seen and last_seen are times nobody decides by.  Maintenance *)
(* frees pages and changes no row.                                         *)
(***************************************************************************)
EXTENDS Integers, Sequences, FiniteSets

CONSTANTS
    Macs, Ips, Names,
    NoIp, NoName,        \* None in the optional columns
    QueueDepth,          \* capacity of the channel, 8192 in the code
    BatchSize,           \* most operations of one transaction, 512
    MaxSent              \* bound on the number of events

ASSUME WriterAssumption ==
    /\ NoIp \notin Ips /\ NoName \notin Names
    /\ QueueDepth \in Nat \ {0} /\ BatchSize \in Nat \ {0}
    /\ MaxSent \in Nat

VARIABLES
    queue,     \* the channel
    phase,     \* "recv", "drain", "flush" or "prune"
    pending,   \* the batch
    done,      \* how much of the batch the flush has executed
    staged,    \* the database as the open transaction sees it
    db,        \* the database as committed
    sent       \* events submitted so far; the number of the last one

thread == <<phase, pending, done, staged, db>>
vars == <<queue, thread, sent>>

----------------------------------------------------------------------------
DeviceOp == [kind : {"device"}, mac : Macs, ip : Ips \cup {NoIp},
             hostname : Names \cup {NoName}]

EventOp == [kind : {"event"}, id : Nat]

WriteOp == DeviceOp \cup EventOp

Row == [ip : Ips \cup {NoIp}, hostname : Names \cup {NoName}]

EmptyDb == [devices |-> [m \in {} |-> [ip |-> NoIp, hostname |-> NoName]],
            events  |-> [r \in {} |-> 0],   \* row id -> event
            last    |-> 0]                  \* the last row id given out

(* Faulty variant: an unbounded channel. *)
SendUnbounded(op) == queue' = Append(queue, op)

(* Writer::send: a full queue drops the operation (and counts it). *)
Send(op) ==
    \/ /\ Len(queue) < QueueDepth
       /\ queue' = Append(queue, op)
    \/ /\ Len(queue) >= QueueDepth
       /\ UNCHANGED queue

----------------------------------------------------------------------------
(* The statements of flush *)

Coalesce(new, old, null) == IF new = null THEN old ELSE new

(* Faulty variant: the previous holder keeps the address. *)
ReleaseNothing(devices, op) == devices

(* UPDATE devices SET ip = NULL WHERE ip = ?1 AND mac != ?2; an operation  *)
(* without an address releases none.                                       *)
ReleaseIp(devices, op) ==
    [m \in DOMAIN devices |->
        IF op.ip # NoIp /\ m # op.mac /\ devices[m].ip = op.ip
        THEN [devices[m] EXCEPT !.ip = NoIp]
        ELSE devices[m]]

(* INSERT ... ON CONFLICT(mac) DO UPDATE: null columns keep their value. *)
Upsert(devices, op) ==
    [m \in DOMAIN devices \cup {op.mac} |->
        IF m # op.mac THEN devices[m]
        ELSE IF m \notin DOMAIN devices
             THEN [ip |-> op.ip, hostname |-> op.hostname]
             ELSE [ip       |-> Coalesce(op.ip, devices[m].ip, NoIp),
                   hostname |-> Coalesce(op.hostname, devices[m].hostname, NoName)]]

Execute(base, op) ==
    IF op.kind = "device"
    THEN [devices |-> Upsert(ReleaseIp(base.devices, op), op),
          events  |-> base.events,
          last    |-> base.last]
    ELSE [devices |-> base.devices,
          events  |-> [r \in DOMAIN base.events \cup {base.last + 1} |->
                          IF r = base.last + 1 THEN op.id ELSE base.events[r]],
          last    |-> base.last + 1]

----------------------------------------------------------------------------
(* The writer thread *)

TakeFromQueue ==
    /\ queue # <<>>
    /\ pending' = Append(pending, Head(queue))
    /\ queue' = Tail(queue)

(* rx.recv() *)
Recv ==
    /\ phase = "recv"
    /\ TakeFromQueue
    /\ phase' = "drain"
    /\ UNCHANGED <<done, staged, db, sent>>

(* rx.recv_timeout() *)
Drain ==
    /\ phase = "drain"
    /\ Len(pending) < BatchSize
    /\ TakeFromQueue
    /\ UNCHANGED <<phase, done, staged, db, sent>>

(* The batch is full or flush_interval is over: open the transaction. *)
BeginFlush ==
    /\ phase = "drain"
    /\ phase' = "flush"
    /\ staged' = db
    /\ UNCHANGED <<queue, pending, done, db, sent>>

ExecuteNext ==
    /\ phase = "flush"
    /\ done < Len(pending)
    /\ staged' = Execute(staged, pending[done + 1])
    /\ done' = done + 1
    /\ UNCHANGED <<queue, phase, pending, db, sent>>

(* The transaction is over and pending.clear() forgets the batch. *)
EndFlush ==
    /\ phase = "flush"
    /\ phase' = "prune"
    /\ pending' = <<>>
    /\ done' = 0
    /\ staged' = EmptyDb

Commit ==
    /\ done = Len(pending)
    /\ db' = staged
    /\ EndFlush
    /\ UNCHANGED <<queue, sent>>

(* Faulty variant: the statements run without a transaction around them. *)
FlushFailsHalfDone ==
    /\ db' = staged
    /\ EndFlush
    /\ UNCHANGED <<queue, sent>>

(* Faulty variant: a failed batch goes back to the end of the queue. *)
FlushFailsRequeues ==
    /\ queue' = queue \o pending
    /\ EndFlush
    /\ UNCHANGED <<db, sent>>

(* Faulty variant: a failed batch is tried again until it succeeds. *)
FlushFailsRetries ==
    /\ phase = "flush"
    /\ done' = 0
    /\ staged' = db
    /\ UNCHANGED <<queue, phase, pending, db, sent>>

(* A statement or the commit fails: rolled back, and the batch is lost. *)
FlushFails ==
    /\ EndFlush
    /\ UNCHANGED <<queue, db, sent>>

(* Once an hour prune() deletes the rows past their retention, which       *)
(* differs between kinds of event; at other times nothing is deleted.      *)
Prune(old) ==
    /\ phase = "prune"
    /\ phase' = "recv"
    /\ db' = [db EXCEPT !.events =
                 [r \in {q \in DOMAIN @ : @[q] \notin old} |-> @[r]]]
    /\ UNCHANGED <<queue, pending, done, staged, sent>>

(* The process dies: what was not committed is gone. *)
Crash ==
    /\ queue' = <<>>
    /\ phase' = "recv"
    /\ pending' = <<>>
    /\ done' = 0
    /\ staged' = EmptyDb
    /\ UNCHANGED <<db, sent>>

----------------------------------------------------------------------------
(* The producers *)

SubmitDevice(op) ==
    /\ Send(op)
    /\ UNCHANGED <<thread, sent>>

SubmitEvent ==
    /\ sent < MaxSent
    /\ sent' = sent + 1
    /\ Send([kind |-> "event", id |-> sent + 1])
    /\ UNCHANGED thread

Init ==
    /\ queue = <<>>
    /\ phase = "recv"
    /\ pending = <<>>
    /\ done = 0
    /\ staged = EmptyDb
    /\ db = EmptyDb
    /\ sent = 0

WriterStep ==
    \/ Recv \/ Drain \/ BeginFlush \/ ExecuteNext \/ Commit \/ FlushFails
    \/ \E old \in SUBSET (1..sent) : Prune(old)

Next ==
    \/ \E op \in DeviceOp : SubmitDevice(op)
    \/ SubmitEvent
    \/ WriterStep
    \/ Crash

Spec == Init /\ [][Next]_vars

(* The thread runs; a flush ends with one result or the other. *)
FairSpec == Spec /\ WF_vars(WriterStep)

----------------------------------------------------------------------------
(* Properties *)

DevicesTable(devices) ==
    /\ DOMAIN devices \subseteq Macs
    /\ devices \in [DOMAIN devices -> Row]

Database(base) ==
    /\ DOMAIN base = {"devices", "events", "last"}
    /\ DevicesTable(base.devices)
    /\ base.last \in Nat
    /\ DOMAIN base.events \subseteq 1..base.last
    /\ base.events \in [DOMAIN base.events -> Nat]

TypeOK ==
    /\ queue \in Seq(WriteOp) /\ Len(queue) <= QueueDepth
    /\ phase \in {"recv", "drain", "flush", "prune"}
    /\ pending \in Seq(WriteOp) /\ Len(pending) <= BatchSize
    /\ done \in 0..Len(pending)
    /\ Database(staged)
    /\ Database(db)
    /\ sent \in 0..MaxSent

OneHolder(devices) ==
    \A m, n \in DOMAIN devices :
        devices[m].ip = devices[n].ip /\ devices[m].ip # NoIp => m = n

(* "An IP belongs to one device at a time": no two rows of the device      *)
(* table share an address, however addresses move and operations repeat,   *)
(* so that the joins on it attribute a query to one device.                *)
UniqueIp == OneHolder(db.devices)

Stored(base) == {base.events[r] : r \in DOMAIN base.events}

Events(ops) == {i \in 1..Len(ops) : ops[i].kind = "event"}
EventIds(ops) == {ops[i].id : i \in Events(ops)}

InOrder(ops) == \A i, j \in Events(ops) : i < j => ops[i].id < ops[j].id
Before(ids, later) == \A i \in ids, j \in later : i < j

(* Events are stored at most once and in the order they were submitted,    *)
(* whatever is dropped, rolled back, pruned or lost in a crash.            *)
LogInOrder ==
    /\ \A r, q \in DOMAIN db.events : r < q => db.events[r] < db.events[q]
    /\ Before(Stored(db), EventIds(pending) \cup EventIds(queue))
    /\ Before(EventIds(pending), EventIds(queue))
    /\ InOrder(pending) /\ InOrder(queue)

(* Readers see all of a batch or nothing of it: apart from pruning, the    *)
(* event tables change by exactly the batch in hand.                       *)
WholeBatches ==
    [][\/ db'.events = db.events
       \/ Stored(db') = Stored(db) \cup EventIds(pending)
       \/ phase = "prune"]_vars

(* A full queue does not stay full: the writer takes from it again however *)
(* often a flush fails, so that dropping is never permanent.               *)
QueueMoves == Len(queue) = QueueDepth ~> Len(queue) < QueueDepth
=============================================================================
