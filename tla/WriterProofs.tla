---------------------------- MODULE WriterProofs ----------------------------
(***************************************************************************)
(* Theorems about the database writer, for any number of devices and       *)
(* addresses, any queue and batch size, and any crashes and failed         *)
(* transactions: an address has one holder in the committed device table,  *)
(* events are stored once and in order, and a batch as a whole.  And of    *)
(* the readers: the query log shows every query once.                      *)
(***************************************************************************)
EXTENDS Reports, FiniteSetTheorems, TLAPS

RowsInOrder(base) ==
    \A r, q \in DOMAIN base.events : r < q => base.events[r] < base.events[q]

(* Events of the batch that the flush has executed. *)
Executed == {i \in Events(pending) : i <= done}

(* Outside of a transaction nothing of a batch is executed, and a batch is *)
(* only in hand while it is collected or flushed.                          *)
Phases ==
    /\ phase # "flush" => done = 0
    /\ phase \in {"recv", "prune"} => pending = <<>>

(* No event has a number that was not given out. *)
NumbersGiven ==
    Before(Stored(db) \cup EventIds(pending) \cup EventIds(queue), {sent + 1})

(* The open transaction sees the committed rows and what it has executed,  *)
(* in order: Commit makes it the database.                                 *)
FlushInv ==
    phase = "flush" =>
        /\ RowsInOrder(staged)
        /\ Stored(staged) = Stored(db) \cup {pending[i].id : i \in Executed}

IInv ==
    /\ TypeOK
    /\ Phases
    /\ OneHolder(db.devices) /\ OneHolder(staged.devices)
    /\ LogInOrder
    /\ NumbersGiven
    /\ FlushInv

----------------------------------------------------------------------------
(* The device table *)

(* The statement that releases an address takes nothing else away, and     *)
(* leaves the address to nobody but the device it is released for.         *)
LEMMA ReleaseIpEffect ==
    ASSUME NEW devices, DevicesTable(devices), OneHolder(devices),
           NEW op \in DeviceOp
    PROVE  /\ DevicesTable(ReleaseIp(devices, op))
           /\ OneHolder(ReleaseIp(devices, op))
           /\ op.ip # NoIp =>
                \A m \in DOMAIN ReleaseIp(devices, op) :
                    m # op.mac => ReleaseIp(devices, op)[m].ip # op.ip
<1> DEFINE released == ReleaseIp(devices, op)
<1>1. /\ DOMAIN released = DOMAIN devices
      /\ \A m \in DOMAIN devices :
            released[m] = IF op.ip # NoIp /\ m # op.mac /\ devices[m].ip = op.ip
                          THEN [devices[m] EXCEPT !.ip = NoIp]
                          ELSE devices[m]
  BY DEF ReleaseIp
<1>2. \A m \in DOMAIN devices :
         /\ devices[m] \in Row
         /\ released[m] \in Row
         /\ released[m].ip \in {devices[m].ip, NoIp}
         /\ (op.ip # NoIp /\ m # op.mac) => released[m].ip # op.ip
  BY <1>1 DEF DevicesTable, Row
<1>3. DevicesTable(released)
  <2>1. released = [m \in DOMAIN released |-> released[m]]
    BY DEF ReleaseIp
  <2> QED BY <1>1, <1>2, <2>1 DEF DevicesTable
<1>4. OneHolder(released)
  <2> SUFFICES ASSUME NEW m \in DOMAIN released, NEW n \in DOMAIN released,
                      released[m].ip = released[n].ip, released[m].ip # NoIp
               PROVE  m = n
    BY DEF OneHolder
  <2>1. devices[m].ip = devices[n].ip /\ devices[m].ip # NoIp
    BY <1>1, <1>2
  <2> QED BY <1>1, <2>1 DEF OneHolder
<1> QED BY <1>1, <1>2, <1>3, <1>4

(* After the release, the upsert gives the address to one device. *)
LEMMA UpsertEffect ==
    ASSUME NEW devices, DevicesTable(devices), OneHolder(devices),
           NEW op \in DeviceOp,
           op.ip # NoIp => \A m \in DOMAIN devices :
                               m # op.mac => devices[m].ip # op.ip
    PROVE  /\ DevicesTable(Upsert(devices, op))
           /\ OneHolder(Upsert(devices, op))
<1> DEFINE after == Upsert(devices, op)
<1>0. op.mac \in Macs /\ op.ip \in Ips \cup {NoIp} /\ op.hostname \in Names \cup {NoName}
  BY DEF DeviceOp
<1>1. /\ DOMAIN after = DOMAIN devices \cup {op.mac}
      /\ \A m \in DOMAIN devices : m # op.mac => after[m] = devices[m]
  BY DEF Upsert
<1>2. /\ after[op.mac] \in Row
      /\ after[op.mac].ip # NoIp =>
            \/ after[op.mac].ip = op.ip
            \/ /\ op.mac \in DOMAIN devices
               /\ after[op.mac].ip = devices[op.mac].ip
  <2>1. CASE op.mac \notin DOMAIN devices
    <3>1. after[op.mac] = [ip |-> op.ip, hostname |-> op.hostname]
      BY <2>1 DEF Upsert
    <3> QED BY <1>0, <3>1 DEF Row
  <2>2. CASE op.mac \in DOMAIN devices
    <3>1. after[op.mac] = [ip       |-> Coalesce(op.ip, devices[op.mac].ip, NoIp),
                           hostname |-> Coalesce(op.hostname, devices[op.mac].hostname, NoName)]
      BY <2>2 DEF Upsert
    <3>2. devices[op.mac] \in Row
      BY <2>2 DEF DevicesTable
    <3> QED BY <1>0, <2>2, <3>1, <3>2 DEF Row, Coalesce
  <2> QED BY <2>1, <2>2
<1>3. DevicesTable(after)
  <2>1. after = [m \in DOMAIN after |-> after[m]]
    BY DEF Upsert
  <2>2. \A m \in DOMAIN after : after[m] \in Row
    BY <1>1, <1>2 DEF DevicesTable
  <2> QED BY <1>0, <1>1, <2>1, <2>2 DEF DevicesTable
<1>4. \A m \in DOMAIN devices :
         m # op.mac /\ devices[m].ip # NoIp => devices[m].ip # after[op.mac].ip
  <2> SUFFICES ASSUME NEW m \in DOMAIN devices, m # op.mac, devices[m].ip # NoIp,
                      devices[m].ip = after[op.mac].ip
               PROVE  FALSE
    OBVIOUS
  <2>1. CASE after[op.mac].ip = op.ip
    BY <2>1
  <2>2. CASE op.mac \in DOMAIN devices /\ after[op.mac].ip = devices[op.mac].ip
    BY <2>2 DEF OneHolder
  <2> QED BY <1>2, <2>1, <2>2
<1>5. OneHolder(after)
  <2> SUFFICES ASSUME NEW m \in DOMAIN after, NEW n \in DOMAIN after,
                      after[m].ip = after[n].ip, after[m].ip # NoIp
               PROVE  m = n
    BY DEF OneHolder
  <2>1. CASE m # op.mac /\ n # op.mac
    BY <1>1, <2>1 DEF OneHolder
  <2>2. CASE m = op.mac \/ n = op.mac
    BY <1>1, <1>4, <2>2
  <2> QED BY <2>1, <2>2
<1> QED BY <1>3, <1>5

(* Any operation of a batch keeps the table, and one holder per address. *)
LEMMA ExecuteEffect ==
    ASSUME NEW base, DevicesTable(base.devices), OneHolder(base.devices),
           NEW op \in WriteOp
    PROVE  /\ DevicesTable(Execute(base, op).devices)
           /\ OneHolder(Execute(base, op).devices)
<1>1. CASE op.kind = "device"
  <2>1. op \in DeviceOp
    BY <1>1 DEF WriteOp, EventOp
  <2>2. Execute(base, op).devices = Upsert(ReleaseIp(base.devices, op), op)
    BY <1>1 DEF Execute
  <2>3. /\ DevicesTable(ReleaseIp(base.devices, op))
        /\ OneHolder(ReleaseIp(base.devices, op))
        /\ op.ip # NoIp =>
             \A m \in DOMAIN ReleaseIp(base.devices, op) :
                 m # op.mac => ReleaseIp(base.devices, op)[m].ip # op.ip
    BY <2>1, ReleaseIpEffect
  <2>4. /\ DevicesTable(Upsert(ReleaseIp(base.devices, op), op))
        /\ OneHolder(Upsert(ReleaseIp(base.devices, op), op))
    BY <2>1, <2>3, UpsertEffect
  <2> QED BY <2>2, <2>4
<1>2. CASE op.kind # "device"
  BY <1>2 DEF Execute
<1> QED BY <1>1, <1>2

LEMMA EmptyDbEffect == Database(EmptyDb) /\ OneHolder(EmptyDb.devices)
BY DEF EmptyDb, Database, DevicesTable, OneHolder

----------------------------------------------------------------------------
(* The event table *)

(* An insert keeps the rows there are and adds one behind them. *)
LEMMA InsertEffect ==
    ASSUME NEW base, Database(base), NEW op \in EventOp
    PROVE  /\ Database(Execute(base, op))
           /\ Execute(base, op).devices = base.devices
           /\ Stored(Execute(base, op)) = Stored(base) \cup {op.id}
           /\ RowsInOrder(base) /\ Before(Stored(base), {op.id})
                 => RowsInOrder(Execute(base, op))
<1> DEFINE after == Execute(base, op)
<1>1. op.kind = "event" /\ op.id \in Nat /\ base.last \in Nat
  BY DEF EventOp, Database
<1>2. /\ DOMAIN after = {"devices", "events", "last"}
      /\ after.devices = base.devices /\ after.last = base.last + 1
      /\ after.events = [r \in DOMAIN base.events \cup {base.last + 1} |->
                            IF r = base.last + 1 THEN op.id ELSE base.events[r]]
  BY <1>1 DEF Execute
<1> HIDE DEF after
<1>3. /\ DOMAIN after.events = DOMAIN base.events \cup {base.last + 1}
      /\ after.events[base.last + 1] = op.id
      /\ \A r \in DOMAIN base.events : r # base.last + 1 => after.events[r] = base.events[r]
  BY <1>2
<1>4. \A r \in DOMAIN base.events : r \in 1..base.last /\ r < base.last + 1
                                     /\ r # base.last + 1 /\ base.events[r] \in Nat
  BY <1>1 DEF Database
<1>5. Database(after)
  <2>1. DOMAIN after.events \subseteq 1..after.last
    BY <1>1, <1>2, <1>3, <1>4
  <2>2. after.events \in [DOMAIN after.events -> Nat]
    BY <1>1, <1>2, <1>3, <1>4
  <2> QED BY <1>1, <1>2, <2>1, <2>2 DEF Database
<1>6. Stored(after) = Stored(base) \cup {op.id}
  BY <1>3, <1>4 DEF Stored
<1>7. ASSUME RowsInOrder(base), Before(Stored(base), {op.id}) PROVE RowsInOrder(after)
  <2> SUFFICES ASSUME NEW r \in DOMAIN after.events, NEW q \in DOMAIN after.events, r < q
               PROVE  after.events[r] < after.events[q]
    BY DEF RowsInOrder
  <2>1. CASE q = base.last + 1
    <3>1. r \in DOMAIN base.events
      BY <1>1, <1>3, <2>1
    <3>2. base.events[r] < op.id
      BY <1>7, <3>1 DEF Before, Stored
    <3> QED BY <1>3, <1>4, <2>1, <3>1, <3>2
  <2>2. CASE q # base.last + 1
    <3>1. q \in DOMAIN base.events /\ r \in DOMAIN base.events
      BY <1>1, <1>3, <1>4, <2>2
    <3> QED BY <1>3, <1>4, <1>7, <3>1 DEF RowsInOrder
  <2> QED BY <2>1, <2>2
<1> QED BY <1>2, <1>5, <1>6, <1>7 DEF after

(* A device operation leaves the events alone. *)
LEMMA UpsertKeepsEvents ==
    ASSUME NEW base, Database(base), OneHolder(base.devices), NEW op \in DeviceOp
    PROVE  /\ Database(Execute(base, op))
           /\ Execute(base, op).events = base.events
<1>1. op.kind = "device"
  BY DEF DeviceOp
<1>2. DevicesTable(Execute(base, op).devices)
  BY ExecuteEffect DEF Database, WriteOp
<1> QED BY <1>1, <1>2 DEF Execute, Database

(* Pruning takes rows away and changes none. *)
LEMMA PruneEffect ==
    ASSUME NEW old, Prune(old), Database(db)
    PROVE  /\ Database(db)' /\ db'.devices = db.devices
           /\ Stored(db)' \subseteq Stored(db)
           /\ RowsInOrder(db) => RowsInOrder(db)'
<1> DEFINE kept == {q \in DOMAIN db.events : db.events[q] \notin old}
<1>1. /\ DOMAIN db' = DOMAIN db /\ db'.devices = db.devices /\ db'.last = db.last
      /\ db'.events = [r \in kept |-> db.events[r]]
  BY DEF Prune, Database
<1>2. /\ DOMAIN db'.events = kept
      /\ \A r \in kept : db'.events[r] = db.events[r] /\ r \in DOMAIN db.events
  BY <1>1
<1>3. Database(db)'
  BY <1>1, <1>2 DEF Database
<1> QED BY <1>1, <1>2, <1>3 DEF Stored, RowsInOrder

----------------------------------------------------------------------------
(* The events of a sequence of operations *)

LEMMA EventsOfAppend ==
    ASSUME NEW ops \in Seq(WriteOp), NEW op \in WriteOp
    PROVE  /\ EventIds(ops) \subseteq EventIds(Append(ops, op))
           /\ op.kind = "event" => EventIds(Append(ops, op)) = EventIds(ops) \cup {op.id}
           /\ op.kind # "event" => EventIds(Append(ops, op)) = EventIds(ops)
           /\ InOrder(ops) /\ (op.kind = "event" => Before(EventIds(ops), {op.id}))
                 => InOrder(Append(ops, op))
<1> DEFINE longer == Append(ops, op)
<1>1. /\ Len(ops) \in Nat /\ Len(longer) = Len(ops) + 1
      /\ longer[Len(ops) + 1] = op
      /\ \A i \in 1..Len(ops) : longer[i] = ops[i]
  OBVIOUS
<1> HIDE DEF longer
<1>2. \A i \in Events(longer) : i \in Events(ops) \/ (i = Len(ops) + 1 /\ op.kind = "event")
  BY <1>1 DEF Events
<1>3. \A i \in Events(ops) : i \in Events(longer) /\ longer[i] = ops[i] /\ i \in 1..Len(ops)
  BY <1>1 DEF Events
<1>4. op.kind = "event" => Len(ops) + 1 \in Events(longer)
  BY <1>1 DEF Events
<1>5. /\ EventIds(ops) \subseteq EventIds(longer)
      /\ op.kind = "event" => EventIds(longer) = EventIds(ops) \cup {op.id}
      /\ op.kind # "event" => EventIds(longer) = EventIds(ops)
  BY <1>1, <1>2, <1>3, <1>4 DEF EventIds
<1>6. ASSUME InOrder(ops), op.kind = "event" => Before(EventIds(ops), {op.id})
      PROVE  InOrder(longer)
  <2> SUFFICES ASSUME NEW i \in Events(longer), NEW j \in Events(longer), i < j
               PROVE  longer[i].id < longer[j].id
    BY DEF InOrder
  <2>1. CASE j \in Events(ops)
    <3>1. i \in Events(ops)
      BY <1>1, <1>2, <1>3, <2>1
    <3> QED BY <1>3, <1>6, <2>1, <3>1 DEF InOrder
  <2>2. CASE j = Len(ops) + 1 /\ op.kind = "event"
    <3>0. ~(Len(ops) + 1 < Len(ops) + 1)
      BY <1>1
    <3>1. i \in Events(ops)
      BY <1>2, <2>2, <3>0
    <3> QED BY <1>1, <1>3, <1>6, <2>2, <3>1 DEF Before, EventIds
  <2> QED BY <1>2, <2>1, <2>2
<1> QED BY <1>5, <1>6 DEF longer

LEMMA EventsOfTail ==
    ASSUME NEW ops \in Seq(WriteOp), ops # <<>>
    PROVE  /\ EventIds(Tail(ops)) \subseteq EventIds(ops)
           /\ Head(ops).kind = "event" => Head(ops).id \in EventIds(ops)
           /\ InOrder(ops) => InOrder(Tail(ops))
           /\ InOrder(ops) /\ Head(ops).kind = "event"
                 => Before({Head(ops).id}, EventIds(Tail(ops)))
<1> DEFINE rest == Tail(ops)
<1>1. /\ Len(ops) \in Nat \ {0} /\ Len(rest) = Len(ops) - 1 /\ Head(ops) = ops[1]
      /\ \A i \in 1..(Len(ops) - 1) : rest[i] = ops[i + 1]
  OBVIOUS
<1> HIDE DEF rest
<1>2. \A i \in Events(rest) : i + 1 \in Events(ops) /\ rest[i] = ops[i + 1] /\ i \in Nat \ {0}
  BY <1>1 DEF Events
<1>3. Head(ops).kind = "event" => 1 \in Events(ops)
  BY <1>1 DEF Events
<1>4. EventIds(rest) \subseteq EventIds(ops)
  BY <1>2 DEF EventIds
<1>5. Head(ops).kind = "event" => Head(ops).id \in EventIds(ops)
  BY <1>1, <1>3 DEF EventIds
<1>6. ASSUME InOrder(ops) PROVE InOrder(rest)
  BY <1>2, <1>6 DEF InOrder
<1>7. ASSUME InOrder(ops), Head(ops).kind = "event"
      PROVE  Before({Head(ops).id}, EventIds(rest))
  <2>1. \A i \in Events(rest) : 1 < i + 1
    BY <1>2
  <2>2. \A i \in Events(rest) : ops[1].id < rest[i].id
    BY <1>2, <1>3, <1>7, <2>1 DEF InOrder
  <2> QED BY <1>1, <2>2 DEF Before, EventIds
<1> QED BY <1>4, <1>5, <1>6, <1>7 DEF rest

LEMMA NoEvents == EventIds(<<>>) = {} /\ InOrder(<<>>)
BY DEF EventIds, Events, InOrder

(* The numbers of events in sight are natural. *)
LEMMA IdsAreNumbers ==
    ASSUME NEW ops \in Seq(WriteOp)
    PROVE  EventIds(ops) \subseteq Nat
BY DEF EventIds, Events, WriteOp, DeviceOp, EventOp

LEMMA StoredAreNumbers ==
    ASSUME NEW base, Database(base)
    PROVE  Stored(base) \subseteq Nat
BY DEF Stored, Database

----------------------------------------------------------------------------
(* One lemma per action *)

(* Writer::send of an operation that is a device, or the next event. *)
LEMMA SendStep ==
    ASSUME IInv, NEW op \in WriteOp, Send(op), UNCHANGED thread,
           \/ op.kind # "event" /\ sent' = sent
           \/ op.kind = "event" /\ op.id = sent + 1 /\ sent' = sent + 1 /\ sent < MaxSent
    PROVE  IInv'
<1> USE DEF IInv
<1>0. /\ UNCHANGED <<phase, pending, done, staged, db>> /\ sent \in Nat
      /\ queue \in Seq(WriteOp) /\ Len(queue) \in Nat /\ QueueDepth \in Nat
  BY WriterAssumption DEF thread, TypeOK
<1>1. queue' \in Seq(WriteOp) /\ Len(queue') <= QueueDepth
  BY <1>0 DEF Send, TypeOK
<1>2. sent' \in 0..MaxSent /\ sent <= sent'
  BY WriterAssumption DEF TypeOK
<1>3. TypeOK'
  BY <1>0, <1>1, <1>2 DEF TypeOK
<1>4. Phases' /\ FlushInv' /\ OneHolder(db.devices)' /\ OneHolder(staged.devices)'
  <2>1. Executed' = Executed
    BY <1>0 DEF Executed, Events
  <2>2. FlushInv'
    BY <1>0, <2>1 DEF FlushInv
  <2> QED BY <1>0, <2>2 DEF Phases
<1>5. Before(EventIds(queue), {sent + 1}) /\ Before(EventIds(pending), {sent + 1})
      /\ Before(Stored(db), {sent + 1})
  BY DEF NumbersGiven, Before
<1>6. InOrder(queue') /\ (EventIds(queue') = EventIds(queue) \/
         (op.kind = "event" /\ EventIds(queue') = EventIds(queue) \cup {sent + 1}))
  <2>1. CASE queue' = queue
    BY <2>1 DEF LogInOrder
  <2>2. CASE queue' = Append(queue, op)
    <3>1. op.kind = "event" => op.id = sent + 1
      OBVIOUS
    <3> QED BY <1>0, <1>5, <2>2, <3>1, EventsOfAppend DEF LogInOrder
  <2> QED BY <2>1, <2>2 DEF Send
<1>7. EventIds(pending)' = EventIds(pending) /\ Stored(db)' = Stored(db)
      /\ InOrder(pending)'
  BY <1>0 DEF EventIds, Events, Stored, InOrder, LogInOrder
<1>8. LogInOrder'
  <2>1. Before(Stored(db), EventIds(pending) \cup EventIds(queue'))
    BY <1>5, <1>6 DEF LogInOrder, Before
  <2>2. Before(EventIds(pending), EventIds(queue'))
    BY <1>5, <1>6 DEF LogInOrder, Before
  <2>3. \A r, q \in DOMAIN db'.events : r < q => db'.events[r] < db'.events[q]
    BY <1>0 DEF LogInOrder
  <2> QED BY <1>0, <1>6, <1>7, <2>1, <2>2, <2>3 DEF LogInOrder
<1>9. NumbersGiven'
  <2>1. EventIds(queue) \subseteq Nat /\ EventIds(pending) \subseteq Nat /\ Stored(db) \subseteq Nat
    BY <1>0, IdsAreNumbers, StoredAreNumbers DEF TypeOK
  <2>2. \A n \in EventIds(queue) \cup EventIds(pending) \cup Stored(db) : n < sent' + 1
    BY <1>0, <1>2, <1>5, <2>1 DEF Before, TypeOK
  <2>3. \A n \in EventIds(queue') : n < sent' + 1
    BY <1>0, <1>6, <2>2
  <2> QED BY <1>7, <2>2, <2>3 DEF NumbersGiven, Before
<1> QED BY <1>3, <1>4, <1>8, <1>9

(* An operation moves from the queue to the batch. *)
LEMMA TakeStep ==
    ASSUME IInv, TakeFromQueue, phase # "flush", phase' = "drain", Len(pending) < BatchSize,
           UNCHANGED <<done, staged, db, sent>>
    PROVE  IInv'
<1> USE DEF IInv
<1> DEFINE op == Head(queue)
<1>1. /\ queue \in Seq(WriteOp) /\ queue # <<>> /\ op \in WriteOp
      /\ pending \in Seq(WriteOp)
      /\ queue' = Tail(queue) /\ pending' = Append(pending, op)
  BY DEF TakeFromQueue, TypeOK
<1> HIDE DEF op
<1>2. /\ queue' \in Seq(WriteOp) /\ Len(queue') = Len(queue) - 1 /\ Len(queue) \in Nat
      /\ pending' \in Seq(WriteOp) /\ Len(pending') = Len(pending) + 1 /\ Len(pending) \in Nat
  BY <1>1
<1>3. TypeOK'
  <2>1. Len(queue') <= QueueDepth /\ Len(pending') <= BatchSize /\ done' \in 0..Len(pending')
    BY <1>2, WriterAssumption DEF TypeOK
  <2> QED BY <1>2, <2>1 DEF TypeOK
<1>4. Phases' /\ FlushInv' /\ OneHolder(db.devices)' /\ OneHolder(staged.devices)'
  BY DEF Phases, FlushInv
<1>5. /\ EventIds(queue') \subseteq EventIds(queue) /\ InOrder(queue')
      /\ op.kind = "event" => op.id \in EventIds(queue) /\ Before({op.id}, EventIds(queue'))
  BY <1>1, EventsOfTail DEF LogInOrder, op
<1>6. op.kind = "event" => Before(EventIds(pending), {op.id})
  BY <1>5 DEF LogInOrder, Before
<1>7. /\ InOrder(pending')
      /\ \/ EventIds(pending') = EventIds(pending)
         \/ op.kind = "event" /\ EventIds(pending') = EventIds(pending) \cup {op.id}
  BY <1>1, <1>6, EventsOfAppend DEF LogInOrder
<1>8. EventIds(pending') \cup EventIds(queue') \subseteq EventIds(pending) \cup EventIds(queue)
  BY <1>5, <1>7
<1>9. LogInOrder'
  <2>1. Before(Stored(db), EventIds(pending') \cup EventIds(queue'))
    BY <1>8 DEF LogInOrder, Before
  <2>2. Before(EventIds(pending'), EventIds(queue'))
    BY <1>5, <1>7 DEF LogInOrder, Before
  <2> QED BY <1>5, <1>7, <2>1, <2>2 DEF LogInOrder
<1>10. NumbersGiven'
  BY <1>8 DEF NumbersGiven, Before
<1> QED BY <1>3, <1>4, <1>9, <1>10

LEMMA BeginFlushStep ==
    ASSUME IInv, BeginFlush
    PROVE  IInv'
<1> USE DEF IInv
<1>1. /\ phase = "drain" /\ phase' = "flush" /\ staged' = db
      /\ UNCHANGED <<queue, pending, done, db, sent>>
  BY DEF BeginFlush
<1>2. TypeOK' /\ Phases' /\ LogInOrder' /\ NumbersGiven'
      /\ OneHolder(db.devices)' /\ OneHolder(staged.devices)'
  BY <1>1 DEF TypeOK, Phases, LogInOrder, NumbersGiven
<1>3. Executed' = {}
  BY <1>1 DEF Executed, Events, Phases
<1>4. RowsInOrder(staged)' /\ Stored(staged)' = Stored(db)'
  BY <1>1 DEF RowsInOrder, Stored, LogInOrder
<1>5. FlushInv'
  BY <1>3, <1>4 DEF FlushInv
<1> QED BY <1>2, <1>5

LEMMA ExecuteNextStep ==
    ASSUME IInv, ExecuteNext
    PROVE  IInv'
<1> USE DEF IInv
<1> DEFINE op == pending[done + 1]
<1>1. /\ phase = "flush" /\ done < Len(pending) /\ done' = done + 1
      /\ staged' = Execute(staged, op)
      /\ UNCHANGED <<queue, phase, pending, db, sent>>
  BY DEF ExecuteNext
<1>2. done \in Nat /\ Len(pending) \in Nat /\ done + 1 \in 1..Len(pending)
      /\ op \in WriteOp /\ Database(staged)
  BY <1>1 DEF TypeOK
<1> HIDE DEF op
<1>3. DevicesTable(staged'.devices) /\ OneHolder(staged'.devices)
  BY <1>1, <1>2, ExecuteEffect DEF Database
<1>4. Phases' /\ LogInOrder' /\ NumbersGiven'
  BY <1>1 DEF Phases, LogInOrder, NumbersGiven
<1>5. RowsInOrder(staged) /\ Stored(staged) = Stored(db) \cup {pending[i].id : i \in Executed}
  BY <1>1 DEF FlushInv
<1>6. \A i \in Executed' : i \in Executed \/ i = done + 1
  BY <1>1, <1>2 DEF Executed, Events
<1>7. Executed \subseteq Executed' /\ (op.kind = "event" <=> done + 1 \in Executed')
  BY <1>1, <1>2 DEF Executed, Events, op
<1>8. CASE op.kind = "event"
  <2>1. op \in EventOp
    BY <1>2, <1>8 DEF WriteOp, DeviceOp
  <2>2. Before(Stored(staged), {op.id})
    <3>1. done + 1 \in Events(pending)
      BY <1>2, <1>8 DEF Events, op
    <3>2. Before(Stored(db), {op.id})
      BY <3>1 DEF LogInOrder, Before, EventIds, op
    <3>3. \A i \in Executed : i \in Events(pending) /\ i < done + 1
      BY <1>2 DEF Executed, Events
    <3>4. \A i \in Executed : pending[i].id < op.id
      BY <3>1, <3>3 DEF LogInOrder, InOrder, op
    <3> QED BY <1>5, <3>2, <3>4 DEF Before
  <2>3. Database(staged') /\ RowsInOrder(staged')
        /\ Stored(staged') = Stored(staged) \cup {op.id}
    BY <1>1, <1>2, <1>5, <2>1, <2>2, InsertEffect
  <2>4. {pending[i].id : i \in Executed'} = {pending[i].id : i \in Executed} \cup {op.id}
    BY <1>6, <1>7, <1>8 DEF op
  <2>5. FlushInv'
    <3>1. {pending'[i].id : i \in Executed'} = {pending[i].id : i \in Executed} \cup {op.id}
      BY <1>1, <2>4
    <3>2. Stored(staged') = Stored(db') \cup {pending'[i].id : i \in Executed'}
      BY <1>1, <1>5, <2>3, <3>1
    <3> QED BY <2>3, <3>2 DEF FlushInv
  <2>6. TypeOK'
    BY <1>1, <1>2, <2>3 DEF TypeOK
  <2> QED BY <1>1, <1>3, <1>4, <2>5, <2>6
<1>9. CASE op.kind # "event"
  <2>1. op \in DeviceOp
    BY <1>2, <1>9 DEF WriteOp, EventOp
  <2>2. Database(staged') /\ staged'.events = staged.events
    BY <1>1, <1>2, <2>1, UpsertKeepsEvents
  <2>3. Executed' = Executed
    BY <1>6, <1>7, <1>9
  <2>4. RowsInOrder(staged') /\ Stored(staged') = Stored(staged)
    BY <1>5, <2>2 DEF RowsInOrder, Stored
  <2>5. FlushInv'
    BY <1>1, <1>5, <2>3, <2>4 DEF FlushInv
  <2>6. TypeOK'
    BY <1>1, <1>2, <2>2 DEF TypeOK
  <2> QED BY <1>1, <1>3, <1>4, <2>5, <2>6
<1> QED BY <1>8, <1>9

(* A transaction ends, and leaves the database as it was or as staged. *)
LEMMA EndFlushStep ==
    ASSUME IInv, EndFlush, UNCHANGED <<queue, sent>>,
           db' = db \/ (db' = staged /\ done = Len(pending))
    PROVE  IInv' /\ (db' = db \/ Stored(db') = Stored(db) \cup EventIds(pending))
<1> USE DEF IInv
<1>1. phase = "flush" /\ phase' = "prune" /\ pending' = <<>> /\ done' = 0 /\ staged' = EmptyDb
  BY DEF EndFlush
<1>2. /\ Database(db') /\ OneHolder(db'.devices) /\ RowsInOrder(db')
      /\ Stored(db') = Stored(db) \/ Stored(db') = Stored(db) \cup EventIds(pending)
      /\ db' = db \/ Stored(db') = Stored(db) \cup EventIds(pending)
  <2>1. CASE db' = db
    BY <2>1 DEF TypeOK, LogInOrder, RowsInOrder
  <2>2. CASE db' = staged /\ done = Len(pending)
    <3>1. Executed = Events(pending)
      BY <2>2 DEF Executed, Events, TypeOK
    <3> QED BY <1>1, <2>2, <3>1 DEF FlushInv, EventIds, TypeOK
  <2> QED BY <2>1, <2>2
<1>3. TypeOK'
  BY <1>1, <1>2, EmptyDbEffect, WriterAssumption DEF TypeOK
<1>4. Phases' /\ FlushInv' /\ OneHolder(staged.devices)'
  BY <1>1, EmptyDbEffect DEF Phases, FlushInv
<1>5. EventIds(pending') = {} /\ InOrder(pending') /\ EventIds(queue') = EventIds(queue)
  BY <1>1, NoEvents
<1>6. LogInOrder'
  <2>1. Before(Stored(db'), EventIds(pending') \cup EventIds(queue'))
    BY <1>2, <1>5 DEF LogInOrder, Before
  <2>2. Before(EventIds(pending'), EventIds(queue')) /\ InOrder(queue')
    BY <1>5 DEF LogInOrder, Before
  <2> QED BY <1>2, <1>5, <2>1, <2>2 DEF LogInOrder, RowsInOrder
<1>7. NumbersGiven'
  BY <1>2, <1>5 DEF NumbersGiven, Before
<1> QED BY <1>2, <1>3, <1>4, <1>6, <1>7

LEMMA PruneStep ==
    ASSUME IInv, NEW old, Prune(old)
    PROVE  IInv'
<1> USE DEF IInv
<1>1. phase = "prune" /\ phase' = "recv" /\ UNCHANGED <<queue, pending, done, staged, sent>>
  BY DEF Prune
<1>2. /\ Database(db') /\ db'.devices = db.devices
      /\ Stored(db') \subseteq Stored(db) /\ RowsInOrder(db')
  BY PruneEffect DEF TypeOK, LogInOrder, RowsInOrder
<1>3. TypeOK' /\ Phases' /\ FlushInv' /\ OneHolder(db.devices)' /\ OneHolder(staged.devices)'
  BY <1>1, <1>2 DEF TypeOK, Phases, FlushInv
<1>4. LogInOrder'
  <2>1. Before(Stored(db'), EventIds(pending') \cup EventIds(queue'))
    BY <1>1, <1>2 DEF LogInOrder, Before
  <2> QED BY <1>1, <1>2, <2>1 DEF LogInOrder, RowsInOrder
<1>5. NumbersGiven'
  BY <1>1, <1>2 DEF NumbersGiven, Before
<1> QED BY <1>3, <1>4, <1>5

LEMMA CrashStep ==
    ASSUME IInv, Crash
    PROVE  IInv'
<1> USE DEF IInv
<1>1. /\ queue' = <<>> /\ pending' = <<>> /\ phase' = "recv" /\ done' = 0
      /\ staged' = EmptyDb /\ UNCHANGED <<db, sent>>
  BY DEF Crash
<1>2. TypeOK'
  BY <1>1, EmptyDbEffect, WriterAssumption DEF TypeOK
<1>3. Phases' /\ FlushInv' /\ OneHolder(db.devices)' /\ OneHolder(staged.devices)'
  BY <1>1, EmptyDbEffect DEF Phases, FlushInv
<1>4. LogInOrder' /\ NumbersGiven'
  BY <1>1, NoEvents DEF LogInOrder, NumbersGiven, Before
<1> QED BY <1>2, <1>3, <1>4

----------------------------------------------------------------------------
(* The theorems *)

(* What a step may do to the event table. *)
BatchOrNothing ==
    \/ db'.events = db.events
    \/ Stored(db') = Stored(db) \cup EventIds(pending)
    \/ phase = "prune"

LEMMA NextPreserves ==
    ASSUME IInv, [Next]_vars
    PROVE  IInv' /\ BatchOrNothing
<1>1. ASSUME NEW op \in DeviceOp, SubmitDevice(op) PROVE IInv' /\ BatchOrNothing
  <2>1. op \in WriteOp /\ op.kind # "event"
    BY DEF WriteOp, DeviceOp
  <2> QED BY <1>1, <2>1, SendStep DEF SubmitDevice, thread, BatchOrNothing
<1>2. CASE SubmitEvent
  <2> DEFINE op == [kind |-> "event", id |-> sent + 1]
  <2>1. op \in WriteOp /\ op.kind = "event" /\ op.id = sent + 1
    BY DEF WriteOp, EventOp, IInv, TypeOK
  <2>2. Send(op) /\ sent' = sent + 1 /\ sent < MaxSent /\ UNCHANGED thread
    BY <1>2 DEF SubmitEvent
  <2> HIDE DEF op
  <2> QED BY <2>1, <2>2, SendStep DEF thread, BatchOrNothing
<1>3. CASE Recv
  <2>1. Len(pending) < BatchSize
    BY <1>3, WriterAssumption DEF Recv, IInv, Phases
  <2> QED BY <1>3, <2>1, TakeStep DEF Recv, BatchOrNothing
<1>4. CASE Drain
  BY <1>4, TakeStep DEF Drain, BatchOrNothing
<1>5. CASE BeginFlush
  BY <1>5, BeginFlushStep DEF BeginFlush, BatchOrNothing
<1>6. CASE ExecuteNext
  BY <1>6, ExecuteNextStep DEF ExecuteNext, BatchOrNothing
<1>7. CASE Commit \/ FlushFails
  BY <1>7, EndFlushStep DEF Commit, FlushFails, BatchOrNothing
<1>8. ASSUME NEW old, Prune(old) PROVE IInv' /\ BatchOrNothing
  BY <1>8, PruneStep DEF Prune, BatchOrNothing
<1>9. CASE Crash
  BY <1>9, CrashStep DEF Crash, BatchOrNothing
<1>10. CASE UNCHANGED vars
  <2>1. IInv'
    BY <1>10 DEF vars, thread, IInv, TypeOK, Phases, LogInOrder, NumbersGiven, FlushInv,
                 Executed
  <2> QED BY <1>10, <2>1 DEF vars, thread, BatchOrNothing
<1> QED BY <1>1, <1>2, <1>3, <1>4, <1>5, <1>6, <1>7, <1>8, <1>9, <1>10 DEF Next, WriterStep

LEMMA InitIsSound == Init => IInv
<1> SUFFICES ASSUME Init PROVE IInv
  OBVIOUS
<1>1. TypeOK
  BY EmptyDbEffect, WriterAssumption DEF Init, TypeOK
<1>2. Stored(db) = {} /\ DOMAIN db.events = {}
  BY DEF Init, Stored, EmptyDb
<1>3. LogInOrder /\ NumbersGiven
  BY <1>2, NoEvents DEF Init, LogInOrder, NumbersGiven, Before
<1> QED BY <1>1, <1>3, EmptyDbEffect DEF Init, IInv, Phases, FlushInv

(* The strengthened invariant holds in every reachable state. *)
THEOREM Invariance == Spec => []IInv
<1>1. IInv /\ [Next]_vars => IInv'
  BY NextPreserves
<1> QED BY <1>1, InitIsSound, PTL DEF Spec

(* The queue and the batch keep their bounds, and every table its shape. *)
THEOREM TypeCorrect == Spec => []TypeOK
<1>1. IInv => TypeOK
  BY DEF IInv
<1> QED BY <1>1, Invariance, PTL

(* "An IP belongs to one device at a time": no two rows of the committed   *)
(* device table share an address, whatever devices are written, in what    *)
(* order, and wherever a flush fails or the process dies.                  *)
THEOREM OneHolderPerAddress == Spec => []UniqueIp
<1>1. IInv => UniqueIp
  BY DEF IInv, UniqueIp
<1> QED BY Invariance, <1>1, PTL

(* Events are stored at most once and in the order they were submitted,    *)
(* whatever is dropped, rolled back, pruned or lost.                       *)
THEOREM StoredOnceInOrder == Spec => []LogInOrder
<1>1. IInv => LogInOrder
  BY DEF IInv
<1> QED BY <1>1, Invariance, PTL

(* A committed transaction is the whole batch: a flush that fails or a     *)
(* crash half way leaves nothing of it to a reader.                        *)
THEOREM BatchesAreWhole == Spec => WholeBatches
<1>1. IInv /\ [Next]_vars => [BatchOrNothing]_vars
  BY NextPreserves
<1>2. Spec => [][BatchOrNothing]_vars
  BY <1>1, Invariance, PTL DEF Spec
<1> QED BY <1>2 DEF WholeBatches, BatchOrNothing

----------------------------------------------------------------------------
(* The query log the dashboard reads (Reports) *)

(* Ids of queries. *)
LogIds(ids) == ids \subseteq {i \in 1..MaxSent : Log[i].kind = "query"}

(* One row per id. *)
OneRowEach(rows, ids) ==
    /\ \A r \in rows : r.id \in ids
    /\ \A i \in ids : \E r \in rows : r.id = i
    /\ \A r, q \in rows : r.id = q.id => r = q

(* As an address has one holder, the join neither multiplies a query nor   *)
(* loses one.                                                              *)
LEMMA JoinKeepsRows ==
    ASSUME NEW base, OneHolder(base.devices), NEW ids, LogIds(ids)
    PROVE  OneRowEach(LeftJoin(base, ids), ids)
<1> DEFINE found(i) == Holders(base, Log[i].client)
           mine(i) == IF found(i) = {} THEN {[id |-> i, device |-> {}]}
                      ELSE {[id |-> i, device |-> {m}] : m \in found(i)}
<1>1. \A i \in ids : Log[i].client # NoIp
  BY ReportsAssumption DEF LogIds
<1>2. \A i \in ids : \A m, n \in found(i) : m = n
  BY <1>1 DEF OneHolder, Holders
<1>3. LeftJoin(base, ids) = UNION {mine(i) : i \in ids}
  BY DEF LeftJoin
<1>4. ASSUME NEW i \in ids
      PROVE  mine(i) # {} /\ \A r, q \in mine(i) : r.id = i /\ r = q
  <2>1. CASE found(i) = {}
    BY <2>1
  <2>2. CASE found(i) # {}
    <3>1. PICK m \in found(i) : \A n \in found(i) : n = m
      BY <1>2, <2>2
    <3>2. mine(i) = {[id |-> i, device |-> {m}]}
      BY <2>2, <3>1
    <3>3. [id |-> i, device |-> {m}].id = i
      OBVIOUS
    <3> HIDE DEF mine
    <3> QED BY <3>2, <3>3
  <2> QED BY <2>1, <2>2
<1> HIDE DEF mine
<1> QED BY <1>3, <1>4 DEF OneRowEach

(* How many rows precede one. *)
Rank(rows, r) == Cardinality({q \in rows : Newer(q, r)})

(* The order of the log is total on rows of different queries. *)
Ordered(rows) ==
    /\ \A a \in rows : ~Newer(a, a)
    /\ \A a, b \in rows : a # b => Newer(a, b) \/ Newer(b, a)
    /\ \A a, b, c \in rows : Newer(a, b) /\ Newer(b, c) => Newer(a, c)

LEMMA NewerIsOrder ==
    ASSUME NEW ids, LogIds(ids), NEW rows, OneRowEach(rows, ids)
    PROVE  Ordered(rows)
<1> DEFINE ts(r) == Log[r.id].ts
<1>1. ASSUME NEW r \in rows PROVE r.id \in Nat /\ ts(r) \in Nat
  <2>1. r.id \in 1..MaxSent /\ Log[r.id].kind = "query"
    BY DEF LogIds, OneRowEach
  <2> QED BY <2>1, ReportsAssumption, WriterAssumption
<1>2. \A a, b \in rows : a # b => a.id # b.id
  BY DEF OneRowEach
<1>3. \A a, b \in rows : Newer(a, b) <=> ts(a) > ts(b) \/ (ts(a) = ts(b) /\ a.id > b.id)
  BY DEF Newer
<1> HIDE DEF ts
<1>4. ASSUME NEW a \in rows PROVE ~Newer(a, a)
  BY <1>1, <1>3
<1>5. ASSUME NEW a \in rows, NEW b \in rows, a # b PROVE Newer(a, b) \/ Newer(b, a)
  <2>1. a.id # b.id /\ a.id \in Nat /\ b.id \in Nat /\ ts(a) \in Nat /\ ts(b) \in Nat
    BY <1>1, <1>2, <1>5
  <2>2. /\ Newer(a, b) <=> ts(a) > ts(b) \/ (ts(a) = ts(b) /\ a.id > b.id)
        /\ Newer(b, a) <=> ts(b) > ts(a) \/ (ts(b) = ts(a) /\ b.id > a.id)
    BY <1>3
  <2> QED BY <2>1, <2>2
<1>6. ASSUME NEW a \in rows, NEW b \in rows, NEW c \in rows, Newer(a, b), Newer(b, c)
      PROVE  Newer(a, c)
  BY <1>1, <1>3, <1>6
<1> QED BY <1>4, <1>5, <1>6 DEF Ordered

(* Each of the first Cardinality(rows) positions has exactly one row. *)
EachOnce(rows) ==
    /\ \A r \in rows : Rank(rows, r) \in 0..(Cardinality(rows) - 1)
    /\ \A r, q \in rows : Rank(rows, r) = Rank(rows, q) => r = q
    /\ \A k \in 0..(Cardinality(rows) - 1) : \E r \in rows : Rank(rows, r) = k

LEMMA EachPositionOnce ==
    ASSUME NEW rows, IsFiniteSet(rows), Ordered(rows)
    PROVE  EachOnce(rows)
<1> DEFINE n == Cardinality(rows)
           newer(r) == {q \in rows : Newer(q, r)}
           rank == [r \in rows |-> Rank(rows, r)]
           positions == 0..(n - 1)
<1>1. n \in Nat
  BY FS_CardinalityType
<1>2. \A r \in rows : IsFiniteSet(newer(r)) /\ Cardinality(newer(r)) \in Nat
  BY FS_Subset, FS_CardinalityType
<1>3. \A r \in rows : Rank(rows, r) = Cardinality(newer(r))
  BY DEF Rank
<1>4. ASSUME NEW r \in rows PROVE Rank(rows, r) \in positions
  <2>1. newer(r) \in SUBSET (rows \ {r})
    BY DEF Ordered
  <2>2. IsFiniteSet(rows \ {r}) /\ Cardinality(rows \ {r}) = n - 1
    BY FS_RemoveElement
  <2>3. Cardinality(newer(r)) <= n - 1 /\ Cardinality(newer(r)) \in Nat
    BY <1>2, <2>1, <2>2, FS_Subset
  <2> HIDE DEF n, newer
  <2> QED BY <1>1, <1>3, <2>3
<1>5. ASSUME NEW a \in rows, NEW b \in rows, Newer(a, b)
      PROVE  Rank(rows, a) < Rank(rows, b)
  <2>1. newer(a) \cup {a} \in SUBSET newer(b)
    BY <1>5 DEF Ordered
  <2>2. a \notin newer(a)
    BY DEF Ordered
  <2>3. Cardinality(newer(a) \cup {a}) = Cardinality(newer(a)) + 1
    BY <1>2, <2>2, FS_AddElement
  <2>4. Cardinality(newer(a) \cup {a}) <= Cardinality(newer(b))
    BY <1>2, <2>1, FS_Subset
  <2>5. Cardinality(newer(a)) \in Nat /\ Cardinality(newer(b)) \in Nat
    BY <1>2
  <2> HIDE DEF newer
  <2> QED BY <1>3, <2>3, <2>4, <2>5
<1>6. ASSUME NEW r \in rows, NEW q \in rows, Rank(rows, r) = Rank(rows, q) PROVE r = q
  <2>1. Rank(rows, r) \in Int /\ Rank(rows, q) \in Int
    BY <1>4
  <2>2. ~Newer(r, q) /\ ~Newer(q, r)
    BY <1>5, <1>6, <2>1
  <2> QED BY <2>2 DEF Ordered
<1> HIDE DEF n
<1>7. rank \in Injection(rows, positions)
  BY <1>4, <1>6 DEF Injection, IsInjective
<1>8. IsFiniteSet(positions) /\ Cardinality(positions) = n
  BY <1>1, FS_Interval
<1>9. Cardinality(rows) = Cardinality(positions)
  BY <1>8 DEF n
<1> HIDE DEF rank, positions
<1>10. rank \in Surjection(rows, positions)
  BY <1>7, <1>8, <1>9, FS_Injection
<1>11. ASSUME NEW k \in positions PROVE \E r \in rows : Rank(rows, r) = k
  BY <1>10 DEF Surjection, rank
<1> QED BY <1>4, <1>6, <1>11 DEF EachOnce, positions, n

(* There are as many rows as queries. *)
LEMMA AsManyRows ==
    ASSUME NEW ids, LogIds(ids), NEW rows, OneRowEach(rows, ids)
    PROVE  IsFiniteSet(rows) /\ Cardinality(rows) = Cardinality(ids)
<1> DEFINE f == [r \in rows |-> r.id]
<1>1. ids \in SUBSET (1..MaxSent) /\ IsFiniteSet(1..MaxSent)
  BY WriterAssumption, FS_Interval DEF LogIds
<1>2. IsFiniteSet(ids)
  BY <1>1, FS_Subset
<1>3. f \in Injection(rows, ids)
  BY DEF OneRowEach, Injection, IsInjective
<1>4. f \in Surjection(rows, ids)
  BY DEF OneRowEach, Surjection
<1> HIDE DEF f
<1>5. IsFiniteSet(rows) /\ (Cardinality(rows) = Cardinality(ids) <=> f \in Surjection(rows, ids))
  BY <1>2, <1>3, FS_Injection
<1> QED BY <1>4, <1>5

(* OneRowPerQuery follows from UniqueIp: the pages of the log are its      *)
(* rows, one by one.                                                       *)
LEMMA PagesShowEachOnce ==
    ASSUME OneHolder(db.devices)
    PROVE  OneRowPerQuery
<1> SUFFICES ASSUME NEW filter \in SUBSET (1..MaxSent)
             PROVE  LET wanted == Queries(db, 0) \cap filter
                        page(k) == RecentQueries(db, filter, 1, k)
                    IN  /\ \A k \in 0..(Cardinality(wanted) - 1) : Cardinality(page(k)) = 1
                        /\ page(Cardinality(wanted)) = {}
                        /\ UNION {{r.id : r \in page(k)} :
                                     k \in 0..(Cardinality(wanted) - 1)} = wanted
  BY DEF OneRowPerQuery
<1> DEFINE wanted == Queries(db, 0) \cap filter
           rows == LeftJoin(db, wanted)
           page(k) == RecentQueries(db, filter, 1, k)
           n == Cardinality(wanted)
<1>1. LogIds(wanted)
  BY DEF LogIds, Queries
<1>2. \A k \in Nat : page(k) = {r \in rows : Rank(rows, r) \in k..(k + 1 - 1)}
  BY DEF RecentQueries, Rank, Clamp, AtLeast
<1> HIDE DEF wanted, rows, page
<1>3. OneRowEach(rows, wanted)
  BY <1>1, JoinKeepsRows DEF rows
<1>4. IsFiniteSet(rows) /\ Cardinality(rows) = n /\ n \in Nat
  BY <1>1, <1>3, AsManyRows, FS_CardinalityType
<1>5. /\ \A r \in rows : Rank(rows, r) \in 0..(n - 1)
      /\ \A r, q \in rows : Rank(rows, r) = Rank(rows, q) => r = q
      /\ \A k \in 0..(n - 1) : \E r \in rows : Rank(rows, r) = k
  BY <1>1, <1>3, <1>4, NewerIsOrder, EachPositionOnce DEF EachOnce
<1>6. \A k \in Nat : page(k) = {r \in rows : Rank(rows, r) = k}
  BY <1>2, <1>4, <1>5
<1>7. ASSUME NEW k \in 0..(n - 1) PROVE Cardinality(page(k)) = 1
  <2>1. PICK r \in rows : Rank(rows, r) = k
    BY <1>5
  <2>2. page(k) = {r}
    BY <1>4, <1>5, <1>6, <2>1
  <2> QED BY <2>2, FS_Singleton
<1>8. page(n) = {}
  BY <1>4, <1>5, <1>6
<1>9. UNION {{r.id : r \in page(k)} : k \in 0..(n - 1)} = wanted
  <2>1. ASSUME NEW i \in wanted PROVE \E k \in 0..(n - 1) : i \in {r.id : r \in page(k)}
    <3>1. PICK r \in rows : r.id = i
      BY <1>3 DEF OneRowEach
    <3>2. Rank(rows, r) \in 0..(n - 1) /\ r \in page(Rank(rows, r))
      BY <1>4, <1>5, <1>6
    <3> QED BY <3>1, <3>2
  <2>2. ASSUME NEW k \in 0..(n - 1), NEW r \in page(k) PROVE r.id \in wanted
    BY <1>3, <1>4, <1>6 DEF OneRowEach
  <2> QED BY <2>1, <2>2
<1> QED BY <1>7, <1>8, <1>9 DEF wanted, page

(* The query log shows every committed query exactly once, page by page    *)
(* and under any filter: recent_queries' join on the address finds one     *)
(* device at most, whatever moved, crashed or failed before.               *)
THEOREM LogShowsEachQueryOnce == Spec => []OneRowPerQuery
<1>1. IInv => OneRowPerQuery
  BY PagesShowEachOnce DEF IInv
<1> QED BY <1>1, Invariance, PTL
=============================================================================
