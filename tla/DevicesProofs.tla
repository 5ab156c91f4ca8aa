---------------------------- MODULE DevicesProofs ----------------------------
(***************************************************************************)
(* Theorems about the device registry and its rows, for any devices,       *)
(* addresses, names and threads, any queue and batch size, and any crashes *)
(* and failed transactions: the index and the registry agree, no device is *)
(* forgotten before it is written, and only an unseen MAC is announced.    *)
(*                                                                         *)
(* The registry moves the writer by the writer's own steps, so that what   *)
(* is proved of the writer is used here and not proved again.              *)
(***************************************************************************)
EXTENDS Devices, TLAPS

WP == INSTANCE WriterProofs WITH
    sent <- 0, MaxSent <- 0, Log <- <<>>, BypassThreshold <- 0, Nows <- {}

----------------------------------------------------------------------------
(* The inductive invariant *)

(* What a thread has still to send and to raise. *)
Errand == [op : {<<>>} \cup {<<o>> : o \in W!DeviceOp}, new : Macs \cup {NoMac}]

Types ==
    /\ DOMAIN by_mac \subseteq Macs /\ by_mac \in [DOMAIN by_mac -> Device]
    /\ DOMAIN ip_to_mac \subseteq Ips /\ ip_to_mac \in [DOMAIN ip_to_mac -> Macs]
    /\ DOMAIN pending_names \subseteq Ips
    /\ pending_names \in [DOMAIN pending_names -> LookupNames]
    /\ todo \in [Threads -> Errand]
    /\ hydrated \in BOOLEAN
    /\ lossless \in BOOLEAN
    /\ queue \in Seq(W!DeviceOp) /\ pending \in Seq(W!DeviceOp)

MacsIn(ops) == {ops[i].mac : i \in 1..Len(ops)}

Sending == {t \in Threads : todo[t].op # <<>>}
MacsToSend == {todo[t].op[1].mac : t \in Sending}

(* The devices that have a row, or have one on its way. *)
Reach == DOMAIN db.devices \cup DOMAIN staged.devices
             \cup MacsIn(pending) \cup MacsIn(queue) \cup MacsToSend

(* The open transaction has the rows committed and those executed; without *)
(* one it has none.                                                        *)
StagedRows ==
    /\ phase # "flush" => DOMAIN staged.devices = {}
    /\ phase = "flush" =>
          /\ DOMAIN db.devices \subseteq DOMAIN staged.devices
          /\ \A i \in 1..done : pending[i].mac \in DOMAIN staged.devices

(* Nothing is written of a device that the registry does not have, unless  *)
(* it was not loaded; and nothing that it has is lost, unless a write was. *)
Covered ==
    /\ hydrated => Reach \subseteq DOMAIN by_mac
    /\ lossless => DOMAIN by_mac \subseteq Reach

IInv ==
    /\ WP!IInv
    /\ Types
    /\ IndexSound
    /\ StagedRows
    /\ Covered

----------------------------------------------------------------------------
(* The writer underneath *)

LEMMA WriterAssumed == WP!WriterAssumption
BY DevicesAssumption DEF WP!WriterAssumption

LEMMA SameOps == W!DeviceOp = WP!DeviceOp /\ W!Row = WP!Row
BY DEF W!DeviceOp, WP!DeviceOp, W!Row, WP!Row

LEMMA SameTypes == W!TypeOK <=> WP!TypeOK
BY DEF W!TypeOK, WP!TypeOK, W!WriteOp, WP!WriteOp, W!DeviceOp, WP!DeviceOp, W!EventOp,
       WP!EventOp, W!Database, WP!Database, W!DevicesTable, WP!DevicesTable, W!Row, WP!Row

LEMMA SameEmptyDb == W!EmptyDb = WP!EmptyDb
BY DEF W!EmptyDb, WP!EmptyDb

LEMMA SameExecute ==
    ASSUME NEW base, NEW op
    PROVE  W!Execute(base, op) = WP!Execute(base, op)
BY DEF W!Execute, WP!Execute, W!Upsert, WP!Upsert, W!ReleaseIp, WP!ReleaseIp,
       W!Coalesce, WP!Coalesce

LEMMA SameEndFlush == W!EndFlush <=> WP!EndFlush
BY SameEmptyDb DEF W!EndFlush, WP!EndFlush

LEMMA SameInit == W!Init <=> WP!Init
BY SameEmptyDb DEF W!Init, WP!Init

LEMMA SameCrash == W!Crash <=> WP!Crash
BY SameEmptyDb DEF W!Crash, WP!Crash

LEMMA SameWriterStep == W!WriterStep <=> WP!WriterStep
<1>1. W!Recv <=> WP!Recv
  BY DEF W!Recv, WP!Recv, W!TakeFromQueue, WP!TakeFromQueue
<1>2. W!Drain <=> WP!Drain
  BY DEF W!Drain, WP!Drain, W!TakeFromQueue, WP!TakeFromQueue
<1>3. W!BeginFlush <=> WP!BeginFlush
  BY DEF W!BeginFlush, WP!BeginFlush
<1>4. W!ExecuteNext <=> WP!ExecuteNext
  BY SameExecute DEF W!ExecuteNext, WP!ExecuteNext
<1>5. W!Commit <=> WP!Commit
  BY SameEndFlush DEF W!Commit, WP!Commit
<1>6. W!FlushFails <=> WP!FlushFails
  BY SameEndFlush DEF W!FlushFails, WP!FlushFails
<1>7. ASSUME NEW old PROVE W!Prune(old) <=> WP!Prune(old)
  BY DEF W!Prune, WP!Prune
<1> QED BY <1>1, <1>2, <1>3, <1>4, <1>5, <1>6, <1>7 DEF W!WriterStep, WP!WriterStep

(* Whatever the writer does here, it does as in Writer. *)
LEMMA WriterKept ==
    ASSUME WP!IInv,
           \/ UNCHANGED writer
           \/ W!WriterStep
           \/ W!Crash
           \/ \E op \in W!DeviceOp : W!Send(op) /\ UNCHANGED <<phase, pending, done, staged, db>>
    PROVE  WP!IInv'
<1>1. CASE UNCHANGED writer
  BY <1>1, WP!NextPreserves, WriterAssumed DEF writer, WP!vars, WP!thread
<1>2. CASE W!WriterStep
  BY <1>2, SameWriterStep, WP!NextPreserves, WriterAssumed DEF WP!Next
<1>3. CASE W!Crash
  BY <1>3, SameCrash, WP!NextPreserves, WriterAssumed DEF WP!Next
<1>4. CASE \E op \in W!DeviceOp :
              W!Send(op) /\ UNCHANGED <<phase, pending, done, staged, db>>
  <2>1. PICK op \in W!DeviceOp :
              W!Send(op) /\ UNCHANGED <<phase, pending, done, staged, db>>
    BY <1>4
  <2>2. WP!SubmitDevice(op)
    BY <2>1 DEF W!Send, WP!Send, WP!SubmitDevice, WP!thread
  <2> QED BY <2>1, <2>2, SameOps, WP!NextPreserves, WriterAssumed DEF WP!Next
<1> QED BY <1>1, <1>2, <1>3, <1>4

----------------------------------------------------------------------------
(* Lemmas about the operators *)

LEMMA WithTyped ==
    ASSUME NEW S, NEW f, f \in [DOMAIN f -> S], NEW x, NEW v \in S
    PROVE  With(f, x, v) \in [DOMAIN f \cup {x} -> S]
BY DEF With

LEMMA AppendedMacs ==
    ASSUME NEW q \in Seq(W!DeviceOp), NEW op \in W!DeviceOp
    PROVE  MacsIn(Append(q, op)) = MacsIn(q) \cup {op.mac}
<1>1. /\ Len(q) \in Nat /\ Len(Append(q, op)) = Len(q) + 1
      /\ \A i \in 1..Len(q) : Append(q, op)[i] = q[i]
      /\ Append(q, op)[Len(q) + 1] = op
  OBVIOUS
<1>2. MacsIn(Append(q, op)) \subseteq MacsIn(q) \cup {op.mac}
  BY <1>1 DEF MacsIn
<1>3. MacsIn(q) \subseteq MacsIn(Append(q, op))
  BY <1>1 DEF MacsIn
<1>4. op.mac \in MacsIn(Append(q, op))
  BY <1>1 DEF MacsIn
<1> QED BY <1>2, <1>3, <1>4

LEMMA HeadAndTailMacs ==
    ASSUME NEW q \in Seq(W!DeviceOp), q # <<>>
    PROVE  /\ Head(q) \in W!DeviceOp /\ Tail(q) \in Seq(W!DeviceOp)
           /\ MacsIn(q) = {Head(q).mac} \cup MacsIn(Tail(q))
<1>1. /\ Head(q) \in W!DeviceOp /\ Tail(q) \in Seq(W!DeviceOp)
      /\ Len(q) \in Nat \ {0} /\ Len(Tail(q)) = Len(q) - 1
      /\ Head(q) = q[1]
      /\ \A i \in 1..Len(q) - 1 : Tail(q)[i] = q[i + 1]
  OBVIOUS
<1>2. MacsIn(Tail(q)) \subseteq MacsIn(q)
  BY <1>1 DEF MacsIn
<1>3. Head(q).mac \in MacsIn(q)
  BY <1>1 DEF MacsIn
<1>4. ASSUME NEW m \in MacsIn(q) PROVE m = Head(q).mac \/ m \in MacsIn(Tail(q))
  <2>1. PICK i \in 1..Len(q) : m = q[i].mac
    BY DEF MacsIn
  <2>2. CASE i = 1
    BY <1>1, <2>1, <2>2
  <2>3. CASE i # 1
    <3>1. i - 1 \in 1..Len(Tail(q)) /\ Tail(q)[i - 1] = q[i]
      BY <1>1, <2>3
    <3> QED BY <2>1, <3>1 DEF MacsIn
  <2> QED BY <2>2, <2>3
<1> QED BY <1>1, <1>2, <1>3, <1>4

(* A statement executed adds its device to the table and removes none. *)
LEMMA ExecutedMacs ==
    ASSUME NEW base, NEW op \in W!DeviceOp
    PROVE  DOMAIN W!Execute(base, op).devices = DOMAIN base.devices \cup {op.mac}
BY DEF W!Execute, W!Upsert, W!ReleaseIp, W!DeviceOp

LEMMA FreshIsDevice == Fresh \in Device
BY DEF Fresh, Device, Unwritten

----------------------------------------------------------------------------
(* A call that puts a device back: the registry gains it at most, and what *)
(* is new has its row sent.                                                *)
LEMMA RecordEffect ==
    ASSUME Types, Covered,
           NEW t \in Threads, NEW m \in Macs, NEW d \in Device,
           NEW new \in Macs \cup {NoMac},
           Record(t, m, d, new),
           todo[t].op = <<>>,
           m \in DOMAIN by_mac \/ d.due,
           UNCHANGED <<writer, hydrated, lossless>>
    PROVE  /\ DOMAIN by_mac' = DOMAIN by_mac \cup {m}
           /\ by_mac' \in [DOMAIN by_mac' -> Device]
           /\ by_mac'[m].ip = d.ip
           /\ \A n \in DOMAIN by_mac : n # m => by_mac'[n] = by_mac[n]
           /\ todo' \in [Threads -> Errand]
           /\ Covered'
<1> DEFINE kept == IF TakesWriteSlot(d)
                   THEN [d EXCEPT !.written = Fields(d), !.due = FALSE]
                   ELSE d
           op == IF TakesWriteSlot(d) THEN <<RowOf(m, d)>> ELSE <<>>
<1>1. kept \in Device /\ kept.ip = d.ip
  <2>1. Fields(d) \in [ip : Ips \cup {NoIp}, hostname : Names \cup {NoName}]
    BY DEF Device, Fields
  <2> QED BY <2>1 DEF Device
<1>2. RowOf(m, d) \in W!DeviceOp /\ RowOf(m, d).mac = m
  BY DEF RowOf, W!DeviceOp, Device
<1>3. by_mac' = With(by_mac, m, kept) /\ todo' = [todo EXCEPT ![t] = [op |-> op, new |-> new]]
  BY DEF Record
<1>4. op \in {<<>>} \cup {<<o>> : o \in W!DeviceOp}
  BY <1>2
<1> HIDE DEF kept
<1>5. /\ DOMAIN by_mac' = DOMAIN by_mac \cup {m}
      /\ by_mac' \in [DOMAIN by_mac' -> Device]
      /\ by_mac'[m].ip = d.ip
      /\ \A n \in DOMAIN by_mac : n # m => by_mac'[n] = by_mac[n]
  <2>1. With(by_mac, m, kept) \in [DOMAIN by_mac \cup {m} -> Device]
    <3>1. by_mac \in [DOMAIN by_mac -> Device]
      BY DEF Types
    <3> QED BY ONLY <1>1, <3>1, WithTyped
  <2>2. /\ DOMAIN With(by_mac, m, kept) = DOMAIN by_mac \cup {m}
        /\ With(by_mac, m, kept)[m] = kept
        /\ \A n \in DOMAIN by_mac : n # m => With(by_mac, m, kept)[n] = by_mac[n]
    BY DEF With
  <2> QED BY ONLY <1>1, <1>3, <2>1, <2>2
<1>6. todo' \in [Threads -> Errand]
  <2> HIDE DEF op
  <2>1. [op |-> op, new |-> new] \in Errand
    BY <1>4 DEF Errand
  <2> QED BY <1>3, <2>1 DEF Types
<1>7. /\ \A s \in Threads : s # t => todo'[s] = todo[s]
      /\ todo'[t].op = op
  BY <1>3 DEF Types
<1>8. MacsToSend \subseteq MacsToSend'
  BY <1>7 DEF MacsToSend, Sending
<1>9. MacsToSend' \subseteq MacsToSend \cup {m}
  BY <1>2, <1>7 DEF MacsToSend, Sending
<1>10. m \in MacsToSend' \/ m \in DOMAIN by_mac
  <2>1. CASE d.due
    <3>1. todo'[t].op = <<RowOf(m, d)>>
      BY <1>7, <2>1 DEF TakesWriteSlot
    <3>2. todo'[t].op # <<>> /\ todo'[t].op[1].mac = m
      BY <1>2, <3>1
    <3> QED BY <3>2 DEF MacsToSend, Sending
  <2> QED BY <2>1
<1>11. Covered'
  <2>1. /\ (DOMAIN db.devices)' = DOMAIN db.devices
        /\ (DOMAIN staged.devices)' = DOMAIN staged.devices
        /\ MacsIn(pending)' = MacsIn(pending) /\ MacsIn(queue)' = MacsIn(queue)
    BY DEF writer, MacsIn
  <2> QED BY <1>5, <1>8, <1>9, <1>10, <2>1 DEF Covered, Reach
<1> QED BY <1>5, <1>6, <1>11

----------------------------------------------------------------------------
(* Each action keeps the invariant *)

LEMMA DeviceKnown ==
    ASSUME Types, NEW m \in Macs
    PROVE  /\ DeviceOf(m) \in Device
           /\ m \in DOMAIN by_mac => DeviceOf(m) = by_mac[m]
           /\ m \notin DOMAIN by_mac => DeviceOf(m).due /\ DeviceOf(m).ip = NoIp
<1>1. CASE m \in DOMAIN by_mac
  BY <1>1 DEF DeviceOf, Types
<1>2. CASE m \notin DOMAIN by_mac
  <2>1. DeviceOf(m) = Fresh
    BY <1>2 DEF DeviceOf
  <2> QED BY <1>2, <2>1, FreshIsDevice DEF Fresh
<1> QED BY <1>1, <1>2

LEMMA WriterStill ==
    ASSUME IInv, UNCHANGED writer
    PROVE  /\ WP!IInv' /\ StagedRows'
           /\ queue' \in Seq(W!DeviceOp) /\ pending' \in Seq(W!DeviceOp)
<1>1. WP!IInv'
  BY WriterKept DEF IInv
<1>2. StagedRows'
  BY DEF IInv, StagedRows, writer
<1> QED BY <1>1, <1>2 DEF IInv, Types, writer

LEMMA ObserveKeeps ==
    ASSUME IInv, NEW ip \in Ips, NEW m \in Macs, Observe(ip, m)
    PROVE  IInv'
<1> DEFINE d == [DeviceOf(m) EXCEPT !.ip = ip]
           name == IF ip \in DOMAIN pending_names THEN pending_names[ip] ELSE d.hostname
           new == IF m \in DOMAIN by_mac THEN NoMac ELSE m
           seen == [d EXCEPT !.hostname = name]
<1>0. /\ todo[ArpPoller] = Nothing
      /\ pending_names' = [i \in DOMAIN pending_names \ {ip} |-> pending_names[i]]
      /\ ip_to_mac' = With(ip_to_mac, ip, m)
      /\ Record(ArpPoller, m, seen, new)
      /\ UNCHANGED <<writer, hydrated, lossless>>
  BY DEF Observe
<1>1. d \in Device /\ d.ip = ip /\ (m \notin DOMAIN by_mac => d.due)
  BY DeviceKnown DEF IInv, Device
<1>2. name \in Names \cup {NoName}
  BY <1>1, DevicesAssumption DEF IInv, Types, Device
<1>3. seen \in Device /\ seen.ip = ip /\ (m \notin DOMAIN by_mac => seen.due)
  <2> HIDE DEF name, d
  <2> QED BY <1>1, <1>2 DEF Device
<1>4. new \in Macs \cup {NoMac} /\ ArpPoller \in Threads
  BY DEF Threads
<1>5. todo[ArpPoller].op = <<>>
  BY <1>0 DEF Nothing
<1> HIDE DEF seen, new
<1>6. /\ DOMAIN by_mac' = DOMAIN by_mac \cup {m}
      /\ by_mac' \in [DOMAIN by_mac' -> Device]
      /\ by_mac'[m].ip = ip
      /\ \A n \in DOMAIN by_mac : n # m => by_mac'[n] = by_mac[n]
      /\ todo' \in [Threads -> Errand]
      /\ Covered'
  BY <1>0, <1>3, <1>4, <1>5, RecordEffect DEF IInv
<1>7. /\ DOMAIN ip_to_mac' = DOMAIN ip_to_mac \cup {ip}
      /\ ip_to_mac'[ip] = m
      /\ \A i \in DOMAIN ip_to_mac : i # ip => ip_to_mac'[i] = ip_to_mac[i]
      /\ ip_to_mac' \in [DOMAIN ip_to_mac' -> Macs]
  BY <1>0 DEF With, IInv, Types
<1>8. /\ DOMAIN pending_names' = DOMAIN pending_names \ {ip}
      /\ pending_names' \in [DOMAIN pending_names' -> LookupNames]
  BY <1>0 DEF IInv, Types
<1>9. WP!IInv' /\ StagedRows' /\ queue' \in Seq(W!DeviceOp) /\ pending' \in Seq(W!DeviceOp)
  BY <1>0, WriterStill
<1>10. Types'
  BY <1>0, <1>6, <1>7, <1>8, <1>9 DEF IInv, Types
<1>11. IndexSound'
  <2>1. \A i \in DOMAIN ip_to_mac' : ip_to_mac'[i] \in DOMAIN by_mac'
    BY <1>6, <1>7 DEF IInv, IndexSound
  <2>2. \A n \in DOMAIN by_mac' : by_mac'[n].ip # NoIp => by_mac'[n].ip \in DOMAIN ip_to_mac'
    BY <1>6, <1>7 DEF IInv, IndexSound
  <2> QED BY <1>7, <1>8, <2>1, <2>2 DEF IInv, IndexSound
<1> QED BY <1>6, <1>9, <1>10, <1>11 DEF IInv

(* A name given to a device: its address stays. *)
LEMMA NamingKeeps ==
    ASSUME IInv, NEW t \in Threads, NEW m \in Macs, NEW name \in Names \cup {NoName},
           todo[t] = Nothing,
           Record(t, m, [DeviceOf(m) EXCEPT !.hostname = name], NoMac),
           UNCHANGED <<writer, ip_to_mac, pending_names, hydrated, lossless>>
    PROVE  IInv'
<1> DEFINE d == [DeviceOf(m) EXCEPT !.hostname = name]
<1>1. /\ d \in Device /\ d.ip = DeviceOf(m).ip
      /\ m \in DOMAIN by_mac => d.ip = by_mac[m].ip
      /\ m \notin DOMAIN by_mac => d.due /\ d.ip = NoIp
  BY DeviceKnown DEF IInv, Device
<1>2. todo[t].op = <<>>
  BY DEF Nothing
<1> HIDE DEF d
<1>3. /\ DOMAIN by_mac' = DOMAIN by_mac \cup {m}
      /\ by_mac' \in [DOMAIN by_mac' -> Device]
      /\ by_mac'[m].ip = d.ip
      /\ \A n \in DOMAIN by_mac : n # m => by_mac'[n] = by_mac[n]
      /\ todo' \in [Threads -> Errand]
      /\ Covered'
  <2>1. Record(t, m, d, NoMac)
    BY DEF d
  <2> QED BY <1>1, <1>2, <2>1, RecordEffect DEF IInv
<1>4. WP!IInv' /\ StagedRows' /\ queue' \in Seq(W!DeviceOp) /\ pending' \in Seq(W!DeviceOp)
  BY WriterStill
<1>5. Types'
  BY <1>3, <1>4 DEF IInv, Types
<1>6. IndexSound'
  BY <1>1, <1>3 DEF IInv, IndexSound
<1> QED BY <1>3, <1>4, <1>5, <1>6 DEF IInv

LEMMA ObserveNamedKeeps ==
    ASSUME IInv, NEW m \in Macs, NEW name \in OwnNames, ObserveNamed(m, name)
    PROVE  IInv'
<1>1. name \in Names \cup {NoName} /\ DhcpListener \in Threads
  BY DevicesAssumption DEF Threads
<1> QED BY <1>1, NamingKeeps DEF ObserveNamed

LEMMA ObserveNameForIpKeeps ==
    ASSUME IInv, NEW t \in Tasks, NEW ip \in Ips, NEW name \in LookupNames,
           ObserveNameForIp(t, ip, name)
    PROVE  IInv'
<1>0. todo[t] = Nothing /\ t \in Threads
      /\ UNCHANGED <<writer, ip_to_mac, hydrated, lossless>>
  BY DEF ObserveNameForIp, Threads
<1>1. CASE ip \in DOMAIN ip_to_mac
  <2> DEFINE m == ip_to_mac[ip]
             given == IF DeviceOf(m).hostname = NoName THEN name ELSE DeviceOf(m).hostname
  <2>1. m \in Macs
    BY <1>1 DEF IInv, Types
  <2>2. DeviceOf(m) \in Device
    BY <2>1, DeviceKnown DEF IInv
  <2>3. given \in Names \cup {NoName}
    BY <2>2, DevicesAssumption DEF Device
  <2>4. /\ Record(t, m, [DeviceOf(m) EXCEPT !.hostname = given], NoMac)
        /\ UNCHANGED pending_names
    BY <1>1 DEF ObserveNameForIp
  <2> HIDE DEF m, given
  <2> QED BY <1>0, <2>1, <2>3, <2>4, NamingKeeps
<1>2. CASE ip \notin DOMAIN ip_to_mac
  <2>1. pending_names' = With(pending_names, ip, name) /\ UNCHANGED <<by_mac, todo>>
    BY <1>2 DEF ObserveNameForIp
  <2>2. /\ DOMAIN pending_names' = DOMAIN pending_names \cup {ip}
        /\ pending_names' \in [DOMAIN pending_names' -> LookupNames]
    BY <2>1 DEF With, IInv, Types
  <2>3. WP!IInv' /\ StagedRows' /\ queue' \in Seq(W!DeviceOp) /\ pending' \in Seq(W!DeviceOp)
    BY <1>0, WriterStill
  <2>4. Types'
    BY <1>0, <2>1, <2>2, <2>3 DEF IInv, Types
  <2>5. IndexSound'
    BY <1>0, <1>2, <2>1, <2>2 DEF IInv, IndexSound
  <2>6. Covered'
    BY <1>0, <2>1 DEF IInv, Covered, Reach, MacsIn, MacsToSend, Sending, writer
  <2> QED BY <2>3, <2>4, <2>5, <2>6 DEF IInv
<1> QED BY <1>1, <1>2

LEMMA TouchIpKeeps ==
    ASSUME IInv, NEW t \in Tasks, NEW ip \in Ips, TouchIp(t, ip)
    PROVE  IInv'
<1> DEFINE m == ip_to_mac[ip]
           d == by_mac[m]
           sent_row == [op |-> <<RowOf(m, d)>>, new |-> NoMac]
<1>1. /\ todo[t].op = <<>> /\ t \in Threads
      /\ m \in DOMAIN by_mac /\ m \in Macs
      /\ by_mac' = [by_mac EXCEPT ![m].due = FALSE]
      /\ todo' = [todo EXCEPT ![t] = sent_row]
      /\ UNCHANGED <<writer, ip_to_mac, pending_names, hydrated, lossless>>
  BY DEF TouchIp, Threads, Nothing, IInv, Types
<1>2. d \in Device
  BY <1>1 DEF IInv, Types
<1>3. RowOf(m, d) \in W!DeviceOp /\ RowOf(m, d).mac = m
  BY <1>1, <1>2 DEF RowOf, W!DeviceOp, Device
<1>4. sent_row \in Errand /\ sent_row.op[1].mac = m
  BY <1>3 DEF Errand
<1> HIDE DEF m, sent_row
<1>5. /\ DOMAIN by_mac' = DOMAIN by_mac
      /\ by_mac' \in [DOMAIN by_mac' -> Device]
      /\ \A n \in DOMAIN by_mac : by_mac'[n].ip = by_mac[n].ip
  BY <1>1, <1>2 DEF IInv, Types, Device
<1>6. /\ todo' \in [Threads -> Errand]
      /\ \A s \in Threads : s # t => todo'[s] = todo[s]
      /\ todo'[t] = sent_row
  BY <1>1, <1>4 DEF IInv, Types
<1>7. MacsToSend \subseteq MacsToSend' /\ MacsToSend' \subseteq MacsToSend \cup {m}
  BY <1>1, <1>4, <1>6 DEF MacsToSend, Sending
<1>8. WP!IInv' /\ StagedRows' /\ queue' \in Seq(W!DeviceOp) /\ pending' \in Seq(W!DeviceOp)
  BY <1>1, WriterStill
<1>9. Types'
  BY <1>1, <1>5, <1>6, <1>8 DEF IInv, Types
<1>10. IndexSound'
  BY <1>1, <1>5 DEF IInv, IndexSound
<1>11. Covered'
  <2>1. /\ (DOMAIN db.devices)' = DOMAIN db.devices
        /\ (DOMAIN staged.devices)' = DOMAIN staged.devices
        /\ MacsIn(pending)' = MacsIn(pending) /\ MacsIn(queue)' = MacsIn(queue)
    BY <1>1 DEF writer, MacsIn
  <2> QED BY <1>1, <1>5, <1>7, <2>1 DEF IInv, Covered, Reach
<1> QED BY <1>8, <1>9, <1>10, <1>11 DEF IInv

LEMMA BecomesDueKeeps ==
    ASSUME IInv, NEW m \in Macs, BecomesDue(m)
    PROVE  IInv'
<1>1. /\ m \in DOMAIN by_mac
      /\ by_mac' = [by_mac EXCEPT ![m].due = TRUE]
      /\ UNCHANGED <<writer, ip_to_mac, pending_names, todo, hydrated, lossless>>
  BY DEF BecomesDue
<1>2. /\ DOMAIN by_mac' = DOMAIN by_mac
      /\ by_mac' \in [DOMAIN by_mac' -> Device]
      /\ \A n \in DOMAIN by_mac : by_mac'[n].ip = by_mac[n].ip
  BY <1>1 DEF IInv, Types, Device
<1>3. WP!IInv' /\ StagedRows' /\ queue' \in Seq(W!DeviceOp) /\ pending' \in Seq(W!DeviceOp)
  BY <1>1, WriterStill
<1>4. Types'
  BY <1>1, <1>2, <1>3 DEF IInv, Types
<1>5. IndexSound'
  BY <1>1, <1>2 DEF IInv, IndexSound
<1>6. Covered'
  BY <1>1, <1>2 DEF IInv, Covered, Reach, MacsIn, MacsToSend, Sending, writer
<1> QED BY <1>3, <1>4, <1>5, <1>6 DEF IInv

(* A row sent is in the queue, or the queue is full and the row is lost. *)
LEMMA PersistKeeps ==
    ASSUME IInv, NEW t \in Threads, Persist(t)
    PROVE  IInv'
<1> DEFINE op == todo[t].op[1]
<1>1. /\ todo[t].op # <<>>
      /\ W!Send(op)
      /\ todo' = [todo EXCEPT ![t].op = <<>>]
      /\ lossless' = (lossless /\ queue' # queue)
      /\ UNCHANGED <<phase, pending, done, staged, db, registry, hydrated>>
  BY DEF Persist
<1>2. op \in W!DeviceOp /\ todo[t] \in Errand
  BY <1>1 DEF IInv, Types, Errand
<1>3. WP!IInv'
  BY <1>1, <1>2, WriterKept DEF IInv
<1>4. /\ todo' \in [Threads -> Errand]
      /\ \A s \in Threads : s # t => todo'[s] = todo[s]
      /\ todo'[t].op = <<>>
  BY <1>1, <1>2 DEF IInv, Types, Errand
<1>5. /\ MacsToSend' \subseteq MacsToSend
      /\ MacsToSend \subseteq MacsToSend' \cup {op.mac}
      /\ op.mac \in MacsToSend
  BY <1>1, <1>4 DEF MacsToSend, Sending
<1>6. \/ queue' = Append(queue, op)
      \/ queue' = queue /\ ~lossless'
  BY <1>1 DEF W!Send
<1> HIDE DEF op
<1>7. /\ queue' \in Seq(W!DeviceOp)
      /\ MacsIn(queue) \subseteq MacsIn(queue')
      /\ MacsIn(queue') \subseteq MacsIn(queue) \cup {op.mac}
      /\ ~lossless' \/ op.mac \in MacsIn(queue')
  <2>1. queue \in Seq(W!DeviceOp)
    BY DEF IInv, Types
  <2>2. MacsIn(Append(queue, op)) = MacsIn(queue) \cup {op.mac}
    BY <1>2, <2>1, AppendedMacs
  <2>3. CASE queue' = Append(queue, op)
    BY <1>2, <2>1, <2>2, <2>3
  <2>4. CASE queue' = queue /\ ~lossless'
    BY <2>1, <2>4
  <2> QED BY <1>6, <2>3, <2>4
<1>8. Types'
  BY <1>1, <1>4, <1>7 DEF IInv, Types, registry
<1>9. IndexSound'
  BY <1>1 DEF IInv, IndexSound, registry
<1>10. StagedRows'
  BY <1>1 DEF IInv, StagedRows
<1>11. Covered'
  <2>1. /\ Reach' = DOMAIN db.devices \cup DOMAIN staged.devices
                      \cup MacsIn(pending) \cup MacsIn(queue') \cup MacsToSend'
        /\ DOMAIN by_mac' = DOMAIN by_mac /\ hydrated' = hydrated
    BY <1>1 DEF Reach, registry, MacsIn
  <2>2. Reach' \subseteq Reach
    BY <1>5, <1>7, <2>1 DEF Reach
  <2>3. lossless' => lossless /\ Reach \subseteq Reach'
    BY <1>1, <1>5, <1>7, <2>1 DEF Reach, IInv, Types
  <2> QED BY <2>1, <2>2, <2>3 DEF IInv, Covered
<1> QED BY <1>3, <1>8, <1>9, <1>10, <1>11 DEF IInv

LEMMA RaiseKeeps ==
    ASSUME IInv, NEW t \in Threads, Raise(t)
    PROVE  IInv'
<1>1. /\ todo[t].op = <<>>
      /\ todo' = [todo EXCEPT ![t] = Nothing]
      /\ UNCHANGED <<writer, registry, hydrated, lossless>>
  BY DEF Raise
<1>2. /\ todo' \in [Threads -> Errand]
      /\ \A s \in Threads : todo'[s].op = todo[s].op
  BY <1>1 DEF IInv, Types, Errand, Nothing
<1>3. MacsToSend' = MacsToSend
  BY <1>2 DEF MacsToSend, Sending
<1>4. WP!IInv' /\ StagedRows' /\ queue' \in Seq(W!DeviceOp) /\ pending' \in Seq(W!DeviceOp)
  BY <1>1, WriterStill
<1>5. Types'
  BY <1>1, <1>2, <1>4 DEF IInv, Types, registry
<1>6. IndexSound'
  BY <1>1 DEF IInv, IndexSound, registry
<1>7. Covered'
  BY <1>1, <1>3 DEF IInv, Covered, Reach, MacsIn, registry, writer
<1> QED BY <1>4, <1>5, <1>6, <1>7 DEF IInv

(* The writer moves rows along, and loses them only when a flush fails. *)
LEMMA RowsMoveAlong ==
    ASSUME WP!IInv, Types, StagedRows, W!WriterStep, UNCHANGED todo
    PROVE  /\ StagedRows'
           /\ queue' \in Seq(W!DeviceOp) /\ pending' \in Seq(W!DeviceOp)
           /\ Reach' \subseteq Reach
           /\ W!FlushFails \/ Reach \subseteq Reach'
<1>0. /\ queue \in Seq(W!DeviceOp) /\ pending \in Seq(W!DeviceOp)
      /\ MacsToSend' = MacsToSend
      /\ done \in 0..Len(pending)
      /\ phase # "flush" => done = 0
  BY DEF Types, MacsToSend, Sending, WP!IInv, WP!TypeOK, WP!Phases
<1>1. CASE W!Recv \/ W!Drain
  <2>1. /\ queue # <<>> /\ pending' = Append(pending, Head(queue)) /\ queue' = Tail(queue)
        /\ phase # "flush" /\ phase' # "flush"
        /\ UNCHANGED <<done, staged, db>>
    BY <1>1 DEF W!Recv, W!Drain, W!TakeFromQueue
  <2>2. /\ Head(queue) \in W!DeviceOp /\ Tail(queue) \in Seq(W!DeviceOp)
        /\ MacsIn(queue) = {Head(queue).mac} \cup MacsIn(Tail(queue))
    BY <1>0, <2>1, HeadAndTailMacs
  <2>3. MacsIn(Append(pending, Head(queue))) = MacsIn(pending) \cup {Head(queue).mac}
    BY <1>0, <2>2, AppendedMacs
  <2>4. MacsIn(pending)' \cup MacsIn(queue)' = MacsIn(pending) \cup MacsIn(queue)
    <3>1. MacsIn(pending)' = MacsIn(pending') /\ MacsIn(queue)' = MacsIn(queue')
      BY DEF MacsIn
    <3> QED BY <2>1, <2>2, <2>3, <3>1
  <2>5. StagedRows'
    BY <2>1 DEF StagedRows
  <2>6. Reach' = Reach
    BY <1>0, <2>1, <2>4 DEF Reach
  <2>7. pending' \in Seq(W!DeviceOp)
    BY <1>0, <2>1, <2>2
  <2> QED BY <2>1, <2>2, <2>5, <2>6, <2>7
<1>2. CASE W!BeginFlush
  <2>1. /\ phase # "flush" /\ phase' = "flush" /\ staged' = db
        /\ UNCHANGED <<queue, pending, done, db>>
    BY <1>2 DEF W!BeginFlush
  <2>2. StagedRows'
    BY <1>0, <2>1 DEF StagedRows
  <2>3. DOMAIN staged.devices = {}
    BY <2>1 DEF StagedRows
  <2>4. Reach' = Reach
    BY <1>0, <2>1, <2>3 DEF Reach, MacsIn
  <2> QED BY <1>0, <2>1, <2>2, <2>4
<1>3. CASE W!ExecuteNext
  <2>1. /\ phase = "flush" /\ done < Len(pending)
        /\ staged' = W!Execute(staged, pending[done + 1])
        /\ done' = done + 1
        /\ UNCHANGED <<queue, phase, pending, db>>
    BY <1>3 DEF W!ExecuteNext
  <2>2. Len(pending) \in Nat /\ done + 1 \in 1..Len(pending)
    BY <1>0, <2>1
  <2>3. pending[done + 1] \in W!DeviceOp /\ pending[done + 1].mac \in MacsIn(pending)
    BY <1>0, <2>2 DEF MacsIn
  <2>4. DOMAIN staged'.devices = DOMAIN staged.devices \cup {pending[done + 1].mac}
    BY <2>1, <2>3, ExecutedMacs
  <2>5. StagedRows'
    <3>1. \A i \in 1..done' : i \in 1..done \/ i = done + 1
      BY <1>0, <2>1
    <3> QED BY <2>1, <2>4, <3>1 DEF StagedRows
  <2>6. Reach' = Reach
    BY <1>0, <2>1, <2>3, <2>4 DEF Reach, MacsIn
  <2> QED BY <1>0, <2>1, <2>5, <2>6
<1>4. ASSUME W!EndFlush
      PROVE  /\ StagedRows'
             /\ pending' = <<>> /\ MacsIn(pending)' = {}
             /\ DOMAIN staged'.devices = {}
  BY <1>4 DEF W!EndFlush, W!EmptyDb, StagedRows, MacsIn
<1>5. CASE W!Commit
  <2>1. /\ phase = "flush" /\ done = Len(pending) /\ db' = staged /\ queue' = queue
        /\ W!EndFlush
    BY <1>5 DEF W!Commit, W!EndFlush
  <2>2. MacsIn(pending) \subseteq DOMAIN staged.devices
    BY <2>1 DEF StagedRows, MacsIn
  <2>3. DOMAIN db.devices \subseteq DOMAIN staged.devices
    BY <2>1 DEF StagedRows
  <2>4. Reach' = Reach
    <3>1. MacsIn(queue)' = MacsIn(queue)
      BY <2>1 DEF MacsIn
    <3> QED BY <1>0, <1>4, <2>1, <2>2, <2>3, <3>1 DEF Reach
  <2> QED BY <1>0, <1>4, <2>1, <2>4
<1>6. CASE W!FlushFails
  <2>1. UNCHANGED <<queue, db>> /\ W!EndFlush
    BY <1>6 DEF W!FlushFails
  <2>2. Reach' \subseteq Reach
    <3>1. MacsIn(queue)' = MacsIn(queue)
      BY <2>1 DEF MacsIn
    <3> QED BY <1>0, <1>4, <2>1, <3>1 DEF Reach
  <2> QED BY <1>0, <1>4, <1>6, <2>1, <2>2
<1>7. ASSUME NEW old, W!Prune(old)
      PROVE  /\ StagedRows' /\ Reach' = Reach
             /\ UNCHANGED <<queue, pending>>
  <2>1. /\ phase # "flush" /\ phase' # "flush"
        /\ UNCHANGED <<queue, pending, done, staged>>
    BY <1>7 DEF W!Prune
  <2>2. db'.devices = db.devices
    BY <1>7 DEF W!Prune, WP!IInv, WP!TypeOK, WP!Database
  <2> QED BY <1>0, <2>1, <2>2 DEF StagedRows, Reach, MacsIn
<1> QED BY <1>0, <1>1, <1>2, <1>3, <1>5, <1>6, <1>7 DEF W!WriterStep

LEMMA WriterStepKeeps ==
    ASSUME IInv, WriterStep
    PROVE  IInv'
<1>1. /\ W!WriterStep
      /\ lossless' = (lossless /\ ~W!FlushFails)
      /\ UNCHANGED <<registry, todo, hydrated>>
  BY DEF WriterStep
<1>2. WP!IInv'
  BY <1>1, WriterKept DEF IInv
<1>3. /\ StagedRows'
      /\ queue' \in Seq(W!DeviceOp) /\ pending' \in Seq(W!DeviceOp)
      /\ Reach' \subseteq Reach
      /\ W!FlushFails \/ Reach \subseteq Reach'
  BY <1>1, RowsMoveAlong DEF IInv
<1>4. Types'
  BY <1>1, <1>3 DEF IInv, Types, registry
<1>5. IndexSound'
  BY <1>1 DEF IInv, IndexSound, registry
<1>6. Covered'
  <2>1. DOMAIN by_mac' = DOMAIN by_mac /\ hydrated' = hydrated
    BY <1>1 DEF registry
  <2>2. lossless' => lossless /\ Reach \subseteq Reach'
    BY <1>1, <1>3 DEF IInv, Types
  <2> QED BY <1>3, <2>1, <2>2 DEF IInv, Covered
<1> QED BY <1>2, <1>3, <1>4, <1>5, <1>6 DEF IInv

(* Loaded from the rows or empty, the registry starts with its index. *)
LEMMA RestartKeeps ==
    ASSUME IInv, Restart
    PROVE  IInv'
<1>1. /\ W!Crash
      /\ pending_names' = [i \in {} |-> NoName]
      /\ todo' = [t \in Threads |-> Nothing]
      /\ lossless' = FALSE
  BY DEF Restart
<1>2. WP!IInv'
  BY <1>1, WriterKept DEF IInv
<1>3. /\ queue' = <<>> /\ pending' = <<>> /\ phase' = "recv"
      /\ staged' = W!EmptyDb /\ db' = db
  BY <1>1 DEF W!Crash
<1>4. StagedRows'
  BY <1>3 DEF StagedRows, W!EmptyDb
<1>5. Reach' = DOMAIN db.devices
  <2>1. MacsToSend' = {}
    BY <1>1 DEF MacsToSend, Sending, Nothing
  <2>2. MacsIn(pending)' = {} /\ MacsIn(queue)' = {} /\ DOMAIN staged'.devices = {}
    BY <1>3 DEF MacsIn, W!EmptyDb
  <2> QED BY <1>3, <2>1, <2>2 DEF Reach
<1>6. /\ todo' \in [Threads -> Errand]
      /\ DOMAIN pending_names' = {}
      /\ pending_names' \in [DOMAIN pending_names' -> LookupNames]
  BY <1>1 DEF Nothing, Errand
<1>7. DOMAIN db.devices \subseteq Macs /\ db.devices \in [DOMAIN db.devices -> W!Row]
  BY SameOps DEF IInv, WP!IInv, WP!TypeOK, WP!Database, WP!DevicesTable
<1>8. /\ queue' \in Seq(W!DeviceOp) /\ pending' \in Seq(W!DeviceOp)
      /\ lossless' \in BOOLEAN
  <2>1. <<>> \in Seq(W!DeviceOp)
    OBVIOUS
  <2>2. queue' \in Seq(W!DeviceOp) /\ pending' \in Seq(W!DeviceOp)
    BY <1>3, <2>1, Zenon
  <2> QED BY <1>1, <2>2
<1>9. CASE /\ by_mac' = [m \in HydratedMacs(db.devices) |-> Hydrated(db.devices[m])]
           /\ \E index \in UNION {[I -> Macs] : I \in SUBSET Ips} :
                 IndexOf(db.devices, index) /\ ip_to_mac' = index
           /\ hydrated' = TRUE
  <2>1. /\ DOMAIN by_mac' = DOMAIN db.devices
        /\ \A m \in DOMAIN db.devices : by_mac'[m] = Hydrated(db.devices[m])
    BY <1>9 DEF HydratedMacs
  <2>2. \A m \in DOMAIN db.devices : /\ Hydrated(db.devices[m]) \in Device
                                     /\ Hydrated(db.devices[m]).ip = db.devices[m].ip
    BY <1>7 DEF Hydrated, Fields, Device, W!Row
  <2>3. by_mac' \in [DOMAIN by_mac' -> Device]
    BY <1>9, <2>1, <2>2
  <2>4. /\ DOMAIN ip_to_mac' \subseteq Ips
        /\ ip_to_mac' \in [DOMAIN ip_to_mac' -> Macs]
        /\ IndexOf(db.devices, ip_to_mac')
    BY <1>9
  <2>5. /\ DOMAIN ip_to_mac' = {db.devices[m].ip : m \in DOMAIN db.devices} \ {NoIp}
        /\ \A ip \in DOMAIN ip_to_mac' : ip_to_mac'[ip] \in DOMAIN db.devices
    BY <2>4 DEF IndexOf, HydratedMacs
  <2>6. IndexSound'
    BY <1>6, <2>1, <2>2, <2>5 DEF IndexSound
  <2>7. Types'
    <3>1. hydrated' \in BOOLEAN /\ DOMAIN by_mac' \subseteq Macs
      BY <1>7, <1>9, <2>1
    <3> QED BY <1>6, <1>8, <2>3, <2>4, <3>1 DEF Types
  <2>8. Covered'
    BY <1>1, <1>5, <2>1 DEF Covered
  <2> QED BY <1>2, <1>4, <2>6, <2>7, <2>8 DEF IInv
<1>10. CASE /\ by_mac' = [m \in {} |-> Fresh]
           /\ ip_to_mac' = [i \in {} |-> NoMac]
           /\ hydrated' = FALSE
  <2>1. Types'
    <3>1. hydrated' \in BOOLEAN /\ DOMAIN by_mac' = {} /\ DOMAIN ip_to_mac' = {}
      BY <1>10
    <3>2. by_mac' \in [{} -> Device] /\ ip_to_mac' \in [{} -> Macs]
      BY <1>10
    <3> QED BY <1>6, <1>8, <3>1, <3>2 DEF Types
  <2>2. IndexSound'
    BY <1>6, <1>10 DEF IndexSound
  <2>3. Covered'
    BY <1>1, <1>10 DEF Covered
  <2> QED BY <1>2, <1>4, <2>1, <2>2, <2>3 DEF IInv
<1> QED BY <1>9, <1>10 DEF Restart

----------------------------------------------------------------------------
LEMMA InitHolds == Init => IInv
<1> SUFFICES ASSUME Init PROVE IInv
  OBVIOUS
<1>1. WP!IInv
  BY SameInit, WriterAssumed, WP!InitIsSound DEF Init
<1>2. /\ queue = <<>> /\ pending = <<>> /\ phase = "recv"
      /\ staged = W!EmptyDb /\ db = W!EmptyDb
  BY DEF Init, W!Init
<1>3. Types
  BY <1>2 DEF Init, Types, Nothing, Errand
<1>4. IndexSound
  BY DEF Init, IndexSound
<1>5. StagedRows
  BY <1>2 DEF StagedRows, W!EmptyDb
<1>6. Reach = {}
  BY <1>2 DEF Init, Reach, MacsIn, MacsToSend, Sending, Nothing, W!EmptyDb
<1>7. Covered
  BY <1>6 DEF Init, Covered
<1> QED BY <1>1, <1>3, <1>4, <1>5, <1>7 DEF IInv

LEMMA NextKeeps == IInv /\ [Next]_vars => IInv'
<1> SUFFICES ASSUME IInv, [Next]_vars PROVE IInv'
  OBVIOUS
<1>1. CASE \E ip \in Ips, m \in Macs : Observe(ip, m)
  BY <1>1, ObserveKeeps
<1>2. CASE \E m \in Macs, name \in OwnNames : ObserveNamed(m, name)
  BY <1>2, ObserveNamedKeeps
<1>3. CASE \E t \in Tasks, ip \in Ips : TouchIp(t, ip)
  BY <1>3, TouchIpKeeps
<1>4. CASE \E t \in Tasks, ip \in Ips, name \in LookupNames : ObserveNameForIp(t, ip, name)
  BY <1>4, ObserveNameForIpKeeps
<1>5. CASE \E m \in Macs : BecomesDue(m)
  BY <1>5, BecomesDueKeeps
<1>6. CASE \E t \in Threads : Persist(t) \/ Raise(t)
  BY <1>6, PersistKeeps, RaiseKeeps
<1>7. CASE WriterStep
  BY <1>7, WriterStepKeeps
<1>8. CASE Restart
  BY <1>8, RestartKeeps
<1>9. CASE UNCHANGED vars
  <2>1. UNCHANGED <<writer, by_mac, ip_to_mac, pending_names, todo, hydrated, lossless>>
    BY <1>9 DEF vars, registry
  <2>2. WP!IInv' /\ StagedRows' /\ queue' \in Seq(W!DeviceOp) /\ pending' \in Seq(W!DeviceOp)
    BY <2>1, WriterStill
  <2>3. Types' /\ IndexSound'
    BY <2>1, <2>2 DEF IInv, Types, IndexSound
  <2>4. Covered'
    BY <2>1 DEF IInv, Covered, Reach, MacsIn, MacsToSend, Sending, writer
  <2> QED BY <2>2, <2>3, <2>4 DEF IInv
<1> QED BY <1>1, <1>2, <1>3, <1>4, <1>5, <1>6, <1>7, <1>8, <1>9 DEF Next

(* The invariant of the registry and its rows holds in every state. *)
THEOREM Invariance == Spec => []IInv
BY InitHolds, NextKeeps, PTL DEF Spec

(* The registry, the index, the waiting names, what threads have still to  *)
(* send, and the writer keep the values devices.rs and db.rs give them.    *)
THEOREM TypeCorrect == Spec => []TypeOK
<1>1. IInv => TypeOK
  <2> SUFFICES ASSUME IInv PROVE TypeOK
    OBVIOUS
  <2>1. W!TypeOK
    BY SameTypes DEF IInv, WP!IInv
  <2>2. \A t \in Threads :
           /\ todo[t].op = <<>> \/ \E op \in W!DeviceOp : todo[t].op = <<op>>
           /\ todo[t].new \in Macs \cup {NoMac}
    BY DEF IInv, Types, Errand
  <2> QED BY <2>1, <2>2 DEF IInv, Types, TypeOK
<1> QED BY <1>1, Invariance, PTL

(* Every path of devices.rs that changes the registry keeps the reverse    *)
(* index in step with it, and leaves no name waiting for an address that   *)
(* has a device.                                                           *)
THEOREM IndexAgrees == Spec => []IndexSound
<1>1. IInv => IndexSound
  BY DEF IInv
<1> QED BY <1>1, Invariance, PTL

(* Unless a row was dropped by a full queue, rolled back or lost with the  *)
(* process, every registered device has its row in the database or on its  *)
(* way there.                                                              *)
THEOREM NoDeviceForgotten == Spec => []RowOnItsWay
<1>1. IInv => RowOnItsWay
  <2> SUFFICES ASSUME IInv, lossless, NEW m \in DOMAIN by_mac
               PROVE  \/ m \in DOMAIN db.devices
                      \/ m \in DOMAIN staged.devices
                      \/ \E i \in 1..Len(pending) : pending[i].mac = m
                      \/ \E i \in 1..Len(queue) : queue[i].mac = m
                      \/ \E t \in Threads : todo[t].op # <<>> /\ todo[t].op[1].mac = m
    BY DEF RowOnItsWay
  <2>1. m \in Reach
    BY DEF IInv, Covered
  <2> QED BY <2>1 DEF Reach, MacsIn, MacsToSend, Sending
<1> QED BY <1>1, Invariance, PTL

(* A MAC with a row in the database is never announced as new while the    *)
(* registry that was loaded at startup is in use.                          *)
THEOREM AnnouncedOnlyUnseen == Spec => OnlyUnseenAnnounced
<1> DEFINE Unseen == \A t \in Threads :
                        todo'[t].new \notin {todo[t].new, NoMac} /\ hydrated
                            => todo'[t].new \notin DOMAIN db.devices
<1>1. IInv /\ [Next]_vars => [Unseen]_vars
  <2> SUFFICES ASSUME IInv, Next, NEW t \in Threads,
                      todo'[t].new \notin {todo[t].new, NoMac}, hydrated
               PROVE  todo'[t].new \notin DOMAIN db.devices
    OBVIOUS
  <2>0. todo \in [Threads -> Errand] /\ DOMAIN db.devices \subseteq DOMAIN by_mac
    BY DEF IInv, Types, Covered, Reach
  <2>1. ASSUME NEW s \in Threads, NEW m, NEW d, NEW new, Record(s, m, d, new)
        PROVE  todo'[t].new = new
    BY <2>0, <2>1 DEF Record
  <2>2. CASE \E ip \in Ips, m \in Macs : Observe(ip, m)
    <3>1. ArpPoller \in Threads
      BY DEF Threads
    <3> QED BY <2>0, <2>1, <2>2, <3>1 DEF Observe
  <2>3. CASE \E m \in Macs, name \in OwnNames : ObserveNamed(m, name)
    <3>1. DhcpListener \in Threads
      BY DEF Threads
    <3> QED BY <2>1, <2>3, <3>1 DEF ObserveNamed
  <2>4. CASE \E s \in Tasks, ip \in Ips : TouchIp(s, ip)
    BY <2>0, <2>4 DEF TouchIp, Threads
  <2>5. CASE \E s \in Tasks, ip \in Ips, name \in LookupNames : ObserveNameForIp(s, ip, name)
    <3>1. Tasks \subseteq Threads
      BY DEF Threads
    <3> QED BY <2>1, <2>5, <3>1 DEF ObserveNameForIp
  <2>6. CASE \E m \in Macs : BecomesDue(m)
    BY <2>6 DEF BecomesDue
  <2>7. CASE \E s \in Threads : Persist(s) \/ Raise(s)
    <3>1. PICK s \in Threads : Persist(s) \/ Raise(s)
      BY <2>7
    <3>2. CASE Persist(s)
      <4>1. todo' = [todo EXCEPT ![s].op = <<>>]
        BY <3>2 DEF Persist
      <4> QED BY <2>0, <4>1 DEF Errand
    <3>3. CASE Raise(s)
      <4>1. todo' = [todo EXCEPT ![s] = Nothing]
        BY <3>3 DEF Raise
      <4> QED BY <2>0, <4>1 DEF Nothing
    <3> QED BY <3>1, <3>2, <3>3
  <2>8. CASE WriterStep
    BY <2>8 DEF WriterStep
  <2>9. CASE Restart
    BY <2>9 DEF Restart, Nothing
  <2> QED BY <2>2, <2>3, <2>4, <2>5, <2>6, <2>7, <2>8, <2>9 DEF Next
<1> QED BY <1>1, Invariance, PTL DEF Spec, OnlyUnseenAnnounced
=============================================================================
