------------------------------- MODULE Devices -------------------------------
(***************************************************************************)
(* The device registry of devices.rs, its persistence through the Writer   *)
(* and its first-sighting alerts.                                          *)
(*                                                                         *)
(* The registry is behind one lock; every call changes it in one step and  *)
(* then, with the lock released, hands a snapshot to the writer and raises *)
(* an alert.  Three kinds of thread call it: the ARP poller (observe), the *)
(* DHCP listener (observe_named), and the tasks that learn a name for an   *)
(* address or see an address ask (mDNS, reverse DNS, the resolver).        *)
(*                                                                         *)
(* The vendor and the randomized flag of a device follow from its MAC and  *)
(* are left out.  A fingerprint is the fields it is a hash of.  The time   *)
(* since the last row write matters only as being past the heartbeat of    *)
(* 60 s or not.  Names have passed sanitize_hostname; OwnNames are the     *)
(* ones devices give themselves over DHCP.                                 *)
(***************************************************************************)
EXTENDS Integers, Sequences, FiniteSets

CONSTANTS
    Macs, Ips, Names, NoIp, NoName, QueueDepth, BatchSize,   \* as in Writer
    OwnNames,      \* names sent over DHCP
    LookupNames,   \* names found for an address
    ArpPoller, DhcpListener, Tasks,
    NoMac          \* no alert to raise

ASSUME DevicesAssumption ==
    /\ Names = OwnNames \cup LookupNames
    /\ ArpPoller # DhcpListener /\ {ArpPoller, DhcpListener} \cap Tasks = {}
    /\ NoMac \notin Macs
    /\ NoIp \notin Ips /\ NoName \notin Names
    /\ QueueDepth \in Nat \ {0} /\ BatchSize \in Nat \ {0}

VARIABLES
    queue, phase, pending, done, staged, db,   \* as in Writer
    by_mac,          \* the registry: MAC -> device
    ip_to_mac,       \* the reverse index
    pending_names,   \* names for addresses not yet in the index
    todo,            \* what each thread still has to send and to raise
    hydrated,        \* whether the registry was loaded at startup
    lossless         \* history: no row was ever dropped, rolled back or lost

registry == <<by_mac, ip_to_mac, pending_names>>
writer == <<queue, phase, pending, done, staged, db>>
vars == <<writer, registry, todo, hydrated, lossless>>

W == INSTANCE Writer WITH sent <- 0, MaxSent <- 0

Threads == Tasks \cup {ArpPoller, DhcpListener}

----------------------------------------------------------------------------
Fields(d) == [ip |-> d.ip, hostname |-> d.hostname]

Unwritten == [ip |-> NoIp, hostname |-> NoName, unwritten |-> TRUE]

(* Faulty variant: no name is the empty name. *)
FreshUnnamed == [ip |-> NoIp, hostname |-> "", written |-> Unwritten, due |-> TRUE]

(* Device::default() with nothing written yet. *)
Fresh == [ip |-> NoIp, hostname |-> NoName, written |-> Unwritten, due |-> TRUE]

DeviceOf(m) == IF m \in DOMAIN by_mac THEN by_mac[m] ELSE Fresh

(* Faulty variant: a device is written only when seen again. *)
TakesWriteSlotNextTime(d) == d.written # Unwritten /\ (d.written # Fields(d) \/ d.due)

(* Device::take_write_slot: the row changed or the heartbeat is due. *)
TakesWriteSlot(d) == d.written # Fields(d) \/ d.due

Nothing == [op |-> <<>>, new |-> NoMac]

RowOf(m, d) == [kind |-> "device", mac |-> m, ip |-> d.ip, hostname |-> d.hostname]

With(f, x, v) == [y \in DOMAIN f \cup {x} |-> IF y = x THEN v ELSE f[y]]

(* Put the device back and, if it is worth a row, note the snapshot to     *)
(* send; new is the MAC to announce, if any.                               *)
Record(t, m, d, new) ==
    /\ by_mac' = With(by_mac, m, IF TakesWriteSlot(d)
                                 THEN [d EXCEPT !.written = Fields(d), !.due = FALSE]
                                 ELSE d)
    /\ todo' = [todo EXCEPT ![t] =
                  [op  |-> IF TakesWriteSlot(d) THEN <<RowOf(m, d)>> ELSE <<>>,
                   new |-> new]]

----------------------------------------------------------------------------
(* observe: a name waiting for the address goes to the device. *)
Observe(ip, m) ==
    LET d    == [DeviceOf(m) EXCEPT !.ip = ip]
        name == IF ip \in DOMAIN pending_names THEN pending_names[ip] ELSE d.hostname
        new  == IF m \in DOMAIN by_mac THEN NoMac ELSE m
    IN  /\ todo[ArpPoller] = Nothing
        /\ pending_names' = [i \in DOMAIN pending_names \ {ip} |-> pending_names[i]]
        /\ ip_to_mac' = With(ip_to_mac, ip, m)
        /\ Record(ArpPoller, m, [d EXCEPT !.hostname = name], new)
        /\ UNCHANGED <<writer, hydrated, lossless>>

(* observe_named: no alert here, also for a MAC not seen before. *)
ObserveNamed(m, name) ==
    /\ todo[DhcpListener] = Nothing
    /\ Record(DhcpListener, m, [DeviceOf(m) EXCEPT !.hostname = name], NoMac)
    /\ UNCHANGED <<writer, ip_to_mac, pending_names, hydrated, lossless>>

(* Faulty variant: the name is stashed even when the device is known. *)
ObserveNameForIpStashes(t, ip, name) ==
    /\ todo[t] = Nothing
    /\ pending_names' = With(pending_names, ip, name)
    /\ UNCHANGED <<writer, by_mac, ip_to_mac, todo, hydrated, lossless>>

(* observe_name_for_ip: a device that has a name keeps it; without a       *)
(* device for the address the name waits.                                  *)
ObserveNameForIp(t, ip, name) ==
    /\ todo[t] = Nothing
    /\ \/ /\ ip \in DOMAIN ip_to_mac
          /\ LET m == ip_to_mac[ip]
                 d == DeviceOf(m)
             IN  Record(t, m, [d EXCEPT !.hostname =
                                 IF @ = NoName THEN name ELSE @], NoMac)
          /\ UNCHANGED pending_names
       \/ /\ ip \notin DOMAIN ip_to_mac
          /\ pending_names' = With(pending_names, ip, name)
          /\ UNCHANGED <<by_mac, todo>>
    /\ UNCHANGED <<writer, ip_to_mac, hydrated, lossless>>

(* touch_ip, for an address whose device is due; otherwise it does         *)
(* nothing.  The fingerprint stays as it is.                               *)
TouchIp(t, ip) ==
    /\ todo[t] = Nothing
    /\ ip \in DOMAIN ip_to_mac
    /\ ip_to_mac[ip] \in DOMAIN by_mac
    /\ LET m == ip_to_mac[ip]
           d == by_mac[m]
       IN  /\ d.due
           /\ by_mac' = [by_mac EXCEPT ![m].due = FALSE]
           /\ todo' = [todo EXCEPT ![t] = [op |-> <<RowOf(m, d)>>, new |-> NoMac]]
    /\ UNCHANGED <<writer, ip_to_mac, pending_names, hydrated, lossless>>

(* 60 s since the last write of the device's row. *)
BecomesDue(m) ==
    /\ m \in DOMAIN by_mac
    /\ ~by_mac[m].due
    /\ by_mac' = [by_mac EXCEPT ![m].due = TRUE]
    /\ UNCHANGED <<writer, ip_to_mac, pending_names, todo, hydrated, lossless>>

----------------------------------------------------------------------------
(* The rest of a call, outside the lock *)

Persist(t) ==
    /\ todo[t].op # <<>>
    /\ W!Send(todo[t].op[1])
    /\ todo' = [todo EXCEPT ![t].op = <<>>]
    /\ lossless' = (lossless /\ queue' # queue)
    /\ UNCHANGED <<phase, pending, done, staged, db, registry, hydrated>>

(* The alert is handed to the sink of Alerts. *)
Raise(t) ==
    /\ todo[t].op = <<>>
    /\ todo[t].new # NoMac
    /\ todo' = [todo EXCEPT ![t] = Nothing]
    /\ UNCHANGED <<writer, registry, hydrated, lossless>>

----------------------------------------------------------------------------
WriterStep ==
    /\ W!WriterStep
    /\ lossless' = (lossless /\ ~W!FlushFails)
    /\ UNCHANGED <<registry, todo, hydrated>>

(* hydrate: a row is a device already written. *)
Hydrated(row) == [ip |-> row.ip, hostname |-> row.hostname,
                  written |-> Fields(row), due |-> FALSE]

(* Faulty variant: rows without an address are skipped. *)
HydratedMacsWithIp(rows) == {m \in DOMAIN rows : rows[m].ip # NoIp}

HydratedMacs(rows) == DOMAIN rows

(* The index; if two rows had one address, the last read would win. *)
IndexOf(rows, index) ==
    /\ DOMAIN index = {rows[m].ip : m \in HydratedMacs(rows)} \ {NoIp}
    /\ \A ip \in DOMAIN index :
          index[ip] \in {m \in HydratedMacs(rows) : rows[m].ip = ip}

(* The process dies and starts again: load the devices before discovery    *)
(* begins, or carry on with none if they cannot be read.                   *)
Restart ==
    /\ W!Crash
    /\ pending_names' = [i \in {} |-> NoName]
    /\ todo' = [t \in Threads |-> Nothing]
    /\ \/ /\ by_mac' = [m \in HydratedMacs(db.devices) |-> Hydrated(db.devices[m])]
          /\ \E index \in UNION {[I -> Macs] : I \in SUBSET Ips} :
                IndexOf(db.devices, index) /\ ip_to_mac' = index
          /\ hydrated' = TRUE
       \/ /\ by_mac' = [m \in {} |-> Fresh]
          /\ ip_to_mac' = [i \in {} |-> NoMac]
          /\ hydrated' = FALSE
    /\ lossless' = FALSE

----------------------------------------------------------------------------
Init ==
    /\ W!Init
    /\ by_mac = [m \in {} |-> Fresh]
    /\ ip_to_mac = [i \in {} |-> NoMac]
    /\ pending_names = [i \in {} |-> NoName]
    /\ todo = [t \in Threads |-> Nothing]
    /\ hydrated = TRUE
    /\ lossless = TRUE

Next ==
    \/ \E ip \in Ips, m \in Macs : Observe(ip, m)
    \/ \E m \in Macs, name \in OwnNames : ObserveNamed(m, name)
    \/ \E t \in Tasks, ip \in Ips : TouchIp(t, ip)
    \/ \E t \in Tasks, ip \in Ips, name \in LookupNames : ObserveNameForIp(t, ip, name)
    \/ \E m \in Macs : BecomesDue(m)
    \/ \E t \in Threads : Persist(t) \/ Raise(t)
    \/ WriterStep
    \/ Restart

Spec == Init /\ [][Next]_vars

----------------------------------------------------------------------------
(* Properties *)

Device == [ip       : Ips \cup {NoIp},
           hostname : Names \cup {NoName},
           written  : [ip : Ips \cup {NoIp}, hostname : Names \cup {NoName}]
                         \cup {Unwritten},
           due      : BOOLEAN]

TypeOK ==
    /\ W!TypeOK
    /\ DOMAIN by_mac \subseteq Macs /\ by_mac \in [DOMAIN by_mac -> Device]
    /\ DOMAIN ip_to_mac \subseteq Ips /\ ip_to_mac \in [DOMAIN ip_to_mac -> Macs]
    /\ DOMAIN pending_names \subseteq Ips
    /\ pending_names \in [DOMAIN pending_names -> LookupNames]
    /\ DOMAIN todo = Threads
    /\ \A t \in Threads :
          /\ todo[t].op = <<>> \/ \E op \in W!DeviceOp : todo[t].op = <<op>>
          /\ todo[t].new \in Macs \cup {NoMac}
    /\ hydrated \in BOOLEAN
    /\ lossless \in BOOLEAN

(* The reverse index and the registry agree: an address in the index leads *)
(* to a device, a device's address is in the index, and a name waits only  *)
(* for an address that has no device yet, so that observe() will find it.  *)
IndexSound ==
    /\ \A ip \in DOMAIN ip_to_mac : ip_to_mac[ip] \in DOMAIN by_mac
    /\ \A m \in DOMAIN by_mac : by_mac[m].ip # NoIp => by_mac[m].ip \in DOMAIN ip_to_mac
    /\ DOMAIN pending_names \cap DOMAIN ip_to_mac = {}

(* "only a genuinely unseen MAC alerts": a MAC that has a row in the       *)
(* database is never taken for new, across any number of restarts, unless  *)
(* the rows could not be read at startup.                                  *)
OnlyUnseenAnnounced ==
    [][\A t \in Threads :
          todo'[t].new \notin {todo[t].new, NoMac} /\ hydrated
              => todo'[t].new \notin DOMAIN db.devices]_vars

(* No device is forgotten before it is written: a registered device has    *)
(* its row in the database, or the row is on its way, or a write of it was *)
(* lost.                                                                   *)
RowOnItsWay ==
    lossless =>
        \A m \in DOMAIN by_mac :
            \/ m \in DOMAIN db.devices
            \/ m \in DOMAIN staged.devices
            \/ \E i \in 1..Len(pending) : pending[i].mac = m
            \/ \E i \in 1..Len(queue) : queue[i].mac = m
            \/ \E t \in Threads : todo[t].op # <<>> /\ todo[t].op[1].mac = m

(* DeviceStore.alerts: "Raised on the first sighting of a MAC."  A MAC     *)
(* enters the registry of a running process only with its alert under way. *)
FirstSightingAnnounced ==
    [][\/ Restart
       \/ \A m \in DOMAIN by_mac' \ DOMAIN by_mac :
             \E t \in Threads : todo'[t].new = m]_vars

Settled ==
    /\ queue = <<>>
    /\ phase = "recv"
    /\ \A t \in Threads : todo[t] = Nothing

(* flush: "An IP belongs to one device at a time. When [...] a DHCP lease  *)
(* moves, the previous holder must give up the address".  Once everything  *)
(* sent is committed, and nothing was lost, the row that holds an address  *)
(* is that of the device last seen at it.                                  *)
PreviousHolderGivesUp ==
    (Settled /\ lossless) =>
        \A m \in DOMAIN db.devices :
            db.devices[m].ip # NoIp => ip_to_mac[db.devices[m].ip] = m
=============================================================================
