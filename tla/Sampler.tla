------------------------------- MODULE Sampler -------------------------------
(***************************************************************************)
(* throughput_sampler of monitor.rs: at each tick the byte counters of     *)
(* /proc/net/dev are read, and the difference to the last reading becomes  *)
(* a rate for the chart.                                                   *)
(*                                                                         *)
(* Transmitted bytes are treated as received ones are, so one direction is *)
(* modelled.  The kernel is external: its counters wrap at CounterSize,    *)
(* an interface may go away and come back with its counter at 0, and a     *)
(* reading may fail.  Time is counted in seconds; ticks that were missed   *)
(* come in a burst, so that two readings may be no time apart.             *)
(***************************************************************************)
LOCAL INSTANCE Integers

CONSTANTS
    Ifaces,        \* interfaces other than lo
    CounterSize,   \* 2^32 or 2^64
    MaxElapsed,    \* bound on the time between two readings
    MaxCarried,    \* bound on the bytes between two readings
    Absent         \* an interface without a line, a reading never made

ASSUME SamplerAssumption ==
    /\ CounterSize \in Nat \ {0}
    /\ MaxElapsed \in Nat /\ MaxCarried \in Nat
    /\ Absent \notin 0..(CounterSize - 1)

VARIABLES
    rx,        \* per interface: rx_bytes, or Absent
    last,      \* per interface: the last reading, or Absent
    elapsed,   \* per interface: time since that reading
    row,       \* per interface: the sample sent to the writer, if any
    carried    \* history: bytes received since the last reading

samplerVars == <<rx, last, elapsed, row, carried>>

NoRow == [bps |-> 0, secs |-> 0, bytes |-> 0]

----------------------------------------------------------------------------
(* Faulty variant: wrapping subtraction, as for a counter that wraps. *)
WrappingDelta(new, old) == (new - old) % CounterSize

(* saturating_sub *)
Delta(new, old) == IF new > old THEN new - old ELSE 0

(* parse_iface_counters: the interfaces that have a line. *)
Listed == {i \in Ifaces : rx[i] # Absent}

(* A reading closer than the clock resolves is skipped and not kept. *)
Kept == {i \in Listed : last[i] = Absent \/ elapsed[i] > 0}

Sample ==
    /\ row' = [i \in Ifaces |->
                  IF i \in Kept /\ last[i] # Absent
                  THEN [bps   |-> (8 * Delta(rx[i], last[i])) \div elapsed[i],
                        secs  |-> elapsed[i],
                        bytes |-> carried[i]]
                  ELSE NoRow]
    /\ last' = [i \in Ifaces |-> IF i \in Kept THEN rx[i] ELSE last[i]]
    /\ elapsed' = [i \in Ifaces |-> IF i \in Kept THEN 0 ELSE elapsed[i]]
    /\ carried' = [i \in Ifaces |-> IF i \in Kept THEN 0 ELSE carried[i]]
    /\ UNCHANGED rx

(* The read fails: the tick passes and nothing is recorded. *)
SampleFails ==
    /\ row' = [i \in Ifaces |-> NoRow]
    /\ UNCHANGED <<rx, last, elapsed, carried>>

----------------------------------------------------------------------------
(* The host *)

SecondPasses ==
    /\ \A i \in Ifaces : elapsed[i] < MaxElapsed
    /\ elapsed' = [i \in Ifaces |-> IF last[i] = Absent THEN 0 ELSE elapsed[i] + 1]
    /\ row' = [i \in Ifaces |-> NoRow]
    /\ UNCHANGED <<rx, last, carried>>

Traffic(i, n) ==
    /\ rx[i] # Absent
    /\ carried[i] + n <= MaxCarried
    /\ rx' = [rx EXCEPT ![i] = (@ + n) % CounterSize]
    /\ carried' = [carried EXCEPT ![i] = @ + n]
    /\ row' = [j \in Ifaces |-> NoRow]
    /\ UNCHANGED <<last, elapsed>>

IfaceGoes(i) ==
    /\ rx[i] # Absent
    /\ rx' = [rx EXCEPT ![i] = Absent]
    /\ row' = [j \in Ifaces |-> NoRow]
    /\ UNCHANGED <<last, elapsed, carried>>

IfaceComes(i) ==
    /\ rx[i] = Absent
    /\ rx' = [rx EXCEPT ![i] = 0]
    /\ row' = [j \in Ifaces |-> NoRow]
    /\ UNCHANGED <<last, elapsed, carried>>

SamplerInit ==
    /\ rx = [i \in Ifaces |-> 0]
    /\ last = [i \in Ifaces |-> Absent]
    /\ elapsed = [i \in Ifaces |-> 0]
    /\ row = [i \in Ifaces |-> NoRow]
    /\ carried = [i \in Ifaces |-> 0]

SamplerNext ==
    \/ Sample
    \/ SampleFails
    \/ SecondPasses
    \/ \E i \in Ifaces : \/ \E n \in 1..MaxCarried : Traffic(i, n)
                         \/ IfaceGoes(i)
                         \/ IfaceComes(i)

SamplerSpec == SamplerInit /\ [][SamplerNext]_samplerVars

----------------------------------------------------------------------------
(* "A single zero sample instead of an absurd spike": whether a counter    *)
(* wraps, an interface is replaced or readings fail in between, no sample  *)
(* shows more than was really carried since the reading before it.         *)
NeverOverstates ==
    \A i \in Ifaces : row[i].bps * row[i].secs <= 8 * row[i].bytes
=============================================================================
