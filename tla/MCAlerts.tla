------------------------------ MODULE MCAlerts ------------------------------
(* An instance of alerting.  The same run checks the other periodic task   *)
(* that feeds the writer, the throughput sampler, which shares no state    *)
(* with it: a behaviour is one of one of the two, the other at its start.  *)
EXTENDS Alerts, Sampler

CONSTANTS d1, d2, d3, c1

MCInit == Init /\ SamplerInit

MCNext ==
    \/ SamplerInit /\ Next /\ UNCHANGED samplerVars
    \/ Init /\ SamplerNext /\ UNCHANGED vars

MCSpec == MCInit /\ [][MCNext]_<<vars, samplerVars>> /\ Fairness
=============================================================================
