----------------------------- MODULE MCDevices -----------------------------
(* Instances of the device registry with its writer. *)
EXTENDS Devices, TLC

CONSTANTS m1, m2, i1, i2, own, found, task

(* MACs are interchangeable. *)
MacSymmetry == Permutations({m1, m2})
=============================================================================
