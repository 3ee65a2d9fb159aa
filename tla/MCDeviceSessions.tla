-------------------------- MODULE MCDeviceSessions --------------------------
(***************************************************************************)
(* The model of DeviceSessions that TLC checks.  Devices and slots are     *)
(* interchangeable, and no property here is about liveness.                *)
(***************************************************************************)
EXTENDS DeviceSessions, TLC

Interchangeable ==
    UNION {Permutations(Devices), Permutations(Families),
           Permutations(Otps), Permutations(Proofs)}
=============================================================================
