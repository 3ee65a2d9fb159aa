-------------------------- MODULE MCClientAccounts --------------------------
(* Small instances of ClientAccounts: how many calls begin, restarts       *)
(* included, without and with accounts of the former sign-in.              *)
EXTENDS ClientAccounts, TLC

TwoCalls == [m \in BOOLEAN |-> IF m THEN 3 ELSE 4]
FourCalls == [m \in BOOLEAN |-> 4]
=============================================================================
