----------------------------- MODULE AccountList -----------------------------
(***************************************************************************)
(* What the rest of the program may rely on about the accounts of a        *)
(* window (frontend/services/cloudAuth.ts): a list of accounts and the one *)
(* in use.  An account enters the list by a sign-in only, and the account  *)
(* in use changes because the user chose another, signed in or removed it. *)
(* Nothing else - no refresh, no late answer - changes either.             *)
(*                                                                         *)
(* The promise is not kept in a window that holds an account of the former *)
(* sign-in (mixed): there a removal writes back a list read before it      *)
(* waited, and a refresh writes the account it was asked for.              *)
(***************************************************************************)
CONSTANTS Owners, Local

VARIABLES list, active, mixed

vars == <<list, active, mixed>>

Init == /\ list \subseteq Owners
        /\ active \in list \cup {Local}
        /\ mixed \in BOOLEAN

\* A sign-in ends: the account is listed and in use.
SignIn(o) == /\ list' = list \cup {o}
             /\ active' = o

\* An account is removed; without it in use, nothing else changes.
Remove(o) == /\ list' = list \ {o}
             /\ active' = IF active = o THEN Local ELSE active

\* Another account, or none, is chosen.
Switch(o) == /\ o \in list \cup {Local}
             /\ active' = o
             /\ UNCHANGED list

RemoveAll == list' = {} /\ active' = Local

\* The program ends; accounts that were not to be remembered go with it.
Restart == /\ list' \subseteq list
           /\ active' \in {active, Local}

Next == /\ UNCHANGED mixed
        /\ \/ mixed
           \/ \E o \in Owners : SignIn(o) \/ Remove(o)
           \/ \E o \in Owners \cup {Local} : Switch(o)
           \/ RemoveAll
           \/ Restart

Spec == Init /\ [][Next]_vars
=============================================================================
