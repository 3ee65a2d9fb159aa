------------------------------ MODULE SyncTime ------------------------------
(***************************************************************************)
(* The timestamp strings the sync protocol compares.                       *)
(*                                                                         *)
(* The cloud writes revisions and cursors with datetime.isoformat(): the   *)
(* microseconds are in the string (and omitted when they are zero).  The   *)
(* desktop sidecar rewrites what it stores with timespec="seconds" and a   *)
(* "Z" suffix.  Both kinds are compared as STRINGS by the cloud (baselines *)
(* with "!=", cursors with SQL ">"), and as instants by the sidecar.       *)
(*                                                                         *)
(* A string is represented by its place in the lexicographic order of the  *)
(* strings of both kinds, a natural number, so that "=" and "<" on the     *)
(* numbers are "==" and "<" on the strings.  TicksPerSecond stands for the *)
(* 10^6 microseconds of a second.                                          *)
(***************************************************************************)
EXTENDS Naturals

CONSTANT TicksPerSecond
ASSUME TicksAssumption == TicksPerSecond \in Nat \ {0}

(* The second an instant (a number of ticks) falls in. *)
SecondOf(t) == t \div TicksPerSecond

(* now_iso(): the string of instant t with its microseconds. *)
Exact(t) == 2 * t

(* _serialize_sync_datetime(): the string of the second of t, with "Z".    *)
(* "Z" sorts after "." and "+", so it is above every exact string of its   *)
(* second and below those of the next one.                                 *)
ToSeconds(t) == 2 * TicksPerSecond * (SecondOf(t) + 1) - 1

(* _parse_sync_datetime(): the instant a string denotes. *)
Parse(s) == IF s % 2 = 0 THEN s \div 2
            ELSE (s + 1) \div 2 - TicksPerSecond

(* The sidecar's rewriting of a string the cloud wrote. *)
Truncate(s) == ToSeconds(Parse(s))
=============================================================================
