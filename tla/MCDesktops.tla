----------------------------- MODULE MCDesktops -----------------------------
(***************************************************************************)
(* What the desktop does with the cloud and with Google, and the cloud     *)
(* with Google, in scenes that one run shows.  Two of MCDesktopSync:       *)
(*   pair      two desktops edit one category, no new contract;            *)
(*   contract  one desktop edits a category and a movement of it, and a    *)
(*             new contract is deployed;                                   *)
(* one of GoogleSignIn and one of PlayReconciliation, which share no state *)
(* with them:                                                              *)
(*   google    attempts to sign in with Google and their links;            *)
(*   play      two reconciliations at a time of a purchase that is paid,   *)
(*             then ends, or of one that replaces another.                 *)
(***************************************************************************)
EXTENDS MCDesktopSync, TLC

CONSTANTS PairTicks, PairEdits, PairFails               \* the scene "pair"
CONSTANTS MaxAttempts, MaxCodes, MaxCancels             \* GoogleSignIn
CONSTANTS Accounts, first, second, call1, call2, None   \* PlayReconciliation

VARIABLES
    scene,
    attempt, flow, ready, timers, expired, status, pending, ops, issued,
    callback, consumed, device, verify, session, open, exchanges, lost, cancels,
    course, at, confirmed, account, bound, record, latest, watermark, plan, calls

ASSUME AttemptsAssumption == MaxAttempts \in Nat

Google == INSTANCE GoogleSignIn

googleState == <<attempt, flow, ready, timers, expired, status, pending, ops,
                 issued, callback, consumed, device, verify, session, open,
                 exchanges, lost, cancels>>

Purchases == {first, second}
Reconciliations == {call1, call2}
\* The scene "contract" is about device 1.
ASSUME LoneAssumption == 1 \in Desktops

Buyer == [p \in Purchases |-> CHOOSE a \in Accounts : TRUE]
Previous == [p \in Purchases |-> IF p = second THEN first ELSE None]
Ended == {first :> <<"pending", "paid", "ended">> @@ second :> <<>>}
Replaced == {first :> <<"paid">> @@ second :> <<"paid">>}
Courses == Ended \cup Replaced

\* What the cloud records of a purchase.
PurchaseRecords == [version : Nat, acked : BOOLEAN, event : Nat, superseded : BOOLEAN,
                    owner : Accounts \cup {None}]

\* Somebody buys, and what is recorded or answered is not none.
ASSUME PlayAssumption ==
    /\ Accounts # {} /\ first # second
    /\ None \notin Accounts \cup Purchases \cup PurchaseRecords
    /\ None \notin [version : Nat, acked : BOOLEAN]

Play == INSTANCE PlayReconciliation WITH Calls <- Reconciliations
playState == <<course, at, confirmed, account, bound, record, latest, watermark,
               plan, calls>>
sceneVars == <<vars, scene, googleState, playState>>

\* Two desktops edit the category, within tighter bounds than a lone one.
PairWithin ==
    /\ clock' <= PairTicks /\ Len(edits') <= PairEdits /\ fails' <= PairFails
    /\ \A i \in DOMAIN edits' : edits'[i].rec = cat

\* When a download is answered, no push its desktop gave up on has a timestamp
\* of before it and is still to commit (see CursorCovers of MobileSync).
NoPushStraddles(d) ==
    call'[d]["down"].st = "done" =>
        \A q \in late' : q.now = 0 \/ q.now > call'[d]["down"].now

SceneInit ==
    /\ Init /\ Google!Init /\ Play!Init
    /\ scene \in {"pair", "contract", "google", "play"}
    /\ scene # "play" => course \in Replaced
SceneNext ==
    /\ UNCHANGED scene
    /\ \/ /\ scene = "pair" /\ Next
          /\ UNCHANGED <<contract, googleState, playState>>
          /\ PairWithin
       \/ /\ scene = "contract"
          /\ (CloudNext /\ UNCHANGED desktopVars) \/ Upgrade \/ DesktopNext(1)
          /\ NoPushStraddles(1)
          /\ UNCHANGED <<googleState, playState>>
       \/ scene = "google" /\ Google!Next /\ UNCHANGED <<vars, playState>>
       \/ /\ scene = "play" /\ Play!Next
          /\ UNCHANGED <<vars, googleState>>
          \* A purchase replaces one that the cloud knows as acknowledged.
          /\ at'[second] > 0 => record[first] # None /\ record[first].acked
          \* Idle calls are alike: the second begins while the first is busy.
          /\ calls[call2].step = "idle" /\ calls[call1].step = "idle" =>
                calls'[call2].step = "idle"
SceneSpec == SceneInit /\ [][SceneNext]_sceneVars

(* A run of a lone desktop that records a new contract has downloaded      *)
(* every row up to its cursor, also those that earlier cursors skipped     *)
(* (runSyncWithReason forgets its cursor when the contract changed).       *)
ContractChangeCatchesUp == [][scene = "contract" => CatchesUp]_sceneVars

(* The verifier of an attempt to sign in with Google is sent to the        *)
(* provider once, the native store holds that of the current attempt or    *)
(* none, and the client of a session, or of a device that waits for its    *)
(* code, is not disposed by another attempt (supabaseGoogleAuth.ts).       *)
AttemptsStayApart ==
    Google!VerifierUsedOnce /\ Google!SecretsHaveAttempt /\ Google!ClientsInUseAreOpen

(* Whichever reconciliation of a purchase answers last: an account is      *)
(* premium only by a purchase of its own that Google has as acknowledged,  *)
(* no answer overtaken by another claim takes the place of a later one, an *)
(* acknowledgement stays known, and no purchase comes back from the        *)
(* archive of a deleted account (google_play_billing.py).                  *)
EvidenceIsKept == []Play!PremiumIsConfirmed /\ Play!KnownStays
=============================================================================
