-------------------------- MODULE MCClientProgress --------------------------
(***************************************************************************)
(* What a client has to bring to an end by itself, in three parts that     *)
(* share no state: a behaviour is one of PremiumRefresh, the subscriptions *)
(* of the desktop (refresh), of PlayBilling, the purchases of the phone    *)
(* (play), or of SessionRestore, the sessions of the desktop (restore).    *)
(* Fairness is asked of the one that runs.                                 *)
(***************************************************************************)
EXTENDS PremiumRefresh, FiniteSets

CONSTANTS Purchases, NoPurchase, MaxBuys, MaxSwitches, MaxFailures,
          Readers, MaxChanges

VARIABLES part, shopper, buyer, lapsed, unpaid, validated, runs, asked, buys,
          switches, failures, listed, temporary, active, token, mem, availability,
          rejected, current, hydration, refresh, shared, reader, due, refused,
          inVain, changes

Play == INSTANCE PlayBilling WITH owner <- shopper
Restore == INSTANCE SessionRestore WITH Owners <- Accounts, Local <- NoAccount,
              MaxEvents <- MaxChanges, state <- availability, events <- changes

playState == <<shopper, buyer, lapsed, unpaid, validated, runs, asked, buys,
               switches, failures>>
restoreState == <<listed, temporary, active, token, mem, availability, rejected,
                  current, hydration, refresh, shared, reader, due, refused, inVain,
                  changes>>
clientVars == <<part, vars, playState, restoreState>>

First == CHOOSE o \in Accounts : TRUE

\* The accounts are alike: it does not matter which one comes first.  A window
\* that begins with all of them has none of the events to come, and only the
\* first one may have kept its access token.
PartInit ==
    /\ part = "refresh" => \A t \in Purchases : buyer[t] = NoAccount
    /\ part = "play" => \A o \in Accounts : remote[o] = "none"
    /\ IF part = "restore"
       THEN /\ \A t \in Purchases : buyer[t] = NoAccount
            /\ \A o \in Accounts : remote[o] = "none"
            /\ listed \in {{}, {First}, Accounts}
            /\ First \notin temporary => temporary = {}
            /\ \A o \in Accounts \ {First} : token[o] = "none"
            /\ token[First] \in {"none", IF listed = Accounts THEN "late" ELSE "good"}
            /\ changes = IF listed = Accounts THEN MaxChanges ELSE 0
       ELSE listed = {} /\ changes = 0

ClientInit ==
    /\ Init /\ Play!Init /\ Restore!Init
    /\ part \in {"refresh", "play", "restore"}
    /\ shopper = First
    /\ PartInit

Refreshes(A) == part = "refresh" /\ A /\ UNCHANGED <<part, playState, restoreState>>
Plays(A) == part = "play" /\ A /\ UNCHANGED <<part, vars, restoreState>>
Restores(A) == part = "restore" /\ A /\ UNCHANGED <<part, vars, playState>>

ClientNext ==
    \/ part = "refresh" /\ Next /\ UNCHANGED <<part, playState, restoreState>>
    \/ part = "play" /\ Play!Next /\ UNCHANGED <<part, vars, restoreState>>
    \/ part = "restore" /\ Restore!Next /\ UNCHANGED <<part, vars, playState>>

\* The fairness of PremiumRefresh, of PlayBilling and of SessionRestore.
ClientFairness ==
    /\ WF_clientVars(Refreshes(FlightSteps))
    /\ WF_clientVars(Refreshes(PaymentSteps))
    /\ WF_clientVars(Restores(Restore!Progress))
    /\ \A o \in Accounts :
         /\ WF_clientVars(Plays(Play!Foreground(o)))
         /\ WF_clientVars(Plays(Play!Progress(o)))

ClientSpec ==
    /\ ClientInit
    /\ [][ClientNext]_clientVars
    /\ ClientFairness

\* A subscription that was activated is verified in the end, and what is shown
\* of it meanwhile is of its own account (premiumAutoRefresh.ts).
PaymentIsFollowed == []PublishedIsItsOwners /\ ActivatedIsVerified

\* What was paid in the store reaches the account that bought it, as long as
\* that account stays active (googlePlayBilling.ts, useMobilePremium.ts).
PurchaseReachesAccount == Play!PurchaseReachesAccount

\* The sessions of a desktop window come to rest, none is called expired that
\* nobody refused, and none is refreshed again by those that waited for its
\* restoration (cloudAuth.ts, supabaseCloudAuth.ts).
SessionsAreRestored ==
    []Restore!ExpiredWasRefused /\ Restore!WokenAskNoMore /\ (part = "restore" => Restore!Settles)
=============================================================================
