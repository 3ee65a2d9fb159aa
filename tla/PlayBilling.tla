----------------------------- MODULE PlayBilling -----------------------------
(***************************************************************************)
(* Buying and restoring Premium with Google Play on the phone              *)
(* (frontend/services/googlePlayBilling.ts, the effect of                  *)
(* components/mobile/useMobilePremium.ts and run() of MobilePremium.tsx).  *)
(*                                                                         *)
(* Three kinds of run end in the same validation: a purchase dialogue, a   *)
(* restoration (asked, or whenever the app comes to the foreground), and   *)
(* an event of the store that comes by itself.  Purchases belong to the    *)
(* account of the phone's store; the cloud says to whom of ours.  There is  *)
(* one product, the default of the cloud: the store has one live purchase. *)
(***************************************************************************)
EXTENDS Integers, FiniteSets

CONSTANTS
    Accounts, NoAccount,  \* cloud accounts, and the owner "local"
    Purchases,            \* purchase tokens
    NoPurchase,
    MaxBuys,              \* bound: dialogues opened
    MaxSwitches,          \* bound: switches of account
    MaxFailures           \* bound: calls that fail

VARIABLES
    owner,      \* getActiveOwnerId
    buyer,      \* who made each purchase, or NoAccount: not made yet
    lapsed,     \* the store: subscriptions that ended
    unpaid,     \* the store: purchases whose payment is pending
    validated,  \* the cloud: purchases validated and acknowledged
    runs,       \* what each run awaits, by kind and account
    asked,      \* jobs: validations under way, by account and token
    buys, switches, failures

vars == <<owner, buyer, lapsed, unpaid, validated, runs, asked, buys, switches, failures>>

Kinds == {"buy", "restore", "watch"}
Idle == [pc |-> "idle", todo |-> {}, token |-> NoPurchase, paid |-> FALSE,
         pending |-> FALSE, tries |-> 0]
At(pc) == [Idle EXCEPT !.pc = pc]
Made == {t \in Purchases : buyer[t] # NoAccount}
Live == Made \ lapsed
Tries == 4   \* [0, 1000, 2000, 4000]
Working(o) == \E k \in {"buy", "restore"} : runs[k, o] # Idle

Fails == failures < MaxFailures /\ failures' = failures + 1

\* Variant: a failed purchase stays registered as under way.
Ends_Registered(k, o) ==
    runs' = [runs EXCEPT ![k, o] = IF k = "buy" THEN At("stuck") ELSE Idle]

\* A run ends, well or not, and its job is deleted; a purchase that waits for
\* the restoration ends with it.
Ends(k, o) ==
    runs' = [runs EXCEPT ![k, o] = Idle,
                 !["buy", o] = IF k = "buy" \/ @.pc = "restoring" THEN Idle ELSE @]

\* What a run does after an await when the account was switched: requireCurrent.
Refused(k, o) == owner # o /\ Ends(k, o) /\ UNCHANGED failures

-----------------------------------------------------------------------------
(* Runs begin *)

\* buyPlayPremium: a second press joins the first.
Buy(o) ==
    /\ owner = o /\ runs["buy", o] = Idle
    /\ buys < MaxBuys /\ buys' = buys + 1
    /\ runs' = [runs EXCEPT !["buy", o] = At("context")]
    /\ UNCHANGED <<owner, buyer, lapsed, unpaid, validated, asked, switches, failures>>

\* The button "Restaurar compras".
Restore(o) ==
    /\ owner = o /\ runs["restore", o] = Idle
    /\ runs' = [runs EXCEPT !["restore", o] = At("context")]
    /\ UNCHANGED <<owner, buyer, lapsed, unpaid, validated, asked, buys, switches, failures>>

\* refresh() of useMobilePremium, on a visible window: not during a purchase.
Foreground(o) ==
    /\ runs["buy", o] = Idle
    /\ Restore(o)

\* watchPlayPurchases: an event of the store, unless a run will see to it.
Event(o, t) ==
    IF o \in Accounts /\ ~Working(o) /\ runs["watch", o] = Idle
    THEN [runs EXCEPT !["watch", o] = [At("context") EXCEPT !.todo = {t}]]
    ELSE runs

-----------------------------------------------------------------------------
(* Runs go on *)

\* request(owner, "context"), then the store is asked.
ContextCame(k, o) ==
    /\ runs[k, o].pc = "context"
    /\ \/ /\ owner = o
          /\ runs' = [runs EXCEPT ![k, o].pc = IF k = "watch" THEN "validate" ELSE "store"]
          /\ UNCHANGED failures
       \/ owner = o /\ Fails /\ Ends(k, o)
       \/ Refused(k, o)
    /\ UNCHANGED <<owner, buyer, lapsed, unpaid, validated, asked, buys, switches>>

\* The dialogue of the store made a purchase, paid or still to be paid.
Bought(o) ==
    /\ runs["buy", o].pc = "store"
    /\ Live = {}
    /\ \E t \in Purchases \ Made :
         /\ buyer' = [buyer EXCEPT ![t] = o]
         /\ unpaid' \in {unpaid, unpaid \cup {t}}
         /\ \/ /\ owner = o
               /\ runs' = [runs EXCEPT !["buy", o] = [At("validate") EXCEPT !.todo = {t}]]
               /\ UNCHANGED failures
            \/ Refused("buy", o)
    /\ UNCHANGED <<owner, lapsed, validated, asked, buys, switches>>

\* It was cancelled or failed; or the store says the product is owned already.
NotBought(o) ==
    /\ runs["buy", o].pc = "store"
    /\ \/ Ends("buy", o)
       \/ /\ Live # {} /\ owner = o
          /\ runs' = [runs EXCEPT !["buy", o] = At("restoring"),
                  !["restore", o] = IF @ = Idle THEN At("context") ELSE @]
    /\ UNCHANGED <<owner, buyer, lapsed, unpaid, validated, asked, buys, switches, failures>>

\* query_purchases
Queried(o) ==
    /\ runs["restore", o].pc = "store"
    /\ \/ /\ runs' = [runs EXCEPT !["restore", o] = [At("validate") EXCEPT !.todo = Live]]
          /\ UNCHANGED failures
       \/ Fails /\ Ends("restore", o)
    /\ UNCHANGED <<owner, buyer, lapsed, unpaid, validated, asked, buys, switches>>

\* validate: one purchase after another; one already being validated for the
\* account is awaited, not sent again.
Validates(k, o, t) ==
    LET r == runs[k, o] IN
    /\ r.pc = "validate" /\ t \in r.todo
    /\ \/ /\ owner = o /\ t \in unpaid
          /\ runs' = [runs EXCEPT ![k, o] = [r EXCEPT !.todo = @ \ {t}, !.pending = TRUE]]
          /\ UNCHANGED <<asked, failures>>
       \/ /\ owner = o /\ t \notin unpaid
          /\ runs' = [runs EXCEPT ![k, o] = [r EXCEPT !.todo = @ \ {t}, !.paid = TRUE,
                                                !.pc = "answer", !.token = t]]
          /\ asked' = asked \cup {<<o, t>>}
          /\ UNCHANGED failures
       \/ Refused(k, o) /\ UNCHANGED asked
    /\ UNCHANGED <<owner, buyer, lapsed, unpaid, validated, buys, switches>>

\* Those that wait for the validation of t go on, or all fail with it.
Told(o, t, ok) ==
    [r \in DOMAIN runs |->
        IF r[2] # o THEN runs[r]
        ELSE IF runs[r].pc = "answer" /\ runs[r].token = t
             THEN IF ok THEN [runs[r] EXCEPT !.pc = "validate", !.token = NoPurchase] ELSE Idle
        ELSE IF /\ runs[r].pc = "restoring" /\ ~ok
                /\ runs["restore", o].pc = "answer" /\ runs["restore", o].token = t
             THEN Idle ELSE runs[r]]

\* The cloud asks the store's API and acknowledges, for the account that bought;
\* the answer may be lost afterwards.
Answered(o, t) ==
    /\ <<o, t>> \in asked /\ asked' = asked \ {<<o, t>>}
    /\ \/ /\ buyer[t] = o
          /\ validated' = validated \cup {t}
          /\ runs' = Told(o, t, owner = o)
          /\ UNCHANGED failures
       \/ /\ buyer[t] = o /\ Fails
          /\ validated' \in {validated, validated \cup {t}}
          /\ runs' = Told(o, t, FALSE)
       \/ /\ buyer[t] # o
          /\ runs' = Told(o, t, FALSE)
          /\ UNCHANGED <<validated, failures>>
    /\ UNCHANGED <<owner, buyer, lapsed, unpaid, buys, switches>>

Confirming(k, o) ==
    /\ runs[k, o].pc = "validate" /\ runs[k, o].todo = {}
    /\ \/ owner = o /\ runs' = [runs EXCEPT ![k, o].pc = "confirm"] /\ UNCHANGED failures
       \/ Refused(k, o)
    /\ UNCHANGED <<owner, buyer, lapsed, unpaid, validated, asked, buys, switches>>

\* confirmPlayEntitlements: refreshed up to four times, never validated again.
Confirms(k, o) ==
    LET r == runs[k, o]
        again == r.paid /\ ~r.pending
        seen == \E t \in validated : buyer[t] = o IN
    /\ r.pc = "confirm"
    /\ \/ owner = o /\ seen /\ Ends(k, o) /\ UNCHANGED failures
       \/ /\ owner = o /\ again /\ r.tries < Tries - 1
          /\ \/ ~seen /\ UNCHANGED failures
             \/ Fails
          /\ runs' = [runs EXCEPT ![k, o].tries = @ + 1]
       \/ /\ owner = o /\ (~again \/ r.tries = Tries - 1)
          /\ Ends(k, o)
          /\ UNCHANGED failures
       \/ Refused(k, o)
    /\ UNCHANGED <<owner, buyer, lapsed, unpaid, validated, asked, buys, switches>>

-----------------------------------------------------------------------------
Switch(o) ==
    /\ switches < MaxSwitches /\ switches' = switches + 1
    /\ owner' = o
    /\ UNCHANGED <<buyer, lapsed, unpaid, validated, runs, asked, buys, failures>>

\* A pending payment is made, outside the app.
PaysPending(t) ==
    /\ t \in unpaid /\ unpaid' = unpaid \ {t}
    /\ runs' \in {runs, Event(owner, t)}
    /\ UNCHANGED <<owner, buyer, lapsed, validated, asked, buys, switches, failures>>

Lapses(t) ==
    /\ t \in Live \cap validated /\ lapsed' = lapsed \cup {t}
    /\ UNCHANGED <<owner, buyer, unpaid, validated, runs, asked, buys, switches, failures>>

Init ==
    /\ owner \in Accounts
    /\ buyer \in [Purchases -> Accounts \cup {NoAccount}]   \* made in a former installation
    /\ lapsed = {} /\ unpaid = {} /\ validated = {}
    /\ runs = [r \in Kinds \X Accounts |-> Idle]
    /\ asked = {}
    /\ buys = 0 /\ switches = 0 /\ failures = 0

StoreEnds(o) == Bought(o) \/ NotBought(o)
Steps(k, o) ==
    \/ ContextCame(k, o) \/ Confirming(k, o) \/ Confirms(k, o)
    \/ \E t \in Purchases : Validates(k, o, t)

Progress(o) ==
    \/ StoreEnds(o) \/ Queried(o)
    \/ \E k \in Kinds : Steps(k, o)
    \/ \E t \in Purchases : Answered(o, t)

Next ==
    \/ \E o \in Accounts : Buy(o) \/ Restore(o) \/ Progress(o)
    \/ \E o \in Accounts \cup {NoAccount} : Switch(o)
    \/ \E t \in Purchases : PaysPending(t) \/ Lapses(t)

\* Calls have limits of time, the dialogue is closed by the user, and the app
\* comes to the foreground again.
Fairness == \A o \in Accounts : WF_vars(Foreground(o)) /\ WF_vars(Progress(o))
Spec == Init /\ [][Next]_vars /\ Fairness

-----------------------------------------------------------------------------
(* Properties *)

\* What was paid reaches the account that bought it as long as that account
\* stays active: whichever run was interrupted, refused, or ignored the event.
PurchaseReachesAccount ==
    \A t \in Purchases, o \in Accounts :
        (buyer[t] = o /\ t \notin unpaid) ~> (t \in validated \/ owner # o)
=============================================================================
