------------------------- MODULE PlayReconciliation -------------------------
(***************************************************************************)
(* What the cloud knows of the subscriptions bought with Google Play       *)
(* (google_play_billing.py).  A reconciliation asks Google outside of any  *)
(* transaction, between one that claims the purchase and one that stores   *)
(* the answer; it is started by the buyer's client, by a notification of   *)
(* Google, which may be late, lost, repeated or out of order, or by the    *)
(* operator's sweep.  The account may be deleted meanwhile: what is known  *)
(* of its purchases then lives on in an archive.                           *)
(*                                                                         *)
(* A generation is only compared with the last one, so a purchase holds    *)
(* the call that claimed it last instead of a number.  The states of       *)
(* Google are "pending", "paid" (they give access: active, canceled,       *)
(* grace) and "ended"; a version is a position in the purchase's course of *)
(* states.  Dates, prices, products and what other providers paid are left *)
(* out, and so are purchases made outside of the application.              *)
(***************************************************************************)
EXTENDS Naturals, Sequences

CONSTANTS
    Purchases, Accounts, Calls,
    Buyer,      \* the account a purchase was made for (its obfuscated identity)
    Previous,   \* the purchase of the same buyer that a purchase replaces, or None
    Courses,    \* what Google may do: the states each purchase goes through
    None

VARIABLES
    course, at,  \* Google: the states of each purchase and how far it is, 0 = not bought
    confirmed,   \* Google: the purchases that were acknowledged
    account,     \* users: "open" or "deleted"
    bound,       \* google_play_account_bindings: "no", "user" or "closed"
    record,      \* billing_subscriptions and retained_billing_subscriptions
    latest,      \* google_play_reconciliation_locks: who claimed last,
    watermark,   \*   and the newest event claimed
    plan,        \* users.plan
    calls        \* the reconciliations under way

vars == <<course, at, confirmed, account, bound, record, latest, watermark,
          plan, calls>>
googleVars == <<course, at, confirmed>>

Answer(p) == [version |-> at[p], acked |-> p \in confirmed]
StatusOf(p, v) == course[p][v]

\* Only these have something to lose; the other accounts claim what is not theirs.
Buyers == {Buyer[p] : p \in Purchases}

Idle == [step |-> "idle", p |-> None, user |-> None, system |-> FALSE, event |-> 0,
         early |-> FALSE, body |-> None, closed |-> FALSE]

Archived(p) == record[p] # None /\ record[p].owner = None
Kept(p) == record[p] # None /\ record[p].owner # None

\* What project makes of the subscriptions an account has.
PlanOf(a, rec) ==
    IF \E p \in Purchases : /\ rec[p] # None /\ rec[p].owner = a
                            /\ StatusOf(p, rec[p].version) = "paid"
                            /\ rec[p].acked /\ ~rec[p].superseded
    THEN "premium" ELSE "free"

Init ==
    /\ course \in Courses
    /\ at = [p \in Purchases |-> 0]
    /\ confirmed = {}
    /\ account = [a \in Accounts |-> "open"]
    /\ bound = [a \in Accounts |-> "no"]
    /\ record = [p \in Purchases |-> None]
    /\ latest = [p \in Purchases |-> None]
    /\ watermark = [p \in Purchases |-> 0]
    /\ plan = [a \in Accounts |-> "free"]
    /\ calls = [c \in Calls |-> Idle]

-----------------------------------------------------------------------------
(* Around the reconciliations. *)

\* GET /billing/google-play/context: the client asks under which identity to buy.
Context(a) ==
    /\ account[a] = "open" /\ bound[a] = "no"
    /\ bound' = [bound EXCEPT ![a] = "user"]
    /\ UNCHANGED <<googleVars, account, record, latest, watermark, plan, calls>>

\* A purchase is made, renewed, or ended at Google.
Moves(p) ==
    /\ at[p] < Len(course[p])
    /\ at[p] = 0 => bound[Buyer[p]] # "no"
    /\ at' = [at EXCEPT ![p] = @ + 1]
    /\ UNCHANGED <<course, confirmed, account, bound, record, latest, watermark,
                   plan, calls>>

\* close_internal: what the account owned is archived with the deletion.
Deletes(a) ==
    /\ account[a] = "open"
    /\ account' = [account EXCEPT ![a] = "deleted"]
    /\ bound' = [bound EXCEPT ![a] = IF @ = "user" THEN "closed" ELSE @]
    /\ record' = [p \in Purchases |-> IF Kept(p) /\ record[p].owner = a
                                      THEN [record[p] EXCEPT !.owner = None]
                                      ELSE record[p]]
    /\ plan' = [plan EXCEPT ![a] = "free"]
    /\ UNCHANGED <<googleVars, latest, watermark, calls>>

-----------------------------------------------------------------------------
(* The steps of a reconciliation. *)

Set(c, call) == calls' = [calls EXCEPT ![c] = call]
Ends(c) == Set(c, Idle)
Goes(c, step) == calls' = [calls EXCEPT ![c].step = step]

Begin(c, p, user, event, unknown) ==
    /\ calls[c].step = "idle" /\ at[p] > 0
    /\ Set(c, [Idle EXCEPT !.step = IF record[p] = None THEN unknown ELSE "claims",
                           !.p = p, !.user = user, !.system = user = None,
                           !.event = event])
    /\ UNCHANGED <<googleVars, account, bound, record, latest, watermark, plan>>

\* POST validate, and refresh for the purchases the account has.  The phone may
\* hold a purchase made for another account.
Validate(c, a, p) == account[a] = "open" /\ Begin(c, p, a, 0, "proves")

\* POST rtdn: any event of the past, as often as it is delivered.
Notify(c, p, e) == e <= at[p] /\ Begin(c, p, None, e, "asks")

\* reconcile_google_play.py --all.
Sweep(c, p) ==
    /\ record[p] # None /\ (Archived(p) \/ ~record[p].superseded)
    /\ Begin(c, p, None, 0, "claims")

\* The first claimant of an unknown purchase proves it is the buyer before it
\* may disturb another claim.
Proves(c) ==
    LET call == calls[c] IN
    /\ call.step = "proves"
    /\ IF Buyer[call.p] = call.user THEN Goes(c, "claims") ELSE Ends(c)
    /\ UNCHANGED <<googleVars, account, bound, record, latest, watermark, plan>>

\* A notification of an unknown purchase: Google says whose it is, and its
\* answer is used later on.
Asks(c) ==
    LET call == calls[c]
        a == Buyer[call.p]
    IN
    /\ call.step = "asks"
    /\ IF bound[a] = "no" THEN Ends(c)
       ELSE Set(c, [call EXCEPT !.step = "claims", !.body = Answer(call.p),
                                !.early = TRUE, !.closed = bound[a] = "closed",
                                !.user = IF bound[a] = "user" THEN a ELSE None])
    /\ UNCHANGED <<googleVars, account, bound, record, latest, watermark, plan>>

\* What an account that was deleted since then lets a call do.
OwnerGone(call) == call.user # None /\ account[call.user] = "deleted"
Refused(call) ==
    /\ ~call.system
    /\ \/ OwnerGone(call)
       \/ record[call.p] # None /\ record[call.p].owner # call.user
OldEvent(call) ==
    /\ call.event # 0
    /\ \/ record[call.p] # None /\ call.event < record[call.p].event
       \/ call.event < watermark[call.p]

\* The transaction that reserves the purchase.
Claims(c) ==
    LET call == calls[c] IN
    /\ call.step = "claims"
    /\ IF Refused(call) \/ OldEvent(call)
       THEN Ends(c) /\ UNCHANGED <<latest, watermark>>
       ELSE /\ latest' = [latest EXCEPT ![call.p] = c]
            /\ watermark' = [watermark EXCEPT ![call.p] =
                                IF @ < call.event THEN call.event ELSE @]
            /\ Set(c, [call EXCEPT
                    !.step = IF call.early THEN "stores" ELSE "fetches",
                    !.closed = @ \/ (OwnerGone(call) /\ ~Archived(call.p)),
                    !.user = IF OwnerGone(call) THEN None ELSE @])
    /\ UNCHANGED <<googleVars, account, bound, record, plan>>

Fetches(c) ==
    /\ calls[c].step = "fetches"
    /\ Set(c, [calls[c] EXCEPT !.step = "stores", !.body = Answer(calls[c].p)])
    /\ UNCHANGED <<googleVars, account, bound, record, latest, watermark, plan>>

\* The account the answer is stored for.
OwnerOf(call) == IF call.user # None THEN call.user
                 ELSE IF Kept(call.p) THEN record[call.p].owner ELSE None

\* The record after an answer: an acknowledgement once seen is not unlearnt.
Entry(call, owner) ==
    LET r == record[call.p] IN
    [version    |-> call.body.version,
     acked      |-> call.body.acked \/ (r # None /\ r.acked),
     event      |-> IF r # None /\ r.event > call.event THEN r.event ELSE call.event,
     superseded |-> r # None /\ r.superseded,
     owner      |-> owner]

\* A purchase that was completed takes the place of the one it replaces.
Supersede(p, owner, rec) ==
    LET q == Previous[p] IN
    IF /\ q # None /\ rec[p] # None /\ StatusOf(p, rec[p].version) # "pending"
       /\ rec[q] # None /\ rec[q].owner = owner
    THEN [rec EXCEPT ![q].superseded = TRUE] ELSE rec

\* The answer of a purchase whose account is gone goes to the archive.
StoresForArchive(call) ==
    /\ record' = [record EXCEPT ![call.p] = Entry(call, None)]
    /\ UNCHANGED <<bound, plan>>

StoresForOwner(call, owner) ==
    /\ record' = Supersede(call.p, owner,
                    [record EXCEPT ![call.p] = Entry(call, owner)])
    /\ bound' = [bound EXCEPT ![owner] = IF @ = "no" THEN "user" ELSE @]
    /\ plan' = [plan EXCEPT ![owner] = PlanOf(owner, record')]

\* Variant: the answer is stored whoever has claimed since.
Stores_Late(c) ==
    LET call == calls[c]
        owner == OwnerOf(call)
        gone == call.closed \/ Archived(call.p)
                \/ (owner # None /\ account[owner] = "deleted")
    IN
    /\ call.step = "stores"
    /\ IF gone THEN Ends(c) /\ StoresForArchive(call)
       ELSE /\ StoresForOwner(call, owner)
            /\ IF /\ StatusOf(call.p, call.body.version) = "paid"
                  /\ ~record'[call.p].acked
               THEN Set(c, [call EXCEPT !.step = "acks", !.user = owner, !.body = None])
               ELSE Ends(c)
    /\ UNCHANGED <<googleVars, account, latest, watermark>>

\* The transaction that stores what Google answered, unless another call has
\* claimed the purchase since.
Stores(c) ==
    LET call == calls[c]
        owner == OwnerOf(call)
        gone == call.closed \/ Archived(call.p)
                \/ (owner # None /\ account[owner] = "deleted")
    IN
    /\ call.step = "stores"
    /\ IF latest[call.p] # c THEN Ends(c) /\ UNCHANGED <<bound, record, plan>>
       ELSE IF gone THEN Ends(c) /\ StoresForArchive(call)
       ELSE /\ StoresForOwner(call, owner)
            /\ IF /\ StatusOf(call.p, call.body.version) = "paid"
                  /\ ~record'[call.p].acked
               THEN Set(c, [call EXCEPT !.step = "acks", !.user = owner, !.body = None])
               ELSE Ends(c)
    /\ UNCHANGED <<googleVars, account, latest, watermark>>

\* Google is told that the purchase was received; whether it answers does not
\* matter, it is asked again.
Acks(c) ==
    /\ calls[c].step = "acks"
    /\ confirmed' \in {confirmed, confirmed \cup {calls[c].p}}
    /\ Goes(c, "checks")
    /\ UNCHANGED <<course, at, account, bound, record, latest, watermark, plan>>

Checks(c) ==
    LET call == calls[c] IN
    /\ call.step = "checks"
    /\ IF call.p \in confirmed
       THEN Set(c, [call EXCEPT !.step = "saves", !.body = Answer(call.p)])
       ELSE Ends(c)
    /\ UNCHANGED <<googleVars, account, bound, record, latest, watermark, plan>>

\* The transaction that gives access, now that Google has the acknowledgement.
Saves(c) ==
    LET call == calls[c]
        saved == [record EXCEPT ![call.p].version = call.body.version,
                                ![call.p].acked = call.body.acked]
    IN
    /\ call.step = "saves"
    /\ Ends(c)
    /\ IF latest[call.p] # c THEN UNCHANGED <<record, plan>>
       ELSE /\ record' = saved
            /\ plan' = IF Archived(call.p) THEN plan
                       ELSE [plan EXCEPT ![call.user] = PlanOf(call.user, saved)]
    /\ UNCHANGED <<googleVars, account, bound, latest, watermark>>

\* Google does not answer, or the server stops.
Fails(c) ==
    /\ calls[c].step # "idle"
    /\ Ends(c)
    /\ UNCHANGED <<googleVars, account, bound, record, latest, watermark, plan>>

Next ==
    \/ \E a \in Buyers : Context(a) \/ Deletes(a)
    \/ \E p \in Purchases : Moves(p)
    \/ \E c \in Calls :
         \/ \E p \in Purchases : \/ Sweep(c, p)
                                 \/ \E a \in Accounts : Validate(c, a, p)
                                 \/ \E e \in 1..at[p] : Notify(c, p, e)
         \/ Proves(c) \/ Asks(c) \/ Claims(c) \/ Fetches(c) \/ Stores(c)
         \/ Acks(c) \/ Checks(c) \/ Saves(c) \/ Fails(c)

Spec == Init /\ [][Next]_vars

-----------------------------------------------------------------------------
\* Whatever answers last, an account is premium only by a purchase that was made
\* for it, that Google has as acknowledged and that is not replaced; a deleted
\* account has no plan and no subscription (docs/GOOGLE_PLAY_BILLING.md:72,179).
PremiumIsConfirmed ==
    /\ \A a \in Accounts :
        /\ plan[a] = PlanOf(a, record)
        /\ plan[a] = "premium" =>
             \E p \in Purchases : Buyer[p] = a /\ p \in confirmed
    /\ \A p \in Purchases : Kept(p) => account[record[p].owner] = "open"

\* What is known of a purchase follows Google's course: no answer that another
\* claim overtook takes the place of a later one, an acknowledgement stays known,
\* and no purchase leaves the archive or changes hands.  An answer that was asked
\* for before its claim, of a notification about an unknown purchase, is
\* excepted: the purchase may have been recorded, and moved on, in between.
KnownStays ==
    [][\A p \in Purchases : record[p] # None =>
        /\ record'[p] # None
        /\ record[p].acked => record'[p].acked
        /\ record'[p].owner \in {record[p].owner, None}
        /\ \/ record'[p].version >= record[p].version
           \/ \E c \in Calls : calls[c].early /\ latest[p] = c
                               /\ calls[c].step = "stores"]_record
=============================================================================
