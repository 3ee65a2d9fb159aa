--------------------------- MODULE PremiumRefresh ---------------------------
(***************************************************************************)
(* The controller that verifies a payment when the user comes back from    *)
(* the provider (frontend/services/premiumAutoRefresh.ts), with the calls  *)
(* of premiumBilling.ts and the payment handler of the settings page       *)
(* (configuracion/page.tsx).                                               *)
(*                                                                         *)
(* One verification runs at a time.  The window may be focused, the        *)
(* account switched and the controller detached between any two of its     *)
(* awaits.  A unit of time is 2.5 seconds.                                 *)
(***************************************************************************)
EXTENDS Integers

CONSTANTS
    Accounts, NoAccount,   \* cloud accounts, and the owner "local"
    Activations,           \* activations under way at once
    ReturnLimit,           \* how long after a return it is retried (10 s: 4)
    MaxNow,                \* bound of the clock
    MaxEvents              \* bound: switches, payments, detachments, refused sessions

VARIABLES
    owner,         \* getActiveOwnerId, which getActiveAccount follows
    now,
    remote,        \* the provider: the status of each subscription
    premium,       \* the cloud: accounts with Premium
    known,         \* accounts whose cached entitlements are Premium
    state,         \* PremiumRefreshState
    generation, disposed, flight, retry, lastRefresh, checkoutOwner,
    deadline,      \* returnDeadline
    busy, deferred, activation,
    activations,   \* calls of activate: what each awaits
    payment,       \* handlePremiumAction: what it awaits
    owed,          \* history: an activated subscription still to be verified
    events

cloudVars == <<remote, premium>>
chainVars == <<retry, lastRefresh, checkoutOwner, deadline>>
flightVars == <<flight, deferred, owed>>
lifeVars == <<generation, disposed, activation, activations>>
vars == <<owner, now, cloudVars, known, state, lifeVars, flightVars, chainVars,
          busy, payment, events>>

RetryAfter == 1      \* 2.5 s
Throttle == 2        \* less than 3 s is less than two units
MaxRetries == 3
Never == -Throttle

NoSub == [of |-> NoAccount, status |-> "none"]
NoFlight == [pc |-> "none", of |-> NoAccount, generation |-> -1, attempt |-> 0,
             returned |-> FALSE, sub |-> NoSub]
NoRetry == [of |-> NoAccount, generation |-> -1, attempt |-> 0, due |-> 0]
NoPayment == [pc |-> "none", of |-> NoAccount]
Idle == [pc |-> "idle", of |-> NoAccount, generation |-> -1]

Pending(s) == s.status \in {"pending", "authorized"}
CanVerify(s) == Pending(s) \/ s.status = "uncertain"

-----------------------------------------------------------------------------
(* Guards *)

\* valid
Valid(o, g) == ~disposed /\ generation = g /\ owner = o

\* billingRequest: refused unless its account is the active one throughout.
MayAsk(o) == owner = o /\ o # NoAccount

Throttled ==
    \/ retry # NoRetry
    \/ checkoutOwner # owner /\ now - lastRefresh < Throttle

\* Variant: a verification asked during another account's is forgotten.
Joins_Forgets(wanted) == deferred' = (wanted \/ checkoutOwner = owner)

\* A verification asked while one runs: joined, or done after it.
Joins(wanted) ==
    deferred' = (wanted \/ checkoutOwner = owner \/ flight.generation # generation)

-----------------------------------------------------------------------------
(* verify *)

\* Nothing to do, given the subscription s.
Pointless(s) ==
    \/ ~Valid(owner, generation) \/ owner = NoAccount
    \/ ~CanVerify(s) \/ owner \in known

Flies(attempt, returned, wanted) ==
    LET back == returned \/ checkoutOwner = owner IN
    /\ flight' = [pc |-> "session", of |-> owner, generation |-> generation,
                  attempt |-> attempt, returned |-> back, sub |-> NoSub]
    /\ retry' = NoRetry
    /\ deadline' = IF back /\ attempt = 0 THEN now + ReturnLimit ELSE deadline
    /\ checkoutOwner' = NoAccount
    /\ lastRefresh' = now
    /\ deferred' = wanted
    /\ owed' = FALSE

\* verify(manual, attempt, attempt > 0), with deferredFocus = wanted and
\* inFlight = f when it is called, the subscription s, the flag paying, and
\* owing whether s is still to be verified.
Verify(manual, attempt, wanted, f, s, paying, owing) ==
    IF f = NoFlight /\ ~Pointless(s) /\ ~paying /\ (manual \/ attempt > 0 \/ ~Throttled)
    THEN Flies(attempt, attempt > 0, wanted)
    ELSE /\ flight' = f
         /\ retry' = IF attempt > 0 THEN NoRetry ELSE retry
         /\ UNCHANGED <<lastRefresh, checkoutOwner, deadline>>
         /\ \/ f # NoFlight /\ Joins(wanted) /\ owed' = (owing /\ f.generation # generation)
            \/ f = NoFlight /\ ~Pointless(s) /\ paying /\ deferred' = TRUE /\ owed' = owing
            \/ f = NoFlight /\ (Pointless(s) \/ ~paying) /\ deferred' = wanted /\ owed' = FALSE

\* The user comes back to the window, or presses "Verificar nuevamente".
Focus(manual) ==
    /\ ~disposed
    /\ Verify(manual, 0, deferred, flight, state.sub, busy, owed)
    /\ UNCHANGED <<owner, now, cloudVars, known, state, lifeVars, busy, payment, events>>

Publishes(sub, verifying) ==
    state' = [state EXCEPT !.sub = sub, !.verifying = verifying]

FlightAt(pc) == flight' = [flight EXCEPT !.pc = pc]
FlightValid == Valid(flight.of, flight.generation)

\* The session came, or there is none.
FlightSession ==
    /\ flight.pc = "session"
    /\ \/ /\ FlightValid
          /\ Publishes(state.sub, TRUE)
          /\ flight' = [flight EXCEPT !.pc = "refresh", !.sub = state.sub]
       \/ FlightAt("over") /\ UNCHANGED state
    /\ UNCHANGED <<owner, now, cloudVars, known, lifeVars, deferred, owed, chainVars,
                   busy, payment, events>>

\* The provider was asked again; only an uncertain subscription may go on
\* without its answer.
FlightRefresh ==
    /\ flight.pc = "refresh"
    /\ \/ /\ MayAsk(flight.of)
          /\ flight' = [flight EXCEPT !.sub = [of |-> flight.of, status |-> remote[flight.of]],
                            !.pc = IF FlightValid THEN "entitlements" ELSE "over"]
          /\ UNCHANGED state
       \/ /\ flight.sub.status = "uncertain"
          /\ flight' = [flight EXCEPT !.pc = IF FlightValid THEN "entitlements" ELSE "over"]
          /\ UNCHANGED state
       \/ /\ flight.sub.status # "uncertain"
          /\ FlightAt("over")
          /\ IF FlightValid THEN Publishes(state.sub, FALSE) ELSE UNCHANGED state
    /\ UNCHANGED <<owner, now, cloudVars, known, lifeVars, deferred, owed, chainVars,
                   busy, payment, events>>

\* The entitlements were loaded, or the cached ones stand in for them.
FlightEntitlements ==
    /\ flight.pc = "entitlements"
    /\ known' \in {known} \cup
           (IF MayAsk(flight.of)
            THEN {(known \ {flight.of}) \cup ({flight.of} \cap premium)} ELSE {})
    /\ FlightAt("over")
    /\ IF FlightValid
       THEN /\ Publishes(flight.sub, FALSE)
            /\ retry' = IF /\ flight.returned /\ flight.of \notin known'
                           /\ Pending(flight.sub) /\ flight.attempt < MaxRetries
                           /\ now + RetryAfter <= deadline
                        THEN [of |-> flight.of, generation |-> generation,
                              attempt |-> flight.attempt + 1, due |-> now + RetryAfter]
                        ELSE retry
       ELSE UNCHANGED <<state, retry>>
    /\ UNCHANGED <<owner, now, cloudVars, lifeVars, deferred, owed, lastRefresh,
                   checkoutOwner, deadline, busy, payment, events>>

\* inFlight = null, and what was deferred is done.
FlightOver ==
    /\ flight.pc = "over"
    /\ IF ~busy /\ deferred
       THEN Verify(FALSE, 0, FALSE, NoFlight, state.sub, busy, owed)
       ELSE flight' = NoFlight /\ UNCHANGED <<deferred, owed, chainVars>>
    /\ UNCHANGED <<owner, now, cloudVars, known, state, lifeVars, busy, payment, events>>

RetryFires ==
    /\ retry # NoRetry /\ now >= retry.due
    /\ IF Valid(retry.of, retry.generation) /\ now <= deadline
       THEN Verify(FALSE, retry.attempt, deferred, flight, state.sub, busy, owed)
       ELSE retry' = NoRetry /\ UNCHANGED <<flightVars, lastRefresh, checkoutOwner, deadline>>
    /\ UNCHANGED <<owner, now, cloudVars, known, state, lifeVars, busy, payment, events>>

-----------------------------------------------------------------------------
(* activate *)

Fresh(o) == [ownerId |-> o, sub |-> NoSub, verifying |-> FALSE]

\* Another account: everything begun for the former is abandoned.
Turns(o) ==
    /\ generation' = generation + 1
    /\ state' = Fresh(o)
    /\ retry' = NoRetry /\ checkoutOwner' = NoAccount /\ lastRefresh' = Never
    /\ owed' = FALSE

\* The subscription is asked for, unless it is known or already asked.
Asks(o, g, s, current) ==
    IF o = NoAccount \/ s # NoSub
    THEN activation' = current /\ UNCHANGED activations
    ELSE IF current # 0 /\ activations[current].of = o
    THEN activation' = current /\ UNCHANGED activations
    ELSE \E i \in Activations :
           /\ activations[i] = Idle
           /\ activation' = i
           /\ activations' = [activations EXCEPT ![i] =
                                 [pc |-> "session", of |-> o, generation |-> g]]

Activate(o) ==
    IF o # state.ownerId
    THEN Turns(o) /\ Asks(o, generation + 1, NoSub, 0)
    ELSE /\ Asks(o, generation, state.sub, activation)
         /\ UNCHANGED <<generation, state, retry, checkoutOwner, lastRefresh, owed>>

Event == events < MaxEvents /\ events' = events + 1

\* OWNER_CHANGED_EVENT, ACCOUNT_SESSION_CHANGED_EVENT: another owner, or a new
\* session of the same.
AccountChanges(o) ==
    /\ Event
    /\ owner' = o
    /\ IF disposed
       THEN UNCHANGED <<state, generation, activation, activations, retry, checkoutOwner,
                        lastRefresh, owed>>
       ELSE Activate(o)
    /\ UNCHANGED <<now, cloudVars, known, disposed, flight, deferred, deadline, busy, payment>>

ActivationEnds(i) ==
    /\ activations' = [activations EXCEPT ![i] = Idle]
    /\ activation' = IF activation = i THEN 0 ELSE activation

ActivationSession(i) ==
    LET a == activations[i] IN
    /\ a.pc = "session"
    /\ \/ /\ Valid(a.of, a.generation)
          /\ activations' = [activations EXCEPT ![i].pc = "subscription"]
          /\ UNCHANGED activation
       \/ ActivationEnds(i)
    /\ UNCHANGED <<owner, now, cloudVars, known, state, generation, disposed,
                   flightVars, chainVars, busy, payment, events>>

\* Its subscription is shown, and verified if it may have been paid.
ActivationAnswered(i) ==
    LET a == activations[i]
        s == [of |-> a.of, status |-> remote[a.of]] IN
    /\ a.pc = "subscription"
    /\ ActivationEnds(i)
    /\ \/ /\ Valid(a.of, a.generation)
          /\ Publishes(s, state.verifying)
          /\ Verify(FALSE, 0, deferred, flight, s, busy, TRUE)
       \/ UNCHANGED <<state, flightVars, chainVars>>
    /\ UNCHANGED <<owner, now, cloudVars, known, generation, disposed, busy, payment, events>>

Detach ==
    /\ Event
    /\ ~disposed /\ disposed' = TRUE
    /\ generation' = generation + 1
    /\ activation' = 0 /\ lastRefresh' = Never /\ retry' = NoRetry
    /\ owed' = FALSE
    /\ UNCHANGED <<owner, now, cloudVars, known, state, activations, flight, deferred,
                   checkoutOwner, deadline, busy, payment>>

Attach ==
    /\ disposed /\ disposed' = FALSE
    /\ IF owner # state.ownerId
       THEN Turns(owner) /\ Asks(owner, generation + 1, NoSub, 0)
       ELSE /\ state' = [state EXCEPT !.verifying = FALSE]
            /\ Asks(owner, generation, state.sub, activation)
            /\ UNCHANGED <<generation, retry, checkoutOwner, lastRefresh, owed>>
    /\ UNCHANGED <<owner, now, cloudVars, known, flight, deferred, deadline, busy,
                   payment, events>>

-----------------------------------------------------------------------------
(* The settings page *)

\* load(): the subscription of an account with Premium.
SettingsUpdate ==
    /\ MayAsk(owner) /\ owner \in known /\ state.ownerId = owner
    /\ Publishes([of |-> owner, status |-> remote[owner]], state.verifying)
    /\ UNCHANGED <<owner, now, cloudVars, known, lifeVars, flightVars, chainVars, busy,
                   payment, events>>

\* handlePremiumAction("start")
PayStart ==
    /\ Event
    /\ owner # NoAccount /\ payment = NoPayment /\ ~state.verifying
    /\ payment' = [pc |-> "start", of |-> owner]
    /\ busy' = TRUE
    /\ UNCHANGED <<owner, now, cloudVars, known, state, lifeVars, flightVars, chainVars>>

Updates(o) ==
    IF owner = o /\ state.ownerId = o
    THEN Publishes([of |-> o, status |-> remote'[o]], state.verifying)
    ELSE UNCHANGED state

\* The subscription was made, and the provider's page is opened; or not.
PayAnswered ==
    /\ payment.pc = "start"
    /\ remote' \in {remote} \cup
           (IF remote[payment.of] = "none"
            THEN {[remote EXCEPT ![payment.of] = "pending"],
                  [remote EXCEPT ![payment.of] = "uncertain"]} ELSE {})
    /\ \/ /\ MayAsk(payment.of) /\ remote'[payment.of] = "pending"
          /\ Updates(payment.of)
          /\ checkoutOwner' = owner
          /\ payment' = [payment EXCEPT !.pc = "open"]
       \/ /\ checkoutOwner' = NoAccount
          /\ payment' = [payment EXCEPT !.pc = IF owner = payment.of THEN "lookup" ELSE "over"]
          /\ UNCHANGED state
    /\ UNCHANGED <<owner, now, premium, known, lifeVars, flightVars, retry, lastRefresh,
                   deadline, busy, events>>

PayOpened ==
    /\ payment.pc = "open"
    /\ \/ payment' = [payment EXCEPT !.pc = "over"] /\ UNCHANGED checkoutOwner
       \/ /\ payment' = [payment EXCEPT !.pc = IF owner = payment.of THEN "lookup" ELSE "over"]
          /\ checkoutOwner' = NoAccount
    /\ UNCHANGED <<owner, now, cloudVars, known, state, lifeVars, flightVars, retry,
                   lastRefresh, deadline, busy, events>>

PayLookedUp ==
    /\ payment.pc = "lookup"
    /\ UNCHANGED cloudVars
    /\ \/ MayAsk(payment.of) /\ Updates(payment.of)
       \/ UNCHANGED state
    /\ payment' = [payment EXCEPT !.pc = "over"]
    /\ UNCHANGED <<owner, now, known, lifeVars, flightVars, chainVars, busy, events>>

\* setBusy(false)
PayOver ==
    /\ payment.pc = "over"
    /\ payment' = NoPayment /\ busy' = FALSE
    /\ IF deferred THEN Verify(FALSE, 0, FALSE, flight, state.sub, FALSE, owed)
       ELSE UNCHANGED <<flightVars, chainVars>>
    /\ UNCHANGED <<owner, now, cloudVars, known, state, lifeVars, events>>

\* The provider and its webhook confirm a payment.
Confirms(o) ==
    /\ Event
    /\ remote[o] \in {"pending", "uncertain"}
    /\ remote' = [remote EXCEPT ![o] = "authorized"]
    /\ premium' = premium \cup {o}
    /\ UNCHANGED <<owner, now, known, state, lifeVars, flightVars, chainVars, busy, payment>>

Tick ==
    /\ now < MaxNow /\ now' = now + 1
    /\ UNCHANGED <<owner, cloudVars, known, state, lifeVars, flightVars, chainVars, busy,
                   payment, events>>

Init ==
    /\ owner = NoAccount /\ now = 0
    /\ remote \in [Accounts -> {"none", "pending"}]
    /\ premium = {} /\ known = {}
    /\ state = Fresh(NoAccount)
    /\ generation = 0 /\ disposed = FALSE
    /\ flight = NoFlight /\ deferred = FALSE /\ owed = FALSE
    /\ retry = NoRetry /\ lastRefresh = Never /\ checkoutOwner = NoAccount /\ deadline = 0
    /\ busy = FALSE /\ payment = NoPayment
    /\ activation = 0 /\ activations = [i \in Activations |-> Idle]
    /\ events = 0

FlightSteps == FlightSession \/ FlightRefresh \/ FlightEntitlements \/ FlightOver
PaymentSteps == PayAnswered \/ PayOpened \/ PayLookedUp \/ PayOver
Next ==
    \/ \E manual \in BOOLEAN : Focus(manual)
    \/ FlightSteps \/ RetryFires \/ PaymentSteps
    \/ \E o \in Accounts \cup {NoAccount} : AccountChanges(o)
    \/ \E i \in Activations : ActivationSession(i) \/ ActivationAnswered(i)
    \/ Detach \/ Attach \/ SettingsUpdate \/ PayStart
    \/ \E o \in Accounts : Confirms(o)
    \/ Tick

\* The calls of a flight and of a payment end: each has a limit of time.
Fairness == WF_vars(FlightSteps) /\ WF_vars(PaymentSteps)
Spec == Init /\ [][Next]_vars /\ Fairness

-----------------------------------------------------------------------------
(* Properties *)

\* What is published belongs to the account whose state it is: the subscription,
\* the notice that a verification is going on, and the retry that is armed.
PublishedIsItsOwners ==
    /\ state.sub # NoSub => state.sub.of = state.ownerId
    /\ state.verifying /\ ~disposed => flight.generation = generation
    /\ retry # NoRetry => retry.generation = generation /\ retry.of = state.ownerId

\* The pending subscription of an account that became active is verified, also
\* when another account's verification or a payment is in the way.
ActivatedIsVerified == owed ~> ~owed
=============================================================================
