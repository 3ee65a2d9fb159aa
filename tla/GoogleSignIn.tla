----------------------------- MODULE GoogleSignIn -----------------------------
(***************************************************************************)
(* Signing in with Google in the system browser, and the code a new device *)
(* is asked for (frontend/services/supabaseGoogleAuth.ts,                  *)
(* supabaseOAuthStorage.ts, and the device part of supabaseCloudAuth.ts).  *)
(*                                                                         *)
(* An attempt keeps its PKCE verifier in the native store until the        *)
(* callback consumes it; the answer comes back as a deep link, which the   *)
(* system may deliver twice, late, or to a program just started.           *)
(*                                                                         *)
(* An attempt, its client, its verifier and the code Google gives for it   *)
(* have one number.  A call of the native store carries what its caller    *)
(* does next, so that its answer and that step are one action.             *)
(***************************************************************************)
EXTENDS Naturals, Sequences

CONSTANTS
    MaxAttempts,  \* bound: attempts to sign in
    MaxCodes,     \* codes the program remembers (64)
    MaxCancels    \* bound: cancellations, invalid links and restarts

VARIABLES
    attempt,    \* the current one, or 0
    flow,       \* signInWithGoogleSupabase of each attempt: what it awaits
    ready,      \* attempts whose verifier was saved
    timers,     \* attempts whose timeout is armed
    expired,    \* attempts whose time is over
    status,     \* what the window shows
    pending,    \* the native store: the attempt whose verifier it holds, or 0
    ops,        \* calls waiting for the native store
    issued,     \* codes Google gave
    callback,   \* the link being handled: its code, attempt and what it awaits
    consumed,   \* codes seen by this program
    device,     \* pendingDevice: the client waiting for the device's code, or 0
    verify,     \* verifyNewDeviceCode: what it awaits
    session,    \* the client of the session in memory, or 0
    open,       \* clients not disposed
    exchanges,  \* history: times each verifier was sent
    lost,       \* history: a deletion failed or the program ended
    cancels     \* cancellations, invalid links and restarts so far

flowVars == <<attempt, flow, ready, timers, status>>
storeVars == <<pending, ops, lost>>
linkVars == <<callback, consumed>>
deviceVars == <<device, verify, session>>
vars == <<flowVars, expired, storeVars, issued, linkVars, deviceVars, open,
          exchanges, cancels>>

Attempts == 1 .. MaxAttempts
NoCallback == [pc |-> "idle", code |-> 0, cur |-> 0, prev |-> 0]
NoVerify == [pc |-> "idle", cur |-> 0, prev |-> 0]
Denied == MaxAttempts + 1
Busy == callback # NoCallback

\* disposeUnusedSupabaseClient, for the device and the session that are left.
OpenWithout(c, dev, ses) == IF c \in {dev, ses} THEN open ELSE open \ {c}

\* A call of the native store: what it does, for which attempt, and what the
\* caller does after.
Op(kind, id, then) == [kind |-> kind, id |-> id, then |-> then]
Ask(op) == ops' = Append(ops, op)

\* What the store holds after the first waiting call.
Executed(ok) ==
    LET op == Head(ops) IN
    pending' = CASE op.kind = "save" /\ ok -> op.id
                 [] op.kind = "delete" /\ ok -> 0
                 [] OTHER -> pending
Remembered(ok) ==
    LET op == Head(ops) IN
    lost' = CASE op.kind = "delete" -> ~ok
              [] op.kind = "save" /\ ok -> FALSE
              [] OTHER -> lost

\* command: calls wait for one another.
Answers(kind, then, ok) ==
    /\ ops # <<>> /\ Head(ops).kind = kind /\ Head(ops).then = then
    /\ Executed(ok)
    /\ Remembered(ok)

-----------------------------------------------------------------------------
(* Starting an attempt *)

SignIn(n) ==
    /\ flow[n] = "none" /\ \A i \in Attempts : i < n => flow[i] # "none"
    /\ attempt = 0 /\ ~Busy
    /\ status \notin {"opening", "waiting", "processing"}
    /\ status' = "opening"
    /\ attempt' = n
    /\ flow' = [flow EXCEPT ![n] = "url"]
    /\ open' = open \cup {n}
    /\ UNCHANGED <<ready, timers, expired, storeVars, issued, linkVars, deviceVars,
                   exchanges, cancels>>

\* Variant: the verifier of an attempt that failed stays in the store.
SignInFails_NotReleased(n, q) ==
    /\ attempt' = IF attempt = n THEN 0 ELSE attempt
    /\ timers' = timers \ {n}
    /\ flow' = [flow EXCEPT ![n] = "done"]
    /\ ops' = q

\* The catch of signInWithGoogleSupabase: a replaced attempt says nothing.
SignInFails(n, q) ==
    IF attempt # n
    THEN /\ flow' = [flow EXCEPT ![n] = "done"]
         /\ ops' = q
         /\ UNCHANGED <<attempt, timers>>
    ELSE /\ attempt' = 0
         /\ timers' = timers \ {n}
         /\ flow' = [flow EXCEPT ![n] = "release"]
         /\ ops' = Append(q, Op("delete", n, "failed"))

\* The client made the address: the verifier is saved before it is opened.
UrlReady(n) ==
    /\ flow[n] = "url"
    /\ \/ SignInFails(n, ops)
       \/ /\ attempt = n
          /\ flow' = [flow EXCEPT ![n] = "save"]
          /\ Ask(Op("save", n, "saved"))
          /\ UNCHANGED <<attempt, timers>>
       \/ /\ attempt # n
          /\ flow' = [flow EXCEPT ![n] = "done"]
          /\ UNCHANGED <<attempt, timers, ops>>
    /\ UNCHANGED <<ready, status, expired, pending, lost, issued, linkVars,
                   deviceVars, open, exchanges, cancels>>

Saved(n) ==
    /\ flow[n] = "save"
    /\ \E ok \in BOOLEAN :
         /\ Answers("save", "saved", ok) /\ Head(ops).id = n
         /\ \/ /\ ok /\ attempt = n
               /\ ready' = ready \cup {n}
               /\ timers' = timers \cup {n}
               /\ flow' = [flow EXCEPT ![n] = "open"]
               /\ ops' = Tail(ops)
               /\ UNCHANGED attempt
            \/ /\ ok /\ attempt # n
               /\ flow' = [flow EXCEPT ![n] = "done"]
               /\ ops' = Tail(ops)
               /\ UNCHANGED <<attempt, ready, timers>>
            \/ ~ok /\ SignInFails(n, Tail(ops)) /\ UNCHANGED ready
    /\ UNCHANGED <<status, expired, issued, linkVars, deviceVars, open,
                   exchanges, cancels>>

\* openUrl is called unless the attempt was given up.
Opens(n) ==
    /\ flow[n] = "open"
    /\ flow' = [flow EXCEPT ![n] = IF attempt = n THEN "opening" ELSE "done"]
    /\ UNCHANGED <<attempt, ready, timers, status, expired, storeVars, issued,
                   linkVars, deviceVars, open, exchanges, cancels>>

\* The browser was opened, or could not be.
Opened(n) ==
    /\ flow[n] = "opening"
    /\ \/ /\ status' = IF attempt = n /\ ~Busy THEN "waiting" ELSE status
          /\ flow' = [flow EXCEPT ![n] = "opened"]
          /\ UNCHANGED <<attempt, timers, ops>>
       \/ n \notin issued /\ SignInFails(n, ops) /\ UNCHANGED status
    /\ UNCHANGED <<ready, expired, pending, lost, issued, linkVars, deviceVars,
                   open, exchanges, cancels>>

GoogleIssues(n) ==
    /\ flow[n] \in {"opening", "opened"} /\ n \notin issued
    /\ issued' = issued \cup {n}
    /\ UNCHANGED <<flowVars, expired, storeVars, linkVars, deviceVars, open,
                   exchanges, cancels>>

\* The failed attempt was cleaned up, or not.
FailedReleased(n) ==
    /\ flow[n] = "release" /\ ops # <<>> /\ Head(ops).id = n
    /\ \E ok \in BOOLEAN : Answers("delete", "failed", ok)
    /\ ops' = Tail(ops)
    /\ open' = OpenWithout(n, device, session)
    /\ status' = "error"
    /\ flow' = [flow EXCEPT ![n] = "done"]
    /\ UNCHANGED <<attempt, ready, timers, expired, issued, linkVars, deviceVars,
                   exchanges, cancels>>

-----------------------------------------------------------------------------
(* Giving an attempt up *)

\* cancelGoogleSupabaseSignIn: refused once a link is being handled.
Cancels(then) ==
    /\ ~Busy
    /\ attempt' = 0
    /\ timers' = timers \ {attempt}
    /\ Ask(Op("delete", attempt, then))

UserCancels ==
    /\ cancels < MaxCancels /\ cancels' = cancels + 1
    /\ Cancels("idle")
    /\ UNCHANGED <<flow, ready, status, expired, pending, lost, issued, linkVars,
                   deviceVars, open, exchanges>>

\* A link that is not an answer of Google.
InvalidLink ==
    /\ cancels < MaxCancels /\ cancels' = cancels + 1
    /\ Cancels("error")
    /\ UNCHANGED <<flow, ready, status, expired, pending, lost, issued, linkVars,
                   deviceVars, open, exchanges>>

TimeIsOver(n) ==
    /\ flow[n] # "none" /\ n \notin expired
    /\ expired' = expired \cup {n}
    /\ UNCHANGED <<flowVars, storeVars, issued, linkVars, deviceVars, open,
                   exchanges, cancels>>

\* armTimeout's callback; nothing happens while a link is handled.
TimerFires(n) ==
    /\ n \in timers /\ n \in expired
    /\ IF attempt = n /\ ~Busy THEN Cancels("error")
       ELSE timers' = timers \ {n} /\ UNCHANGED <<attempt, ops>>
    /\ UNCHANGED <<flow, ready, status, expired, pending, lost, issued, linkVars,
                   deviceVars, open, exchanges, cancels>>

Cancelled ==
    /\ \E ok \in BOOLEAN, then \in {"idle", "error"} :
         /\ Answers("delete", then, ok)
         /\ status' = IF ok THEN then ELSE "error"
         /\ open' = OpenWithout(Head(ops).id, device, session)
    /\ ops' = Tail(ops)
    /\ UNCHANGED <<attempt, flow, ready, timers, expired, issued, linkVars,
                   deviceVars, exchanges, cancels>>

\* dismissGoogleOAuthNotice
Dismiss ==
    /\ attempt = 0 /\ ~Busy /\ status # "idle"
    /\ status' = "idle"
    /\ UNCHANGED <<attempt, flow, ready, timers, expired, storeVars, issued,
                   linkVars, deviceVars, open, exchanges, cancels>>

-----------------------------------------------------------------------------
(* The answer of Google *)

\* What follows once it is known whether there is an attempt, cur: without one
\* that is ready and in time, or if the user refused, it is the end of it.
LinkFails(cur, q) ==
    /\ attempt' = 0
    /\ timers' = timers \ {cur}
    /\ callback' = [callback EXCEPT !.pc = "end", !.cur = cur]
    /\ ops' = Append(q, Op("delete", cur, "end"))

\* "Consume secure pending state BEFORE exchange".
Proceeds(code, cur, q) ==
    IF cur = 0 \/ cur \notin ready' \/ cur \in expired \/ code = Denied
    THEN LinkFails(cur, q) /\ UNCHANGED <<status, exchanges>>
    ELSE /\ status' = "processing"
         /\ timers' = timers \ {cur}
         /\ callback' = [callback EXCEPT !.pc = "consume", !.cur = cur, !.code = code]
         /\ ops' = Append(q, Op("delete", cur, "consumed"))
         /\ attempt' = cur
         /\ UNCHANGED exchanges

Looks(code) ==
    IF attempt # 0 THEN UNCHANGED ready /\ Proceeds(code, attempt, ops)
    ELSE /\ callback' = [callback EXCEPT !.pc = "load", !.code = code]
         /\ Ask(Op("load", 0, "loaded"))
         /\ UNCHANGED <<attempt, ready, timers, status, exchanges>>

\* handleSupabaseGoogleCallback: one link at a time.
LinkArrives(code) ==
    /\ code \in issued /\ ~Busy
    /\ callback' = [callback EXCEPT !.pc = "digest", !.code = code]
    /\ UNCHANGED <<flowVars, expired, storeVars, issued, consumed, deviceVars, open,
                   exchanges, cancels>>

DenialArrives ==
    /\ cancels < MaxCancels /\ cancels' = cancels + 1
    /\ ~Busy /\ issued # {}
    /\ Looks(Denied)
    /\ UNCHANGED <<flow, expired, pending, lost, issued, consumed, deviceVars, open>>

\* The fingerprint of the code is known: a code seen before is ignored.
Digested ==
    /\ callback.pc = "digest"
    /\ IF \E i \in DOMAIN consumed : consumed[i] = callback.code
       THEN /\ callback' = NoCallback
            /\ UNCHANGED <<consumed, attempt, ready, timers, status, ops, exchanges>>
       ELSE /\ consumed' = Append(IF Len(consumed) >= MaxCodes THEN Tail(consumed)
                                  ELSE consumed, callback.code)
            /\ Looks(callback.code)
    /\ UNCHANGED <<flow, expired, pending, lost, issued, deviceVars, open, cancels>>

\* A program just started finds the attempt in the store.
Loaded ==
    /\ \E ok \in BOOLEAN :
         /\ Answers("load", "loaded", ok)
         /\ \/ /\ ok /\ pending # 0 /\ pending \notin expired
               /\ ready' = ready \cup {pending}
               /\ open' = open \cup {pending}
               /\ Proceeds(callback.code, pending, Tail(ops))
            \/ /\ ok /\ pending # 0 /\ pending \in expired
               /\ callback' = [callback EXCEPT !.pc = "stale"]
               /\ ops' = Append(Tail(ops), Op("delete", 0, "stale"))
               /\ UNCHANGED <<attempt, ready, timers, status, open, exchanges>>
            \/ /\ ~ok \/ pending = 0
               /\ UNCHANGED <<ready, open>>
               /\ Proceeds(callback.code, 0, Tail(ops))
    /\ UNCHANGED <<flow, expired, issued, consumed, deviceVars, cancels>>

StaleDeleted ==
    /\ \E ok \in BOOLEAN : Answers("delete", "stale", ok)
    /\ LinkFails(0, Tail(ops))
    /\ UNCHANGED <<flow, ready, status, expired, issued, consumed, deviceVars, open,
                   exchanges, cancels>>

\* The code is exchanged once the verifier was deleted.
Consumed ==
    /\ \E ok \in BOOLEAN :
         /\ Answers("delete", "consumed", ok)
         /\ IF ok THEN /\ callback' = [callback EXCEPT !.pc = "exchange"]
                       /\ exchanges' = [exchanges EXCEPT ![callback.cur] = @ + 1]
                       /\ ops' = Tail(ops)
                       /\ UNCHANGED <<attempt, timers>>
            ELSE LinkFails(callback.cur, Tail(ops)) /\ UNCHANGED exchanges
    /\ UNCHANGED <<flow, ready, status, expired, issued, consumed, deviceVars, open,
                   cancels>>

\* completeGoogleSupabaseSignIn: Google's code fits the verifier of its own
\* attempt only.  acceptSession then gives up a device that was waiting.
Exchanged ==
    /\ callback.pc = "exchange"
    /\ \/ /\ callback.code = callback.cur
          /\ callback' = [callback EXCEPT !.pc = "bootstrap"]
          /\ UNCHANGED <<attempt, timers, ops>>
       \/ LinkFails(callback.cur, ops)
    /\ UNCHANGED <<flow, ready, status, expired, pending, lost, issued, consumed,
                   deviceVars, open, exchanges, cancels>>

Bootstrapped ==
    /\ callback.pc = "bootstrap"
    /\ \/ /\ callback' = [callback EXCEPT !.pc = "authorize"]
          /\ device' = 0
          /\ open' = OpenWithout(device, 0, session)
          /\ UNCHANGED <<attempt, timers, ops>>
       \/ LinkFails(callback.cur, ops) /\ UNCHANGED <<device, open>>
    /\ UNCHANGED <<flow, ready, status, expired, pending, lost, issued, consumed,
                   verify, session, exchanges, cancels>>

\* beginDeviceLogin: the device is known, must be verified, or it fails.  A new
\* device ends the attempt and keeps its client.
Authorized ==
    /\ callback.pc = "authorize"
    /\ \/ /\ callback' = [callback EXCEPT !.pc = "store", !.prev = session]
          /\ session' = callback.cur
          /\ UNCHANGED <<attempt, timers, ops, device>>
       \/ /\ device' = callback.cur
          /\ LinkFails(callback.cur, ops)
          /\ UNCHANGED session
       \/ LinkFails(callback.cur, ops) /\ UNCHANGED <<device, session>>
    /\ UNCHANGED <<flow, ready, status, expired, pending, lost, issued, consumed,
                   verify, open, exchanges, cancels>>

\* acceptAuthorizedSession stored the session, or puts back what it replaced.
Stored ==
    /\ callback.pc = "store"
    /\ \/ /\ session = callback.cur
          /\ open' = open \ ({callback.prev} \ {0})
          /\ attempt' = 0 /\ status' = "succeeded"
          /\ callback' = NoCallback
          /\ UNCHANGED <<session, timers, ops>>
       \/ /\ session' = IF session = callback.cur THEN callback.prev ELSE session
          /\ LinkFails(callback.cur, ops)
          /\ UNCHANGED <<open, status>>
    /\ UNCHANGED <<flow, ready, expired, pending, lost, issued, consumed, device,
                   verify, exchanges, cancels>>

LinkEnds ==
    /\ \E ok \in BOOLEAN : Answers("delete", "end", ok)
    /\ ops' = Tail(ops)
    /\ open' = OpenWithout(callback.cur, device, session)
    /\ status' = IF device # 0 /\ device = callback.cur THEN "idle" ELSE "error"
    /\ callback' = NoCallback
    /\ UNCHANGED <<attempt, flow, ready, timers, expired, issued, consumed,
                   deviceVars, exchanges, cancels>>

-----------------------------------------------------------------------------
(* The code of a new device *)

\* cancelDeviceVerification, by the user or by its time.
DeviceCancelled ==
    /\ device # 0
    /\ device' = 0
    /\ open' = OpenWithout(device, 0, session)
    /\ UNCHANGED <<flowVars, expired, storeVars, issued, linkVars, verify, session,
                   exchanges, cancels>>

VerifyBegins ==
    /\ device # 0 /\ verify = NoVerify
    /\ verify' = [verify EXCEPT !.pc = "enroll", !.cur = device]
    /\ UNCHANGED <<flowVars, expired, storeVars, issued, linkVars, device, session,
                   open, exchanges, cancels>>

\* The cloud accepts the code; the answer is void if it was given up meanwhile.
Enrolled ==
    /\ verify.pc = "enroll"
    /\ \/ /\ device = verify.cur
          /\ verify' = [verify EXCEPT !.pc = "store", !.prev = session]
          /\ session' = verify.cur
       \/ verify' = NoVerify /\ UNCHANGED session
    /\ UNCHANGED <<flowVars, expired, storeVars, issued, linkVars, device, open,
                   exchanges, cancels>>

VerifyStored ==
    /\ verify.pc = "store"
    /\ \/ /\ session = verify.cur
          /\ open' = open \ ({verify.prev} \ {0})
          /\ device' = 0
          /\ UNCHANGED session
       \/ /\ session' = IF session = verify.cur THEN verify.prev ELSE session
          /\ UNCHANGED <<open, device>>
    /\ verify' = NoVerify
    /\ UNCHANGED <<flowVars, expired, storeVars, issued, linkVars, exchanges,
                   cancels>>

-----------------------------------------------------------------------------
\* The program ends and starts again; a call of the store may have been executed.
Restart ==
    /\ cancels < MaxCancels /\ cancels' = cancels + 1
    /\ IF ops = <<>> THEN UNCHANGED pending
       ELSE Executed(TRUE) \/ UNCHANGED pending
    /\ lost' = TRUE
    /\ ops' = <<>>
    /\ attempt' = 0 /\ status' = "idle"
    /\ flow' = [n \in Attempts |-> CASE flow[n] = "none" -> "none"
                                    [] flow[n] \in {"opening", "opened"} -> "opened"
                                    [] OTHER -> "done"]
    /\ timers' = {}
    /\ callback' = NoCallback /\ consumed' = <<>>
    /\ device' = 0 /\ verify' = NoVerify /\ session' = 0
    /\ open' = {}
    /\ UNCHANGED <<ready, expired, issued, exchanges>>

Init ==
    /\ attempt = 0 /\ flow = [n \in Attempts |-> "none"]
    /\ ready = {} /\ timers = {} /\ expired = {} /\ status = "idle"
    /\ pending = 0 /\ ops = <<>> /\ issued = {}
    /\ callback = NoCallback /\ consumed = <<>>
    /\ device = 0 /\ verify = NoVerify /\ session = 0
    /\ open = {} /\ exchanges = [n \in Attempts |-> 0]
    /\ lost = FALSE /\ cancels = 0

Next ==
    \/ \E n \in Attempts :
         \/ SignIn(n) \/ UrlReady(n) \/ Saved(n) \/ Opens(n) \/ Opened(n)
         \/ GoogleIssues(n) \/ FailedReleased(n) \/ TimeIsOver(n)
         \/ TimerFires(n) \/ LinkArrives(n)
    \/ UserCancels \/ InvalidLink \/ Cancelled \/ Dismiss \/ DenialArrives
    \/ Digested \/ Loaded \/ StaleDeleted \/ Consumed \/ Exchanged
    \/ Bootstrapped \/ Authorized \/ Stored \/ LinkEnds
    \/ DeviceCancelled \/ VerifyBegins \/ Enrolled \/ VerifyStored
    \/ Restart

Spec == Init /\ [][Next]_vars

-----------------------------------------------------------------------------
(* Properties *)

\* handleSupabaseGoogleCallback: "a restart/replay cannot reuse it".  However
\* often the link is delivered and the program started, the verifier of an
\* attempt is sent to the provider once.
VerifierUsedOnce == \A n \in Attempts : exchanges[n] <= 1

\* With no call waiting, the native store holds the verifier of the current
\* attempt or none, unless a deletion failed or the program just started:
\* cancelling, failing or replacing an attempt leaves no secret behind.
SecretsHaveAttempt == (ops = <<>> /\ ~lost) => pending \in {0, attempt}

\* A client that holds the session, or waits for the device's code, was not
\* disposed by an older attempt, a cancellation or a late answer.
ClientsInUseAreOpen == {device, session} \ {0} \subseteq open
=============================================================================
