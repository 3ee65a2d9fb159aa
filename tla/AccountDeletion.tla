--------------------------- MODULE AccountDeletion ---------------------------
(***************************************************************************)
(* The deletion of an account (cloud_backend/app/account_deletion.py),     *)
(* over the devices of DeviceSessions: a device asks for a mailed code,    *)
(* signs a challenge and confirms; one transaction closes the account; the *)
(* identity at the login provider is then deleted by an outbox that can be *)
(* retried.  It races device management, synchronisation, sign-up with the *)
(* same identity, repeated confirmations and a crash of the server.        *)
(*                                                                         *)
(* A confirmation is several steps: the receipt of a finished deletion and *)
(* the token are checked before the lock, the account is closed under the  *)
(* lock, the provider is called after the commit, and the receipt is read  *)
(* again when anything was refused.  The lock itself is LockActiveUser: it *)
(* waits for the row and fails when the row is gone.                       *)
(***************************************************************************)
EXTENDS DeviceSessions

CONSTANTS
    Requests,     \* deletions ever asked for
    Calls,        \* slots for the confirmations being served
    Operator,     \* the operator's retry command, a worker like a call
    MaxRenewals   \* challenges issued for one request

ASSUME OperatorAssumption == Operator \notin Calls
ASSUME RenewalsAssumption == MaxRenewals \in Nat \ {0}
ASSUME AbsentAssumption == None \notin Requests \cup Calls

VARIABLES
    account,    \* the users row: present, absent, or created once more
    remembered, \* deleted_account_identities knows the provider identity
    stored,     \* the account has synchronised rows
    request,    \* account_deletion_requests
    call,       \* what each confirmation was sent, and the answer it got
    pc,         \* where each confirmation and the operator's command stand
    provider,   \* the user at the login provider
    signup      \* where a first sign-in with the identity stands

deletionVars == <<account, remembered, stored, request, call, pc, provider,
                  signup>>
vars == <<sessionVars, deletionVars>>

Workers == Calls \cup {Operator}

\* What a confirmation is compared by: the token and every field of the body.
Content == [request : Requests, device : Devices, family : Families,
            nonce : 1..MaxRenewals, code : {"right", "wrong"}]

RequestRecord ==
    [device : Devices, family : Families, age : {"fresh", "valid", "expired"},
     open : BOOLEAN, mailed : BOOLEAN, attempts : Nat,
     nonce : 0..MaxRenewals, live : BOOLEAN, done : BOOLEAN,
     doneBy : Content \cup {None}, receipt : BOOLEAN,
     external : {"none", "pending", "deleted"}, leased : BOOLEAN]

ASSUME RequestAssumption == None \notin RequestRecord

Completed(r) == request[r] # None /\ request[r].done

-----------------------------------------------------------------------------
(* The account's row, and what races its deletion *)

\* Variant: a missing row is not an error.
LockActiveUser_Forgiving == TRUE

\* lock_active_user: it waits for the row, and fails when there is none.
LockActiveUser == account # "absent"

\* A handler of DeviceSessions, under the lock of the account's row.
SessionStep ==
    /\ LockActiveUser
    /\ SessionNext
    /\ UNCHANGED deletionVars

\* /sync/push: the token was checked before, the rows are stored under the lock.
SyncPush(d, f) ==
    /\ <<d, f>> \in admitted
    /\ admitted' = admitted \ {<<d, f>>}
    /\ LockActiveUser
    /\ stored' = TRUE
    /\ UNCHANGED <<playReviewUser, status, family, otp, proof, guesses, account,
                   remembered, request, call, pc, provider, signup>>

\* A first sign-in with the identity: its lock is not the account's, so a
\* deletion may commit between its statements.
SignUpChecks ==
    /\ signup = "idle"
    /\ ~remembered
    /\ signup' = "checked"
    /\ UNCHANGED <<sessionVars, account, remembered, stored, request, call, pc,
                   provider>>

\* The identity is looked up; without a row it is checked once more, and only
\* then given one.  A row found absent stays absent, so this is one step.
SignUpCreates ==
    /\ signup = "checked"
    /\ signup' = "idle"
    /\ account' = IF account = "absent" /\ ~remembered THEN "recreated"
                                                       ELSE account
    /\ UNCHANGED <<sessionVars, remembered, stored, request, call, pc,
                   provider>>

-----------------------------------------------------------------------------
(* Asking *)

\* /account/delete/request: the new request replaces the open ones.
Start(d, f) ==
    /\ <<d, f>> \in admitted
    /\ admitted' = admitted \ {<<d, f>>}
    /\ LockActiveUser
    /\ ActiveFamily(d, f)
    /\ \A r \in Requests : request[r] # None => request[r].age # "fresh"
    /\ \E r \in Requests : request[r] = None
    /\ LET r == CHOOSE q \in Requests : request[q] = None
       IN request' = [q \in Requests |->
             IF q = r THEN
               [device |-> d, family |-> f, age |-> "fresh", open |-> TRUE,
                mailed |-> FALSE, attempts |-> 0, nonce |-> 0, live |-> FALSE,
                done |-> FALSE, doneBy |-> None, receipt |-> FALSE,
                external |-> "none", leased |-> FALSE]
             ELSE IF request[q] = None THEN None
             ELSE [request[q] EXCEPT !.open = FALSE]]
    /\ UNCHANGED <<playReviewUser, status, family, otp, proof, guesses, account,
                   remembered, stored, call, pc, provider, signup>>

\* The code is mailed after the commit; a failure withdraws the request.
StartMails(r) ==
    /\ request[r] # None
    /\ ~request[r].mailed
    /\ \E works \in BOOLEAN :
         request' = [request EXCEPT ![r].mailed = TRUE, ![r].open = @ /\ works]
    /\ UNCHANGED <<sessionVars, account, remembered, stored, call, pc,
                   provider, signup>>

\* /account/delete/challenge: the challenge of the request is replaced.
Renew(d, f, r) ==
    /\ <<d, f>> \in admitted
    /\ admitted' = admitted \ {<<d, f>>}
    /\ LockActiveUser
    /\ ActiveFamily(d, f)
    /\ request[r] # None
    /\ request[r].mailed
    /\ request[r].device = d /\ request[r].family = f
    /\ request[r].open
    /\ request[r].age # "expired"
    /\ request[r].attempts < MaxAttempts
    /\ request[r].nonce < MaxRenewals
    /\ request' = [request EXCEPT ![r].nonce = @ + 1, ![r].live = TRUE]
    /\ UNCHANGED <<playReviewUser, status, family, otp, proof, guesses, account,
                   remembered, stored, call, pc, provider, signup>>

-----------------------------------------------------------------------------
(* Confirming *)

\* A confirmation arrives, with a challenge that was issued and the capability
\* of the request.  Its token is any: the receipt is looked for before the
\* token is decoded.
CompleteArrives(c, body) ==
    /\ pc[c] = "idle"
    /\ c = CHOOSE slot \in Calls : pc[slot] = "idle"
    /\ request[body.request] # None
    /\ request[body.request].mailed
    /\ body.nonce <= request[body.request].nonce
    /\ call' = [call EXCEPT ![c] = [body |-> body, reply |-> None]]
    /\ pc' = [pc EXCEPT ![c] = "arrived"]
    /\ UNCHANGED <<sessionVars, account, remembered, stored, request, provider,
                   signup>>

Replies(c, answer) ==
    /\ call' = [call EXCEPT ![c].reply = answer]
    /\ pc' = [pc EXCEPT ![c] = "done"]

\* The receipt of the exact confirmation that closed the account.
HasReceipt(c) ==
    LET r == call[c].body.request
    IN /\ Completed(r)
       /\ request[r].receipt
       /\ request[r].doneBy = call[c].body

\* completed_receipt before anything else, and for a request that is not
\* completed authorize_access, in a transaction of its own.  A deletion that
\* commits between the two is noticed under the lock all the same.
Admits(c) ==
    /\ pc[c] = "arrived"
    /\ LET body == call[c].body
       IN IF request[body.request] = None \/ Completed(body.request)
            THEN Replies(c, IF HasReceipt(c) THEN "deleted" ELSE "refused")
            ELSE /\ pc' = [pc EXCEPT ![c] =
                      IF ActiveFamily(body.device, body.family)
                        THEN "lock" ELSE "again"]
                 /\ UNCHANGED call
    /\ UNCHANGED <<sessionVars, account, remembered, stored, request, provider,
                   signup>>

\* Variant: under the lock the session is not looked at again.
MayConfirm_TokenOnly(body) ==
    LET row == request[body.request]
    IN /\ LockActiveUser
       /\ row # None
       /\ row.device = body.device /\ row.family = body.family
       /\ row.open
       /\ row.live /\ row.nonce = body.nonce
       /\ row.age # "expired"
       /\ row.attempts < MaxAttempts

\* Every check under the lock but that of the code.
MayConfirm(body) ==
    LET row == request[body.request]
    IN /\ LockActiveUser
       /\ ActiveFamily(body.device, body.family)
       /\ row # None
       /\ row.device = body.device /\ row.family = body.family
       /\ row.open
       /\ row.live /\ row.nonce = body.nonce
       /\ row.age # "expired"
       /\ row.attempts < MaxAttempts

\* close_internal: every row of the account goes, the identity is remembered
\* and the request that closed it becomes the outbox entry.
CloseInternal(body) ==
    /\ status' = [d \in Devices |-> "unknown"]
    /\ family' = [f \in Families |-> None]
    /\ otp' = [o \in Otps |-> None]
    /\ proof' = [p \in Proofs |-> None]
    /\ account' = "absent"
    /\ remembered' = TRUE
    /\ stored' = FALSE
    /\ request' = [r \in Requests |->
         IF r # body.request THEN None
         ELSE [request[r] EXCEPT !.done = TRUE, !.open = FALSE, !.live = FALSE,
                                 !.doneBy = body, !.receipt = TRUE,
                                 !.external = "pending"]]

ConfirmsRefused(c) ==
    /\ pc[c] = "lock"
    /\ ~MayConfirm(call[c].body)
    /\ pc' = [pc EXCEPT ![c] = "again"]
    /\ UNCHANGED <<sessionVars, account, remembered, stored, request, call,
                   provider, signup>>

\* A wrong code is counted, and the count is committed before the error.
ConfirmsWrongCode(c) ==
    /\ pc[c] = "lock"
    /\ MayConfirm(call[c].body)
    /\ call[c].body.code = "wrong"
    /\ request' = [request EXCEPT ![call[c].body.request].attempts = @ + 1]
    /\ pc' = [pc EXCEPT ![c] = "again"]
    /\ UNCHANGED <<sessionVars, account, remembered, stored, call, provider,
                   signup>>

Confirms(c) ==
    /\ pc[c] = "lock"
    /\ MayConfirm(call[c].body)
    /\ call[c].body.code = "right"
    /\ CloseInternal(call[c].body)
    /\ pc' = [pc EXCEPT ![c] = "outbox"]
    /\ UNCHANGED <<playReviewUser, admitted, guesses, call, provider, signup>>

\* Variant: a refusal under the lock is passed on as it is.
ReadsReceiptAgain_PassedOn(c) ==
    /\ pc[c] = "again"
    /\ Replies(c, "refused")
    /\ UNCHANGED <<sessionVars, account, remembered, stored, request, provider,
                   signup>>

\* After any refusal the receipt is read again: a twin may have won the lock.
ReadsReceiptAgain(c) ==
    /\ pc[c] = "again"
    /\ Replies(c, IF HasReceipt(c) THEN "deleted" ELSE "refused")
    /\ UNCHANGED <<sessionVars, account, remembered, stored, request, provider,
                   signup>>

\* The client has the answer; it may confirm again with anything it holds.
Returns(c) ==
    /\ pc[c] = "done"
    /\ pc' = [pc EXCEPT ![c] = "idle"]
    /\ call' = [call EXCEPT ![c] = None]
    /\ UNCHANGED <<sessionVars, account, remembered, stored, request, provider,
                   signup>>

-----------------------------------------------------------------------------
(* The outbox: external_delete, run by a confirmation or by the operator *)

\* The operator's command starts on a closed account only.
OperatorRetries ==
    /\ pc[Operator] = "idle"
    /\ \E r \in Requests : Completed(r)
    /\ pc' = [pc EXCEPT ![Operator] = "outbox"]
    /\ UNCHANGED <<sessionVars, account, remembered, stored, request, call,
                   provider, signup>>

\* A confirmation is answered from the outbox entry, whatever the provider said.
LeavesOutbox(w) ==
    IF w = Operator THEN /\ pc' = [pc EXCEPT ![w] = "idle"]
                         /\ UNCHANGED call
                    ELSE Replies(w, "deleted")

\* A pending entry without a recent attempt is leased; any other is left.
Lease(w, r) ==
    /\ pc[w] = "outbox"
    /\ Completed(r)
    /\ IF request[r].external = "pending" /\ ~request[r].leased
         THEN /\ request' = [request EXCEPT ![r].leased = TRUE]
              /\ pc' = [pc EXCEPT ![w] = "calling"]
              /\ UNCHANGED call
         ELSE /\ LeavesOutbox(w)
              /\ UNCHANGED request
    /\ UNCHANGED <<sessionVars, account, remembered, stored, provider, signup>>

\* The provider deletes the user, or says that it has none.
ProviderDeletes(w) ==
    /\ pc[w] = "calling"
    /\ provider' = "gone"
    /\ pc' = [pc EXCEPT ![w] = "gone"]
    /\ UNCHANGED <<sessionVars, account, remembered, stored, request, call,
                   signup>>

\* A rejection, a timeout or a lost answer: the user may be gone or not.
ProviderFails(w) ==
    /\ pc[w] = "calling"
    /\ provider' \in {provider, "gone"}
    /\ pc' = [pc EXCEPT ![w] = "failed"]
    /\ UNCHANGED <<sessionVars, account, remembered, stored, request, call,
                   signup>>

\* Variant: the outcome is written whatever the entry says now.
Records_Unconditional(w, r) ==
    /\ pc[w] \in {"gone", "failed"}
    /\ Completed(r)
    /\ request' = [request EXCEPT ![r].external = 
         IF pc[w] = "gone" THEN "deleted" ELSE "pending"]
    /\ LeavesOutbox(w)
    /\ UNCHANGED <<sessionVars, account, remembered, stored, provider, signup>>

\* The outcome is written unless the entry was settled meanwhile.
Records(w, r) ==
    /\ pc[w] \in {"gone", "failed"}
    /\ Completed(r)
    /\ request' = [request EXCEPT ![r].external =
         IF @ = "pending" /\ pc[w] = "gone" THEN "deleted" ELSE @]
    /\ LeavesOutbox(w)
    /\ UNCHANGED <<sessionVars, account, remembered, stored, provider, signup>>

-----------------------------------------------------------------------------
(* Time and crashes *)

\* A minute and five minutes after a request; the challenge ends with the code.
\* Of a request that is closed only the first minute is ever looked at.
AgeRequest(r) ==
    /\ request[r] # None
    /\ ~request[r].done
    /\ \/ /\ request[r].age = "fresh"
          /\ request' = [request EXCEPT ![r].age = "valid"]
       \/ /\ request[r].age = "valid"
          /\ request[r].open
          /\ request' = [request EXCEPT ![r].age = "expired", ![r].live = FALSE]
    /\ UNCHANGED <<sessionVars, account, remembered, stored, call, pc,
                   provider, signup>>

\* Two minutes after a challenge, ten after a deletion.
Lapses(r) ==
    /\ request[r] # None
    /\ \/ /\ request[r].live /\ request[r].open
          /\ request' = [request EXCEPT ![r].live = FALSE]
       \/ /\ request[r].receipt
          /\ request' = [request EXCEPT ![r].receipt = FALSE]
    /\ UNCHANGED <<sessionVars, account, remembered, stored, call, pc,
                   provider, signup>>

\* Variant: an entry is leased only if no attempt was ever made.
LeaseLapses_Never(r) ==
    /\ Completed(r)
    /\ request[r].leased
    /\ FALSE
    /\ UNCHANGED vars

\* Thirty seconds after an attempt began, whether or not it has ended.
LeaseLapses(r) ==
    /\ Completed(r)
    /\ request[r].leased
    /\ request' = [request EXCEPT ![r].leased = FALSE]
    /\ UNCHANGED <<sessionVars, account, remembered, stored, call, pc,
                   provider, signup>>

\* The server dies while it serves a confirmation: what it had committed
\* stays, the rest of the confirmation never happens.
Dies(c) ==
    /\ pc[c] \notin {"idle", "done"}
    /\ pc' = [pc EXCEPT ![c] = "idle"]
    /\ call' = [call EXCEPT ![c] = None]
    /\ UNCHANGED <<sessionVars, account, remembered, stored, request, provider,
                   signup>>

-----------------------------------------------------------------------------
\* An account in use: it has rows, and no device of this model yet.
DeletionInit ==
    /\ SessionInit
    /\ account = "present"
    /\ remembered = FALSE
    /\ stored = TRUE
    /\ request = [r \in Requests |-> None]
    /\ call = [c \in Calls |-> None]
    /\ pc = [w \in Workers |-> "idle"]
    /\ provider = "present"
    /\ signup = "idle"

DeletionNext ==
    \/ SessionStep
    \/ \E d \in Devices, f \in Families :
         SyncPush(d, f) \/ Start(d, f) \/ \E r \in Requests : Renew(d, f, r)
    \/ SignUpChecks \/ SignUpCreates
    \/ \E c \in Calls : \/ \E body \in Content : CompleteArrives(c, body)
                        \/ Admits(c) \/ ConfirmsRefused(c)
                        \/ ConfirmsWrongCode(c) \/ Confirms(c)
                        \/ ReadsReceiptAgain(c) \/ Returns(c) \/ Dies(c)
    \/ OperatorRetries
    \/ \E w \in Workers : \/ ProviderDeletes(w) \/ ProviderFails(w)
                          \/ \E r \in Requests : Lease(w, r) \/ Records(w, r)
    \/ \E r \in Requests : \/ StartMails(r) \/ AgeRequest(r) \/ Lapses(r)
                           \/ LeaseLapses(r)

(* The operator goes on running the retry command and each run of it goes  *)
(* on, thirty seconds pass, and the provider is not unreachable for ever.  *)
(* Nothing is assumed of the clients or of the server.                     *)
Fairness ==
    /\ WF_vars(OperatorRetries)
    /\ \A r \in Requests : /\ WF_vars(Lease(Operator, r))
                           /\ WF_vars(Records(Operator, r))
                           /\ WF_vars(LeaseLapses(r))
    /\ WF_vars(ProviderDeletes(Operator) \/ ProviderFails(Operator))
    /\ SF_vars(ProviderDeletes(Operator))

DeletionSpec == DeletionInit /\ [][DeletionNext]_vars /\ Fairness

-----------------------------------------------------------------------------
(* Properties *)

CallRecord == [body : Content, reply : {None, "deleted", "refused"}]

(* The type invariant: at most one request closes the account, and a call  *)
(* has a body exactly while it is served.                                  *)
DeletionTypeOK ==
    /\ SessionTypeOK
    /\ account \in {"present", "absent", "recreated"}
    /\ <<remembered, stored>> \in BOOLEAN \X BOOLEAN
    /\ request \in [Requests -> RequestRecord \cup {None}]
    /\ \A r, s \in Requests : Completed(r) /\ Completed(s) => r = s
    /\ call \in [Calls -> CallRecord \cup {None}]
    /\ pc \in [Workers -> {"idle", "arrived", "lock", "again", "done", "outbox",
                          "calling", "gone", "failed"}]
    /\ \A c \in Calls : IF pc[c] = "idle" THEN call[c] = None
                                          ELSE call[c] \in CallRecord
    /\ provider \in {"present", "gone"}
    /\ signup \in {"idle", "checked"}

(* Once the account is closed the database holds nothing of it again, and  *)
(* no request but the one that closed it: whatever was admitted before the *)
(* deletion finds the row gone when it gets the lock                       *)
(* (account_lifecycle.py:44-51).                                           *)
NothingIsLeft ==
    (\E r \in Requests : Completed(r)) =>
        /\ ~stored
        /\ status = [d \in Devices |-> "unknown"]
        /\ family = [f \in Families |-> None]
        /\ otp = [o \in Otps |-> None]
        /\ proof = [p \in Proofs |-> None]
        /\ \A r \in Requests : request[r] # None => Completed(r)

(* A deleted identity never gets an account again, not even by a sign-in   *)
(* that had passed the check of deleted identities before the deletion     *)
(* (supabase_bootstrap.py:50-75).                                          *)
IdentityStaysOut ==
    (\E r \in Requests : Completed(r)) => account = "absent"

(* A confirmation is told the account is deleted only when it is the one   *)
(* that deleted it or an exact repetition of it; and an exact repetition   *)
(* is never told otherwise while the receipt lasts, also when it raced the *)
(* one that won (account_deletion.py:236-256).                             *)
AnswersAreTrue ==
    \A c \in Calls :
        pc[c] = "done" =>
            /\ call[c].reply = "deleted" =>
                 \E r \in Requests :
                    Completed(r) /\ request[r].doneBy = call[c].body
            /\ call[c].reply = "refused" => ~HasReceipt(c)

(* The account is closed by the session that asked for it, still open and  *)
(* on a device still trusted at that moment, under a request that no later *)
(* request has replaced: a device revoked between the token check and the  *)
(* lock closes nothing.                                                    *)
ClosedByItsOwner ==
    [][ (account = "present" /\ account' = "absent") =>
          \E r \in Requests :
             /\ Completed(r)'
             /\ request[r].open
             /\ ActiveFamily(request[r].device, request[r].family) ]_vars

(* The outbox says "deleted" only of an identity that is gone.             *)
RecordedIsGone ==
    \A r \in Requests :
        (request[r] # None /\ request[r].external = "deleted")
            => provider = "gone"

(* A closed account is gone for good, from the database and for its owner. *)
ClosedIsGone == NothingIsLeft /\ IdentityStaysOut

(* "Deleted" is said, by an answer or in the outbox, of what is deleted.   *)
DeletedIsTrue == AnswersAreTrue /\ RecordedIsGone

(* A settled entry stays settled: the late failure of an attempt that      *)
(* outlived its lease does not put it back (account_deletion.py:187).      *)
OutcomeIsFinal ==
    [][ \A r \in Requests :
          (request[r] # None /\ request[r].external = "deleted") =>
              (request'[r] # None /\ request'[r].external = "deleted") ]_vars

(* The identity of a closed account is deleted in the end, though the      *)
(* server may have died before or during its attempt, leaving the entry    *)
(* leased (account_deletion.py:165-167).                                   *)
IdentityEventuallyGone ==
    \A r \in Requests :
        Completed(r) ~> (Completed(r) /\ request[r].external = "deleted")
=============================================================================
