--------------------------- MODULE DeviceSessions ---------------------------
(***************************************************************************)
(* The trusted devices of one account of the cloud backend                 *)
(* (cloud_backend/app/device_sessions.py): enrolment of a device with a    *)
(* mailed code and a signed challenge, sign-in and refresh with a signed   *)
(* challenge, and the renaming and revocation of devices by a device of    *)
(* the account.                                                            *)
(*                                                                         *)
(* Every handler takes the account's row lock before it reads, and holds   *)
(* it to its commit, so a handler is one step.  Two parts run outside the  *)
(* lock and are steps of their own: the check of the access token, made    *)
(* before the handler (Admit), and the mailing of a code, made after the   *)
(* commit (Deliver, DeliverFails).                                         *)
(*                                                                         *)
(* A challenge that was used, expired or was invalidated is refused for    *)
(* ever, so only the challenges that are still open are kept.  Time is     *)
(* not measured: each deadline is a step that may come at any moment.      *)
(***************************************************************************)
EXTENDS Naturals, FiniteSets

CONSTANTS
    Devices,        \* installations that ever sign in to the account
    Families,       \* names for the sessions (refresh families) ever granted
    Otps,           \* slots for the mailed codes the database still looks at
    Proofs,         \* slots for the challenges that are open at one time
    MaxAttempts,    \* wrong codes accepted for one mailed code (5)
    OtpsPerHour,    \* codes mailed to an account in an hour (5)
    AskedFor,       \* purposes the clients ask challenges for, a bound
    ReviewModes,    \* which settings of playReviewUser to consider, a bound
    None            \* the absence of any of the above

ASSUME AttemptsAssumption == MaxAttempts \in Nat \ {0}
ASSUME HourAssumption == OtpsPerHour \in Nat \ {0}
ASSUME ReviewAssumption == ReviewModes \subseteq BOOLEAN
ASSUME AskedForAssumption ==
    AskedFor \subseteq {"device_enrollment", "device_authentication", "refresh",
                        "device_rename", "device_revoke"}
ASSUME NoneAssumption ==
    None \notin Devices \cup Families \cup Otps \cup Proofs

VARIABLES
    playReviewUser, \* the server's setting names this account: no codes for it
    status,     \* trusted_devices: what the account knows of each device
    family,     \* refresh_token_families
    otp,        \* device_verification_challenges
    proof,      \* device_proof_challenges that are still open
    admitted,   \* requests past the token check and before the lock
    guesses     \* history: wrong codes answered for each mailed code

sessionVars == <<playReviewUser, status, family, otp, proof, admitted, guesses>>

Purposes == {"device_enrollment", "device_authentication", "refresh",
             "device_rename", "device_revoke"}

(* "stale" and "code" are history, read by the properties alone: whether   *)
(* the device was revoked since, and the mailed code a challenge was asked *)
(* under.                                                                  *)
FamilyRecord == [device : Devices, open : BOOLEAN, stale : BOOLEAN]

OtpRecord == [device : Devices, open : BOOLEAN, mailed : BOOLEAN,
              age : {"fresh", "valid", "expired", "old"},
              attempts : Nat, stale : BOOLEAN]

ProofRecord == [device : Devices, purpose : Purposes,
                family : Families \cup {None}, target : Devices \cup {None},
                code : Otps \cup {None}, stale : BOOLEAN]

ASSUME RowAssumption == None \notin FamilyRecord

-----------------------------------------------------------------------------
(* What the handlers ask of the database *)

\* The session's family is open and its device is trusted.
ActiveFamily(d, f) ==
    /\ family[f] # None
    /\ family[f].device = d
    /\ family[f].open
    /\ status[d] = "trusted"

\* The challenge is open and was issued for this purpose.
VerifyProof(p, purpose) ==
    /\ proof[p] # None
    /\ proof[p].purpose = purpose

\* The client holds the continuation of a code that can still be tried.
Continuation(o) ==
    /\ otp[o] # None
    /\ otp[o].mailed
    /\ otp[o].open
    /\ otp[o].age \in {"fresh", "valid"}
    /\ otp[o].attempts < MaxAttempts

OtpsOf(d) == {o \in Otps : otp[o] # None /\ otp[o].device = d}
ProofsOf(d) == {p \in Proofs : proof[p] # None /\ proof[p].device = d}
FamiliesOf(d) == {f \in Families : family[f] # None /\ family[f].device = d}

\* A minute has passed since the last code, and the hour has room for one.
MayMail ==
    /\ \A o \in Otps : otp[o] # None => otp[o].age # "fresh"
    /\ Cardinality({o \in Otps : otp[o] # None /\ otp[o].age # "old"})
         < OtpsPerHour

\* A code that is closed and more than an hour old is never looked at again.
Kept(x) == IF ~x.open /\ x.age = "old" THEN None ELSE x

Invalidated(S) ==
    [o \in Otps |-> IF o \in S THEN Kept([otp[o] EXCEPT !.open = FALSE])
                               ELSE otp[o]]

-----------------------------------------------------------------------------
(* What the handlers write *)

IssueProof(d, purpose, f, t, o) ==
  /\ purpose \in AskedFor
  /\ \E p \in Proofs :
        /\ proof[p] = None
        /\ proof' = [proof EXCEPT ![p] =
             [device |-> d, purpose |-> purpose, family |-> f, target |-> t,
              code |-> o, stale |-> FALSE]]

\* A new code replaces the device's other codes and enrolment challenges.
CreateOtp(d) ==
    /\ MayMail
    /\ \E o \in Otps :
        /\ Invalidated(OtpsOf(d))[o] = None
        /\ otp' = [Invalidated(OtpsOf(d)) EXCEPT ![o] =
             [device |-> d, open |-> TRUE, mailed |-> FALSE, age |-> "fresh",
              attempts |-> 0, stale |-> FALSE]]
        /\ guesses' = [guesses EXCEPT ![o] = 0]
    /\ proof' = [p \in Proofs |->
         IF p \in ProofsOf(d) /\ proof[p].purpose = "device_enrollment"
           THEN None ELSE proof[p]]

\* A session of its own for a device that signed in.
GrantFamily(d) ==
    \E f \in Families :
        /\ family[f] = None
        /\ family' = [family EXCEPT ![f] =
             [device |-> d, open |-> TRUE, stale |-> FALSE]]

-----------------------------------------------------------------------------
(* Signing in *)

\* /auth/devices/login by a trusted device: it must sign a challenge.
LoginTrusted(d) ==
    /\ status[d] = "trusted"
    /\ IssueProof(d, "device_authentication", None, None, None)
    /\ UNCHANGED <<playReviewUser, status, family, otp, admitted, guesses>>

\* /auth/devices/login by any other device: it is mailed a code.
LoginUnknown(d) ==
    /\ status[d] # "trusted"
    /\ ~playReviewUser
    /\ CreateOtp(d)
    /\ UNCHANGED <<playReviewUser, status, family, admitted>>

\* /auth/devices/login of the reviewer's account: trusted at once.
LoginReviewer(d) ==
    /\ status[d] # "trusted"
    /\ playReviewUser
    /\ status' = [status EXCEPT ![d] = "trusted"]
    /\ GrantFamily(d)
    /\ UNCHANGED <<playReviewUser, otp, proof, admitted, guesses>>

\* /auth/devices/resend: an exhausted or expired code can be replaced.
Resend(o) ==
    /\ otp[o] # None
    /\ otp[o].mailed
    /\ otp[o].open
    /\ CreateOtp(otp[o].device)
    /\ UNCHANGED <<playReviewUser, status, family, admitted>>

\* The mail went out and the client receives its continuation.
Deliver(o) ==
    /\ otp[o] # None
    /\ ~otp[o].mailed
    /\ otp' = [otp EXCEPT ![o].mailed = TRUE]
    /\ UNCHANGED <<playReviewUser, status, family, proof, admitted, guesses>>

\* The mail failed: the code is withdrawn in a transaction of its own.
DeliverFails(o) ==
    /\ otp[o] # None
    /\ ~otp[o].mailed
    /\ otp' = [otp EXCEPT ![o] =
         Kept([otp[o] EXCEPT !.open = FALSE, !.mailed = TRUE])]
    /\ UNCHANGED <<playReviewUser, status, family, proof, admitted, guesses>>

\* /auth/devices/enrollment/challenge
EnrollmentChallenge(o) ==
    /\ Continuation(o)
    /\ IssueProof(otp[o].device, "device_enrollment", None, None, o)
    /\ UNCHANGED <<playReviewUser, status, family, otp, admitted, guesses>>

\* Variant: the error rolls the counted attempt back.
EnrollWrongCode_RolledBack(o) ==
    /\ Continuation(o)
    /\ guesses' = [guesses EXCEPT ![o] = @ + 1]
    /\ UNCHANGED <<playReviewUser, status, family, otp, proof, admitted>>

\* /auth/devices/enrollment/complete with a wrong code: the attempt is
\* committed before the error is raised.
EnrollWrongCode(o) ==
    /\ Continuation(o)
    /\ otp' = [otp EXCEPT ![o].attempts = @ + 1]
    /\ guesses' = [guesses EXCEPT ![o] = @ + 1]
    /\ UNCHANGED <<playReviewUser, status, family, proof, admitted>>

\* /auth/devices/enrollment/complete with the code and a signed challenge.
Enroll(o, p) ==
    /\ Continuation(o)
    /\ VerifyProof(p, "device_enrollment")
    /\ proof[p].device = otp[o].device
    /\ status' = [status EXCEPT ![otp[o].device] = "trusted"]
    /\ otp' = Invalidated({o})
    /\ proof' = [proof EXCEPT ![p] = None]
    /\ GrantFamily(otp[o].device)
    /\ UNCHANGED <<playReviewUser, admitted, guesses>>

\* /auth/devices/authentication/complete
Authenticate(p) ==
    /\ VerifyProof(p, "device_authentication")
    /\ status[proof[p].device] = "trusted"
    /\ proof' = [proof EXCEPT ![p] = None]
    /\ GrantFamily(proof[p].device)
    /\ UNCHANGED <<playReviewUser, status, otp, admitted, guesses>>

\* /auth/devices/refresh/challenge
RefreshChallenge(d, f) ==
    /\ ActiveFamily(d, f)
    /\ IssueProof(d, "refresh", f, None, None)
    /\ UNCHANGED <<playReviewUser, status, family, otp, admitted, guesses>>

\* /auth/devices/refresh/complete: a new access token of the same session.
RefreshComplete(p) ==
    /\ VerifyProof(p, "refresh")
    /\ ActiveFamily(proof[p].device, proof[p].family)
    /\ proof' = [proof EXCEPT ![p] = None]
    /\ UNCHANGED <<playReviewUser, status, family, otp, admitted, guesses>>

-----------------------------------------------------------------------------
(* Managing the devices *)

\* The token of a request is checked, outside the account's lock.
Admit(d, f) ==
    /\ ActiveFamily(d, f)
    /\ admitted' = admitted \cup {<<d, f>>}
    /\ UNCHANGED <<playReviewUser, status, family, otp, proof, guesses>>

\* An admitted request that ends in an error leaves nothing behind.
Refused(d, f) ==
    /\ <<d, f>> \in admitted
    /\ admitted' = admitted \ {<<d, f>>}
    /\ UNCHANGED <<playReviewUser, status, family, otp, proof, guesses>>

\* /auth/devices/management/challenge
ManageChallenge(d, f, purpose, t) ==
    /\ <<d, f>> \in admitted
    /\ admitted' = admitted \ {<<d, f>>}
    /\ ActiveFamily(d, f)
    /\ status[t] # "unknown"
    /\ IssueProof(d, purpose, f, t, None)
    /\ UNCHANGED <<playReviewUser, status, family, otp, guesses>>

\* What every completed management request checks under the lock.
MayManage(d, f, p, purpose) ==
    /\ <<d, f>> \in admitted
    /\ ActiveFamily(d, f)
    /\ VerifyProof(p, purpose)
    /\ proof[p].device = d
    /\ proof[p].family = f

\* /auth/devices/management/complete of a renaming (names are not modelled).
RenameComplete(d, f, p) ==
    /\ MayManage(d, f, p, "device_rename")
    /\ admitted' = admitted \ {<<d, f>>}
    /\ proof' = [proof EXCEPT ![p] = None]
    /\ UNCHANGED <<playReviewUser, status, family, otp, guesses>>

\* Variant: the sessions of the device are looked up by the wrong identifier.
RevokeDevice_KeepsSessions(t, p) ==
    /\ status' = [status EXCEPT ![t] = "revoked"]
    /\ family' = [f \in Families |->
         IF f \in FamiliesOf(t) THEN [family[f] EXCEPT !.stale = TRUE]
                                ELSE family[f]]
    /\ proof' = [q \in Proofs |->
         IF q = p \/ q \in ProofsOf(t) THEN None ELSE proof[q]]
    /\ otp' = [o \in Otps |->
         IF o \in OtpsOf(t)
           THEN Kept([otp[o] EXCEPT !.open = FALSE, !.stale = TRUE])
           ELSE otp[o]]

\* Variant: only the challenge of the revocation itself is closed.
RevokeDevice_KeepsChallenges(t, p) ==
    /\ status' = [status EXCEPT ![t] = "revoked"]
    /\ family' = [f \in Families |->
         IF f \in FamiliesOf(t)
           THEN [family[f] EXCEPT !.open = FALSE, !.stale = TRUE]
           ELSE family[f]]
    /\ proof' = [q \in Proofs |->
         IF q = p THEN None
         ELSE IF q \in ProofsOf(t) THEN [proof[q] EXCEPT !.stale = TRUE]
         ELSE proof[q]]
    /\ otp' = [o \in Otps |->
         IF o \in OtpsOf(t)
           THEN Kept([otp[o] EXCEPT !.open = FALSE, !.stale = TRUE])
           ELSE otp[o]]

\* What a revocation writes: the device, its sessions, its open challenges
\* and its codes all end together.
RevokeDevice(t, p) ==
    /\ status' = [status EXCEPT ![t] = "revoked"]
    /\ family' = [f \in Families |->
         IF f \in FamiliesOf(t)
           THEN [family[f] EXCEPT !.open = FALSE, !.stale = TRUE]
           ELSE family[f]]
    /\ proof' = [q \in Proofs |->
         IF q = p \/ q \in ProofsOf(t) THEN None ELSE proof[q]]
    /\ otp' = [o \in Otps |->
         IF o \in OtpsOf(t)
           THEN Kept([otp[o] EXCEPT !.open = FALSE, !.stale = TRUE])
           ELSE otp[o]]

\* /auth/devices/management/complete of a revocation.
RevokeComplete(d, f, p) ==
    /\ MayManage(d, f, p, "device_revoke")
    /\ admitted' = admitted \ {<<d, f>>}
    /\ RevokeDevice(proof[p].target, p)
    /\ UNCHANGED <<playReviewUser, guesses>>

-----------------------------------------------------------------------------
(* Deadlines *)

NextAge == [fresh |-> "valid", valid |-> "expired", expired |-> "old"]

\* A minute, ten minutes and an hour after a code was mailed.
AgeOtp(o) ==
    /\ otp[o] # None
    /\ otp[o].age # "old"
    /\ otp' = [otp EXCEPT ![o] = Kept([otp[o] EXCEPT !.age = NextAge[@]])]
    /\ UNCHANGED <<playReviewUser, status, family, proof, admitted, guesses>>

\* Two minutes after a challenge was issued.
ExpireProof(p) ==
    /\ proof[p] # None
    /\ proof' = [proof EXCEPT ![p] = None]
    /\ UNCHANGED <<playReviewUser, status, family, otp, admitted, guesses>>

\* Thirty days after a session was granted.
ExpireFamily(f) ==
    /\ family[f] # None
    /\ family[f].open
    /\ family' = [family EXCEPT ![f].open = FALSE]
    /\ UNCHANGED <<playReviewUser, status, otp, proof, admitted, guesses>>

-----------------------------------------------------------------------------
SessionInit ==
    /\ playReviewUser \in ReviewModes
    /\ status = [d \in Devices |-> "unknown"]
    /\ family = [f \in Families |-> None]
    /\ otp = [o \in Otps |-> None]
    /\ proof = [p \in Proofs |-> None]
    /\ admitted = {}
    /\ guesses = [o \in Otps |-> 0]

SessionNext ==
    \/ \E d \in Devices : LoginTrusted(d) \/ LoginUnknown(d) \/ LoginReviewer(d)
    \/ \E o \in Otps : \/ Resend(o) \/ Deliver(o) \/ DeliverFails(o)
                       \/ EnrollmentChallenge(o) \/ EnrollWrongCode(o)
                       \/ AgeOtp(o)
    \/ \E o \in Otps, p \in Proofs : Enroll(o, p)
    \/ \E p \in Proofs : Authenticate(p) \/ RefreshComplete(p) \/ ExpireProof(p)
    \/ \E f \in Families : ExpireFamily(f)
    \/ \E d \in Devices, f \in Families :
         \/ RefreshChallenge(d, f) \/ Admit(d, f) \/ Refused(d, f)
         \/ \E t \in Devices, purpose \in {"device_rename", "device_revoke"} :
              ManageChallenge(d, f, purpose, t)
         \/ \E p \in Proofs : RenameComplete(d, f, p) \/ RevokeComplete(d, f, p)

SessionSpec == SessionInit /\ [][SessionNext]_sessionVars
-----------------------------------------------------------------------------
(* Properties *)

(* The type invariant: the four tables hold the rows their handlers write. *)
SessionTypeOK ==
    /\ playReviewUser \in BOOLEAN
    /\ status \in [Devices -> {"unknown", "trusted", "revoked"}]
    /\ family \in [Families -> FamilyRecord \cup {None}]
    /\ otp \in [Otps -> OtpRecord \cup {None}]
    /\ proof \in [Proofs -> ProofRecord \cup {None}]
    /\ admitted \subseteq Devices \X Families
    /\ guesses \in [Otps -> Nat]

(* A session that can be refreshed belongs to a device that is trusted now *)
(* and was not revoked since the session was granted: enrolling a revoked  *)
(* device again does not bring its old sessions back (active_family reads  *)
(* both, device_sessions.py:174-181).                                      *)
SessionsNeedTrust ==
    \A f \in Families :
        (family[f] # None /\ family[f].open) =>
            /\ status[family[f].device] = "trusted"
            /\ ~family[f].stale

(* No challenge answers for a device across its revocation: one that is    *)
(* open was issued after the device's last revocation, and unless it is to *)
(* enrol the device, the device is trusted.                                *)
ChallengesAreCurrent ==
    \A p \in Proofs :
        proof[p] # None =>
            /\ ~proof[p].stale
            /\ proof[p].purpose # "device_enrollment"
                 => status[proof[p].device] = "trusted"

(* A code that can still enrol a device is the only one of that device,    *)
(* was mailed after the device's last revocation, and the device is not    *)
(* trusted yet: no earlier mail is a second way in.                        *)
CodesAreCurrent ==
    \A o \in Otps :
        (otp[o] # None /\ otp[o].open) =>
            /\ ~otp[o].stale
            /\ status[otp[o].device] # "trusted"
            /\ \A other \in OtpsOf(otp[o].device) \ {o} : ~otp[other].open

(* A device enrols under the code its challenge was asked for: while a     *)
(* code is open, the open enrolment challenges of its device were issued   *)
(* under it, though the completion compares only device and key            *)
(* (device_sessions.py:383-385).                                           *)
ChallengeOfTheCode ==
    \A o \in Otps, p \in Proofs :
        ( /\ otp[o] # None
          /\ otp[o].open
          /\ proof[p] # None
          /\ proof[p].purpose = "device_enrollment"
          /\ proof[p].device = otp[o].device ) => proof[p].code = o

(* What a revocation or a newer code replaced enrols no device: of all     *)
(* challenges and mails only the current ones still answer.                *)
ReplacedIsDead ==
    /\ ChallengesAreCurrent
    /\ CodesAreCurrent
    /\ ChallengeOfTheCode

(* No mailed code is guessed at more than MaxAttempts times, though every  *)
(* wrong guess ends in an error that rolls its transaction back            *)
(* (device_sessions.py:379-382).                                           *)
GuessesBounded == \A o \in Otps : guesses[o] <= MaxAttempts
=============================================================================
