----------------------- MODULE AccountDeletion_proofs -----------------------
(***************************************************************************)
(* Proofs about the cloud's accounts, for any number of devices, sessions, *)
(* codes, challenges, requests and confirmations.                          *)
(*                                                                         *)
(* DeviceSessions: the type invariant, that an open session belongs to a   *)
(* device that is trusted now, that no code is guessed at too often, and   *)
(* that what was replaced opens nothing any more.                          *)
(*                                                                         *)
(* AccountDeletion: a closed account is gone, "deleted" is said only of    *)
(* what is deleted, the account is closed by a session that may, and a     *)
(* settled outbox entry stays settled.  The argument turns on two facts.   *)
(* Only Confirms closes the account, and every other step leaves the rows  *)
(* of a closed one alone (GoingOn).  And a confirmation that was refused   *)
(* can never be accepted afterwards (Hopeless): that is why a refusal      *)
(* stays true while its twin races it.                                     *)
(***************************************************************************)
EXTENDS AccountDeletion, TLAPS

-----------------------------------------------------------------------------
(* What the helpers write *)

\* Closing codes of the table leaves a table of codes.
LEMMA InvalidatedType ==
    ASSUME otp \in [Otps -> OtpRecord \cup {None}],
           NEW S \in SUBSET Otps,
           \A o \in S : otp[o] # None
    PROVE  Invalidated(S) \in [Otps -> OtpRecord \cup {None}]
<1>1. SUFFICES ASSUME NEW o \in Otps
               PROVE  (IF o \in S THEN Kept([otp[o] EXCEPT !.open = FALSE])
                                  ELSE otp[o]) \in OtpRecord \cup {None}
  BY DEF Invalidated
<1>2. CASE o \in S
  <2>1. otp[o] \in OtpRecord
    BY <1>2
  <2>2. [otp[o] EXCEPT !.open = FALSE] \in OtpRecord
    BY <2>1 DEF OtpRecord
  <2> QED
    BY <1>2, <2>2 DEF Kept
<1>3. CASE o \notin S
  BY <1>3
<1> QED
  BY <1>2, <1>3

\* A challenge is issued into a free slot of the table.
LEMMA IssueType ==
    ASSUME proof \in [Proofs -> ProofRecord \cup {None}],
           NEW d \in Devices, NEW purpose \in Purposes,
           NEW f \in Families \cup {None}, NEW t \in Devices \cup {None},
           NEW o \in Otps \cup {None},
           IssueProof(d, purpose, f, t, o)
    PROVE  proof' \in [Proofs -> ProofRecord \cup {None}]
<1> DEFINE row == [device |-> d, purpose |-> purpose, family |-> f,
                   target |-> t, code |-> o, stale |-> FALSE]
<1>1. row \in ProofRecord
  BY DEF ProofRecord
<1>2. PICK p \in Proofs : proof' = [proof EXCEPT ![p] = row]
  BY DEF IssueProof
<1> QED
  BY <1>1, <1>2

\* A session is granted into a free slot, to the device that signed in.
LEMMA GrantType ==
    ASSUME family \in [Families -> FamilyRecord \cup {None}],
           NEW d \in Devices,
           GrantFamily(d)
    PROVE  family' \in [Families -> FamilyRecord \cup {None}]
<1> DEFINE row == [device |-> d, open |-> TRUE, stale |-> FALSE]
<1>1. row \in FamilyRecord
  BY DEF FamilyRecord
<1>2. PICK f \in Families : family' = [family EXCEPT ![f] = row]
  BY DEF GrantFamily
<1> QED
  BY <1>1, <1>2

\* A new code is written over a table in which the device's codes are closed.
LEMMA CreateType ==
    ASSUME SessionTypeOK,
           NEW d \in Devices,
           CreateOtp(d)
    PROVE  /\ otp' \in [Otps -> OtpRecord \cup {None}]
           /\ proof' \in [Proofs -> ProofRecord \cup {None}]
           /\ guesses' \in [Otps -> Nat]
<1> DEFINE row == [device |-> d, open |-> TRUE, mailed |-> FALSE,
                   age |-> "fresh", attempts |-> 0, stale |-> FALSE]
<1>1. row \in OtpRecord
  BY DEF OtpRecord
<1>2. PICK o \in Otps :
        /\ otp' = [Invalidated(OtpsOf(d)) EXCEPT ![o] = row]
        /\ guesses' = [guesses EXCEPT ![o] = 0]
  BY DEF CreateOtp
<1>3. Invalidated(OtpsOf(d)) \in [Otps -> OtpRecord \cup {None}]
  BY InvalidatedType DEF SessionTypeOK, OtpsOf
<1>4. otp' \in [Otps -> OtpRecord \cup {None}]
  BY <1>1, <1>2, <1>3
<1>5. guesses' \in [Otps -> Nat]
  BY <1>2 DEF SessionTypeOK
<1>6. proof' \in [Proofs -> ProofRecord \cup {None}]
  BY DEF CreateOtp, SessionTypeOK
<1> QED
  BY <1>4, <1>5, <1>6

-----------------------------------------------------------------------------
(* Type correctness *)

LEMMA SessionInitType == SessionInit => SessionTypeOK
BY ReviewAssumption DEF SessionInit, SessionTypeOK

\* Changing the marks of a row leaves it a row of its table.
LEMMA RowUpdates ==
    /\ \A x \in OtpRecord :
         /\ [x EXCEPT !.mailed = TRUE] \in OtpRecord
         /\ [x EXCEPT !.open = FALSE, !.mailed = TRUE] \in OtpRecord
         /\ [x EXCEPT !.open = FALSE, !.stale = TRUE] \in OtpRecord
         /\ [x EXCEPT !.attempts = @ + 1] \in OtpRecord
         /\ x.age # "old" => [x EXCEPT !.age = NextAge[@]] \in OtpRecord
    /\ \A x \in FamilyRecord :
         /\ [x EXCEPT !.open = FALSE] \in FamilyRecord
         /\ [x EXCEPT !.open = FALSE, !.stale = TRUE] \in FamilyRecord
<1>1. ASSUME NEW x \in OtpRecord
      PROVE  /\ [x EXCEPT !.mailed = TRUE] \in OtpRecord
             /\ [x EXCEPT !.open = FALSE, !.mailed = TRUE] \in OtpRecord
             /\ [x EXCEPT !.open = FALSE, !.stale = TRUE] \in OtpRecord
             /\ [x EXCEPT !.attempts = @ + 1] \in OtpRecord
  <2>1. [x EXCEPT !.mailed = TRUE] \in OtpRecord
    BY DEF OtpRecord
  <2>2. [x EXCEPT !.open = FALSE, !.mailed = TRUE] \in OtpRecord
    BY DEF OtpRecord
  <2>3. [x EXCEPT !.open = FALSE, !.stale = TRUE] \in OtpRecord
    BY DEF OtpRecord
  <2>4. [x EXCEPT !.attempts = @ + 1] \in OtpRecord
    BY DEF OtpRecord
  <2> QED
    BY <2>1, <2>2, <2>3, <2>4
<1>2. ASSUME NEW x \in OtpRecord, x.age # "old"
      PROVE  [x EXCEPT !.age = NextAge[@]] \in OtpRecord
  <2>1. NextAge[x.age] \in {"fresh", "valid", "expired", "old"}
    BY <1>2 DEF OtpRecord, NextAge
  <2> QED
    BY <2>1 DEF OtpRecord
<1>3. ASSUME NEW x \in FamilyRecord
      PROVE  /\ [x EXCEPT !.open = FALSE] \in FamilyRecord
             /\ [x EXCEPT !.open = FALSE, !.stale = TRUE] \in FamilyRecord
  BY DEF FamilyRecord
<1> QED
  BY <1>1, <1>2, <1>3

\* Writing one row, or none, keeps a table of codes.
LEMMA OtpWrite ==
    ASSUME otp \in [Otps -> OtpRecord \cup {None}],
           NEW o \in Otps, NEW x \in OtpRecord,
           \/ otp' = [otp EXCEPT ![o] = x]
           \/ otp' = [otp EXCEPT ![o] = Kept(x)]
    PROVE  otp' \in [Otps -> OtpRecord \cup {None}]
BY DEF Kept

\* A revocation keeps the four tables it writes.
LEMMA RevokeType ==
    ASSUME SessionTypeOK, NEW t \in Devices \cup {None}, NEW p \in Proofs,
           RevokeDevice(t, p)
    PROVE  /\ status' \in [Devices -> {"unknown", "trusted", "revoked"}]
           /\ family' \in [Families -> FamilyRecord \cup {None}]
           /\ otp' \in [Otps -> OtpRecord \cup {None}]
           /\ proof' \in [Proofs -> ProofRecord \cup {None}]
<1> USE DEF SessionTypeOK
<1>1. status' \in [Devices -> {"unknown", "trusted", "revoked"}]
  BY DEF RevokeDevice
<1>2. family' \in [Families -> FamilyRecord \cup {None}]
  <2>1. ASSUME NEW f \in FamiliesOf(t)
        PROVE  [family[f] EXCEPT !.open = FALSE, !.stale = TRUE] \in FamilyRecord
    BY <2>1, RowUpdates DEF FamiliesOf
  <2> QED
    BY <2>1 DEF RevokeDevice
<1>3. otp' \in [Otps -> OtpRecord \cup {None}]
  <2>1. ASSUME NEW o \in OtpsOf(t)
        PROVE  Kept([otp[o] EXCEPT !.open = FALSE, !.stale = TRUE])
                  \in OtpRecord \cup {None}
    <3>1. otp[o] \in OtpRecord
      BY <2>1 DEF OtpsOf
    <3>2. [otp[o] EXCEPT !.open = FALSE, !.stale = TRUE] \in OtpRecord
      BY <3>1, RowUpdates
    <3> QED
      BY <3>2 DEF Kept
  <2> QED
    BY <2>1 DEF RevokeDevice
<1>4. proof' \in [Proofs -> ProofRecord \cup {None}]
  BY DEF RevokeDevice
<1> QED
  BY <1>1, <1>2, <1>3, <1>4

LEMMA SessionTypeStep == SessionTypeOK /\ [SessionNext]_sessionVars => SessionTypeOK'
<1> SUFFICES ASSUME SessionTypeOK, [SessionNext]_sessionVars
             PROVE  SessionTypeOK'
  OBVIOUS
<1> USE DEF SessionTypeOK
<1>1. ASSUME NEW d \in Devices, LoginTrusted(d) PROVE SessionTypeOK'
  BY <1>1, IssueType DEF LoginTrusted, Purposes
<1>2. ASSUME NEW d \in Devices, LoginUnknown(d) PROVE SessionTypeOK'
  BY <1>2, CreateType DEF LoginUnknown
<1>3. ASSUME NEW d \in Devices, LoginReviewer(d) PROVE SessionTypeOK'
  BY <1>3, GrantType DEF LoginReviewer
<1>4. ASSUME NEW o \in Otps, Resend(o) PROVE SessionTypeOK'
  <2>1. otp[o].device \in Devices
    BY <1>4 DEF Resend, OtpRecord
  <2> QED
    BY <1>4, <2>1, CreateType DEF Resend
<1>5. ASSUME NEW o \in Otps, Deliver(o) PROVE SessionTypeOK'
  <2>1. [otp[o] EXCEPT !.mailed = TRUE] \in OtpRecord
    BY <1>5, RowUpdates DEF Deliver
  <2>2. otp' \in [Otps -> OtpRecord \cup {None}]
    BY <1>5, <2>1 DEF Deliver
  <2> QED
    BY <1>5, <2>2 DEF Deliver
<1>6. ASSUME NEW o \in Otps, DeliverFails(o) PROVE SessionTypeOK'
  <2>1. [otp[o] EXCEPT !.open = FALSE, !.mailed = TRUE] \in OtpRecord
    BY <1>6, RowUpdates DEF DeliverFails
  <2>2. otp' \in [Otps -> OtpRecord \cup {None}]
    BY <1>6, <2>1 DEF DeliverFails, Kept
  <2> QED
    BY <1>6, <2>2 DEF DeliverFails
<1>7. ASSUME NEW o \in Otps, EnrollmentChallenge(o) PROVE SessionTypeOK'
  <2>1. otp[o].device \in Devices
    BY <1>7 DEF EnrollmentChallenge, Continuation, OtpRecord
  <2> QED
    BY <1>7, <2>1, IssueType DEF EnrollmentChallenge, Purposes
<1>8. ASSUME NEW o \in Otps, EnrollWrongCode(o) PROVE SessionTypeOK'
  <2>1. [otp[o] EXCEPT !.attempts = @ + 1] \in OtpRecord
    BY <1>8, RowUpdates DEF EnrollWrongCode, Continuation
  <2>2. otp' \in [Otps -> OtpRecord \cup {None}]
    BY <1>8, <2>1 DEF EnrollWrongCode
  <2>3. guesses' \in [Otps -> Nat]
    BY <1>8 DEF EnrollWrongCode
  <2> QED
    BY <1>8, <2>2, <2>3 DEF EnrollWrongCode
<1>9. ASSUME NEW o \in Otps, NEW p \in Proofs, Enroll(o, p) PROVE SessionTypeOK'
  <2>1. otp[o].device \in Devices
    BY <1>9 DEF Enroll, Continuation, OtpRecord
  <2>2. otp' \in [Otps -> OtpRecord \cup {None}]
    BY <1>9, InvalidatedType DEF Enroll, Continuation
  <2>3. family' \in [Families -> FamilyRecord \cup {None}]
    BY <1>9, <2>1, GrantType DEF Enroll
  <2> QED
    BY <1>9, <2>1, <2>2, <2>3 DEF Enroll
<1>10. ASSUME NEW p \in Proofs, Authenticate(p) PROVE SessionTypeOK'
  <2>1. proof[p].device \in Devices
    BY <1>10 DEF Authenticate, VerifyProof, ProofRecord
  <2> QED
    BY <1>10, <2>1, GrantType DEF Authenticate
<1>11. ASSUME NEW d \in Devices, NEW f \in Families, RefreshChallenge(d, f)
       PROVE  SessionTypeOK'
  BY <1>11, IssueType DEF RefreshChallenge, Purposes
<1>12. ASSUME NEW p \in Proofs, RefreshComplete(p) PROVE SessionTypeOK'
  BY <1>12 DEF RefreshComplete
<1>13. ASSUME NEW d \in Devices, NEW f \in Families, Admit(d, f)
       PROVE  SessionTypeOK'
  BY <1>13 DEF Admit
<1>14. ASSUME NEW d \in Devices, NEW f \in Families, Refused(d, f)
       PROVE  SessionTypeOK'
  BY <1>14 DEF Refused
<1>15. ASSUME NEW d \in Devices, NEW f \in Families, NEW t \in Devices,
              NEW purpose \in {"device_rename", "device_revoke"},
              ManageChallenge(d, f, purpose, t)
       PROVE  SessionTypeOK'
  BY <1>15, IssueType DEF ManageChallenge, Purposes
<1>16. ASSUME NEW d \in Devices, NEW f \in Families, NEW p \in Proofs,
              RenameComplete(d, f, p)
       PROVE  SessionTypeOK'
  BY <1>16 DEF RenameComplete
<1>17. ASSUME NEW d \in Devices, NEW f \in Families, NEW p \in Proofs,
              RevokeComplete(d, f, p)
       PROVE  SessionTypeOK'
  <2>1. proof[p].target \in Devices \cup {None}
    BY <1>17 DEF RevokeComplete, MayManage, VerifyProof, ProofRecord
  <2> QED
    BY <1>17, <2>1, RevokeType DEF RevokeComplete
<1>18. ASSUME NEW o \in Otps, AgeOtp(o) PROVE SessionTypeOK'
  <2>1. [otp[o] EXCEPT !.age = NextAge[@]] \in OtpRecord
    BY <1>18, RowUpdates DEF AgeOtp
  <2>2. otp' \in [Otps -> OtpRecord \cup {None}]
    BY <1>18, <2>1 DEF AgeOtp, Kept
  <2> QED
    BY <1>18, <2>2 DEF AgeOtp
<1>19. ASSUME NEW p \in Proofs, ExpireProof(p) PROVE SessionTypeOK'
  BY <1>19 DEF ExpireProof
<1>20. ASSUME NEW f \in Families, ExpireFamily(f) PROVE SessionTypeOK'
  <2>1. [family[f] EXCEPT !.open = FALSE] \in FamilyRecord
    BY <1>20, RowUpdates DEF ExpireFamily
  <2> QED
    BY <1>20, <2>1 DEF ExpireFamily
<1>21. CASE UNCHANGED sessionVars
  BY <1>21 DEF sessionVars
<1> QED
  BY <1>1, <1>2, <1>3, <1>4, <1>5, <1>6, <1>7, <1>8, <1>9, <1>10, <1>11,
     <1>12, <1>13, <1>14, <1>15, <1>16, <1>17, <1>18, <1>19, <1>20, <1>21
     DEF SessionNext

(* The four tables and the requests under way keep their types in every    *)
(* behaviour of the handlers.                                              *)
THEOREM SessionTypeCorrect == SessionSpec => []SessionTypeOK
<1>1. SessionInit => SessionTypeOK
  BY SessionInitType
<1>2. SessionTypeOK /\ [SessionNext]_sessionVars => SessionTypeOK'
  BY SessionTypeStep
<1> QED
  BY <1>1, <1>2, PTL DEF SessionSpec

-----------------------------------------------------------------------------
(* Open sessions belong to trusted devices *)

\* A session granted to a device that is trusted after the step.
LEMMA GrantKeepsTrust ==
    ASSUME SessionTypeOK, SessionsNeedTrust, NEW d \in Devices,
           GrantFamily(d), status' = [status EXCEPT ![d] = "trusted"]
    PROVE  SessionsNeedTrust'
<1> DEFINE row == [device |-> d, open |-> TRUE, stale |-> FALSE]
<1>1. PICK g \in Families : family' = [family EXCEPT ![g] = row]
  BY DEF GrantFamily
<1> SUFFICES ASSUME NEW f \in Families, family'[f] # None, family'[f].open
             PROVE  status'[family'[f].device] = "trusted" /\ ~family'[f].stale
  BY DEF SessionsNeedTrust
<1>2. CASE f = g
  BY <1>1, <1>2 DEF SessionTypeOK
<1>3. CASE f # g
  <2>1. family'[f] = family[f] /\ family[f] \in FamilyRecord
    BY <1>1, <1>3 DEF SessionTypeOK
  <2>2. status[family[f].device] = "trusted" /\ ~family[f].stale
    BY <2>1 DEF SessionsNeedTrust
  <2> QED
    BY <2>1, <2>2 DEF SessionTypeOK, FamilyRecord
<1> QED
  BY <1>2, <1>3

\* A revocation closes every session of the one device it changes.
LEMMA RevokeKeepsTrust ==
    ASSUME SessionTypeOK, SessionsNeedTrust, NEW t, NEW p, RevokeDevice(t, p)
    PROVE  SessionsNeedTrust'
<1> SUFFICES ASSUME NEW f \in Families, family'[f] # None, family'[f].open
             PROVE  status'[family'[f].device] = "trusted" /\ ~family'[f].stale
  BY DEF SessionsNeedTrust
<1>1. f \notin FamiliesOf(t)
  <2> SUFFICES ASSUME f \in FamiliesOf(t) PROVE FALSE
    OBVIOUS
  <2>1. family[f] \in FamilyRecord
    BY DEF FamiliesOf, SessionTypeOK
  <2>2. family'[f] = [family[f] EXCEPT !.open = FALSE, !.stale = TRUE]
    BY DEF RevokeDevice
  <2>3. ~family'[f].open
    BY <2>1, <2>2 DEF FamilyRecord
  <2> QED
    BY <2>3
<1>2. family'[f] = family[f] /\ family[f] # None
  BY <1>1 DEF RevokeDevice
<1>3. family[f] \in FamilyRecord /\ family[f].device # t
  BY <1>1, <1>2 DEF FamiliesOf, SessionTypeOK
<1>4. status[family[f].device] = "trusted" /\ ~family[f].stale
  BY <1>2 DEF SessionsNeedTrust
<1> QED
  BY <1>2, <1>3, <1>4 DEF RevokeDevice, SessionTypeOK, FamilyRecord

LEMMA TrustStep ==
    SessionTypeOK /\ SessionsNeedTrust /\ [SessionNext]_sessionVars
        => SessionsNeedTrust'
<1> SUFFICES ASSUME SessionTypeOK, SessionsNeedTrust, [SessionNext]_sessionVars
             PROVE  SessionsNeedTrust'
  OBVIOUS
<1>1. ASSUME NEW d \in Devices, LoginReviewer(d) PROVE SessionsNeedTrust'
  BY <1>1, GrantKeepsTrust DEF LoginReviewer
<1>2. ASSUME NEW o \in Otps, NEW p \in Proofs, Enroll(o, p)
      PROVE  SessionsNeedTrust'
  <2>1. otp[o].device \in Devices
    BY <1>2 DEF Enroll, Continuation, OtpRecord, SessionTypeOK
  <2> QED
    BY <1>2, <2>1, GrantKeepsTrust DEF Enroll
<1>3. ASSUME NEW p \in Proofs, Authenticate(p) PROVE SessionsNeedTrust'
  <2>1. proof[p].device \in Devices
    BY <1>3 DEF Authenticate, VerifyProof, ProofRecord, SessionTypeOK
  <2>2. status' = [status EXCEPT ![proof[p].device] = "trusted"]
    BY <1>3, <2>1 DEF Authenticate, SessionTypeOK
  <2> QED
    BY <1>3, <2>1, <2>2, GrantKeepsTrust DEF Authenticate
<1>4. ASSUME NEW d \in Devices, NEW f \in Families, NEW p \in Proofs,
             RevokeComplete(d, f, p)
      PROVE  SessionsNeedTrust'
  BY <1>4, RevokeKeepsTrust DEF RevokeComplete
<1>5. ASSUME NEW f \in Families, ExpireFamily(f) PROVE SessionsNeedTrust'
  <2> SUFFICES ASSUME NEW g \in Families, family'[g] # None, family'[g].open
               PROVE  status'[family'[g].device] = "trusted" /\ ~family'[g].stale
    BY DEF SessionsNeedTrust
  <2>1. family[f] \in FamilyRecord
    BY <1>5 DEF ExpireFamily, SessionTypeOK
  <2>2. ~[family[f] EXCEPT !.open = FALSE].open
    BY <2>1 DEF FamilyRecord
  <2>3. g # f
    BY <1>5, <2>2 DEF ExpireFamily, SessionTypeOK
  <2> QED
    BY <1>5, <2>3 DEF ExpireFamily, SessionTypeOK, SessionsNeedTrust
<1>6. CASE UNCHANGED <<status, family>>
  BY <1>6 DEF SessionsNeedTrust
<1>7. ASSUME NEW d \in Devices,
             \/ LoginTrusted(d) \/ LoginUnknown(d)
             \/ \E f \in Families :
                  \/ RefreshChallenge(d, f) \/ Admit(d, f) \/ Refused(d, f)
                  \/ \E t \in Devices, purpose \in {"device_rename", "device_revoke"} :
                       ManageChallenge(d, f, purpose, t)
                  \/ \E p \in Proofs : RenameComplete(d, f, p)
      PROVE  UNCHANGED <<status, family>>
  BY <1>7 DEF LoginTrusted, LoginUnknown, RefreshChallenge, Admit, Refused,
              ManageChallenge, RenameComplete
<1>8. ASSUME NEW o \in Otps,
             \/ Resend(o) \/ Deliver(o) \/ DeliverFails(o) \/ AgeOtp(o)
             \/ EnrollmentChallenge(o) \/ EnrollWrongCode(o)
      PROVE  UNCHANGED <<status, family>>
  BY <1>8 DEF Resend, Deliver, DeliverFails, AgeOtp, EnrollmentChallenge,
              EnrollWrongCode
<1>9. ASSUME NEW p \in Proofs, RefreshComplete(p) \/ ExpireProof(p)
      PROVE  UNCHANGED <<status, family>>
  BY <1>9 DEF RefreshComplete, ExpireProof
<1>10. CASE UNCHANGED sessionVars
  BY <1>6, <1>10 DEF sessionVars
<1> QED
  BY <1>1, <1>2, <1>3, <1>4, <1>5, <1>6, <1>7, <1>8, <1>9, <1>10
     DEF SessionNext

(* Whatever the order of sign-ins, enrolments, expiries and revocations, a *)
(* session that can be refreshed or can manage devices belongs to a device *)
(* that is trusted now and was not revoked since it was granted.           *)
THEOREM OpenSessionsAreTrusted == SessionSpec => []SessionsNeedTrust
<1>1. SessionInit => SessionsNeedTrust
  BY DEF SessionInit, SessionsNeedTrust
<1>2. SessionTypeOK /\ SessionsNeedTrust /\ [SessionNext]_sessionVars
        => SessionsNeedTrust'
  BY TrustStep
<1> QED
  BY <1>1, <1>2, SessionTypeCorrect, PTL DEF SessionSpec

-----------------------------------------------------------------------------
(* Guesses at a mailed code *)

(* The strengthening of GuessesBounded: what the row counts is what was    *)
(* guessed, so the handler's check of its count bounds the guesses.        *)
GuessesCounted ==
    \A o \in Otps : /\ guesses[o] <= MaxAttempts
                    /\ otp[o] # None => guesses[o] = otp[o].attempts

\* A slot whose row is written without its count, or dropped, stays counted.
LEMMA CountKept ==
    ASSUME SessionTypeOK, GuessesCounted, guesses' = guesses,
           \A o \in Otps : \/ otp'[o] = otp[o]
                           \/ otp'[o] = None
                           \/ otp[o] # None /\ otp'[o].attempts = otp[o].attempts
    PROVE  GuessesCounted'
BY DEF GuessesCounted, SessionTypeOK

LEMMA CreateCounts ==
    ASSUME SessionTypeOK, GuessesCounted, NEW d \in Devices, CreateOtp(d)
    PROVE  GuessesCounted'
<1> DEFINE row == [device |-> d, open |-> TRUE, mailed |-> FALSE,
                   age |-> "fresh", attempts |-> 0, stale |-> FALSE]
           rest == Invalidated(OtpsOf(d))
<1>1. PICK n \in Otps : /\ otp' = [rest EXCEPT ![n] = row]
                        /\ guesses' = [guesses EXCEPT ![n] = 0]
  BY DEF CreateOtp
<1>2. ASSUME NEW o \in Otps
      PROVE  rest[o] = None \/ (otp[o] # None /\ rest[o].attempts = otp[o].attempts)
  <2>1. CASE o \in OtpsOf(d)
    <3>1. otp[o] # None /\ otp[o] \in OtpRecord
      BY <2>1 DEF OtpsOf, SessionTypeOK
    <3>2. [otp[o] EXCEPT !.open = FALSE].attempts = otp[o].attempts
      BY <3>1 DEF OtpRecord
    <3>3. rest[o] = Kept([otp[o] EXCEPT !.open = FALSE])
      BY <2>1 DEF Invalidated
    <3> QED
      BY <3>1, <3>2, <3>3 DEF Kept
  <2>2. CASE o \notin OtpsOf(d)
    BY <2>2 DEF Invalidated
  <2> QED
    BY <2>1, <2>2
<1>3. rest \in [Otps -> OtpRecord \cup {None}]
  BY InvalidatedType DEF SessionTypeOK, OtpsOf
<1>4. ASSUME NEW o \in Otps
      PROVE  /\ guesses'[o] <= MaxAttempts
             /\ otp'[o] # None => guesses'[o] = otp'[o].attempts
  <2>1. CASE o = n
    BY <1>1, <1>3, <2>1, AttemptsAssumption DEF SessionTypeOK
  <2>2. CASE o # n
    BY <1>1, <1>2, <1>3, <2>2 DEF GuessesCounted, SessionTypeOK
  <2> QED
    BY <2>1, <2>2
<1> QED
  BY <1>4 DEF GuessesCounted

LEMMA GuessStep ==
    SessionTypeOK /\ GuessesCounted /\ [SessionNext]_sessionVars
        => GuessesCounted'
<1> SUFFICES ASSUME SessionTypeOK, GuessesCounted, [SessionNext]_sessionVars
             PROVE  GuessesCounted'
  OBVIOUS
<1>1. ASSUME NEW d \in Devices, LoginUnknown(d) PROVE GuessesCounted'
  BY <1>1, CreateCounts DEF LoginUnknown
<1>2. ASSUME NEW o \in Otps, Resend(o) PROVE GuessesCounted'
  <2>1. otp[o].device \in Devices
    BY <1>2 DEF Resend, OtpRecord, SessionTypeOK
  <2> QED
    BY <1>2, <2>1, CreateCounts DEF Resend
<1>3. ASSUME NEW o \in Otps, EnrollWrongCode(o) PROVE GuessesCounted'
  <2>1. /\ otp[o] # None /\ otp[o] \in OtpRecord
        /\ guesses[o] = otp[o].attempts
        /\ otp[o].attempts < MaxAttempts
        /\ otp[o].attempts \in Nat
    BY <1>3 DEF EnrollWrongCode, Continuation, GuessesCounted, SessionTypeOK,
                OtpRecord
  <2>2. [otp[o] EXCEPT !.attempts = @ + 1].attempts = otp[o].attempts + 1
    BY <2>1 DEF OtpRecord
  <2>3. /\ guesses'[o] = otp[o].attempts + 1
        /\ otp'[o].attempts = otp[o].attempts + 1
    BY <1>3, <2>1, <2>2 DEF EnrollWrongCode, SessionTypeOK
  <2>4. \A q \in Otps \ {o} : guesses'[q] = guesses[q] /\ otp'[q] = otp[q]
    BY <1>3 DEF EnrollWrongCode, SessionTypeOK
  <2>5. guesses'[o] <= MaxAttempts
    BY <2>1, <2>3, AttemptsAssumption
  <2> QED
    BY <2>3, <2>4, <2>5 DEF GuessesCounted
<1>4. ASSUME NEW o \in Otps, Deliver(o) \/ DeliverFails(o) \/ AgeOtp(o)
      PROVE  GuessesCounted'
  <2>1. otp[o] # None /\ otp[o] \in OtpRecord
    BY <1>4 DEF Deliver, DeliverFails, AgeOtp, SessionTypeOK
  <2>2. /\ [otp[o] EXCEPT !.mailed = TRUE].attempts = otp[o].attempts
        /\ [otp[o] EXCEPT !.age = NextAge[@]].attempts = otp[o].attempts
    BY <2>1 DEF OtpRecord
  <2>3. [otp[o] EXCEPT !.open = FALSE, !.mailed = TRUE].attempts
          = otp[o].attempts
    BY <2>1 DEF OtpRecord
  <2>4. \/ otp'[o] = None
        \/ otp'[o].attempts = otp[o].attempts
    BY <1>4, <2>2, <2>3 DEF Deliver, DeliverFails, AgeOtp, Kept, SessionTypeOK
  <2>5. /\ guesses' = guesses
        /\ \A q \in Otps \ {o} : otp'[q] = otp[q]
    BY <1>4 DEF Deliver, DeliverFails, AgeOtp, SessionTypeOK
  <2> QED
    BY <2>1, <2>4, <2>5, CountKept
<1>5. ASSUME NEW o \in Otps, NEW p \in Proofs, Enroll(o, p)
      PROVE  GuessesCounted'
  <2>1. otp[o] # None /\ otp[o] \in OtpRecord
    BY <1>5 DEF Enroll, Continuation, SessionTypeOK
  <2>2. [otp[o] EXCEPT !.open = FALSE].attempts = otp[o].attempts
    BY <2>1 DEF OtpRecord
  <2>3. \A q \in Otps :
          otp'[q] = IF q = o THEN Kept([otp[q] EXCEPT !.open = FALSE]) ELSE otp[q]
    BY <1>5 DEF Enroll, Invalidated
  <2>4. guesses' = guesses
    BY <1>5 DEF Enroll
  <2> QED
    BY <2>1, <2>2, <2>3, <2>4, CountKept DEF Kept
<1>6. ASSUME NEW d \in Devices, NEW f \in Families, NEW p \in Proofs,
             RevokeComplete(d, f, p)
      PROVE  GuessesCounted'
  <2> DEFINE t == proof[p].target
  <2>1. ASSUME NEW o \in OtpsOf(t)
        PROVE  /\ otp[o] # None
               /\ [otp[o] EXCEPT !.open = FALSE, !.stale = TRUE].attempts
                    = otp[o].attempts
    BY <2>1 DEF OtpsOf, SessionTypeOK, OtpRecord
  <2>2. \A o \in Otps :
          otp'[o] = IF o \in OtpsOf(t)
            THEN Kept([otp[o] EXCEPT !.open = FALSE, !.stale = TRUE])
            ELSE otp[o]
    BY <1>6 DEF RevokeComplete, RevokeDevice
  <2>3. guesses' = guesses
    BY <1>6 DEF RevokeComplete
  <2> QED
    BY <2>1, <2>2, <2>3, CountKept DEF Kept
<1>7. CASE UNCHANGED <<otp, guesses>>
  BY <1>7 DEF GuessesCounted
<1>8. ASSUME NEW d \in Devices,
             \/ LoginTrusted(d) \/ LoginReviewer(d)
             \/ \E f \in Families :
                  \/ RefreshChallenge(d, f) \/ Admit(d, f) \/ Refused(d, f)
                  \/ \E t \in Devices, purpose \in {"device_rename", "device_revoke"} :
                       ManageChallenge(d, f, purpose, t)
                  \/ \E p \in Proofs : RenameComplete(d, f, p)
      PROVE  UNCHANGED <<otp, guesses>>
  BY <1>8 DEF LoginTrusted, LoginReviewer, RefreshChallenge, Admit, Refused,
              ManageChallenge, RenameComplete
<1>9. ASSUME NEW p \in Proofs,
             Authenticate(p) \/ RefreshComplete(p) \/ ExpireProof(p)
      PROVE  UNCHANGED <<otp, guesses>>
  BY <1>9 DEF Authenticate, RefreshComplete, ExpireProof
<1>10. ASSUME NEW o \in Otps, EnrollmentChallenge(o)
       PROVE  UNCHANGED <<otp, guesses>>
  BY <1>10 DEF EnrollmentChallenge
<1>11. ASSUME NEW f \in Families, ExpireFamily(f)
       PROVE  UNCHANGED <<otp, guesses>>
  BY <1>11 DEF ExpireFamily
<1>12. CASE UNCHANGED sessionVars
  BY <1>7, <1>12 DEF sessionVars
<1> QED
  BY <1>1, <1>2, <1>3, <1>4, <1>5, <1>6, <1>7, <1>8, <1>9, <1>10, <1>11,
     <1>12 DEF SessionNext

(* No code is tried with more than MaxAttempts wrong answers, however the  *)
(* tries are spread over errors, resends and other devices.                *)
THEOREM GuessesAreBounded == SessionSpec => []GuessesBounded
<1>1. SessionInit => GuessesCounted
  BY AttemptsAssumption DEF SessionInit, GuessesCounted
<1>2. SessionTypeOK /\ GuessesCounted /\ [SessionNext]_sessionVars
        => GuessesCounted'
  BY GuessStep
<1>3. GuessesCounted => GuessesBounded
  BY DEF GuessesCounted, GuessesBounded
<1> QED
  BY <1>1, <1>2, <1>3, SessionTypeCorrect, PTL DEF SessionSpec

-----------------------------------------------------------------------------
(* What was replaced is dead *)

(* The strengthening of ReplacedIsDead: the reviewer's devices are trusted *)
(* at once, so they must have no code that trust would leave open.         *)
ReplacedInv ==
    /\ ReplacedIsDead
    /\ playReviewUser => \A o \in Otps : otp[o] = None

\* No code opens and no challenge is issued or changed in the step.
CodesGoOn ==
    \A o \in Otps :
        (otp'[o] # None /\ otp'[o].open) =>
            /\ otp[o] # None /\ otp[o].open
            /\ otp'[o].device = otp[o].device
            /\ otp'[o].stale = otp[o].stale

ChallengesGoOn ==
    \A p \in Proofs : proof'[p] # None => proof'[p] = proof[p]

\* Closing codes and dropping challenges is safe when a device that becomes
\* trusted has no open code left, and one that ceases to be has no challenge.
LEMMA ClosingKeeps ==
    ASSUME ReplacedIsDead, CodesGoOn, ChallengesGoOn,
           \A o \in Otps : (otp'[o] # None /\ otp'[o].open)
                              => status'[otp'[o].device] # "trusted",
           \A p \in Proofs :
              (proof'[p] # None /\ proof'[p].purpose # "device_enrollment")
                 => status'[proof'[p].device] = "trusted"
    PROVE  ReplacedIsDead'
<1>1. ChallengesAreCurrent'
  BY DEF ReplacedIsDead, ChallengesAreCurrent, ChallengesGoOn
<1>2. CodesAreCurrent'
  <2> SUFFICES ASSUME NEW o \in Otps, otp'[o] # None, otp'[o].open
               PROVE  /\ ~otp'[o].stale
                      /\ status'[otp'[o].device] # "trusted"
                      /\ \A other \in OtpsOf(otp[o].device)' \ {o} :
                            ~otp'[other].open
    BY DEF CodesAreCurrent
  <2>1. /\ otp[o] # None /\ otp[o].open
        /\ otp'[o].device = otp[o].device
        /\ otp'[o].stale = otp[o].stale
    BY DEF CodesGoOn
  <2>2. ASSUME NEW other \in OtpsOf(otp[o].device)' \ {o}, otp'[other].open
        PROVE  FALSE
    <3>1. /\ other \in Otps /\ otp'[other] # None
          /\ otp'[other].device = otp'[o].device
      BY <2>2 DEF OtpsOf
    <3>2. /\ otp[other] # None /\ otp[other].open
          /\ otp[other].device = otp[o].device
      BY <2>1, <2>2, <3>1 DEF CodesGoOn
    <3> QED
      BY <2>1, <2>2, <3>1, <3>2 DEF ReplacedIsDead, CodesAreCurrent, OtpsOf
  <2> QED
    BY <2>1, <2>2 DEF ReplacedIsDead, CodesAreCurrent
<1>3. ChallengeOfTheCode'
  BY DEF ReplacedIsDead, ChallengeOfTheCode, CodesGoOn, ChallengesGoOn
<1> QED
  BY <1>1, <1>2, <1>3 DEF ReplacedIsDead

LEMMA QuietKeeps ==
    ASSUME ReplacedIsDead, CodesGoOn, ChallengesGoOn, status' = status
    PROVE  ReplacedIsDead'
<1>1. \A o \in Otps : (otp'[o] # None /\ otp'[o].open)
                         => status'[otp'[o].device] # "trusted"
  BY DEF ReplacedIsDead, CodesAreCurrent, CodesGoOn
<1>2. \A p \in Proofs :
         (proof'[p] # None /\ proof'[p].purpose # "device_enrollment")
            => status'[proof'[p].device] = "trusted"
  BY DEF ReplacedIsDead, ChallengesAreCurrent, ChallengesGoOn
<1> QED
  BY <1>1, <1>2, ClosingKeeps

\* A challenge is issued to a trusted device, or under the open code of one
\* that is not.
LEMMA IssueKeeps ==
    ASSUME SessionTypeOK, ReplacedIsDead, NEW d \in Devices,
           NEW purpose \in Purposes, NEW f \in Families \cup {None},
           NEW t \in Devices \cup {None}, NEW o \in Otps \cup {None},
           IssueProof(d, purpose, f, t, o), UNCHANGED <<status, otp>>,
           \/ purpose # "device_enrollment" /\ status[d] = "trusted"
           \/ o \in Otps /\ otp[o] # None /\ otp[o].open /\ otp[o].device = d
              /\ purpose = "device_enrollment"
    PROVE  ReplacedIsDead'
<1> DEFINE row == [device |-> d, purpose |-> purpose, family |-> f,
                   target |-> t, code |-> o, stale |-> FALSE]
<1>1. PICK q \in Proofs : proof' = [proof EXCEPT ![q] = row]
  BY DEF IssueProof
<1>2. \A p \in Proofs : proof'[p] = IF p = q THEN row ELSE proof[p]
  BY <1>1 DEF SessionTypeOK
<1>3. /\ row.device = d /\ row.purpose = purpose /\ row.code = o
      /\ row.stale = FALSE
  OBVIOUS
<1> HIDE DEF row
<1>4. CodesAreCurrent'
  BY DEF ReplacedIsDead, CodesAreCurrent, OtpsOf
<1>5. ChallengesAreCurrent'
  BY <1>2, <1>3 DEF ReplacedIsDead, ChallengesAreCurrent
<1>6. ChallengeOfTheCode'
  <2> SUFFICES ASSUME NEW c \in Otps, NEW p \in Proofs,
                      otp[c] # None, otp[c].open, proof'[p] # None,
                      proof'[p].purpose = "device_enrollment",
                      proof'[p].device = otp[c].device
               PROVE  proof'[p].code = c
    BY DEF ChallengeOfTheCode
  <2>1. CASE p = q
    <3>1. o \in Otps /\ otp[o] # None /\ otp[o].open /\ otp[o].device = d
      BY <1>2, <1>3, <2>1
    <3>2. c = o
      BY <1>2, <1>3, <2>1, <3>1 DEF ReplacedIsDead, CodesAreCurrent, OtpsOf
    <3> QED
      BY <1>2, <1>3, <2>1, <3>2
  <2>2. CASE p # q
    BY <1>2, <2>2 DEF ReplacedIsDead, ChallengeOfTheCode
  <2> QED
    BY <2>1, <2>2
<1> QED
  BY <1>4, <1>5, <1>6 DEF ReplacedIsDead

\* A closed code: whatever else is written, it is not open any more.
LEMMA ClosedCode ==
    ASSUME NEW x \in OtpRecord
    PROVE  /\ Kept([x EXCEPT !.open = FALSE]) = None
              \/ ~Kept([x EXCEPT !.open = FALSE]).open
           /\ Kept([x EXCEPT !.open = FALSE, !.mailed = TRUE]) = None
              \/ ~Kept([x EXCEPT !.open = FALSE, !.mailed = TRUE]).open
           /\ Kept([x EXCEPT !.open = FALSE, !.stale = TRUE]) = None
              \/ ~Kept([x EXCEPT !.open = FALSE, !.stale = TRUE]).open
<1>1. ~[x EXCEPT !.open = FALSE].open
  BY DEF OtpRecord
<1>2. ~[x EXCEPT !.open = FALSE, !.mailed = TRUE].open
  BY DEF OtpRecord
<1>3. ~[x EXCEPT !.open = FALSE, !.stale = TRUE].open
  BY DEF OtpRecord
<1> QED
  BY <1>1, <1>2, <1>3 DEF Kept

\* A new code of a device that is not trusted replaces its codes and its
\* enrolment challenges.
LEMMA CreateKeeps ==
    ASSUME SessionTypeOK, ReplacedIsDead, NEW d \in Devices, CreateOtp(d),
           status' = status, status[d] # "trusted"
    PROVE  ReplacedIsDead'
<1> DEFINE row == [device |-> d, open |-> TRUE, mailed |-> FALSE,
                   age |-> "fresh", attempts |-> 0, stale |-> FALSE]
           rest == Invalidated(OtpsOf(d))
<1>1. PICK n \in Otps : otp' = [rest EXCEPT ![n] = row]
  BY DEF CreateOtp
<1>2. rest \in [Otps -> OtpRecord \cup {None}]
  BY InvalidatedType DEF SessionTypeOK, OtpsOf
<1>3. \A o \in Otps : otp'[o] = IF o = n THEN row ELSE rest[o]
  BY <1>1, <1>2
<1>4. ASSUME NEW o \in Otps, rest[o] # None, rest[o].open
      PROVE  otp[o] = rest[o] /\ otp[o].device # d
  <2>1. CASE o \in OtpsOf(d)
    <3>1. otp[o] \in OtpRecord
      BY <2>1 DEF OtpsOf, SessionTypeOK
    <3>2. rest[o] = Kept([otp[o] EXCEPT !.open = FALSE])
      BY <2>1 DEF Invalidated
    <3> QED
      BY <1>4, <3>1, <3>2, ClosedCode
  <2>2. CASE o \notin OtpsOf(d)
    BY <1>4, <2>2 DEF Invalidated, OtpsOf
  <2> QED
    BY <2>1, <2>2
<1>5. row.device = d /\ row.open /\ row.stale = FALSE
  OBVIOUS
<1> HIDE DEF row, rest
<1>6. \A p \in Proofs : proof'[p] # None =>
         /\ proof'[p] = proof[p]
         /\ ~(proof[p].device = d /\ proof[p].purpose = "device_enrollment")
  BY DEF CreateOtp, ProofsOf
<1>7. ChallengesAreCurrent'
  BY <1>6 DEF ReplacedIsDead, ChallengesAreCurrent
<1>8. CodesAreCurrent'
  <2> SUFFICES ASSUME NEW o \in Otps, otp'[o] # None, otp'[o].open
               PROVE  /\ ~otp'[o].stale
                      /\ status[otp'[o].device] # "trusted"
                      /\ \A other \in OtpsOf(otp[o].device)' \ {o} :
                            ~otp'[other].open
    BY DEF CodesAreCurrent
  <2>1. CASE o = n
    <3>1. ASSUME NEW other \in OtpsOf(otp[o].device)' \ {o}, otp'[other].open
          PROVE  FALSE
      BY <1>3, <1>4, <1>5, <2>1, <3>1 DEF OtpsOf
    <3> QED
      BY <1>3, <1>5, <2>1, <3>1
  <2>2. CASE o # n
    <3>1. otp[o] = otp'[o] /\ otp[o].device # d
      BY <1>3, <1>4, <2>2
    <3>2. ASSUME NEW other \in OtpsOf(otp[o].device)' \ {o}, otp'[other].open
          PROVE  FALSE
      <4>1. /\ other \in Otps /\ otp'[other] # None
            /\ otp'[other].device = otp[o].device
        BY <3>1, <3>2 DEF OtpsOf
      <4>2. other # n
        BY <1>3, <1>5, <3>1, <4>1
      <4>3. otp[other] = otp'[other]
        BY <1>3, <1>4, <3>2, <4>1, <4>2
      <4> QED
        BY <3>1, <3>2, <4>1, <4>3 DEF ReplacedIsDead, CodesAreCurrent, OtpsOf
    <3> QED
      BY <3>1, <3>2 DEF ReplacedIsDead, CodesAreCurrent
  <2> QED
    BY <2>1, <2>2
<1>9. ChallengeOfTheCode'
  <2> SUFFICES ASSUME NEW o \in Otps, NEW p \in Proofs,
                      otp'[o] # None, otp'[o].open, proof'[p] # None,
                      proof'[p].purpose = "device_enrollment",
                      proof'[p].device = otp'[o].device
               PROVE  proof'[p].code = o
    BY DEF ChallengeOfTheCode
  <2>1. proof'[p] = proof[p] /\ proof[p].device # d
    BY <1>6
  <2>2. o # n
    BY <1>3, <1>5, <2>1
  <2>3. otp[o] = otp'[o]
    BY <1>3, <1>4, <2>2
  <2> QED
    BY <2>1, <2>3 DEF ReplacedIsDead, ChallengeOfTheCode
<1> QED
  BY <1>7, <1>8, <1>9 DEF ReplacedIsDead

LEMMA ReplacedStep ==
    SessionTypeOK /\ ReplacedInv /\ [SessionNext]_sessionVars => ReplacedIsDead'
<1> SUFFICES ASSUME SessionTypeOK, ReplacedInv, [SessionNext]_sessionVars
             PROVE  ReplacedIsDead'
  OBVIOUS
<1>0. ReplacedIsDead
  BY DEF ReplacedInv
<1>1. ASSUME NEW d \in Devices, LoginTrusted(d) PROVE ReplacedIsDead'
  BY <1>0, <1>1, IssueKeeps DEF LoginTrusted, Purposes
<1>2. ASSUME NEW d \in Devices, LoginUnknown(d) PROVE ReplacedIsDead'
  BY <1>0, <1>2, CreateKeeps DEF LoginUnknown
<1>3. ASSUME NEW d \in Devices, LoginReviewer(d) PROVE ReplacedIsDead'
  <2>1. \A o \in Otps : otp'[o] = None
    BY <1>3 DEF LoginReviewer, ReplacedInv
  <2>2. CodesGoOn /\ ChallengesGoOn
    BY <1>3, <2>1 DEF LoginReviewer, CodesGoOn, ChallengesGoOn
  <2>3. ASSUME NEW p \in Proofs, proof'[p] # None,
               proof'[p].purpose # "device_enrollment"
        PROVE  status'[proof'[p].device] = "trusted"
    <3>1. proof'[p] = proof[p] /\ proof[p].device \in Devices
      BY <1>3, <2>3 DEF LoginReviewer, SessionTypeOK, ProofRecord
    <3>2. status[proof[p].device] = "trusted"
      BY <1>0, <2>3, <3>1 DEF ReplacedIsDead, ChallengesAreCurrent
    <3> QED
      BY <1>3, <3>1, <3>2 DEF LoginReviewer, SessionTypeOK
  <2> QED
    BY <1>0, <2>1, <2>2, <2>3, ClosingKeeps
<1>4. ASSUME NEW o \in Otps, Resend(o) PROVE ReplacedIsDead'
  <2>1. otp[o].device \in Devices
    BY <1>4 DEF Resend, OtpRecord, SessionTypeOK
  <2>2. status[otp[o].device] # "trusted"
    BY <1>0, <1>4 DEF Resend, ReplacedIsDead, CodesAreCurrent
  <2> QED
    BY <1>0, <1>4, <2>1, <2>2, CreateKeeps DEF Resend
<1>5. ASSUME NEW o \in Otps,
             Deliver(o) \/ DeliverFails(o) \/ AgeOtp(o) \/ EnrollWrongCode(o)
      PROVE  ReplacedIsDead'
  <2>1. otp[o] # None /\ otp[o] \in OtpRecord
    BY <1>5 DEF Deliver, DeliverFails, AgeOtp, EnrollWrongCode, Continuation,
                SessionTypeOK
  <2> DEFINE y1 == [otp[o] EXCEPT !.mailed = TRUE]
             y2 == [otp[o] EXCEPT !.age = NextAge[@]]
             y3 == [otp[o] EXCEPT !.attempts = @ + 1]
             y4 == [otp[o] EXCEPT !.open = FALSE, !.mailed = TRUE]
  <2>2. /\ y1.device = otp[o].device /\ y1.open = otp[o].open
        /\ y1.stale = otp[o].stale
        /\ y2.device = otp[o].device /\ y2.open = otp[o].open
        /\ y2.stale = otp[o].stale
        /\ y3.device = otp[o].device /\ y3.open = otp[o].open
        /\ y3.stale = otp[o].stale
    BY <2>1 DEF OtpRecord
  <2>3. Kept(y4) = None \/ ~Kept(y4).open
    BY <2>1, ClosedCode
  <2>4. \/ otp'[o] = y1
        \/ otp'[o] = Kept(y2)
        \/ otp'[o] = y3
        \/ otp'[o] = Kept(y4)
    BY <1>5 DEF Deliver, DeliverFails, AgeOtp, EnrollWrongCode, SessionTypeOK
  <2> HIDE DEF y1, y2, y3, y4
  <2>5. (otp'[o] # None /\ otp'[o].open) =>
          /\ otp[o].open
          /\ otp'[o].device = otp[o].device
          /\ otp'[o].stale = otp[o].stale
    BY <2>2, <2>3, <2>4 DEF Kept
  <2>6. /\ \A q \in Otps \ {o} : otp'[q] = otp[q]
        /\ status' = status /\ proof' = proof
    BY <1>5 DEF Deliver, DeliverFails, AgeOtp, EnrollWrongCode, SessionTypeOK
  <2>7. CodesGoOn /\ ChallengesGoOn
    BY <2>1, <2>5, <2>6 DEF CodesGoOn, ChallengesGoOn
  <2> QED
    BY <1>0, <2>6, <2>7, QuietKeeps
<1>6. ASSUME NEW o \in Otps, EnrollmentChallenge(o) PROVE ReplacedIsDead'
  <2>1. otp[o] # None /\ otp[o].open /\ otp[o].device \in Devices
    BY <1>6 DEF EnrollmentChallenge, Continuation, OtpRecord, SessionTypeOK
  <2> QED
    BY <1>0, <1>6, <2>1, IssueKeeps DEF EnrollmentChallenge, Purposes
<1>7. ASSUME NEW o \in Otps, NEW q \in Proofs, Enroll(o, q)
      PROVE  ReplacedIsDead'
  <2> DEFINE d == otp[o].device
  <2>1. otp[o] # None /\ otp[o] \in OtpRecord /\ otp[o].open /\ d \in Devices
    BY <1>7 DEF Enroll, Continuation, OtpRecord, SessionTypeOK
  <2>2. \A c \in Otps :
          otp'[c] = IF c = o THEN Kept([otp[c] EXCEPT !.open = FALSE]) ELSE otp[c]
    BY <1>7 DEF Enroll, Invalidated
  <2>3. ASSUME NEW c \in Otps, otp'[c] # None, otp'[c].open
        PROVE  c # o /\ otp'[c] = otp[c]
    BY <2>1, <2>2, <2>3, ClosedCode
  <2>4. CodesGoOn /\ ChallengesGoOn
    BY <1>7, <2>3 DEF Enroll, CodesGoOn, ChallengesGoOn, SessionTypeOK
  <2>5. ASSUME NEW c \in Otps, otp'[c] # None, otp'[c].open
        PROVE  status'[otp'[c].device] # "trusted"
    <3>1. c # o /\ otp'[c] = otp[c] /\ otp[c].device \in Devices
      BY <2>3, <2>5 DEF SessionTypeOK, OtpRecord
    <3>2. otp[c].device # d /\ status[otp[c].device] # "trusted"
      BY <1>0, <2>1, <2>5, <3>1 DEF ReplacedIsDead, CodesAreCurrent, OtpsOf
    <3> QED
      BY <1>7, <3>1, <3>2 DEF Enroll, SessionTypeOK
  <2>6. ASSUME NEW p \in Proofs, proof'[p] # None,
               proof'[p].purpose # "device_enrollment"
        PROVE  status'[proof'[p].device] = "trusted"
    <3>1. proof'[p] = proof[p] /\ proof[p].device \in Devices
      BY <2>4, <2>6 DEF ChallengesGoOn, SessionTypeOK, ProofRecord
    <3>2. status[proof[p].device] = "trusted"
      BY <1>0, <2>6, <3>1 DEF ReplacedIsDead, ChallengesAreCurrent
    <3> QED
      BY <1>7, <3>1, <3>2 DEF Enroll, SessionTypeOK
  <2> QED
    BY <1>0, <2>4, <2>5, <2>6, ClosingKeeps
<1>8. ASSUME NEW q \in Proofs,
             Authenticate(q) \/ RefreshComplete(q) \/ ExpireProof(q)
      PROVE  ReplacedIsDead'
  <2>1. /\ proof' = [proof EXCEPT ![q] = None]
        /\ UNCHANGED <<status, otp>>
    BY <1>8 DEF Authenticate, RefreshComplete, ExpireProof
  <2>2. CodesGoOn /\ ChallengesGoOn
    BY <2>1 DEF CodesGoOn, ChallengesGoOn, SessionTypeOK
  <2> QED
    BY <1>0, <2>1, <2>2, QuietKeeps
<1>9. ASSUME NEW d \in Devices, NEW f \in Families, RefreshChallenge(d, f)
      PROVE  ReplacedIsDead'
  BY <1>0, <1>9, IssueKeeps DEF RefreshChallenge, ActiveFamily, Purposes
<1>10. ASSUME NEW d \in Devices, NEW f \in Families, NEW t \in Devices,
              NEW purpose \in {"device_rename", "device_revoke"},
              ManageChallenge(d, f, purpose, t)
       PROVE  ReplacedIsDead'
  BY <1>0, <1>10, IssueKeeps DEF ManageChallenge, ActiveFamily, Purposes
<1>11. ASSUME NEW d \in Devices, NEW f \in Families, NEW q \in Proofs,
              RenameComplete(d, f, q)
       PROVE  ReplacedIsDead'
  <2>1. /\ proof' = [proof EXCEPT ![q] = None]
        /\ UNCHANGED <<status, otp>>
    BY <1>11 DEF RenameComplete
  <2>2. CodesGoOn /\ ChallengesGoOn
    BY <2>1 DEF CodesGoOn, ChallengesGoOn, SessionTypeOK
  <2> QED
    BY <1>0, <2>1, <2>2, QuietKeeps
<1>12. ASSUME NEW d \in Devices, NEW f \in Families, NEW q \in Proofs,
              RevokeComplete(d, f, q)
       PROVE  ReplacedIsDead'
  <2> DEFINE t == proof[q].target
  <2>1. /\ status' = [status EXCEPT ![t] = "revoked"]
        /\ \A p \in Proofs :
              proof'[p] = IF p = q \/ p \in ProofsOf(t) THEN None ELSE proof[p]
        /\ \A o \in Otps :
              otp'[o] = IF o \in OtpsOf(t)
                THEN Kept([otp[o] EXCEPT !.open = FALSE, !.stale = TRUE])
                ELSE otp[o]
    BY <1>12 DEF RevokeComplete, RevokeDevice
  <2>2. ASSUME NEW o \in Otps, otp'[o] # None, otp'[o].open
        PROVE  otp'[o] = otp[o] /\ o \notin OtpsOf(t)
    <3>1. o \in OtpsOf(t) => otp[o] \in OtpRecord
      BY DEF OtpsOf, SessionTypeOK
    <3> QED
      BY <2>1, <2>2, <3>1, ClosedCode
  <2>3. CodesGoOn /\ ChallengesGoOn
    BY <2>1, <2>2 DEF CodesGoOn, ChallengesGoOn
  <2>4. ASSUME NEW o \in Otps, otp'[o] # None, otp'[o].open
        PROVE  status'[otp'[o].device] # "trusted"
    <3>1. otp'[o] = otp[o] /\ otp[o].device \in Devices
      BY <2>2, <2>4 DEF SessionTypeOK, OtpRecord
    <3>2. status[otp[o].device] # "trusted"
      BY <1>0, <2>4, <3>1 DEF ReplacedIsDead, CodesAreCurrent
    <3> QED
      BY <2>1, <3>1, <3>2 DEF SessionTypeOK
  <2>5. ASSUME NEW p \in Proofs, proof'[p] # None,
               proof'[p].purpose # "device_enrollment"
        PROVE  status'[proof'[p].device] = "trusted"
    <3>1. /\ proof'[p] = proof[p] /\ p \notin ProofsOf(t)
          /\ proof[p].device \in Devices
      BY <2>1, <2>5 DEF SessionTypeOK, ProofRecord
    <3>2. status[proof[p].device] = "trusted" /\ proof[p].device # t
      BY <1>0, <2>5, <3>1 DEF ReplacedIsDead, ChallengesAreCurrent, ProofsOf
    <3> QED
      BY <2>1, <3>1, <3>2 DEF SessionTypeOK
  <2> QED
    BY <1>0, <2>3, <2>4, <2>5, ClosingKeeps
<1>13. CASE UNCHANGED <<status, otp, proof>>
  <2>1. CodesGoOn /\ ChallengesGoOn
    BY <1>13 DEF CodesGoOn, ChallengesGoOn
  <2> QED
    BY <1>0, <1>13, <2>1, QuietKeeps
<1>14. ASSUME NEW d \in Devices, NEW f \in Families, Admit(d, f) \/ Refused(d, f)
       PROVE  UNCHANGED <<status, otp, proof>>
  BY <1>14 DEF Admit, Refused
<1>15. ASSUME NEW f \in Families, ExpireFamily(f)
       PROVE  UNCHANGED <<status, otp, proof>>
  BY <1>15 DEF ExpireFamily
<1>16. CASE UNCHANGED sessionVars
  BY <1>13, <1>16 DEF sessionVars
<1> QED
  BY <1>1, <1>2, <1>3, <1>4, <1>5, <1>6, <1>7, <1>8, <1>9, <1>10, <1>11,
     <1>12, <1>13, <1>14, <1>15, <1>16 DEF SessionNext

\* The reviewer is mailed no code, and only mailed codes are changed.
LEMMA ReviewerStep ==
    SessionTypeOK /\ ReplacedInv /\ [SessionNext]_sessionVars
        => (playReviewUser => \A o \in Otps : otp[o] = None)'
<1> SUFFICES ASSUME ReplacedInv, [SessionNext]_sessionVars, playReviewUser'
             PROVE  \A o \in Otps : otp'[o] = None
  OBVIOUS
<1>1. playReviewUser
  BY DEF SessionNext, sessionVars, LoginTrusted, LoginUnknown, LoginReviewer,
         Resend, Deliver, DeliverFails, EnrollmentChallenge, EnrollWrongCode,
         AgeOtp, Enroll, Authenticate, RefreshComplete, ExpireProof,
         ExpireFamily, RefreshChallenge, Admit, Refused, ManageChallenge,
         RenameComplete, RevokeComplete
<1>2. \A o \in Otps : otp[o] = None
  BY <1>1 DEF ReplacedInv
<1>3. ASSUME NEW o \in Otps,
             \/ Resend(o) \/ Deliver(o) \/ DeliverFails(o) \/ AgeOtp(o)
             \/ EnrollmentChallenge(o) \/ EnrollWrongCode(o)
             \/ \E p \in Proofs : Enroll(o, p)
      PROVE  FALSE
  BY <1>2, <1>3 DEF Resend, Deliver, DeliverFails, AgeOtp, EnrollmentChallenge,
                    EnrollWrongCode, Enroll, Continuation
<1>4. ASSUME NEW d \in Devices, NEW f \in Families, NEW p \in Proofs,
             RevokeComplete(d, f, p)
      PROVE  \A o \in Otps : otp'[o] = None
  BY <1>2, <1>4 DEF RevokeComplete, RevokeDevice, OtpsOf
<1>5. ASSUME NEW d \in Devices,
             \/ LoginTrusted(d) \/ LoginReviewer(d)
             \/ \E f \in Families :
                  \/ RefreshChallenge(d, f) \/ Admit(d, f) \/ Refused(d, f)
                  \/ \E t \in Devices, purpose \in {"device_rename", "device_revoke"} :
                       ManageChallenge(d, f, purpose, t)
                  \/ \E p \in Proofs : RenameComplete(d, f, p)
      PROVE  otp' = otp
  BY <1>5 DEF LoginTrusted, LoginReviewer, RefreshChallenge, Admit, Refused,
              ManageChallenge, RenameComplete
<1>6. ASSUME NEW d \in Devices, LoginUnknown(d) PROVE FALSE
  BY <1>1, <1>6 DEF LoginUnknown
<1>7. ASSUME NEW p \in Proofs,
             Authenticate(p) \/ RefreshComplete(p) \/ ExpireProof(p)
      PROVE  otp' = otp
  BY <1>7 DEF Authenticate, RefreshComplete, ExpireProof
<1>8. ASSUME NEW f \in Families, ExpireFamily(f) PROVE otp' = otp
  BY <1>8 DEF ExpireFamily
<1>9. CASE UNCHANGED sessionVars
  BY <1>2, <1>9 DEF sessionVars
<1> QED
  BY <1>2, <1>3, <1>4, <1>5, <1>6, <1>7, <1>8, <1>9 DEF SessionNext

(* What a revocation or a newer code replaced enrols no device, whatever   *)
(* is interleaved: challenges are of trusted devices or under the current  *)
(* code, and a device has one open code at most, none once it is trusted.  *)
THEOREM ReplacedStaysDead == SessionSpec => []ReplacedIsDead
<1>1. SessionInit => ReplacedInv
  BY DEF SessionInit, ReplacedInv, ReplacedIsDead, ChallengesAreCurrent,
         CodesAreCurrent, ChallengeOfTheCode
<1>2. SessionTypeOK /\ ReplacedInv /\ [SessionNext]_sessionVars => ReplacedInv'
  BY ReplacedStep, ReviewerStep DEF ReplacedInv
<1>3. ReplacedInv => ReplacedIsDead
  BY DEF ReplacedInv
<1> QED
  BY <1>1, <1>2, <1>3, SessionTypeCorrect, PTL DEF SessionSpec

-----------------------------------------------------------------------------
(* AccountDeletion: the inductive invariant *)

\* Only the confirmed closing makes the row absent, for good.
Closing ==
    /\ account \in {"present", "absent"}
    /\ account = "absent" => remembered
    /\ account = "absent" <=> \E r \in Requests : Completed(r)

\* A request belongs to a session the account has or had, and only the request
\* that closed the account has an outbox entry.
RowsHaveSessions ==
    \A r \in Requests : request[r] # None =>
        /\ account # "absent" =>
             /\ family[request[r].family] # None
             /\ family[request[r].family].device = request[r].device
        /\ request[r].external # "none" => request[r].done

\* No confirmation with this body will be accepted any more.
Hopeless(body) ==
    LET row == request[body.request]
    IN \/ account = "absent"
       \/ body.code = "wrong"
       \/ /\ row # None
          /\ \/ row.device # body.device \/ row.family # body.family
             \/ ~row.open \/ row.age = "expired"
             \/ row.nonce > body.nonce
             \/ row.nonce = body.nonce /\ ~row.live
             \/ row.attempts >= MaxAttempts
             \/ ~family[row.family].open

\* What is known of a confirmation being served, and of a worker's attempt.
Served ==
    /\ \A w \in Workers : pc[w] = "gone" => provider = "gone"
    /\ \A c \in Calls :
         /\ pc[c] # "idle" /\ account # "absent" =>
              /\ request[call[c].body.request] # None
              /\ call[c].body.nonce <= request[call[c].body.request].nonce
         /\ pc[c] \in {"outbox", "calling", "gone", "failed"} =>
              \E r \in Requests : Completed(r) /\ request[r].doneBy = call[c].body
         /\ pc[c] = "again" \/ (pc[c] = "done" /\ call[c].reply = "refused") =>
              Hopeless(call[c].body)

DeletionInv ==
    /\ DeletionTypeOK
    /\ SessionsNeedTrust
    /\ Closing
    /\ NothingIsLeft
    /\ RowsHaveSessions
    /\ Served
    /\ AnswersAreTrue
    /\ RecordedIsGone

-----------------------------------------------------------------------------
(* The rows of the requests *)

\* What becomes of a row as long as its account is not closed: it keeps its
\* session, and whatever makes it unfit to close the account stays.
Later(old, new) ==
    /\ new # None
    /\ new.device = old.device /\ new.family = old.family
    /\ new.open => old.open
    /\ old.age = "expired" => new.age = "expired"
    /\ new.nonce >= old.nonce
    /\ new.nonce = old.nonce /\ new.live => old.live
    /\ new.attempts >= old.attempts
    /\ new.done = old.done /\ new.doneBy = old.doneBy
    /\ new.receipt => old.receipt
    /\ new.external # "none" => old.external # "none"
    /\ old.external = "deleted" => new.external = "deleted"
    /\ new.external = "deleted" => old.external = "deleted" \/ provider = "gone"

\* A row that was just asked for, by a session that may ask.
Fresh(new) ==
    /\ account # "absent"
    /\ ActiveFamily(new.device, new.family)
    /\ new.external = "none" /\ ~new.done

RowsGoOn ==
    /\ request' \in [Requests -> RequestRecord \cup {None}]
    /\ \A r \in Requests :
         IF request[r] # None THEN Later(request[r], request'[r])
         ELSE request'[r] # None => Fresh(request'[r])

\* A row of the table, written field by field.
LEMMA RequestFields ==
    ASSUME NEW x \in RequestRecord
    PROVE  /\ x.device \in Devices /\ x.family \in Families
           /\ x.age \in {"fresh", "valid", "expired"}
           /\ x.open \in BOOLEAN /\ x.mailed \in BOOLEAN /\ x.attempts \in Nat
           /\ x.nonce \in Nat /\ x.nonce <= MaxRenewals
           /\ x.live \in BOOLEAN /\ x.done \in BOOLEAN
           /\ x.doneBy \in Content \cup {None}
           /\ x.receipt \in BOOLEAN
           /\ x.external \in {"none", "pending", "deleted"}
           /\ x.leased \in BOOLEAN
           /\ x # None
BY RenewalsAssumption, RequestAssumption DEF RequestRecord

\* What the handlers and the deadlines write into a row is a later row.
LEMMA Withdrawn ==
    ASSUME NEW x \in RequestRecord
    PROVE  /\ [x EXCEPT !.open = FALSE] \in RequestRecord
           /\ Later(x, [x EXCEPT !.open = FALSE])
<1> DEFINE y == [x EXCEPT !.open = FALSE]
<1>1. y \in RequestRecord
  BY RequestFields DEF RequestRecord
<1>2. /\ y.device = x.device /\ y.family = x.family /\ y.age = x.age
      /\ y.attempts = x.attempts /\ y.nonce = x.nonce /\ y.live = x.live
      /\ y.done = x.done /\ y.doneBy = x.doneBy /\ y.receipt = x.receipt
      /\ y.external = x.external /\ y.open = FALSE
  BY RequestFields DEF RequestRecord
<1> HIDE DEF y
<1>3. Later(x, y)
  BY <1>1, <1>2, RequestFields DEF Later
<1> QED
  BY <1>1, <1>3 DEF y

LEMMA Mailed ==
    ASSUME NEW x \in RequestRecord, NEW b \in BOOLEAN, b => x.open
    PROVE  /\ [x EXCEPT !.mailed = TRUE, !.open = b] \in RequestRecord
           /\ Later(x, [x EXCEPT !.mailed = TRUE, !.open = b])
<1> DEFINE y == [x EXCEPT !.mailed = TRUE, !.open = b]
<1>1. y \in RequestRecord
  BY RequestFields DEF RequestRecord
<1>2. /\ y.device = x.device /\ y.family = x.family /\ y.age = x.age
      /\ y.attempts = x.attempts /\ y.nonce = x.nonce /\ y.live = x.live
      /\ y.done = x.done /\ y.doneBy = x.doneBy /\ y.receipt = x.receipt
      /\ y.external = x.external /\ y.open = b
  BY RequestFields DEF RequestRecord
<1> HIDE DEF y
<1>3. Later(x, y)
  BY <1>1, <1>2, RequestFields DEF Later
<1> QED
  BY <1>1, <1>3 DEF y

LEMMA Renewed ==
    ASSUME NEW x \in RequestRecord, x.nonce < MaxRenewals
    PROVE  /\ [x EXCEPT !.nonce = @ + 1, !.live = TRUE] \in RequestRecord
           /\ Later(x, [x EXCEPT !.nonce = @ + 1, !.live = TRUE])
<1> DEFINE y == [x EXCEPT !.nonce = @ + 1, !.live = TRUE]
<1>0. x.nonce + 1 \in 0..MaxRenewals
  BY RequestFields, RenewalsAssumption DEF RequestRecord
<1>1. y \in RequestRecord
  BY <1>0 DEF RequestRecord
<1>2. /\ y.device = x.device /\ y.family = x.family /\ y.age = x.age
      /\ y.open = x.open /\ y.attempts = x.attempts /\ y.done = x.done
      /\ y.doneBy = x.doneBy /\ y.receipt = x.receipt /\ y.external = x.external
      /\ y.nonce = x.nonce + 1
  BY RequestFields DEF RequestRecord
<1> HIDE DEF y
<1>3. Later(x, y)
  BY <1>1, <1>2, RequestFields DEF Later
<1> QED
  BY <1>1, <1>3 DEF y

LEMMA Counted ==
    ASSUME NEW x \in RequestRecord
    PROVE  /\ [x EXCEPT !.attempts = @ + 1] \in RequestRecord
           /\ Later(x, [x EXCEPT !.attempts = @ + 1])
<1> DEFINE y == [x EXCEPT !.attempts = @ + 1]
<1>1. y \in RequestRecord
  BY RequestFields DEF RequestRecord
<1>2. /\ y.device = x.device /\ y.family = x.family /\ y.age = x.age
      /\ y.open = x.open /\ y.nonce = x.nonce /\ y.live = x.live
      /\ y.done = x.done /\ y.doneBy = x.doneBy /\ y.receipt = x.receipt
      /\ y.external = x.external /\ y.attempts = x.attempts + 1
  BY RequestFields DEF RequestRecord
<1> HIDE DEF y
<1>3. Later(x, y)
  BY <1>1, <1>2, RequestFields DEF Later
<1> QED
  BY <1>1, <1>3 DEF y

LEMMA Leased ==
    ASSUME NEW x \in RequestRecord, NEW b \in BOOLEAN
    PROVE  /\ [x EXCEPT !.leased = b] \in RequestRecord
           /\ Later(x, [x EXCEPT !.leased = b])
<1> DEFINE y == [x EXCEPT !.leased = b]
<1>1. y \in RequestRecord
  BY RequestFields DEF RequestRecord
<1>2. /\ y.device = x.device /\ y.family = x.family /\ y.age = x.age
      /\ y.open = x.open /\ y.attempts = x.attempts /\ y.nonce = x.nonce
      /\ y.live = x.live /\ y.done = x.done /\ y.doneBy = x.doneBy
      /\ y.receipt = x.receipt /\ y.external = x.external
  BY RequestFields DEF RequestRecord
<1> HIDE DEF y
<1>3. Later(x, y)
  BY <1>1, <1>2, RequestFields DEF Later
<1> QED
  BY <1>1, <1>3 DEF y

LEMMA Recorded ==
    ASSUME NEW x \in RequestRecord, NEW b \in BOOLEAN, b => provider = "gone"
    PROVE  /\ [x EXCEPT !.external = IF @ = "pending" /\ b THEN "deleted" ELSE @] \in RequestRecord
           /\ Later(x, [x EXCEPT !.external = IF @ = "pending" /\ b THEN "deleted" ELSE @])
<1> DEFINE y == [x EXCEPT !.external = IF @ = "pending" /\ b THEN "deleted" ELSE @]
<1>1. y \in RequestRecord
  BY RequestFields DEF RequestRecord
<1>2. /\ y.device = x.device /\ y.family = x.family /\ y.age = x.age
      /\ y.open = x.open /\ y.attempts = x.attempts /\ y.nonce = x.nonce
      /\ y.live = x.live /\ y.done = x.done /\ y.doneBy = x.doneBy
      /\ y.receipt = x.receipt /\ y.external = IF x.external = "pending" /\ b THEN "deleted" ELSE x.external
  BY RequestFields DEF RequestRecord
<1> HIDE DEF y
<1>3. Later(x, y)
  BY <1>1, <1>2, RequestFields DEF Later
<1> QED
  BY <1>1, <1>3 DEF y

LEMMA Aged ==
    ASSUME NEW x \in RequestRecord, x.age = "fresh"
    PROVE  /\ [x EXCEPT !.age = "valid"] \in RequestRecord
           /\ Later(x, [x EXCEPT !.age = "valid"])
<1> DEFINE y == [x EXCEPT !.age = "valid"]
<1>1. y \in RequestRecord
  BY RequestFields DEF RequestRecord
<1>2. /\ y.device = x.device /\ y.family = x.family /\ y.open = x.open
      /\ y.attempts = x.attempts /\ y.nonce = x.nonce /\ y.live = x.live
      /\ y.done = x.done /\ y.doneBy = x.doneBy /\ y.receipt = x.receipt
      /\ y.external = x.external /\ y.age = "valid"
  BY RequestFields DEF RequestRecord
<1> HIDE DEF y
<1>3. Later(x, y)
  BY <1>1, <1>2, RequestFields DEF Later
<1> QED
  BY <1>1, <1>3 DEF y

LEMMA Expired ==
    ASSUME NEW x \in RequestRecord
    PROVE  /\ [x EXCEPT !.age = "expired", !.live = FALSE] \in RequestRecord
           /\ Later(x, [x EXCEPT !.age = "expired", !.live = FALSE])
<1> DEFINE y == [x EXCEPT !.age = "expired", !.live = FALSE]
<1>1. y \in RequestRecord
  BY RequestFields DEF RequestRecord
<1>2. /\ y.device = x.device /\ y.family = x.family /\ y.open = x.open
      /\ y.attempts = x.attempts /\ y.nonce = x.nonce /\ y.done = x.done
      /\ y.doneBy = x.doneBy /\ y.receipt = x.receipt /\ y.external = x.external
      /\ y.age = "expired" /\ y.live = FALSE
  BY RequestFields DEF RequestRecord
<1> HIDE DEF y
<1>3. Later(x, y)
  BY <1>1, <1>2, RequestFields DEF Later
<1> QED
  BY <1>1, <1>3 DEF y

LEMMA Lapsed ==
    ASSUME NEW x \in RequestRecord
    PROVE  /\ [x EXCEPT !.live = FALSE] \in RequestRecord
           /\ Later(x, [x EXCEPT !.live = FALSE])
<1> DEFINE y == [x EXCEPT !.live = FALSE]
<1>1. y \in RequestRecord
  BY RequestFields DEF RequestRecord
<1>2. /\ y.device = x.device /\ y.family = x.family /\ y.age = x.age
      /\ y.open = x.open /\ y.attempts = x.attempts /\ y.nonce = x.nonce
      /\ y.done = x.done /\ y.doneBy = x.doneBy /\ y.receipt = x.receipt
      /\ y.external = x.external /\ y.live = FALSE
  BY RequestFields DEF RequestRecord
<1> HIDE DEF y
<1>3. Later(x, y)
  BY <1>1, <1>2, RequestFields DEF Later
<1> QED
  BY <1>1, <1>3 DEF y

LEMMA Forgotten ==
    ASSUME NEW x \in RequestRecord
    PROVE  /\ [x EXCEPT !.receipt = FALSE] \in RequestRecord
           /\ Later(x, [x EXCEPT !.receipt = FALSE])
<1> DEFINE y == [x EXCEPT !.receipt = FALSE]
<1>1. y \in RequestRecord
  BY RequestFields DEF RequestRecord
<1>2. /\ y.device = x.device /\ y.family = x.family /\ y.age = x.age
      /\ y.open = x.open /\ y.attempts = x.attempts /\ y.nonce = x.nonce
      /\ y.live = x.live /\ y.done = x.done /\ y.doneBy = x.doneBy
      /\ y.external = x.external /\ y.receipt = FALSE
  BY RequestFields DEF RequestRecord
<1> HIDE DEF y
<1>3. Later(x, y)
  BY <1>1, <1>2, RequestFields DEF Later
<1> QED
  BY <1>1, <1>3 DEF y

LEMMA LaterSelf == ASSUME NEW x \in RequestRecord PROVE Later(x, x)
BY RequestFields DEF Later

\* A step that writes one row, or none.
LEMMA SameRows ==
    ASSUME request \in [Requests -> RequestRecord \cup {None}], request' = request
    PROVE  RowsGoOn
BY LaterSelf DEF RowsGoOn

LEMMA OneRow ==
    ASSUME request \in [Requests -> RequestRecord \cup {None}],
           NEW r \in Requests, request[r] # None,
           NEW x \in RequestRecord, Later(request[r], x),
           request' = [request EXCEPT ![r] = x]
    PROVE  RowsGoOn
<1>1. request' \in [Requests -> RequestRecord \cup {None}]
  OBVIOUS
<1>2. ASSUME NEW s \in Requests, request[s] # None
      PROVE  Later(request[s], request'[s])
  BY <1>2, LaterSelf
<1>3. ASSUME NEW s \in Requests, request[s] = None
      PROVE  request'[s] = None
  BY <1>3
<1> QED
  BY <1>1, <1>2, <1>3 DEF RowsGoOn

\* The new request is fresh and the open ones are withdrawn.
LEMMA StartRows ==
    ASSUME DeletionTypeOK, NEW d \in Devices, NEW f \in Families, Start(d, f)
    PROVE  RowsGoOn
<1> DEFINE q == CHOOSE r \in Requests : request[r] = None
           row == [device |-> d, family |-> f, age |-> "fresh", open |-> TRUE,
                   mailed |-> FALSE, attempts |-> 0, nonce |-> 0, live |-> FALSE,
                   done |-> FALSE, doneBy |-> None, receipt |-> FALSE,
                   external |-> "none", leased |-> FALSE]
<1>1. q \in Requests /\ request[q] = None
  BY DEF Start
<1>2. request' = [r \in Requests |->
        IF r = q THEN row
        ELSE IF request[r] = None THEN None
        ELSE [request[r] EXCEPT !.open = FALSE]]
  BY DEF Start
<1>3. row \in RequestRecord
  BY RenewalsAssumption DEF RequestRecord
<1>4. Fresh(row)
  BY DEF Fresh, Start, LockActiveUser
<1>5. ASSUME NEW r \in Requests, request[r] # None
      PROVE  request'[r] \in RequestRecord /\ Later(request[r], request'[r])
  BY <1>1, <1>2, <1>5, Withdrawn DEF DeletionTypeOK
<1>6. ASSUME NEW r \in Requests, request[r] = None
      PROVE  request'[r] \in {row, None}
  BY <1>2, <1>6
<1> QED
  BY <1>2, <1>3, <1>4, <1>5, <1>6 DEF RowsGoOn

\* Every step but the closing lets the rows of the requests go on.
LEMMA RowsStep ==
    ASSUME DeletionTypeOK, Served, [DeletionNext]_vars,
           \A c \in Calls : ~Confirms(c)
    PROVE  RowsGoOn
<1> USE DEF DeletionTypeOK
<1>1. ASSUME request' = request PROVE RowsGoOn
  BY <1>1, SameRows
<1>2. ASSUME NEW d \in Devices, NEW f \in Families, Start(d, f) PROVE RowsGoOn
  BY <1>2, StartRows
<1>3. ASSUME NEW r \in Requests, StartMails(r) PROVE RowsGoOn
  <2>1. PICK works \in BOOLEAN :
          request' = [request EXCEPT ![r].mailed = TRUE, ![r].open = @ /\ works]
    BY <1>3 DEF StartMails
  <2> DEFINE b == request[r].open /\ works
             y == [request[r] EXCEPT !.mailed = TRUE, !.open = b]
  <2>2. request[r] # None /\ request[r] \in RequestRecord
    BY <1>3 DEF StartMails
  <2>3. request' = [request EXCEPT ![r] = y]
    BY <2>1, <2>2 DEF RequestRecord
  <2>4. y \in RequestRecord /\ Later(request[r], y)
    BY <2>2, Mailed
  <2> QED
    BY <2>2, <2>3, <2>4, OneRow
<1>4. ASSUME NEW d \in Devices, NEW f \in Families, NEW r \in Requests,
             Renew(d, f, r)
      PROVE  RowsGoOn
  <2> DEFINE y == [request[r] EXCEPT !.nonce = @ + 1, !.live = TRUE]
  <2>1. request[r] # None /\ request[r] \in RequestRecord
    BY <1>4 DEF Renew
  <2>2. request' = [request EXCEPT ![r] = y]
    BY <1>4, <2>1 DEF Renew, RequestRecord
  <2>3. y \in RequestRecord /\ Later(request[r], y)
    BY <1>4, <2>1, Renewed DEF Renew
  <2> QED
    BY <2>1, <2>2, <2>3, OneRow
<1>5. ASSUME NEW c \in Calls, ConfirmsWrongCode(c) PROVE RowsGoOn
  <2> DEFINE r == call[c].body.request
             y == [request[r] EXCEPT !.attempts = @ + 1]
  <2>1. call[c].body \in Content
    BY <1>5 DEF ConfirmsWrongCode, CallRecord
  <2>2. r \in Requests /\ request[r] # None /\ request[r] \in RequestRecord
    BY <1>5, <2>1 DEF ConfirmsWrongCode, MayConfirm, Content
  <2>3. request' = [request EXCEPT ![r] = y]
    BY <1>5, <2>2 DEF ConfirmsWrongCode
  <2>4. y \in RequestRecord /\ Later(request[r], y)
    BY <2>2, Counted
  <2> QED
    BY <2>2, <2>3, <2>4, OneRow
<1>6. ASSUME NEW w \in Workers, NEW r \in Requests, Lease(w, r) PROVE RowsGoOn
  <2> DEFINE y == [request[r] EXCEPT !.leased = TRUE]
  <2>1. request[r] # None /\ request[r] \in RequestRecord
    BY <1>6 DEF Lease, Completed
  <2>2. y \in RequestRecord /\ Later(request[r], y)
    BY <2>1, Leased
  <2>3. request' = request \/ request' = [request EXCEPT ![r] = y]
    BY <1>6 DEF Lease
  <2> QED
    BY <1>1, <2>1, <2>2, <2>3, OneRow
<1>7. ASSUME NEW w \in Workers, NEW r \in Requests, Records(w, r) PROVE RowsGoOn
  <2> DEFINE b == pc[w] = "gone"
             y == [request[r] EXCEPT !.external =
                     IF @ = "pending" /\ b THEN "deleted" ELSE @]
  <2>1. request[r] # None /\ request[r] \in RequestRecord
    BY <1>7 DEF Records, Completed
  <2>2. b \in BOOLEAN /\ (b => provider = "gone")
    BY DEF Served
  <2>3. request' = [request EXCEPT ![r] = y]
    BY <1>7 DEF Records
  <2>4. y \in RequestRecord /\ Later(request[r], y)
    BY <2>1, <2>2, Recorded
  <2> QED
    BY <2>1, <2>3, <2>4, OneRow
<1>8. ASSUME NEW r \in Requests, AgeRequest(r) PROVE RowsGoOn
  <2> DEFINE y == [request[r] EXCEPT !.age = "valid"]
             z == [request[r] EXCEPT !.age = "expired", !.live = FALSE]
  <2>1. request[r] # None /\ request[r] \in RequestRecord
    BY <1>8 DEF AgeRequest
  <2>2. CASE request[r].age = "fresh" /\ request' = [request EXCEPT ![r] = y]
    BY <2>1, <2>2, Aged, OneRow
  <2>3. CASE request' = [request EXCEPT ![r] = z]
    BY <2>1, <2>3, Expired, OneRow
  <2>4. \/ request[r].age = "fresh" /\ request' = [request EXCEPT ![r] = y]
        \/ request' = [request EXCEPT ![r] = z]
    BY <1>8, <2>1 DEF AgeRequest, RequestRecord
  <2> QED
    BY <2>2, <2>3, <2>4
<1>9. ASSUME NEW r \in Requests, Lapses(r) PROVE RowsGoOn
  <2> DEFINE y == [request[r] EXCEPT !.live = FALSE]
             z == [request[r] EXCEPT !.receipt = FALSE]
  <2>1. request[r] # None /\ request[r] \in RequestRecord
    BY <1>9 DEF Lapses
  <2>2. CASE request' = [request EXCEPT ![r] = y]
    BY <2>1, <2>2, Lapsed, OneRow
  <2>3. CASE request' = [request EXCEPT ![r] = z]
    BY <2>1, <2>3, Forgotten, OneRow
  <2> QED
    BY <1>9, <2>2, <2>3 DEF Lapses
<1>10. ASSUME NEW r \in Requests, LeaseLapses(r) PROVE RowsGoOn
  <2> DEFINE y == [request[r] EXCEPT !.leased = FALSE]
  <2>1. request[r] # None /\ request[r] \in RequestRecord
    BY <1>10 DEF LeaseLapses, Completed
  <2>2. request' = [request EXCEPT ![r] = y]
    BY <1>10 DEF LeaseLapses
  <2>3. y \in RequestRecord /\ Later(request[r], y)
    BY <2>1, Leased
  <2> QED
    BY <2>1, <2>2, <2>3, OneRow
<1>11. ASSUME NEW c \in Calls,
              \/ \E body \in Content : CompleteArrives(c, body)
              \/ Admits(c) \/ ConfirmsRefused(c) \/ ReadsReceiptAgain(c)
              \/ Returns(c) \/ Dies(c)
       PROVE  request' = request
  BY <1>11 DEF CompleteArrives, Admits, ConfirmsRefused, ReadsReceiptAgain,
               Returns, Dies
<1>12. ASSUME \/ SessionStep \/ SignUpChecks \/ SignUpCreates \/ OperatorRetries
              \/ \E d \in Devices, f \in Families : SyncPush(d, f)
              \/ \E w \in Workers : ProviderDeletes(w) \/ ProviderFails(w)
       PROVE  request' = request
  BY <1>12 DEF SessionStep, SignUpChecks, SignUpCreates, OperatorRetries,
               SyncPush, ProviderDeletes, ProviderFails, deletionVars
<1>13. CASE UNCHANGED vars
  BY <1>1, <1>13 DEF vars, deletionVars
<1> QED
  BY <1>1, <1>2, <1>3, <1>4, <1>5, <1>6, <1>7, <1>8, <1>9, <1>10, <1>11,
     <1>12, <1>13 DEF DeletionNext

-----------------------------------------------------------------------------
(* The account, its sessions and the provider *)

\* A session stays that of its device, and a closed one stays closed.
FamiliesGoOn ==
    \A f \in Families : family[f] # None =>
        /\ family'[f] # None
        /\ family'[f].device = family[f].device
        /\ family'[f].open => family[f].open

\* Closing a session, or not, keeps its device.
LEMMA ClosedFamily ==
    ASSUME NEW x \in FamilyRecord
    PROVE  /\ [x EXCEPT !.open = FALSE] # None
           /\ [x EXCEPT !.open = FALSE].device = x.device
           /\ ~[x EXCEPT !.open = FALSE].open
           /\ [x EXCEPT !.open = FALSE, !.stale = TRUE] # None
           /\ [x EXCEPT !.open = FALSE, !.stale = TRUE].device = x.device
           /\ ~[x EXCEPT !.open = FALSE, !.stale = TRUE].open
<1>1. /\ [x EXCEPT !.open = FALSE] \in FamilyRecord
      /\ [x EXCEPT !.open = FALSE, !.stale = TRUE] \in FamilyRecord
  BY RowUpdates
<1> QED
  BY <1>1, RowAssumption DEF FamilyRecord

LEMMA FamiliesStep ==
    ASSUME SessionTypeOK, SessionNext
    PROVE  FamiliesGoOn
<1> USE DEF SessionTypeOK
<1>1. ASSUME NEW d, GrantFamily(d) PROVE FamiliesGoOn
  <2>1. PICK g \in Families :
          /\ family[g] = None
          /\ family' = [family EXCEPT ![g] =
               [device |-> d, open |-> TRUE, stale |-> FALSE]]
    BY <1>1 DEF GrantFamily
  <2> QED
    BY <2>1 DEF FamiliesGoOn
<1>2. ASSUME NEW g \in Families, ExpireFamily(g) PROVE FamiliesGoOn
  <2>1. family[g] \in FamilyRecord
    BY <1>2 DEF ExpireFamily
  <2>2. family' = [family EXCEPT ![g] = [family[g] EXCEPT !.open = FALSE]]
    BY <1>2 DEF ExpireFamily
  <2> QED
    BY <2>1, <2>2, ClosedFamily DEF FamiliesGoOn
<1>3. ASSUME NEW t, NEW p, RevokeDevice(t, p) PROVE FamiliesGoOn
  <2> SUFFICES ASSUME NEW f \in Families, family[f] # None
               PROVE  /\ family'[f] # None
                      /\ family'[f].device = family[f].device
                      /\ family'[f].open => family[f].open
    BY DEF FamiliesGoOn
  <2>1. family[f] \in FamilyRecord
    OBVIOUS
  <2>2. \/ family'[f] = [family[f] EXCEPT !.open = FALSE, !.stale = TRUE]
        \/ family'[f] = family[f]
    BY <1>3 DEF RevokeDevice
  <2> QED
    BY <2>1, <2>2, ClosedFamily
<1>4. ASSUME family' = family PROVE FamiliesGoOn
  BY <1>4 DEF FamiliesGoOn
<1>5. ASSUME NEW d \in Devices, NEW f \in Families,
             \/ RefreshChallenge(d, f) \/ Admit(d, f) \/ Refused(d, f)
             \/ \E t \in Devices, purpose \in {"device_rename", "device_revoke"} :
                  ManageChallenge(d, f, purpose, t)
             \/ \E p \in Proofs : RenameComplete(d, f, p)
      PROVE  family' = family
  BY <1>5 DEF RefreshChallenge, Admit, Refused, ManageChallenge, RenameComplete
<1>6. ASSUME NEW d \in Devices, LoginTrusted(d) \/ LoginUnknown(d)
      PROVE  family' = family
  BY <1>6 DEF LoginTrusted, LoginUnknown
<1>7. ASSUME NEW o \in Otps,
             \/ Resend(o) \/ Deliver(o) \/ DeliverFails(o) \/ AgeOtp(o)
             \/ EnrollmentChallenge(o) \/ EnrollWrongCode(o)
      PROVE  family' = family
  BY <1>7 DEF Resend, Deliver, DeliverFails, AgeOtp, EnrollmentChallenge,
              EnrollWrongCode
<1>8. ASSUME NEW p \in Proofs, RefreshComplete(p) \/ ExpireProof(p)
      PROVE  family' = family
  BY <1>8 DEF RefreshComplete, ExpireProof
<1>9. ASSUME NEW d \in Devices, LoginReviewer(d) PROVE FamiliesGoOn
  BY <1>1, <1>9 DEF LoginReviewer
<1>10. ASSUME NEW o \in Otps, NEW p \in Proofs, Enroll(o, p) PROVE FamiliesGoOn
  BY <1>1, <1>10 DEF Enroll
<1>11. ASSUME NEW p \in Proofs, Authenticate(p) PROVE FamiliesGoOn
  BY <1>1, <1>11 DEF Authenticate
<1>12. ASSUME NEW d \in Devices, NEW f \in Families, NEW p \in Proofs,
              RevokeComplete(d, f, p)
       PROVE  FamiliesGoOn
  BY <1>3, <1>12 DEF RevokeComplete
<1> QED
  BY <1>2, <1>4, <1>5, <1>6, <1>7, <1>8, <1>9, <1>10, <1>11, <1>12
     DEF SessionNext

\* What every step but the closing does outside the requests and the calls:
\* the row of the account stays as it is, its tables change only under a lock
\* that finds the row, and the provider's user does not come back.
AccountGoesOn ==
    /\ account' = account
    /\ remembered' = remembered
    /\ stored' \in BOOLEAN
    /\ account = "absent" => stored' = stored
    /\ \/ account # "absent" /\ SessionNext
       \/ /\ UNCHANGED <<playReviewUser, status, family, otp, proof, guesses>>
          /\ admitted' \subseteq admitted
    /\ provider' \in {provider, "gone"}
    /\ signup' \in {"idle", "checked"}

LEMMA AccountStep ==
    ASSUME DeletionTypeOK, Closing, [DeletionNext]_vars,
           \A c \in Calls : ~Confirms(c)
    PROVE  AccountGoesOn
<1> USE DEF DeletionTypeOK, AccountGoesOn
<1>1. ASSUME SessionStep PROVE AccountGoesOn
  BY <1>1 DEF SessionStep, LockActiveUser, deletionVars
<1>2. ASSUME NEW d \in Devices, NEW f \in Families,
             \/ SyncPush(d, f) \/ Start(d, f)
             \/ \E r \in Requests : Renew(d, f, r)
      PROVE  AccountGoesOn
  BY <1>2 DEF SyncPush, Start, Renew, LockActiveUser
<1>3. ASSUME SignUpChecks PROVE AccountGoesOn
  BY <1>3 DEF SignUpChecks, sessionVars
<1>4. ASSUME SignUpCreates PROVE AccountGoesOn
  BY <1>4 DEF SignUpCreates, sessionVars, Closing
<1>5. ASSUME NEW c \in Calls,
             \/ \E body \in Content : CompleteArrives(c, body)
             \/ Admits(c) \/ ConfirmsRefused(c) \/ ConfirmsWrongCode(c)
             \/ ReadsReceiptAgain(c) \/ Returns(c) \/ Dies(c)
      PROVE  AccountGoesOn
  BY <1>5 DEF CompleteArrives, Admits, ConfirmsRefused, ConfirmsWrongCode,
              ReadsReceiptAgain, Returns, Dies, sessionVars
<1>6. ASSUME OperatorRetries PROVE AccountGoesOn
  BY <1>6 DEF OperatorRetries, sessionVars
<1>7. ASSUME NEW w \in Workers,
             \/ ProviderDeletes(w) \/ ProviderFails(w)
             \/ \E r \in Requests : Lease(w, r) \/ Records(w, r)
      PROVE  AccountGoesOn
  BY <1>7 DEF ProviderDeletes, ProviderFails, Lease, Records, sessionVars
<1>8. ASSUME NEW r \in Requests,
             StartMails(r) \/ AgeRequest(r) \/ Lapses(r) \/ LeaseLapses(r)
      PROVE  AccountGoesOn
  BY <1>8 DEF StartMails, AgeRequest, Lapses, LeaseLapses, sessionVars
<1>9. CASE UNCHANGED vars
  BY <1>9 DEF vars, sessionVars, deletionVars
<1> QED
  BY <1>1, <1>2, <1>3, <1>4, <1>5, <1>6, <1>7, <1>8, <1>9 DEF DeletionNext

\* The sessions of an account that is not closed go on.
LEMMA SessionsStep ==
    ASSUME SessionTypeOK, SessionsNeedTrust, AccountGoesOn
    PROVE  /\ SessionTypeOK' /\ SessionsNeedTrust'
           /\ FamiliesGoOn
<1>1. CASE SessionNext
  BY <1>1, SessionTypeStep, TrustStep, FamiliesStep
<1>2. CASE /\ UNCHANGED <<playReviewUser, status, family, otp, proof, guesses>>
           /\ admitted' \subseteq admitted
  BY <1>2 DEF SessionTypeOK, SessionsNeedTrust, FamiliesGoOn
<1> QED
  BY <1>1, <1>2 DEF AccountGoesOn

-----------------------------------------------------------------------------
(* Refused for good *)

LEMMA HopelessIsRefused ==
    ASSUME DeletionTypeOK, NEW body \in Content, Hopeless(body), MayConfirm(body)
    PROVE  body.code # "right"
<1>1. account # "absent"
  BY DEF MayConfirm, LockActiveUser
<1>2. request[body.request] \in RequestRecord
  BY DEF MayConfirm, DeletionTypeOK, Content
<1>3. body.nonce \in Nat
  BY RenewalsAssumption DEF Content
<1> QED
  BY <1>1, <1>2, <1>3, RequestFields, AttemptsAssumption
     DEF Hopeless, MayConfirm, ActiveFamily

\* What was refused is refused for good.
LEMMA HopelessStays ==
    ASSUME DeletionTypeOK, RowsHaveSessions, AccountGoesOn, FamiliesGoOn,
           RowsGoOn, NEW body \in Content, Hopeless(body)
    PROVE  Hopeless(body)'
<1> DEFINE r == body.request
<1>1. r \in Requests /\ body.nonce \in Nat
  BY RenewalsAssumption DEF Content
<1>2. CASE account = "absent" \/ body.code = "wrong"
  BY <1>2 DEF Hopeless, AccountGoesOn
<1>3. CASE account # "absent" /\ request[r] # None
  <2>1. request[r] \in RequestRecord /\ request'[r] \in RequestRecord
    BY <1>1, <1>3 DEF DeletionTypeOK, RowsGoOn, Later
  <2>2. Later(request[r], request'[r])
    BY <1>1, <1>3 DEF RowsGoOn
  <2>3. family[request[r].family] # None
    BY <1>1, <1>3 DEF RowsHaveSessions
  <2>4. family'[request[r].family].open => family[request[r].family].open
    BY <2>1, <2>3, RequestFields DEF FamiliesGoOn
  <2> QED
    BY <1>1, <1>3, <2>1, <2>2, <2>4, RequestFields, AttemptsAssumption
       DEF Hopeless, Later
<1> QED
  BY <1>2, <1>3 DEF Hopeless

\* Whatever is refused under the lock, or before it for its session, is refused
\* for good: the session of a request can only be closed.
LEMMA RefusedIsHopeless ==
    ASSUME DeletionTypeOK, SessionsNeedTrust, RowsHaveSessions,
           NEW body \in Content, request[body.request] # None,
           body.nonce <= request[body.request].nonce,
           \/ ~ActiveFamily(body.device, body.family)
           \/ ~MayConfirm(body)
           \/ body.code = "wrong"
    PROVE  Hopeless(body)
<1> DEFINE row == request[body.request]
<1> SUFFICES ASSUME ~Hopeless(body) PROVE FALSE
  OBVIOUS
<1>1. row \in RequestRecord /\ body.nonce \in Nat
  BY RenewalsAssumption DEF DeletionTypeOK, Content
<1>2. /\ account # "absent" /\ body.code # "wrong"
      /\ row.device = body.device /\ row.family = body.family
      /\ row.open /\ row.age # "expired"
      /\ ~(row.nonce > body.nonce)
      /\ ~(row.nonce = body.nonce /\ ~row.live)
      /\ ~(row.attempts >= MaxAttempts)
      /\ family[row.family].open
  BY DEF Hopeless
<1>3. row.nonce = body.nonce /\ row.live /\ row.attempts < MaxAttempts
  BY <1>1, <1>2, RequestFields, AttemptsAssumption
<1>4. ActiveFamily(body.device, body.family)
  BY <1>1, <1>2, RequestFields
     DEF RowsHaveSessions, SessionsNeedTrust, ActiveFamily, Content
<1> QED
  BY <1>2, <1>3, <1>4 DEF MayConfirm, LockActiveUser

-----------------------------------------------------------------------------
(* The confirmations being served *)

Outbox == {"outbox", "calling", "gone", "failed"}
States == {"idle", "arrived", "lock", "again", "done"} \cup Outbox

\* The account was closed by a confirmation with this body.
ClosedBy(body) == \E r \in Requests : Completed(r) /\ request[r].doneBy = body

\* Where a confirmation goes, and what it holds then, in a step that does not
\* close the account.
GoesTo(c, state, x) ==
    \/ state = pc[c] /\ x = call[c]
    \/ state = "idle" /\ x = None
    \/ /\ pc[c] = "idle" /\ state = "arrived"
       /\ x \in CallRecord
       /\ request[x.body.request] # None
       /\ x.body.nonce <= request[x.body.request].nonce
    \/ pc[c] # "idle" /\ state = "lock" /\ x = call[c]
    \/ pc[c] # "idle" /\ state = "again" /\ x = call[c] /\ Hopeless(call[c].body)
    \/ /\ pc[c] # "idle"
       /\ state = "done"
       /\ \/ /\ x = [call[c] EXCEPT !.reply = "deleted"]
             /\ ClosedBy(call[c].body)
          \/ /\ x = [call[c] EXCEPT !.reply = "refused"]
             /\ Hopeless(call[c].body) /\ ~HasReceipt(c)
    \/ pc[c] \in Outbox /\ state \in Outbox /\ x = call[c]

CallsGoOn ==
    /\ pc' \in [Workers -> States]
    /\ call' \in [Calls -> CallRecord \cup {None}]
    /\ \A c \in Calls : GoesTo(c, pc'[c], call'[c])
    /\ \A w \in Workers : pc'[w] = "gone" => pc[w] = "gone" \/ provider' = "gone"

LEMMA Answered ==
    ASSUME NEW x \in CallRecord, NEW answer \in {"deleted", "refused"}
    PROVE  /\ [x EXCEPT !.reply = answer] \in CallRecord
           /\ [x EXCEPT !.reply = answer].body = x.body
           /\ [x EXCEPT !.reply = answer].reply = answer
BY DEF CallRecord

\* A step that moves one worker, or none.
LEMMA SameCalls ==
    ASSUME DeletionTypeOK, pc' = pc, call' = call
    PROVE  CallsGoOn
BY DEF CallsGoOn, GoesTo, DeletionTypeOK, States, Outbox

LEMMA OneCall ==
    ASSUME DeletionTypeOK, NEW c \in Calls,
           NEW state \in States, NEW x \in CallRecord \cup {None},
           pc' = [pc EXCEPT ![c] = state], call' = [call EXCEPT ![c] = x],
           GoesTo(c, state, x), state = "gone" => provider' = "gone"
    PROVE  CallsGoOn
<1> USE DEF DeletionTypeOK, Workers, States, Outbox
<1>1. /\ pc' \in [Workers -> States]
      /\ call' \in [Calls -> CallRecord \cup {None}]
  OBVIOUS
<1>2. pc'[c] = state /\ call'[c] = x
  OBVIOUS
<1>3. ASSUME NEW b \in Calls, b # c
      PROVE  GoesTo(b, pc'[b], call'[b])
  BY <1>3 DEF GoesTo
<1>4. \A w \in Workers : pc'[w] = "gone" => pc[w] = "gone" \/ provider' = "gone"
  OBVIOUS
<1> QED
  BY <1>1, <1>2, <1>3, <1>4 DEF CallsGoOn

LEMMA OperatorMoves ==
    ASSUME DeletionTypeOK, NEW state \in States,
           pc' = [pc EXCEPT ![Operator] = state], call' = call,
           state = "gone" => provider' = "gone"
    PROVE  CallsGoOn
<1> USE DEF DeletionTypeOK, Workers, States, Outbox
<1>1. pc' \in [Workers -> States]
  OBVIOUS
<1>2. ASSUME NEW b \in Calls
      PROVE  GoesTo(b, pc'[b], call'[b])
  BY OperatorAssumption DEF GoesTo
<1>3. \A w \in Workers : pc'[w] = "gone" => pc[w] = "gone" \/ provider' = "gone"
  OBVIOUS
<1> QED
  BY <1>1, <1>2, <1>3 DEF CallsGoOn

\* The state of a confirmation that is being served.
LEMMA ServedCall ==
    ASSUME DeletionTypeOK, NEW c \in Calls, pc[c] # "idle"
    PROVE  /\ call[c] \in CallRecord /\ call[c].body \in Content
           /\ call[c].body.request \in Requests
BY DEF DeletionTypeOK, CallRecord, Content

\* An exact repetition of the confirmation that closed the account is answered
\* from its receipt; when there is none the refusal is for good.
LEMMA AnswersGo ==
    ASSUME DeletionTypeOK, NEW c \in Calls, pc[c] # "idle",
           Hopeless(call[c].body),
           Replies(c, IF HasReceipt(c) THEN "deleted" ELSE "refused")
    PROVE  CallsGoOn
<1> DEFINE answer == IF HasReceipt(c) THEN "deleted" ELSE "refused"
           x == [call[c] EXCEPT !.reply = answer]
<1>1. call[c] \in CallRecord /\ call[c].body.request \in Requests
  BY ServedCall
<1>2. answer \in {"deleted", "refused"}
  OBVIOUS
<1>3. x \in CallRecord
  BY <1>1, <1>2, Answered
<1>4. HasReceipt(c) => ClosedBy(call[c].body)
  BY <1>1 DEF HasReceipt, ClosedBy
<1>5. GoesTo(c, "done", x)
  BY <1>4 DEF GoesTo
<1>6. pc' = [pc EXCEPT ![c] = "done"] /\ call' = [call EXCEPT ![c] = x]
  BY DEF Replies
<1>7. "done" \in States
  BY DEF States
<1> QED
  BY <1>3, <1>5, <1>6, <1>7, OneCall

\* An attempt at the outbox ends with its worker.
LEMMA OutboxGoes ==
    ASSUME DeletionTypeOK, Served, NEW w \in Workers, pc[w] \in Outbox,
           LeavesOutbox(w)
    PROVE  CallsGoOn
<1>1. CASE w = Operator
  BY <1>1, OperatorMoves DEF LeavesOutbox, States
<1>2. CASE w # Operator
  <2> DEFINE x == [call[w] EXCEPT !.reply = "deleted"]
  <2>1. w \in Calls /\ pc[w] # "idle"
    BY <1>2 DEF Workers, Outbox
  <2>2. ClosedBy(call[w].body)
    BY <2>1 DEF Served, ClosedBy, Outbox
  <2>3. x \in CallRecord
    BY <2>1, ServedCall, Answered
  <2>4. GoesTo(w, "done", x)
    BY <2>1, <2>2 DEF GoesTo
  <2>5. pc' = [pc EXCEPT ![w] = "done"] /\ call' = [call EXCEPT ![w] = x]
    BY <1>2 DEF LeavesOutbox, Replies
  <2>6. "done" \in States
    BY DEF States
  <2> QED
    BY <2>1, <2>3, <2>4, <2>5, <2>6, OneCall
<1> QED
  BY <1>1, <1>2

\* A worker goes on to another state of the attempt.
LEMMA OutboxMoves ==
    ASSUME DeletionTypeOK, NEW w \in Workers, pc[w] \in Outbox,
           NEW state \in Outbox,
           pc' = [pc EXCEPT ![w] = state], call' = call,
           state = "gone" => provider' = "gone"
    PROVE  CallsGoOn
<1>1. state \in States
  BY DEF States
<1>2. CASE w = Operator
  BY <1>1, <1>2, OperatorMoves
<1>3. CASE w # Operator
  <2>1. w \in Calls /\ pc[w] # "idle"
    BY <1>3 DEF Workers, Outbox
  <2>2. GoesTo(w, state, call[w])
    BY DEF GoesTo
  <2>3. call' = [call EXCEPT ![w] = call[w]]
    BY <2>1 DEF DeletionTypeOK
  <2>4. call[w] \in CallRecord \cup {None}
    BY <2>1 DEF DeletionTypeOK
  <2> QED
    BY <1>1, <2>1, <2>2, <2>3, <2>4, OneCall
<1> QED
  BY <1>2, <1>3

LEMMA CallsStep ==
    ASSUME DeletionTypeOK, SessionsNeedTrust, Closing, RowsHaveSessions, Served,
           [DeletionNext]_vars, \A c \in Calls : ~Confirms(c)
    PROVE  CallsGoOn
<1> USE DEF DeletionTypeOK
<1>1. ASSUME pc' = pc, call' = call PROVE CallsGoOn
  BY <1>1, SameCalls
<1>2. ASSUME NEW c \in Calls, NEW body \in Content, CompleteArrives(c, body)
      PROVE  CallsGoOn
  <2> DEFINE x == [body |-> body, reply |-> None]
  <2>1. x \in CallRecord
    BY DEF CallRecord
  <2>2. GoesTo(c, "arrived", x)
    BY <1>2, <2>1 DEF CompleteArrives, GoesTo
  <2>3. pc' = [pc EXCEPT ![c] = "arrived"] /\ call' = [call EXCEPT ![c] = x]
    BY <1>2 DEF CompleteArrives
  <2>4. "arrived" \in States
    BY DEF States
  <2> QED
    BY <2>1, <2>2, <2>3, <2>4, OneCall
<1>3. ASSUME NEW c \in Calls, pc[c] # "idle",
             NEW state \in {"lock", "again"},
             state = "again" => Hopeless(call[c].body),
             pc' = [pc EXCEPT ![c] = state], call' = call
      PROVE  CallsGoOn
  <2>1. GoesTo(c, state, call[c])
    BY <1>3 DEF GoesTo
  <2>2. call' = [call EXCEPT ![c] = call[c]]
    BY <1>3
  <2>3. state \in States /\ state # "gone"
    BY DEF States
  <2> QED
    BY <1>3, <2>1, <2>2, <2>3, OneCall
<1>4. ASSUME NEW c \in Calls, pc[c] # "idle",
             \/ account = "absent"
             \/ ~ActiveFamily(call[c].body.device, call[c].body.family)
             \/ ~MayConfirm(call[c].body)
             \/ call[c].body.code = "wrong"
      PROVE  Hopeless(call[c].body)
  <2>1. CASE account = "absent"
    BY <2>1 DEF Hopeless
  <2>2. CASE account # "absent"
    <3>1. /\ request[call[c].body.request] # None
          /\ call[c].body.nonce <= request[call[c].body.request].nonce
      BY <1>4, <2>2 DEF Served
    <3> QED
      BY <1>4, <2>2, <3>1, ServedCall, RefusedIsHopeless
  <2> QED
    BY <2>1, <2>2
<1>5. ASSUME NEW c \in Calls, Admits(c) PROVE CallsGoOn
  <2> DEFINE body == call[c].body
  <2>1. pc[c] # "idle" /\ body.request \in Requests
    BY <1>5, ServedCall DEF Admits
  <2>2. CASE request[body.request] = None \/ Completed(body.request)
    <3>1. account = "absent"
      BY <2>1, <2>2 DEF Closing, Served
    <3>2. Hopeless(body)
      BY <3>1 DEF Hopeless
    <3>3. Replies(c, IF HasReceipt(c) THEN "deleted" ELSE "refused")
      BY <1>5, <2>2 DEF Admits
    <3> QED
      BY <2>1, <3>2, <3>3, AnswersGo
  <2>3. CASE ~(request[body.request] = None \/ Completed(body.request))
    <3> DEFINE state == IF ActiveFamily(body.device, body.family)
                          THEN "lock" ELSE "again"
    <3>1. pc' = [pc EXCEPT ![c] = state] /\ call' = call
      BY <1>5, <2>3 DEF Admits
    <3>2. state \in {"lock", "again"}
      OBVIOUS
    <3>3. state = "again" => Hopeless(body)
      BY <1>4, <2>1
    <3> QED
      BY <1>3, <2>1, <3>1, <3>2, <3>3
  <2> QED
    BY <2>2, <2>3
<1>6. ASSUME NEW c \in Calls, ConfirmsRefused(c) \/ ConfirmsWrongCode(c)
      PROVE  CallsGoOn
  <2>1. /\ pc[c] # "idle"
        /\ ~MayConfirm(call[c].body) \/ call[c].body.code = "wrong"
        /\ pc' = [pc EXCEPT ![c] = "again"] /\ call' = call
    BY <1>6 DEF ConfirmsRefused, ConfirmsWrongCode
  <2>2. Hopeless(call[c].body)
    BY <1>4, <2>1
  <2> QED
    BY <1>3, <2>1, <2>2
<1>7. ASSUME NEW c \in Calls, ReadsReceiptAgain(c) PROVE CallsGoOn
  BY <1>7, AnswersGo DEF ReadsReceiptAgain, Served
<1>8. ASSUME NEW c \in Calls, Returns(c) \/ Dies(c) PROVE CallsGoOn
  <2>1. pc' = [pc EXCEPT ![c] = "idle"] /\ call' = [call EXCEPT ![c] = None]
    BY <1>8 DEF Returns, Dies
  <2>2. GoesTo(c, "idle", None)
    BY DEF GoesTo
  <2>3. "idle" \in States
    BY DEF States
  <2> QED
    BY <2>1, <2>2, <2>3, OneCall
<1>9. ASSUME OperatorRetries PROVE CallsGoOn
  BY <1>9, OperatorMoves DEF OperatorRetries, States, Outbox
<1>10. ASSUME NEW w \in Workers, NEW r \in Requests, Lease(w, r)
       PROVE  CallsGoOn
  <2>1. pc[w] \in Outbox
    BY <1>10 DEF Lease, Outbox
  <2>2. \/ LeavesOutbox(w)
        \/ pc' = [pc EXCEPT ![w] = "calling"] /\ call' = call
    BY <1>10 DEF Lease
  <2>3. "calling" \in Outbox
    BY DEF Outbox
  <2> QED
    BY <2>1, <2>2, <2>3, OutboxGoes, OutboxMoves
<1>11. ASSUME NEW w \in Workers, NEW r \in Requests, Records(w, r)
       PROVE  CallsGoOn
  BY <1>11, OutboxGoes DEF Records, Outbox
<1>12. ASSUME NEW w \in Workers, ProviderDeletes(w) PROVE CallsGoOn
  <2>1. /\ pc[w] \in Outbox /\ "gone" \in Outbox
        /\ pc' = [pc EXCEPT ![w] = "gone"] /\ call' = call
        /\ provider' = "gone"
    BY <1>12 DEF ProviderDeletes, Outbox
  <2> QED
    BY <2>1, OutboxMoves
<1>13. ASSUME NEW w \in Workers, ProviderFails(w) PROVE CallsGoOn
  <2>1. /\ pc[w] \in Outbox /\ "failed" \in Outbox
        /\ pc' = [pc EXCEPT ![w] = "failed"] /\ call' = call
    BY <1>13 DEF ProviderFails, Outbox
  <2> QED
    BY <2>1, OutboxMoves
<1>14. ASSUME NEW r \in Requests,
              StartMails(r) \/ AgeRequest(r) \/ Lapses(r) \/ LeaseLapses(r)
       PROVE  pc' = pc /\ call' = call
  BY <1>14 DEF StartMails, AgeRequest, Lapses, LeaseLapses
<1>15. ASSUME \/ SessionStep \/ SignUpChecks \/ SignUpCreates
              \/ \E d \in Devices, f \in Families :
                   \/ SyncPush(d, f) \/ Start(d, f)
                   \/ \E r \in Requests : Renew(d, f, r)
       PROVE  pc' = pc /\ call' = call
  <2>1. CASE SessionStep
    BY <2>1 DEF SessionStep, deletionVars
  <2>2. CASE SignUpChecks \/ SignUpCreates
    BY <2>2 DEF SignUpChecks, SignUpCreates
  <2>3. ASSUME NEW d \in Devices, NEW f \in Families, SyncPush(d, f)
        PROVE  pc' = pc /\ call' = call
    BY <2>3 DEF SyncPush, deletionVars
  <2>4. ASSUME NEW d \in Devices, NEW f \in Families, Start(d, f)
        PROVE  pc' = pc /\ call' = call
    BY <2>4 DEF Start
  <2>5. ASSUME NEW d \in Devices, NEW f \in Families, NEW r \in Requests,
               Renew(d, f, r)
        PROVE  pc' = pc /\ call' = call
    BY <2>5 DEF Renew
  <2> QED
    BY <1>15, <2>1, <2>2, <2>3, <2>4, <2>5
<1>16. CASE UNCHANGED vars
  BY <1>1, <1>16 DEF vars, deletionVars
<1> QED
  BY <1>1, <1>2, <1>5, <1>6, <1>7, <1>8, <1>9, <1>10, <1>11, <1>12, <1>13,
     <1>14, <1>15, <1>16 DEF DeletionNext

-----------------------------------------------------------------------------
(* The invariant *)

LEMMA InitInv == DeletionInit => DeletionInv
<1> SUFFICES ASSUME DeletionInit PROVE DeletionInv
  OBVIOUS
<1> USE DEF DeletionInit
<1>1. SessionTypeOK
  BY SessionInitType
<1>2. \A r \in Requests : request[r] = None /\ ~Completed(r)
  BY DEF Completed
<1>3. DeletionTypeOK
  BY <1>1, <1>2 DEF DeletionTypeOK, Workers
<1>4. SessionsNeedTrust
  BY DEF SessionInit, SessionsNeedTrust
<1>5. Closing /\ NothingIsLeft /\ RowsHaveSessions /\ RecordedIsGone
  BY <1>2 DEF Closing, NothingIsLeft, RowsHaveSessions, RecordedIsGone
<1>6. Served /\ AnswersAreTrue
  BY DEF Served, AnswersAreTrue, Workers
<1> QED
  BY <1>3, <1>4, <1>5, <1>6 DEF DeletionInv

\* While the account is not being closed, the rows that closed it are the same.
LEMMA SameClosed ==
    ASSUME DeletionTypeOK, RowsGoOn, NEW r \in Requests
    PROVE  /\ Completed(r)' <=> Completed(r)
           /\ Completed(r) => /\ request'[r].doneBy = request[r].doneBy
                              /\ request'[r].receipt => request[r].receipt
<1>1. CASE request[r] # None
  BY <1>1 DEF RowsGoOn, Later, Completed
<1>2. CASE request[r] = None
  BY <1>2 DEF RowsGoOn, Fresh, Completed
<1> QED
  BY <1>1, <1>2

LEMMA GoingOnType ==
    ASSUME DeletionTypeOK, AccountGoesOn, SessionTypeOK', RowsGoOn, CallsGoOn
    PROVE  DeletionTypeOK'
<1>1. \A r, s \in Requests : Completed(r)' /\ Completed(s)' => r = s
  BY SameClosed DEF DeletionTypeOK
<1>2. ASSUME NEW c \in Calls
      PROVE  IF pc'[c] = "idle" THEN call'[c] = None ELSE call'[c] \in CallRecord
  <2>1. GoesTo(c, pc'[c], call'[c])
    BY DEF CallsGoOn
  <2>2. pc[c] # "idle" =>
          /\ call[c] \in CallRecord
          /\ [call[c] EXCEPT !.reply = "deleted"] \in CallRecord
          /\ [call[c] EXCEPT !.reply = "refused"] \in CallRecord
    BY Answered, ServedCall
  <2>3. pc[c] = "idle" => call[c] = None
    BY DEF DeletionTypeOK
  <2> QED
    BY <2>1, <2>2, <2>3 DEF GoesTo, Outbox
<1>3. pc' \in [Workers -> {"idle", "arrived", "lock", "again", "done", "outbox",
                           "calling", "gone", "failed"}]
  BY DEF CallsGoOn, States, Outbox
<1>4. call' \in [Calls -> CallRecord \cup {None}]
  BY DEF CallsGoOn
<1>5. /\ account' \in {"present", "absent", "recreated"}
      /\ <<remembered', stored'>> \in BOOLEAN \X BOOLEAN
      /\ provider' \in {"present", "gone"}
      /\ signup' \in {"idle", "checked"}
  BY DEF AccountGoesOn, DeletionTypeOK
<1>6. request' \in [Requests -> RequestRecord \cup {None}]
  BY DEF RowsGoOn
<1> QED
  BY <1>1, <1>2, <1>3, <1>4, <1>5, <1>6 DEF DeletionTypeOK

LEMMA GoingOnRows ==
    ASSUME DeletionTypeOK, Closing, NothingIsLeft, RowsHaveSessions,
           RecordedIsGone, AccountGoesOn, FamiliesGoOn, RowsGoOn
    PROVE  /\ Closing' /\ NothingIsLeft'
           /\ RowsHaveSessions' /\ RecordedIsGone'
<1>1. Closing'
  BY SameClosed DEF Closing, AccountGoesOn
<1>2. NothingIsLeft'
  <2> SUFFICES ASSUME \E r \in Requests : Completed(r)
               PROVE  /\ ~stored'
                      /\ status' = [d \in Devices |-> "unknown"]
                      /\ family' = [f \in Families |-> None]
                      /\ otp' = [o \in Otps |-> None]
                      /\ proof' = [p \in Proofs |-> None]
                      /\ \A r \in Requests : request'[r] # None => Completed(r)'
    BY SameClosed DEF NothingIsLeft
  <2>1. account = "absent"
    BY DEF Closing
  <2>2. UNCHANGED <<status, family, otp, proof, stored>>
    BY <2>1 DEF AccountGoesOn
  <2>3. ASSUME NEW r \in Requests, request'[r] # None PROVE Completed(r)'
    <3>1. request[r] # None
      BY <2>1, <2>3 DEF RowsGoOn, Fresh
    <3> QED
      BY <3>1, SameClosed DEF NothingIsLeft
  <2> QED
    BY <2>2, <2>3 DEF NothingIsLeft
<1>3. RowsHaveSessions'
  <2> SUFFICES ASSUME NEW r \in Requests, request'[r] # None
               PROVE  /\ account' # "absent" =>
                           /\ family'[request'[r].family] # None
                           /\ family'[request'[r].family].device
                                = request'[r].device
                      /\ request'[r].external # "none" => request'[r].done
    BY DEF RowsHaveSessions
  <2>1. request'[r] \in RequestRecord /\ account' = account
    BY DEF RowsGoOn, AccountGoesOn
  <2>2. request'[r].family \in Families
    BY <2>1, RequestFields
  <2>3. CASE request[r] # None
    <3>1. Later(request[r], request'[r])
      BY <2>3 DEF RowsGoOn
    <3>2. /\ request'[r].device = request[r].device
          /\ request'[r].family = request[r].family
          /\ request'[r].done = request[r].done
          /\ request'[r].external # "none" => request[r].external # "none"
      BY <3>1 DEF Later
    <3> QED
      BY <2>1, <2>2, <2>3, <3>2 DEF RowsHaveSessions, FamiliesGoOn
  <2>4. CASE request[r] = None
    <3>1. Fresh(request'[r])
      BY <2>4 DEF RowsGoOn
    <3> QED
      BY <2>2, <3>1 DEF Fresh, ActiveFamily, FamiliesGoOn
  <2> QED
    BY <2>3, <2>4
<1>4. RecordedIsGone'
  <2> SUFFICES ASSUME NEW r \in Requests, request'[r] # None,
                      request'[r].external = "deleted"
               PROVE  provider' = "gone"
    BY DEF RecordedIsGone
  <2>1. CASE request[r] # None
    BY <2>1 DEF RowsGoOn, Later, RecordedIsGone, AccountGoesOn
  <2>2. CASE request[r] = None
    BY <2>2 DEF RowsGoOn, Fresh
  <2> QED
    BY <2>1, <2>2
<1> QED
  BY <1>1, <1>2, <1>3, <1>4

LEMMA GoingOnCalls ==
    ASSUME DeletionTypeOK, Closing, RowsHaveSessions, Served, AnswersAreTrue,
           AccountGoesOn, FamiliesGoOn, RowsGoOn, CallsGoOn
    PROVE  Served' /\ AnswersAreTrue'
<1>1. \A w \in Workers : pc'[w] = "gone" => provider' = "gone"
  BY DEF CallsGoOn, AccountGoesOn, Served
<1>2. ASSUME NEW body, ClosedBy(body) PROVE ClosedBy(body)'
  BY <1>2, SameClosed DEF ClosedBy
<1>3. ASSUME NEW c \in Calls, pc'[c] # "idle",
             NEW b \in Content, b = call'[c].body
      PROVE  /\ account' # "absent" =>
                  request'[b.request] # None /\ b.nonce <= request'[b.request].nonce
             /\ pc'[c] \in Outbox => ClosedBy(b)'
             /\ pc'[c] = "again" \/ (pc'[c] = "done" /\ call'[c].reply = "refused")
                  => Hopeless(b)'
             /\ pc'[c] = "done" /\ call'[c].reply = "deleted" => ClosedBy(b)'
             /\ pc'[c] = "done" /\ call'[c].reply = "refused" => ~HasReceipt(c)'
  <2>1. GoesTo(c, pc'[c], call'[c])
    BY DEF CallsGoOn
  <2>2. b.request \in Requests /\ b.nonce \in Nat
    BY RenewalsAssumption DEF Content
  <2>3. ASSUME request[b.request] # None, b.nonce <= request[b.request].nonce
        PROVE  /\ request'[b.request] # None
               /\ b.nonce <= request'[b.request].nonce
    <3>1. /\ request[b.request] \in RequestRecord
          /\ request'[b.request] \in RequestRecord
          /\ Later(request[b.request], request'[b.request])
      BY <2>2, <2>3 DEF RowsGoOn, DeletionTypeOK, Later
    <3> QED
      BY <2>2, <2>3, <3>1, RequestFields DEF Later
  <2>4. CASE pc[c] = "idle"
    <3>1. /\ pc'[c] = "arrived"
          /\ request[b.request] # None /\ b.nonce <= request[b.request].nonce
      BY <1>3, <2>1, <2>4 DEF GoesTo, Outbox
    <3> QED
      BY <2>3, <3>1 DEF Outbox
  <2>5. CASE pc[c] # "idle"
    <3>1. /\ call[c] \in CallRecord
          /\ [call[c] EXCEPT !.reply = "deleted"].body = call[c].body
          /\ [call[c] EXCEPT !.reply = "refused"].body = call[c].body
          /\ [call[c] EXCEPT !.reply = "deleted"].reply = "deleted"
          /\ [call[c] EXCEPT !.reply = "refused"].reply = "refused"
      BY <2>5, Answered, ServedCall
    <3>2. call[c].body = b
      BY <1>3, <2>1, <2>5, <3>1 DEF GoesTo
    <3>3. account # "absent" =>
            request[b.request] # None /\ b.nonce <= request[b.request].nonce
      BY <2>5, <3>2 DEF Served
    <3>4. pc'[c] \in Outbox => ClosedBy(b)
      BY <2>1, <2>5, <3>2 DEF GoesTo, Outbox, Served, ClosedBy
    <3>5. pc'[c] = "again" \/ (pc'[c] = "done" /\ call'[c].reply = "refused")
            => Hopeless(b)
      BY <2>1, <2>5, <3>1, <3>2 DEF GoesTo, Outbox, Served
    <3>6. pc'[c] = "done" /\ call'[c].reply = "deleted" => ClosedBy(b)
      BY <2>1, <2>5, <3>1, <3>2 DEF GoesTo, Outbox, AnswersAreTrue, ClosedBy
    <3>7. pc'[c] = "done" /\ call'[c].reply = "refused" => ~HasReceipt(c)
      BY <2>1, <2>5, <3>1, <3>2 DEF GoesTo, Outbox, AnswersAreTrue
    <3>8. ~HasReceipt(c) => ~HasReceipt(c)'
      BY <1>3, <2>2, <3>2, SameClosed DEF HasReceipt
    <3>9. Hopeless(b) => Hopeless(b)'
      BY HopelessStays
    <3>10. account' = account
      BY DEF AccountGoesOn
    <3> QED
      BY <1>2, <2>3, <3>3, <3>4, <3>5, <3>6, <3>7, <3>8, <3>9, <3>10
  <2> QED
    BY <2>4, <2>5
<1>4. ASSUME NEW c \in Calls, pc'[c] # "idle"
      PROVE  /\ (/\ account # "absent"
                   => /\ request[call[c].body.request] # None
                      /\ call[c].body.nonce <= request[call[c].body.request].nonce
                 /\ pc[c] \in Outbox => ClosedBy(call[c].body)
                 /\ pc[c] = "again" \/ (pc[c] = "done" /\ call[c].reply = "refused")
                      => Hopeless(call[c].body)
                 /\ pc[c] = "done" /\ call[c].reply = "deleted"
                      => ClosedBy(call[c].body)
                 /\ pc[c] = "done" /\ call[c].reply = "refused" => ~HasReceipt(c))'
  <2>1. PICK b \in Content : b = call'[c].body
    <3>1. GoesTo(c, pc'[c], call'[c])
      BY DEF CallsGoOn
    <3>2. pc[c] # "idle" =>
            /\ call[c].body \in Content
            /\ [call[c] EXCEPT !.reply = "deleted"].body = call[c].body
            /\ [call[c] EXCEPT !.reply = "refused"].body = call[c].body
      BY Answered, ServedCall
    <3> QED
      BY <1>4, <3>1, <3>2 DEF GoesTo, CallRecord, Outbox
  <2>2. ClosedBy(b)' => ClosedBy(call[c].body)'
    BY <2>1 DEF ClosedBy
  <2>3. Hopeless(b)' => Hopeless(call[c].body)'
    BY <2>1 DEF Hopeless
  <2> QED
    BY <1>3, <1>4, <2>1, <2>2, <2>3
<1> QED
  BY <1>1, <1>4 DEF Served, AnswersAreTrue, ClosedBy, Outbox

\* A step that does not close the account keeps the invariant.
LEMMA GoingOn ==
    ASSUME DeletionInv, [DeletionNext]_vars, \A c \in Calls : ~Confirms(c)
    PROVE  /\ DeletionInv'
           /\ AccountGoesOn /\ RowsGoOn
<1> USE DEF DeletionInv
<1>1. AccountGoesOn /\ RowsGoOn /\ CallsGoOn
  BY AccountStep, RowsStep, CallsStep
<1>2. SessionTypeOK' /\ SessionsNeedTrust' /\ FamiliesGoOn
  BY <1>1, SessionsStep DEF DeletionTypeOK
<1>3. DeletionTypeOK'
  BY <1>1, <1>2, GoingOnType
<1>4. Closing' /\ NothingIsLeft' /\ RowsHaveSessions' /\ RecordedIsGone'
  BY <1>1, <1>2, GoingOnRows
<1>5. Served' /\ AnswersAreTrue'
  BY <1>1, <1>2, GoingOnCalls
<1> QED
  BY <1>1, <1>2, <1>3, <1>4, <1>5

\* The request that closes an account is written, every other one goes.
LEMMA ClosingRow ==
    ASSUME DeletionTypeOK, NEW body \in Content, request[body.request] # None,
           CloseInternal(body)
    PROVE  /\ request' \in [Requests -> RequestRecord \cup {None}]
           /\ \A r \in Requests : Completed(r)' <=> r = body.request
           /\ \A r \in Requests : r # body.request => request'[r] = None
           /\ request'[body.request].doneBy = body
           /\ request'[body.request].external = "pending"
<1> DEFINE x == request[body.request]
           y == [x EXCEPT !.done = TRUE, !.open = FALSE, !.live = FALSE,
                          !.doneBy = body, !.receipt = TRUE,
                          !.external = "pending"]
<1>1. body.request \in Requests /\ x \in RequestRecord
  BY DEF Content, DeletionTypeOK
<1>2. y \in RequestRecord
  BY <1>1, RequestFields DEF RequestRecord
<1>3. y.done = TRUE /\ y.doneBy = body /\ y.external = "pending" /\ y # None
  BY <1>1, <1>2, RequestAssumption DEF RequestRecord
<1>4. \A r \in Requests : request'[r] = IF r # body.request THEN None ELSE y
  BY DEF CloseInternal
<1>5. request' \in [Requests -> RequestRecord \cup {None}]
  BY <1>2, <1>4 DEF CloseInternal
<1> QED
  BY <1>1, <1>3, <1>4, <1>5 DEF Completed

\* The closing of an account that is open, by a confirmation that is not
\* hopeless: no twin was told anything yet that it makes false.
LEMMA ClosingStep ==
    ASSUME DeletionInv, NEW c \in Calls, Confirms(c)
    PROVE  DeletionInv'
<1> USE DEF DeletionInv
<1>1. PICK body \in Content : body = call[c].body
  BY ServedCall DEF Confirms
<1>2. /\ MayConfirm(body) /\ body.code = "right" /\ CloseInternal(body)
      /\ pc[c] = "lock" /\ pc' = [pc EXCEPT ![c] = "outbox"]
      /\ UNCHANGED <<playReviewUser, admitted, guesses, call, provider, signup>>
  BY <1>1 DEF Confirms
<1>3. account = "present" /\ \A r \in Requests : ~Completed(r)
  BY <1>2 DEF MayConfirm, LockActiveUser, Closing
<1>4. /\ request' \in [Requests -> RequestRecord \cup {None}]
      /\ \A r \in Requests : Completed(r)' <=> r = body.request
      /\ \A r \in Requests : r # body.request => request'[r] = None
      /\ request'[body.request].doneBy = body
      /\ request'[body.request].external = "pending"
      /\ body.request \in Requests
  BY <1>2, ClosingRow DEF MayConfirm, Content
<1>5. /\ status' = [d \in Devices |-> "unknown"]
      /\ family' = [f \in Families |-> None]
      /\ otp' = [o \in Otps |-> None]
      /\ proof' = [p \in Proofs |-> None]
      /\ account' = "absent" /\ remembered' = TRUE /\ stored' = FALSE
  BY <1>2 DEF CloseInternal
<1>6. SessionTypeOK'
  BY <1>2, <1>5 DEF DeletionTypeOK, SessionTypeOK
<1>7. DeletionTypeOK'
  <2>1. pc' \in [Workers -> {"idle", "arrived", "lock", "again", "done",
                             "outbox", "calling", "gone", "failed"}]
    BY <1>2 DEF DeletionTypeOK
  <2>2. ASSUME NEW b \in Calls
        PROVE  IF pc'[b] = "idle" THEN call'[b] = None ELSE call'[b] \in CallRecord
    BY <1>2 DEF DeletionTypeOK, Workers
  <2>3. call' \in [Calls -> CallRecord \cup {None}]
    BY <1>2 DEF DeletionTypeOK
  <2>4. provider' \in {"present", "gone"} /\ signup' \in {"idle", "checked"}
    BY <1>2 DEF DeletionTypeOK
  <2> QED
    BY <1>4, <1>5, <1>6, <2>1, <2>2, <2>3, <2>4 DEF DeletionTypeOK
<1>8. SessionsNeedTrust' /\ Closing' /\ NothingIsLeft'
  BY <1>4, <1>5 DEF SessionsNeedTrust, Closing, NothingIsLeft
<1>9. RowsHaveSessions' /\ RecordedIsGone'
  BY <1>4, <1>5 DEF RowsHaveSessions, RecordedIsGone, Completed
<1>10. Served'
  <2>1. \A w \in Workers : pc'[w] = "gone" => provider' = "gone"
    BY <1>2 DEF Served, DeletionTypeOK
  <2>2. ASSUME NEW b \in Calls, pc'[b] \in Outbox
        PROVE  \E r \in Requests : Completed(r)' /\ request'[r].doneBy = call'[b].body
    <3>1. CASE b = c
      BY <1>1, <1>2, <1>4, <3>1
    <3>2. CASE b # c
      BY <1>2, <1>3, <2>2, <3>2 DEF Served, DeletionTypeOK, Outbox
    <3> QED
      BY <3>1, <3>2
  <2>3. ASSUME NEW b \in Calls PROVE Hopeless(call[b].body)'
    BY <1>5 DEF Hopeless
  <2> QED
    BY <1>5, <2>1, <2>2, <2>3 DEF Served, Outbox
<1>11. AnswersAreTrue'
  <2> SUFFICES ASSUME NEW b \in Calls, pc'[b] = "done"
               PROVE  /\ call'[b].reply # "deleted"
                      /\ call'[b].reply = "refused" => ~HasReceipt(b)'
    BY DEF AnswersAreTrue
  <2>1. pc[b] = "done" /\ call' = call
    BY <1>2 DEF DeletionTypeOK, Workers
  <2>2. call'[b].reply # "deleted"
    BY <1>3, <2>1 DEF AnswersAreTrue
  <2>3. ASSUME call[b].reply = "refused" PROVE call[b].body # body
    <3>1. Hopeless(call[b].body)
      BY <2>1, <2>3 DEF Served
    <3>2. Hopeless(body) => body.code # "right"
      BY <1>2, HopelessIsRefused
    <3> QED
      BY <1>2, <3>1, <3>2
  <2>4. ASSUME HasReceipt(b)' PROVE call'[b].body = body
    <3>1. call[b].body.request \in Requests
      BY <2>1, ServedCall
    <3> QED
      BY <1>4, <2>1, <2>4, <3>1 DEF HasReceipt
  <2> QED
    BY <2>1, <2>2, <2>3, <2>4
<1> QED
  BY <1>7, <1>8, <1>9, <1>10, <1>11

LEMMA DeletionStep == DeletionInv /\ [DeletionNext]_vars => DeletionInv'
<1> SUFFICES ASSUME DeletionInv, [DeletionNext]_vars PROVE DeletionInv'
  OBVIOUS
<1>1. CASE \E c \in Calls : Confirms(c)
  BY <1>1, ClosingStep
<1>2. CASE \A c \in Calls : ~Confirms(c)
  BY <1>2, GoingOn
<1> QED
  BY <1>1, <1>2

LEMMA DeletionCorrect == DeletionSpec => []DeletionInv
BY InitInv, DeletionStep, PTL DEF DeletionSpec

-----------------------------------------------------------------------------
(* The theorems *)

(* The tables, the confirmations and the workers keep their types: at most *)
(* one request ever closes the account.                                    *)
THEOREM DeletionTypeCorrect == DeletionSpec => []DeletionTypeOK
<1>1. DeletionInv => DeletionTypeOK
  BY DEF DeletionInv
<1> QED
  BY <1>1, DeletionCorrect, PTL

(* Once the account is closed, the database holds nothing of it and never  *)
(* will again, and the identity never gets another account: not from a     *)
(* handler admitted before, nor from a sign-in that was already checked.   *)
THEOREM ClosedStaysGone == DeletionSpec => []ClosedIsGone
<1>1. DeletionInv => ClosedIsGone
  BY DEF DeletionInv, Closing, IdentityStaysOut, ClosedIsGone
<1> QED
  BY <1>1, DeletionCorrect, PTL

(* "Deleted" is said of what is deleted and to whoever deleted it, and an  *)
(* exact repetition is never told otherwise while the receipt lasts,       *)
(* however many twins of a confirmation race each other.                   *)
THEOREM DeletedIsTold == DeletionSpec => []DeletedIsTrue
<1>1. DeletionInv => DeletedIsTrue
  BY DEF DeletionInv, DeletedIsTrue
<1> QED
  BY <1>1, DeletionCorrect, PTL

(* Only a session that is open, on a device trusted at that moment, closes *)
(* the account, under its own request that is still open.                  *)
THEOREM OwnerCloses == DeletionSpec => ClosedByItsOwner
<1>1. ASSUME DeletionInv, [DeletionNext]_vars,
             account = "present", account' = "absent"
      PROVE  \E r \in Requests :
                /\ Completed(r)'
                /\ request[r].open
                /\ ActiveFamily(request[r].device, request[r].family)
  <2>1. PICK c \in Calls : Confirms(c)
    BY <1>1, GoingOn DEF AccountGoesOn
  <2>2. PICK body \in Content : body = call[c].body
    BY <1>1, <2>1, ServedCall DEF Confirms, DeletionInv
  <2>3. MayConfirm(body) /\ CloseInternal(body)
    BY <2>1, <2>2 DEF Confirms
  <2>4. body.request \in Requests /\ Completed(body.request)'
    BY <1>1, <2>3, ClosingRow DEF MayConfirm, Content, DeletionInv
  <2> QED
    BY <2>3, <2>4 DEF MayConfirm
<1>2. DeletionInv /\ [DeletionNext]_vars =>
        [ (account = "present" /\ account' = "absent") =>
            \E r \in Requests :
               /\ Completed(r)'
               /\ request[r].open
               /\ ActiveFamily(request[r].device, request[r].family) ]_vars
  BY <1>1
<1> QED
  BY <1>2, DeletionCorrect, PTL DEF DeletionSpec, ClosedByItsOwner

(* The late failure of an attempt at the provider never unsettles an entry *)
(* that another attempt has settled.                                       *)
THEOREM SettledStays == DeletionSpec => OutcomeIsFinal
<1>1. ASSUME DeletionInv, [DeletionNext]_vars, NEW r \in Requests,
             request[r] # None, request[r].external = "deleted"
      PROVE  request'[r] # None /\ request'[r].external = "deleted"
  <2>1. \A c \in Calls : ~Confirms(c)
    BY <1>1 DEF Confirms, MayConfirm, LockActiveUser, DeletionInv, Closing,
                RowsHaveSessions, Completed
  <2>2. RowsGoOn
    BY <1>1, <2>1, GoingOn
  <2> QED
    BY <1>1, <2>2 DEF RowsGoOn, Later
<1>2. DeletionInv /\ [DeletionNext]_vars =>
        [ \A r \in Requests :
            (request[r] # None /\ request[r].external = "deleted") =>
                (request'[r] # None /\ request'[r].external = "deleted") ]_vars
  BY <1>1
<1> QED
  BY <1>2, DeletionCorrect, PTL DEF DeletionSpec, OutcomeIsFinal
=============================================================================
