----------------------------- MODULE MCAccounts -----------------------------
(***************************************************************************)
(* What a client keeps of its accounts, in parts that share no state, so   *)
(* that one run shows them: a behaviour is one of ClientAccounts           *)
(* (sessions), Entitlements (plans), AccountLease (lease) or               *)
(* AccountRecovery (recovery).                                             *)
(* ClientAccounts has two calls under way at once: on the desktop with two *)
(* accounts of the new sign-in, on Android with one of them of the former. *)
(***************************************************************************)
EXTENDS MCClientAccounts

CONSTANTS Accounts, NoAccount, Requests, LicenceLife, MaxNow, \* Entitlements
          MaxAsked, MaxChanges
CONSTANTS MaxTasks, Unresolved, None,                         \* AccountLease
          former1, former2, now1, now2, MaxReviews            \* AccountRecovery

\* A licence lasts some time; "local" is no account of the cloud.
ASSUME PlansAssumption == LicenceLife \in Nat /\ NoAccount \notin Accounts

\* Whose lease: an account's, the local data's, or not known yet; a refresh that
\* is under way is not none.
LeasePlaces == {"stored", "session", "confirm", "absent", "removing"}
ASSUME LeaseAssumption ==
    /\ {Local, Unresolved} \cap Accounts = {} /\ Local # Unresolved
    /\ None \notin [account : Accounts, at : LeasePlaces]

SlotsAreAlike == Permutations(Jobs) \cup Permutations(Accounts)

VARIABLES
    part,
    mobile, now, owner, signedIn, plan, gone, cache, until, stored, version,
    requests, writer, forgotten, licensed, asked, changes,
    listed, inUse, granted, tokens, lease, context, mounted, leaseError, run,
    removing, tasks,
    chosen, archived, flushed, unarchived, at, own, ledger, reviews, due,
    candidate, decision

Plans == INSTANCE Entitlements WITH active <- owner
Lease == INSTANCE AccountLease WITH
    Owners <- Accounts, active <- inUse, ready <- mounted, failed <- leaseError

\* One source has the address of an account in use, the other of both.
Sources == {former1, former2}
Targets == {now1, now2}
SameMail == {<<former1, now1>>, <<former2, now1>>, <<former1, now2>>}
Statuses == {"listed", "pending", "migrated", "empty", "separate"}

\* What the user decided of a source: how far it is, and what it has seen.
Decisions == [source : Sources, target : Targets, move : BOOLEAN,
              at : {"asked", "valid", "looked", "counted", "sent", "committed"},
              status : Statuses \cup {None}, found : Targets \cup {None},
              rows : BOOLEAN, taken : BOOLEAN]

\* An account is of one environment, and a decision under way is not none.
ASSUME RecoveryAssumption ==
    /\ Sources \cap Targets = {} /\ {Local, None} \cap (Sources \cup Targets) = {}
    /\ None \notin Decisions

Recovery == INSTANCE AccountRecovery WITH
    active <- chosen, status <- archived, failed <- unarchived

plansState == <<mobile, now, owner, signedIn, plan, gone, cache, until, stored,
                version, requests, writer, forgotten, licensed, asked, changes>>
leaseState == <<listed, inUse, granted, tokens, lease, context, mounted,
                leaseError, run, removing, tasks>>
recoveryState == <<chosen, archived, flushed, unarchived, at, own, ledger,
                   reviews, due, candidate, decision>>
allVars == <<part, vars, plansState, leaseState, recoveryState>>

ClientInit ==
    /\ Init /\ Plans!Init /\ Lease!Init /\ Recovery!Init
    /\ part \in {"sessions", "plans", "lease", "recovery"}
    /\ part # "sessions" => ~mixed /\ platform = "desktop"
    /\ part = "sessions" => mixed = (platform = "android")
    /\ part # "plans" => ~mobile /\ signedIn = {} /\ owner = NoAccount
    /\ part # "lease" => listed = {}
    /\ part # "recovery" => chosen = Local /\ \A s \in Sources : at[s] = s

ClientNext ==
    /\ UNCHANGED part
    /\ \/ /\ part = "sessions" /\ Next
          /\ UNCHANGED <<plansState, leaseState, recoveryState>>
       \/ /\ part = "plans" /\ Plans!Next
          /\ UNCHANGED <<vars, leaseState, recoveryState>>
       \/ /\ part = "lease" /\ Lease!Next
          /\ UNCHANGED <<vars, plansState, recoveryState>>
       \/ /\ part = "recovery" /\ Recovery!Next
          /\ UNCHANGED <<vars, plansState, leaseState>>

ClientSpec == ClientInit /\ [][ClientNext]_allVars

-----------------------------------------------------------------------------
\* Premium is shown while licensed, never for an account this device learnt is
\* deleted, and a late answer replaces no newer one (entitlements.ts).
PlansAreCurrent ==
    /\ [](Plans!PremiumIsLicensed /\ Plans!DeletedIsForgotten)
    /\ Plans!NewestAnswerStays

\* Once nothing is under way the credentials are those of listed accounts but
\* where a sign-in or the emptied list left them, and the token kept is the one
\* given last (AUTH_MIGRATION.md).
CredentialsAreKept == CredentialsLeft /\ RotationSurvives

\* On the phone, what is worked on is of the account in use and no account is
\* lost for a failed call (MobileAccountProvider.tsx); the rows of a former
\* environment are moved once, into an account without rows, as the user decided
\* (mobileAccountRecovery.ts).
DataFollowAccount == Lease!LeaseIsKept /\ Recovery!RecoveredOnce
=============================================================================
