# ScisoNomics: models, checks and proofs

ScisoNomics is a personal finance program: a desktop application (a Tauri window
over a local Python backend, "the sidecar", with its own SQLite file), an Android
application (the same TypeScript over SQLite on the phone), and a cloud backend
(FastAPI over PostgreSQL or SQLite) that keeps accounts, trusted devices,
subscriptions and a copy of the rows for the other devices.  Users edit offline and
change account at any moment; what is hard is everything that happens between an edit
and the moment all devices agree on it, and between a decision about an account and
the moment everything in flight obeys it.  These modules are about that.

`PROJECT.json` has the exact correspondence: for every definition the source lines it
stands for, for every run its properties, for every property a variant of the code
that breaks it, for every hazard the properties that watch it.

Paths are relative to the repository; `cloudSync.ts`, `lib.rs` and the like are under
`modern_app/frontend/`, `cloud/x.py` is `modern_app/cloud_backend/app/x.py`, the
sidecar is `modern_app/backend/app/main.py`.

## 1. Inventory

| Component | State | Operations | What makes it correct | Module |
|---|---|---|---|---|
| Cloud sync endpoints (`cloud/main.py`, `cloud/account_lifecycle.py`) | one row per record, with revision and last device | `POST /sync/push`, `GET /sync/pull` | revisions only grow; a write with a baseline overwrites nothing unseen; a movement never comes before its category | `CloudStore` |
| Phone push and pull (`mobileCloudPush.ts`, `mobileCloudPull.ts`, `mobileFinanceRepository.ts`) | SQLite rows with status, version, known revision; cursor | snapshot, preflight, two push phases, acknowledgement; pull in one transaction | no edit is lost; "synced" means uploaded; a lost answer is recognised | `MobileSync` |
| Desktop run (`cloudSync.ts`, the sidecar's `/sync/*`, `finance_app/services.py`) | SQLite rows, cursor, conflicts, rejections, contract version | pending, push, mark rejected, pull, apply, mark synced, save cursor, save contract | the same, as far as its simpler protocol goes | `DesktopSync` |
| Failures of a run (`cloudSync.ts`) | the request under way, the recorded failure, the session tests | every request of a run and every way it may fail, the retry after a 401, the classification | a failure is told of the side that failed, and carries the session of its own account | `SyncFailures` |
| Automatic synchronisation (`AutoSyncProvider.tsx`) | timers, start rounds, back-off, refused reason, `syncInFlight` | timers, events, `executeSync`, manual runs | runs never overlap; no change waits for ever | `AutoSync` |
| Application update (`appUpdater.ts`) | candidate and native resources | check, postpone, install, dispose | a resource in use is open; none is forgotten | `AppUpdater` |
| Closing round (`src-tauri/src/lib.rs`, `AutoSyncProvider.tsx`) | one completion signal, closer and preparer threads, listener, sidecar | close, prepare update, report, time out, stop | a closing window closes; no cut inside a critical section without need; no installer beside a backend | `AppClose` |
| Trusted devices (`cloud/device_sessions.py`) | devices, refresh families, mailed codes, challenges | login, codes, enrolment, refresh, rename, revoke, logout | what a revocation or a new code ends stays ended | `DeviceSessions` |
| Account deletion (`cloud/account_deletion.py`, `retry_account_deletion.py`, `supabase_bootstrap.py`) | requests, receipts, tombstones, outbox with lease | start, challenge, confirm, external deletion, retry, sign-up | closed once, by its owner, for good; the outside identity follows | `AccountDeletion` |
| Sessions of a client (`cloudAuth.ts`, `supabaseCloudAuth.ts`, `supabaseTokenStorage.ts`) | the stored list, tokens in memory, the native store and its queue per owner | sign-in, refresh, switch, removal, sign-out, restart | an account enters and leaves the list as the user asks; no late step restores what was removed or replaced | `ClientAccounts`, `AccountList` |
| Restoration of the sessions (`cloudAuth.ts`, `supabaseCloudAuth.ts`, `Sidebar.tsx`, `AccountPanel.tsx`) | hydration, shared refreshes, readers | hydrate, refresh, read, wake, delete what was refused | it comes to rest; nothing is called expired that nobody refused | `SessionRestore` |
| Sign-in with Google (`supabaseGoogleAuth.ts`, `supabaseOAuthStorage.ts`) | attempt, verifier, deep links, device code | begin, callback, cancel, expire, restart | two attempts never share a secret | `GoogleSignIn` |
| Entitlements of a client (`entitlements.ts`, `signedEntitlements.ts`) | cache, stored licence | load, sign-in, switch, delete, restart | the plan shown is the active account's, and licensed | `Entitlements` |
| Verification of a payment (`premiumAutoRefresh.ts`, `premiumBilling.ts`, `configuracion/page.tsx`) | generation, one flight, retry timer, payment state | focus, refresh, retry, payment dialogue, switch | what is published is its owner's; a payment is followed | `PremiumRefresh` |
| Purchases of the phone (`googlePlayBilling.ts`, `useMobilePremium.ts`) | runs, bound account, purchases of the store | buy, restore, store event, validate | what was paid reaches the account that bought it | `PlayBilling` |
| Reconciliation in the cloud (`cloud/google_play_billing.py`, `billing_*.py`) | purchase records, generations, archive, plan | claim, ask, store, acknowledge, archive | no late answer takes back what is known; premium only by a confirmed purchase | `PlayReconciliation` |
| Account of the phone's data (`MobileAccountProvider.tsx`, `mobileFinancialContext.ts`) | lease, published context, tasks | resolve, publish, end, mutate, remove | what is done is of the account it was begun under | `AccountLease` |
| Recovery of former rows (`mobileAccountRecovery.ts`, `mobileRecoveryState.ts`) | sources, ledger, status, rows | archive, inspect, migrate, keep apart | rows change hands once, as the user decided | `AccountRecovery` |
| Quick entry (`mobileQuickEntry.ts`, `useMobileQuickEntry.ts`, `QuickEntryQueue.kt`) | the native slot, the pending entry | tap, event, peek, consume, restart | a tap opens its form once at most | `QuickEntry` |
| Planning of the phone (`mobileSchedulingRepository.ts`, `mobilePlanningRepository.ts`) | scheduled rows, budgets, goals | mark as paid, cancel, rebuild, delete | one payment, one movement; a series goes on in turn, without twins; nothing hangs from what was deleted | `PhonePlanning` |
| Screens (`layout.tsx`, `BackendStartupGate.tsx`, `dashboard/page.tsx`, `http.ts`) | the mounted account, the loads under way, what is shown | switch, mount, load, answer, reload | the rows shown are of the account in use | `Screens` |

How they interact.  The window calls the sidecar over HTTP with a local token, and the
cloud with an access token; each sidecar call is one SQLite transaction, and a run of
`runSyncWithReason` is a chain of such calls that may break anywhere.  The phone has no
sidecar; it calls the cloud and its own SQLite.  Every cloud handler takes the lock of
the account's row (`lock_active_user`), but takes the timestamp it will write, and
checks the token, before the lock.  The native side of the window speaks to the
window's script with events and receives one answer through a shared signal.  Inside a
client everything shares memory and is suspended at each `await`: the account in use,
its tokens and its plan may be other ones when a call goes on, and most of the client's
modules are about what is tested again then.

Not modelled: the legacy Tk program, sums, reports, charts and forms (no state of their
own, or one user and one thread); hashing, signatures, canonical strings and the wording
of messages (a proof is good or it is not); legacy sign-in by password, reset tokens and
schema migrations; Mercado Pago's webhook, manual grants and paid-until dates; backup,
restore and export; `claim-local-data`, the merge of two categories under one name, the
test of the protected local service and the rehearsal of apply-remote; native token
storage, the OAuth listener and log filters.  `PROJECT.json` gives the reason for each.

## 2. Modules

Order of reading, and of composition (an arrow points to what is extended or
instantiated):

    SyncTime  <-  CloudStore  <-  MobileSync   <-  MCMobileSync  <- MCPhones
                       ^      <-  DesktopSync  <-  MCDesktopSync <- MCDesktops
    PhonePlanning, QuickEntry            <- MCPhones
    GoogleSignIn, PlayReconciliation     <- MCDesktops
    AutoSync
    AppUpdater <- AppClose;  Screens, SyncFailures     <- MCWindow
    DeviceSessions <- MCDeviceSessions
         ^---------- AccountDeletion
    AccountList <- ClientAccounts <- MCClientAccounts  <- MCAccounts
    Entitlements, AccountLease, AccountRecovery        <- MCAccounts
    PremiumRefresh, PlayBilling, SessionRestore        <- MCClientProgress

A definition named `X_Something`, right before `X`, is a variant of `X` with a bug
somebody could write; a comment says which.  No specification uses the variants: each
is there to show that some property notices it.

The MC modules with scenes or parts put systems that share no state into one run: a
behaviour is one of them, and the others keep their first state.

**SyncTime.**  Revisions and cursors are strings.  The cloud writes them with
microseconds, the sidecar rewrites them to the second with a "Z"; they are compared as
strings by the cloud and as instants by the sidecar.  A string is represented by its
place in the order of all such strings: an exact one at twice its instant, a cut one just
below the first exact one of the next second, because "Z" sorts after "." and "+".

**CloudStore.**  A request has four stations: sent, running (timestamp taken), done,
and abandoned by its client.  `Arrive` takes the timestamp, `RunPush`/`RunPull` are the
locked transactions, `ArriveLate`/`RunLate` the pushes whose client gave up and that
are executed nevertheless.  Pushes run one after the other, because the handler is an
`async def` without `await`; pulls run in the thread pool beside them.  The content of
a record is the *set of edits it descends from*: a subset relation then says "this
version knew that one", which is what conflicts are about.  A deletion is an edit like
any other (the protocol treats `deleted_at` as a field).  `CloudSpec` is the abstract
specification: the cloud with *any* clients that have one request per role under way.

**MobileSync.**  `push()` is `PushBegin` (snapshot), `Preflight`, `PhaseDone` for the
category phase and the movement phase, `Acknowledge`; `pull()` is `PullBegin`, then
`PullApply` or `PullRollback`.  `Edit` may come between any two of them.  `PushFail` and
`PullFail` are an exception, a time-out or the end of the process; their request may
still be executed.

**DesktopSync.**  One action per awaited call of the run; `RunFails` at any of them;
`Upgrade` is the deployment of a new contract, which makes the next run download
everything.  The history variables `dexact` and `dquiet` are read by properties only.

**SyncFailures.**  The same run seen from its requests: each goes to the local service
or the cloud and ends in one of the ways it may; the class of the failure, what the user
is told and the recorded row follow `classifySyncFailure`.  The session tests of the
settings page run beside it, and the user changes account.

**AutoSync.**  A step is what happens between two awaits of `executeSync`.  Delays are
not measured, an armed timer may fire at any time; a run itself is reduced to "read
pending, then succeed or fail".

**AppUpdater, AppClose.**  Two native waiters and the window share one signal that does
not say which round it answers.  All limits (6 s, 10 s in a critical section, 2 s for
the port) are steps that may come at any time.

**DeviceSessions.**  Each handler locks the user's row first and is one step; the check
of the token before the lock (`Admit`) and the mail after the commit (`Deliver`,
`DeliverFails`) are steps of their own.  Deadlines are free steps.  Only open challenges
are kept, since a used or invalidated one is refused for ever.  The account the server
is configured to treat as the store reviewer's enrols without a code; `ReviewModes` says
which of the two settings a run considers.

**AccountDeletion.**  Extends the former by requests, confirmations in several steps,
the one transaction that deletes everything, the receipt an identical confirmation may
be answered with, and the leased outbox for the identity at the login provider.
`Dies(c)` is the death of the server during a confirmation.

**ClientAccounts, AccountList.**  Two calls of any kind (sign-in, refresh, removal,
sign-out) suspended at their awaits over one list, one memory and one native store whose
operations are queued per owner; restarts.  `AccountList` is what the rest of the program
may rely on (an account is listed only by a sign-in, and the one in use changes only as
the user asks), and ClientAccounts is checked to implement it.

**SessionRestore.**  The desktop's hydration restores the remembered accounts one after
the other through the same shared refresh that pages ask for; readers wait for the
hydration, which waits for the refresh, which changes the list and so makes the next
hydration due.  A refusal deletes the token and then answers, which are two steps.

**GoogleSignIn.**  An attempt keeps its verifier in the native store; links arrive
late, twice, or in a program just started; a device that must be verified waits for a
code while other attempts begin.

**Entitlements, PremiumRefresh, PlayBilling.**  Each answer comes after the account may
have been switched: numbered requests, a generation and a single flight, and a bound
account are what tells stale answers apart.

**PlayReconciliation.**  A call claims a generation, asks Google outside of any
transaction, stores the answer if its claim is still the latest, and acknowledges; the
course of a purchase is a sequence of what Google would answer.

**AccountLease, AccountRecovery, QuickEntry, PhonePlanning.**  The phone: the lease under
which a page or an editor may touch data, the migration of a former account's rows with
a ledger that must agree with the rows, the widget's one slot, and the commands of the
planning, of which a payment is two steps and the others one.  A scheduled payment has a
due date, a frequency and what is paid (description and amount, one value); the next due
date is computed as the SQL does, by weeks, months and years, in a calendar whose months
are numbered on and whose every fourth year is a leap year, which is the real one from
1901 to 2099.

**Screens.**  A change of account is shown 90 ms later, when everything is mounted again;
until then the former screen is alive, and each kind of screen (plain, summary,
cancelling) drops late answers in its own way.

## 3. Runs

| Run | Question | Bounds, and why they suffice |
|---|---|---|
| `Phones` | do phones keep every edit and use the cloud as `CloudSpec` allows? are lost answers recognised? are payments and taps done once? | scenes: `race` (2 phones, 1 record, `RaceEdits` = 2, `RaceTicks` = 5 timestamps, 1 failed run: an edit during every phase of a push beside a pull and another phone's push), `rewrite` (3 edits in turns, 7 timestamps, no failure), `tables` (1 phone, a category and its movement, 3 edits, `TableTicks` = 6 timestamps, 1 failure), `planning` (1 category, 2 months of budgets, 4 forms, 3 rows, of which the third is one a payment made and ends the behaviour, 2 payments at a time), `entries` (2 taps); no push given up by its phone is still executed (`MaxLate` = 0, which `LostAnswerRecognised` needs): with them the theorems stand alone.  The forms are a monthly payment of the 31st, a yearly one of 29 February with the same description and amount (so that the one may be what follows the other), a weekly one whose week ends in the next month, and one that does not come back |
| `Desktops` | what does the desktop's protocol guarantee? do sign-in attempts stay apart? what of late answers of Google Play? | scenes: `pair` (2 desktops, 2 ticks per second so that revisions share a second, `PairEdits` = 2, `PairFails` = 1, `PairTicks` = 5, 1 late push), `contract` (1 desktop, 2 records, 2 contract versions, 2 edits, 2 failures, 7 timestamps, 1 late push), `google` (2 attempts, 1 code, 1 cancellation), `play` (2 purchases, one of which replaces the other, 2 reconciliations) |
| `MobileCursorGap` | **violated**: finding 1 | 1 edit, 2 phones |
| `DesktopLostEdit` | **violated**: finding 2 | 1 desktop, 2 edits |
| `DesktopStuckUpdate` | **violated**: finding 3 | 2 desktops, 2 edits, no failure at all |
| `RotationLost` | **violated**: finding 4 | 1 account, 1 call at a time |
| `AutoSync` | single flight; changes and start rounds are not forgotten | 2 suspended calls and a manual run: two is the least that can pass the first test of the flag together; one change is enough because a later one only makes `synced = changes` harder once |
| `Window` | closing and updating; screens and accounts; what is told of failures | `close`: 2 rounds (one may be stale), 2 answers of the updater (one replaces the other); `screens`: an account and the local owner, 2 months, 3 loads under way; `failures`: 2 accounts, one run beside the tests |
| `DeviceSessions` | revocation, replacement of codes, guesses | 2 devices, 2 sessions, 2 codes, 2 open challenges, 2 guesses; symmetric, since nothing here is liveness |
| `AccountDeletion` | deletion against everything else | 1 device and session, 2 requests, 2 confirmations, 1 challenge slot, 1 renewal, 1 guess; codes of enrolment are left to `DeviceSessions` (no slots), the reviewer's account brings the device back |
| `Accounts` | credentials, plans, the lease and the recovery of rows | `sessions`: 2 accounts, 2 calls under way, 4 calls in all (3 with an account of the former sign-in); `plans`: 2 accounts, 2 requests, 4 instants; `lease`: 2 accounts, 1 task; `recovery`: 2 sources and 2 targets that share addresses in every way, 1 review |
| `ClientProgress` | does what must end end? | `refresh`: 2 accounts, 2 activations, 2 returns; `play`: 1 purchase, 2 switches, 1 failure; `restore`: 2 accounts, 2 readers, 2 events (none when both accounts are there from the start: one event beside two restorations is in the two-event runs of one account that signs a second one in) |

Bounds are constants whose names begin with `Max`, `OtpsPerHour`, `LicenceLife`,
`ReturnLimit`, `AskedFor` (the purposes clients ask challenges for), and the sizes of the
sets.  The bounds of most runs are counters, so those systems end: `CHECK_DEADLOCK FALSE`
is for that, for the names of sessions that run out (`DeviceSessions`), for the process
that exits (`AppClose`) and for the account that is gone for good (`AccountDeletion`).
`AutoSync` is checked for deadlock.

What the properties say:

* *Phone.*  `SyncedWasUploaded`: a row shown as synced holds a content the cloud really
  stored.  `PendingSurvives`: push and pull never take an edit out of a pending row.
  `BaselinedWriteDescends`: a write that carries a baseline replaces another device's
  content only by one that descends from it.  `CloudReferences`: no movement of a
  category that the cloud does not hold.  `LostAnswerRecognised`: an upload whose answer
  was lost is recognised by the next run; its premise `MaxLate = 0` is needed, because a
  push that its phone gave up may be executed after that run has asked for the rows.
  `CloudSpec` as a property is the refinement.  `OneCallOneEffect`: a payment is charged
  once, and once more only after the user took it back (`ChargedOnce`); what was paid and
  comes back has its next payment, for as much, in that category and due in turn, unless
  the user edited either since (`SeriesGoOn`); no two generated payments that are pending
  are the same, however often one is taken back and paid again (`NoTwins`); nothing hangs
  from what was deleted (`NothingHangs`); a tap opens its form once.
* *Desktop.*  The sidecar applies a newer revision to pending rows too, so the phone's
  guarantees do not hold.  What does: `QuietSyncedWasUploaded` (a user who does not edit
  during a run loses nothing, whatever fails), `ForeignOverwriteIsRecorded` (an
  overwritten local change is in `sync_conflicts` or in the rejections),
  `CursorAdvancesOverBatch` (the cursor is saved after the batch), `RevisionsGrow`, and
  for one desktop `ContractChangeCatchesUp`.  The last is *not* true with a second
  desktop, nor when a push that the desktop itself gave up on has its timestamp before the
  download and commits after it, for the reason of finding 1: the scene excludes that one
  step (`NoPushStraddles`).  `AttemptsStayApart` and `EvidenceIsKept` are of the other scenes.
* *Window.*  `SingleFlight`, `EditsReachCloud`, `StartupSettles`; `UpdateIsHeld`,
  `CriticalProtected`, `InstallIsPrepared`, `CloseCompletes`; `ScreensAreTheAccounts`,
  `FailuresAreTold`.
* *Account, in the cloud.*  `SessionsNeedTrust`, `ReplacedIsDead`, `GuessesBounded`;
  `ClosedIsGone`, `DeletedIsTrue`, `ClosedByItsOwner`, `OutcomeIsFinal`,
  `IdentityEventuallyGone`.
* *Account, in the client.*  `AccountsSpec` (the refinement), `ProviderStays`,
  `PlansAreCurrent`, `DataFollowAccount`; `PaymentIsFollowed`, `PurchaseReachesAccount`,
  `SessionsAreRestored`.  `CredentialsAreKept`, in a window without an account of the
  former sign-in: once no call is about an account and no clean-up of it failed or was cut
  short (`incomplete`), a token in the native store is of an account to be remembered, an
  access token is of a listed one, and on the desktop the token in the store is the one the
  provider gave last.  The document promises the first without exception, and that is
  false (the observation on signing out in section 4); the history variable `overlooked` has the
  accounts of which the code really leaves something, and no others: those of a sign-in
  that saved its token and was then refused, while nobody else was about to delete it, and
  those with something under way when `clearAllAccounts` writes the empty list over them.
  A later sign-in that succeeds takes an account out of it.

### Fairness

* `AutoSync`: weak fairness of the timers and of every suspended call, because
  JavaScript runs every callback and every request ends by answer or time-out; strong
  fairness of obtaining a token, of taking the flag, of reading and of succeeding, that
  is, services do not fail for ever and manual runs do not win every race.
* `AppClose`: weak fairness of the closer thread only: each of its waits has a limit
  (`wait_timeout`).  Nothing is assumed of the window.
* `AccountDeletion`: the operator runs `retry_account_deletion.py` again and again and it
  goes on, thirty seconds pass, the provider is not unreachable for ever.  Nothing is
  assumed of the server's own attempts, which may all die.  The provider's time-out of
  8 s is per phase of the request, so the lease of 30 s may end while an attempt is
  still under way; `OutcomeIsFinal` is about that.
* `PremiumRefresh`: weak fairness of the steps of a verification and of a payment: an
  awaited call ends, and an armed retry fires.
* `PlayBilling`: for each account, the program comes to the foreground again and again
  while that account is active (`Foreground`), and a run goes on (`Progress`).
* `SessionRestore`: weak fairness of what goes on by itself (`Progress`): calls of the
  store, the provider and the cloud end, by an answer or by their limit of time.
* The synchronisation modules and the others assume no fairness and state safety only.

## 4. Findings

1. `MobileCursorGap` (also seen on the desktop).  `sync_push` takes the revision it will
   write before it waits for the account's lock (`cloud/main.py:2278`).  A pull that
   takes its cursor later and gets the lock first returns a cursor above a revision that
   is committed only afterwards.  Incremental pulls ask for later revisions only, so
   the row does not reach that device until it is edited again.
2. `DesktopLostEdit`.  A desktop run downloads its own upload again, with a newer
   revision.  If the user edited the row since, `_apply_simple_remote` replaces the edit
   (sidecar 3239).  The run may then fail: the README's "los cambios quedan guardados
   localmente y pendientes" does not hold for that edit.
3. `DesktopStuckUpdate`.  The sidecar stores the cloud's revision without its fraction
   and sends that as the baseline.  It never equals the cloud's string, so an edit of a
   row last written by another device is rejected as "actualizado por otro
   dispositivo", though it was made on that very version.
4. `RotationLost`.  On Android a rotated refresh token is kept in memory only while the
   cloud is asked for the grant (`supabaseCloudAuth.ts:373`), where `AUTH_MIGRATION.md`
   says it is stored before.  A program that ends in between starts with a token the
   provider has already replaced.

Smaller observations, not stated as properties:

* *Signing out.*  A removal of an account is under way, a sign-in of the same account
  is begun whose save waits behind the removal's deletion, and the account is signed out.
  The removal ends and takes the account off the list; the sign-in saves its token, finds
  that its session was replaced and throws without deleting what it saved
  (`supabaseCloudAuth.ts:191`); `signOut`, which sees that the account is not listed any
  more, answers `ok: true` without asking for a deletion (line 425).  `AUTH_MIGRATION.md`
  (117, 122) says the local clean-up works and that an incomplete one is told with
  `ok=false`.  Every call succeeded, and the native store keeps a refresh token of an
  account that is not listed.  `ClientAccounts` has this behaviour (one account, three
  calls at a time, four in all): it is what `overlooked` takes out of `CredentialsLeft`.
* *Synchronisation.*  A client that sends no baseline skips the conflict test
  (`cloud/main.py:1421`, deliberate for old clients).  A phone whose upload was stored
  without an answer, and whose user edited again, is told of a conflict with another
  device (`mobileCloudPush.ts:112`).  An automatic call that finds another run in flight
  sets the five-minute back-off though nothing failed (`cloudSync.ts:1979`,
  `AutoSyncProvider.tsx:91`), and a reason refused during a manual run is not tried when
  that run ends.  The closing listener clears the start timer, which an aborted update
  does not bring back (`AutoSyncProvider.tsx:264`).  A report of a closing round does not
  say which round, so an update may go on with the answer of an earlier request that was
  still working (`lib.rs:742`).
* *Failures.*  `return parseResponse(...)` without `await` (`cloudSync.ts:685`, `720`)
  makes the `catch` around it dead code; a local service that answers "preparing" is
  classified as needing repair; the retry after a 401 in `testCloudSession` may use the
  token of the account that is active by then; the body of an answer has no time limit;
  the date of the last synchronisation is set before the cursor is saved.
* *Screens.*  A switch to another account and back within 90 ms leaves the first timer
  armed (`layout.tsx:133-147`); on plain screens the last answer wins; `http.ts` takes
  the owner of a request after it awaited the token.
* *Sessions.*  A desktop refresh superseded by a new sign-in writes
  "saved_without_token" over the fresh sign-in's state, and readers that were waiting are
  told to sign in again until the next event; the next hydration overwrites "rejected"
  with "missing"; a later network failure hides that a rotated token could not be saved;
  a deleted account (410) is treated as a failure worth retrying; a removal inside a
  refresh may remove a sign-in that came during its await.
* *Google Play.*  `docs/GOOGLE_PLAY_BILLING.md:141` says that earlier answers are
  discarded by generation; a notification of a purchase that is not recorded asks Google
  before it claims (`google_play_billing.py:134-140`, `165`), so its older answer may
  replace a newer one.  `KnownStays` excepts exactly that.
* *Phone.*  The monthly due day drifts after a short month (31 January, 28 February,
  28 March); a payment cancelled while it is being paid may be paid; keeping a source
  apart does not look at the ledger; a tap consumed just before the account changes is
  lost (never doubled).

## 5. Proofs

TLC decides small instances; these theorems hold for every value of the constants,
under the named assumptions of the modules (`CloudAssumption`, `TicksAssumption`,
`PhonesAssumption`, `DesktopsAssumption`, `RowAssumption`, `RequestAssumption`,
`ViewedAssumption`, `FailureAssumption`, `JobsAssumption`, `PlansAssumption`, `LeaseAssumption`,
`RecoveryAssumption`, `PlayAssumption`, `LoneAssumption` and the like), which say what shape a constant has, or that two
markers are different, and no more.  Every invariant below was first given to TLC as an invariant of the runs.

The proofs are in modules of their own:

    SyncTime <- CloudStore <- CloudStore_proofs <- MobileSync_proofs
                                                <- Desktops_proofs
    MCDesktops <- Desktops_proofs  (DesktopSync, PlayReconciliation, GoogleSignIn)
    AutoSync <- AutoSync_proofs
    MCWindow <- Window_proofs      (AppUpdater, AppClose, Screens, SyncFailures)
    MCAccounts <- Accounts_proofs  (ClientAccounts, Entitlements, AccountLease,
                                    AccountRecovery)
    AccountDeletion <- AccountDeletion_proofs   (DeviceSessions, AccountDeletion)
    MCPhones <- Phones_proofs      (PhonePlanning, QuickEntry)

**`CloudStore_proofs`.**  `CloudTypeCorrect`, and `RevisionsOnlyGrow` for the cloud under
*any* clients.  The invariant: one push is executed at a time (`OneAtATime`), and the
one being executed took its timestamp after every row was written
(`ExecutingIsNewest`), so what it writes is above what it replaces.  The module also has
the lemmas both kinds of client need: what a send, an abandonment and an execution
leave alone, and that what a request is answered with was stored (`CloudKept`).

**`MobileSync_proofs`.**  `MobileImplementsCloud` (every step of the phones is a step of
`CloudSpec` or leaves the cloud alone), from which `MobileRevisionsGrow` follows;
`MobileTypeCorrect`; `EditsSurvive` (`PendingSurvives`); `SyncedMeansUploaded`.  The last
needs a strengthening: `SyncedWasUploaded` alone is not inductive, because a row becomes
synced long after it was sent.  The chain is: the snapshot holds the row's content as
long as the version is the same (`Snapshot`); what is sent is in the snapshot
(`SentIsSnapshot`); what the cloud accepted was stored (`AcceptedKept`); what is to be
acknowledged was accepted (`AckedKept`); rows of the cloud and of answers were stored
(`CloudKept`, `PulledKept`).

Three more rest on who knows what of a row.  `MovementsComeAfter` (`CloudReferences`) and
`BaselinesProtect` (`BaselinedWriteDescends`) need `Follows`: a revision that a phone, a
request or an answer holds of a row is at most the cloud's, and where it is the cloud's
the content held with it has every edit of the cloud's (`Saw`); and whoever is about to
send a movement, a push given up included, knows that the cloud has its category (`Led`).
`RetriesAreRecognised` (`LostAnswerRecognised`) needs `Recognised`: what each station of a
run knows of a row whose upload succeeded without an answer (`Told`), from the preflight,
which finds the row in the cloud, to the acknowledgement.

**`Desktops_proofs`.**  Of the synchronisation: `DesktopTypeCorrect`, `DesktopImplementsCloud` (the refinement of
`CloudSpec`, step by step) and `DesktopRevisionsGrow`; `QuietRowsAreUploaded`
(`QuietSyncedWasUploaded`), `CursorFollowsRows` (`CursorAdvancesOverBatch`) and
`OverwritesAreRecorded` (`ForeignOverwriteIsRecorded`).  The types already need an argument:
the cloud's strings and the sidecar's second-long rewritings are different numbers, and
which of the two a place holds depends on where in a run the desktop is, so the type
of a run goes by its phase.  The invariant `DeskInv` adds, for each desktop: the lists
read at the start of a run hold pending rows only (`Batches`); a row with a local change
that is about to be overwritten is in the recorded conflicts or in the rejections
(`Recorded`); what the cursor will be set to was answered together with the batch that
has just been applied (`Known`, `Applied`); and, for a desktop whose user did not edit
during the run, what was sent is what the rows hold, so that those marked at the end
were stored (`Uploaded`).  The last is false of a desktop that is not quiet: that is
finding 2.

Of the lone desktop of the scene `contract`: `RenewalsCatchUp` (`ContractChangeCatchesUp`),
for any number of records, edits, deployed contracts, failed runs and late pushes, which
only the constants of `CloudStore` and `DesktopSync` bound; what the scene excludes is
`NoPushStraddles`, a late push whose timestamp is before the download and that commits
after it.  Beside `DeskInv` it needs that nobody else has a call under way (`Alone`); that
whatever still commits gets a revision above what was downloaded, so the cloud does not
move below it (`Timely`); and what a run that will record another contract has fetched at
each station: no cursor was sent with its pull, the answer and then the batch hold every
row up to the new cursor, and at the end the rows do
(`Renewing`).  `LoneAssumption` says that the device of that scene is a desktop.

Of the purchases: `EvidenceStays` (`EvidenceIsKept`), for any accounts and two
reconciliations at a time of two purchases.  `PlayInv` says that what is recorded of a
purchase was so at Google, and that its owner is the buyer while the buyer's account is
open (`RecordOK`); that a reconciliation holds an answer Google gave, acts for the buyer
once it may write, and where it found no account the purchase is recorded or the account
was closed (`CallOK`); and that the plan of every account is the one its records give.
What the cloud answers when calls overtake each other rests on `NotOlder`: as long as a
call is the latest to have claimed a purchase nobody else writes it, so the answer which
that call asked for afterwards is not older than the record.

Of the sign-in: `AttemptsApart` (`AttemptsStayApart`), for any number of attempts, links,
cancellations and restarts.  Its three parts hold for reasons that lie in the queue of
the native store, so `GoogleInv` is mostly about the calls that wait there (`QueueGood`):
a save is of an attempt that waits for it, and unless the attempt is the current one a
deletion comes after it (`SavesOK`, `CleanedOK`), so no verifier is left behind; one call
at most is of the link, and it is the one the link waits for (`LinksOK`); a cancellation
does not name an attempt whose verifier was sent or is about to be (`CancelsOK`), so it
cannot dispose a client in use.  Beside the queue: a verifier was sent at most once, and
is then not in the store, and a link that reached the exchange is of that attempt
(`OnceOK`); every client in use, or kept to be put back, is of an attempt that was
exchanged, and those are apart from the one the link is about to use (`ClientsOK`,
`VerifyOK`).  The invariant showed a mistake of the model: an attempt could take the
answer to another attempt's save as its own, which the promise of the code does not allow.

**`AutoSync_proofs`.**  `AutoSyncTypeCorrect`, and `RunsNeverOverlap` (`SingleFlight`) for any
number of suspended calls.  It is inductive together with the types.

**`AccountDeletion_proofs`.**  Of the sessions and codes: `SessionTypeCorrect`; `OpenSessionsAreTrusted` (`SessionsNeedTrust`);
`GuessesAreBounded`, through "the row's counter equals the guesses made", which is what
the explicit commit before the error answer is for; and `ReplacedStaysDead`
(`ReplacedIsDead`): a code that was replaced is never the current one again.  It needs to
know of every code mailed or still to be mailed that it was issued, and of every
current one that it was not replaced (`ReplacedInv`).

Of the account's end: `DeletionTypeCorrect`; `ClosedStaysGone` (`ClosedIsGone`: after
the deletion nothing of the account is there and nothing comes back, whatever was under
way); `DeletedIsTold` (`DeletedIsTrue`: who is told "deleted" is told the truth);
`OwnerCloses` (`ClosedByItsOwner`) and `SettledStays` (`OutcomeIsFinal`).  The invariant
`DeletionInv` joins the types, `SessionsNeedTrust`, what holds between the end of the
transaction and its answer (`Closing`), that a closed account has no rows, sessions or
challenges (`NothingIsLeft`, `RowsHaveSessions`), that a body with a receipt belongs to the
account's end (`Served`, `RecordedIsGone`) and that the answers given are true
(`AnswersAreTrue`).  Two facts carry it: only the last step of a confirmation closes an
account, and a confirmation that began with bad evidence never gets better
(`HopelessStays`).

**`Window_proofs`.**  One inductive invariant for each part of the window, and
`WindowIsSafe` for the window as `MCWindow` composes it.  `CloseInv` gives
`CloseTypeCorrect`, `UpdatesAreHeld` (`UpdateIsHeld`), `CriticalsAreProtected`
(`CriticalProtected`) and `InstallsArePrepared` (`InstallIsPrepared`).  It says that the
open resources are the candidate, or the update about to take its place, and that no
check runs beside an installation (`Owned`); that, while nobody insisted, one listener
at most is active, and one is only while the preparation waits for it, before a close
(`OneRound`); that a synchronisation which was in flight when the native side asked keeps
every listener, and so both native waiters, waiting (`EarlyIsAwaited`); and that a signal
of success was answered since the preparation began (`IsPrepared`).  Without `OneRound` the
third is not inductive: the listener of an earlier round would report for this one.
`ViewsInv` gives `ScreensFollowAccounts` (`ScreensAreTheAccounts`): nothing of a former
screen is left behind the gate (`Behind`); unless the user hurried back, either the timer
holds the account in use or every load is of it (`Mounted`); the last load of a screen
that discards older answers is of what it should show, and without one it shows that or
says that it could not (`Discards`).  `FailuresInv` gives `FailuresAreAttributed`
(`FailuresAreTold`): a failed run knows from which request its failure came, and whether
the local service or the cloud could have said so (`Known`, `Fits`); the lemma
`Attribution` is the case analysis of the classification.

**`Accounts_proofs`.**  Four parts of a client, an inductive invariant for each, and the
client as `MCAccounts` composes them: a step is of one part and leaves the others
(`OnePartActs`).

* `AccountsImplementList` (`AccountsSpec`) is the refinement of `AccountList`, and
  `ProvidersStay` (`ProviderStays`) goes with it.  Every step of every call keeps
  `Promised`: it is a step of the list or changes nothing of it.  `ListInv` says that the
  account in use is listed and, which is what the proof turns on, that in a window without
  an account of the former sign-in nothing of that sign-in is under way (`NothingFormer`):
  no removal that will write back a list read before it waited, and no refresh that will
  write the account it was asked for.
* `CredentialsStayKept` (`CredentialsAreKept`), for any accounts and any finite set of
  calls suspended at once.  What it says is of a quiet account, and its invariant `CredInv`
  of every moment, account by account: what the store *will* have when the calls that wait
  in the account's queue have run.  `Structure` is about who waits: a call in the queue is
  one somebody waits for, and everybody for one at most (`Asked`); the sessions in memory,
  in sign-ins and in refreshes, and the one a sign-in puts back when it fails, are told
  apart (`Apart`, which rests on `FreshIs`: a finite number of tokens is in use); calls
  about the session a sign-in replaced are ahead of its own (`Behind`); who saves for a
  session saves one to be remembered (`KeepsOnly`); and nothing that would undo a sign-in
  or a load waits behind it (`Ahead`).  `Promise` is about what comes of it: a session not
  to be remembered has the last deletion, and nothing is saved after that (`Forgotten`);
  the last change that waits is the save of the token in memory, and without one the store
  has that token (`Rotation`); of an account that leaves, the first save behind the last
  deletion is that of a sign-in (`Led`), what is to be remembered is still to be saved or
  loaded (`Backed`), and nothing else stays (`Gone`); what is saved while the list is being
  emptied is of an account in use or signing out (`SavesWanted`, `KeptWanted`).  `Led` is
  what the order of the queue gives: a refresh that saves late does not bring the
  credential of a removed account back (the variant `Ask_First` breaks it).  The proof has a lemma for each action; a
  step about one account leaves the others (`AroundKeeps`), and one that only adds to the
  queue, or only takes its first call, is covered by the lemmas on `Grown` and `Popped`.
* `PlansStayCurrent` (`PlansAreCurrent`).  `PlansInv`: no premium that is in the cache, in
  the store or in an answer under way ends after the last one given for that account
  (`PremiumKept`, `PremiumSent`); an account this device learnt to be deleted is not signed
  in and cannot sign in again (`DeletedIsOut`); nobody wrote with a version that was not
  handed out.
* `DataFollowAccounts` (`DataFollowAccount`), first half.  `LeaseInv`: a context that is
  fresh is of the lease, and one of the local data was published under the account in
  use, or none is in use now (`FreshOK`).  What began before a change of account and may
  still count as fresh is therefore local data begun beside an account, with none in use,
  and that is what the second test of the code refuses (`WorksOK`).  A refresh is of the
  account in use and what it confirmed still holds (`RunOK`).
* Second half.  `RecoveryInv`: the rows are where the ledger says (`DataOK`); the status
  in memory and the one a restart would find are both true of the rows (`ArchiveOK`); what
  a review has seen holds still, and one for an account has yet to look at every source
  whose move the status forgot (`ReviewsOK`); what is offered was not moved, but while the
  answer of a move is on its way (`CandidateOK`), because a match that is still to be
  offered waits for a decision unless another review is due (`OffersOK`); what a decision has read holds until its
  transaction (`DecisionOK`).  The last needs the others: only a review that is complete
  offers a candidate, and only an offered candidate is decided.

**`Phones_proofs`.**  `OneEffect` (`OneCallOneEffect`): one call has one effect, for any number
of payments, forms and taps, wherever the program dies.  `PlanningInv`: a payment was
charged as often as it was reopened, and once more while it is paid (`PaidOnce`); with the
three other parts of the property it is inductive.  That the computed date is a real one
and comes in turn is `NextIsInTurn`, for every date and frequency, with `SameDay` and `Apart`
saying what "in turn" means without the computation.
`EntriesInv`: what is in the native queue was not given to a screen, and what was given
and is not finished has not opened a form (`GivenOnce`).  The one assumption,
`PartsAssumption`, is that the bounds of the model are numbers and the forms have real dates
and known frequencies, as `validateGastoProgramado` demands.

### Only model-checked

* Liveness (`EditsReachCloud`, `StartupSettles`, `CloseCompletes`, `IdentityEventuallyGone`,
  `PaymentIsFollowed`, `PurchaseReachesAccount`, `SessionsAreRestored`) and anything with
  `ENABLED`: the prover treats neither.
* The violated properties of section 4, of which TLC gives the counterexample.

No safety property of a passing run is left without a theorem, and no module declares a
`RECURSIVE` operator.

## 6. Abstractions

* The clock hands out strictly increasing instants.  Two handlers with the same
  microsecond are not considered.
* Categories and movements stand for the synchronised tables; the others go through
  the same functions, but `movimiento_tags`, whose overwrites record no conflict, so
  `ForeignOverwriteIsRecorded` is not a statement about them.  Invalid payloads are not
  sent by these clients.
* A movement keeps its category (`CategoryOf`), which `updateMovimiento`
  (`mobileFinanceRepository.ts:99`) may change.  An edit of a movement therefore never
  needs another category than the one it was created with.
* The phone reads the pending categories and the pending movements by two selects issued
  together (`mobileCloudPush.ts:21`); `MobileSync.PushBegin` reads both at once.  A
  category saved between the two selects, and a movement of it saved there too, would
  be read as the movement alone: it could reach the cloud one push before its category.
  `CloudReferences` is about snapshots without such a gap (see the hazard in
  `PROJECT.json`).  The three awaits of a call that decide nothing by themselves (token,
  list of devices) are in the step they lead to.
* `AccountDeletion` has the sign-up of the identity provider, not the former
  `_find_or_create_google_user` (`main.py:1135`).
* `Screens` has the loads of a screen and of its frame, not the second load of the
  sidebar (`Sidebar.tsx:164`), which tests no owner: after two quick switches the sidebar
  may show the name and the plan of the first account.  `ScreensAreTheAccounts` is not a
  statement about it.
* A change of the selected account during a desktop run, an expired token, a failed
  health or integrity check and a rate limit end a run, as `RunFails` does; which of
  them it was matters to `SyncFailures` only.
* Signatures, codes, keys and mail addresses are good or not good; rate limits of
  addresses are left out, those per code and per hour are kept.
* Audit rows are not in `AccountDeletion`, and the same e-mail under another identity
  may register anew.  What is kept of purchases when an account is deleted is in
  `PlayReconciliation`.

## 7. Plan

Next:

* The proof of `CredentialsAreKept` for a window that still has an account of the former
  sign-in.  There a removal writes back a list read before it waited, so what can be said
  of the list is weaker, and the property would have to be stated anew first.
* The commands of the sidecar that mark a payment as paid, so that the two rows which two
  devices make can be compared (the hazard without a property).

Not planned: sums, budgets and reports, which are one user's arithmetic and have tests;
restoring a backup, which replaces the whole file.
