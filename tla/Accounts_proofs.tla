--------------------------- MODULE Accounts_proofs ---------------------------
(***************************************************************************)
(* Proofs about what a client keeps of its accounts:                       *)
(*                                                                         *)
(*   ClientAccounts   implements AccountList: between any two awaits the   *)
(*                    list and the account in use change as the user asks; *)
(*                    and its credentials are kept: what the store will    *)
(*                    have of an account once its queue is empty;          *)
(*   Entitlements     premium is shown while licensed, nothing is kept of  *)
(*                    a deleted account, the newest answer stays;          *)
(*   AccountLease     what is done under a lease is of one account, and    *)
(*                    an account is removed only without a token;          *)
(*   AccountRecovery  rows of a former account are moved once, into an     *)
(*                    account without rows, as the user decided.           *)
(*                                                                         *)
(* Each part has its inductive invariant; the last section puts them       *)
(* together for the client as MCAccounts composes it.                      *)
(***************************************************************************)
EXTENDS MCAccounts, FiniteSetTheorems, TLAPS

-----------------------------------------------------------------------------
(* ClientAccounts and the list it promises *)

(* A call names an account where its later steps use one. *)
CallsHaveOwners == \A j \in Jobs : job[j].op \in {"none", "clear"} \/ job[j].o \in Owners

(* Without an account of the former sign-in nothing of the former sign-in is
   under way.                                                              *)
NothingFormer ==
  ~mixed => /\ \A o \in Owners : accounts[o] # "legacy"
            /\ \A j \in Jobs : /\ job[j].op \notin {"logout", "former"}
                               /\ ~At(j, "remove", "former")

(* What a call is, and which fields it has: the list and the session it    *)
(* remembers play no part in the list of accounts.                         *)
JobFields == {"op", "o", "pc", "id", "prev", "outer", "list", "owner", "left"}
JobsOK == /\ DOMAIN job = Jobs
          /\ \A j \in Jobs : /\ DOMAIN job[j] = JobFields
                            /\ job[j].list \in [Owners -> Providers]

ListInv ==
  /\ accounts \in [Owners -> Providers]
  /\ active \in Listed \cup {Local}
  /\ mixed \in BOOLEAN
  /\ JobsOK
  /\ CallsHaveOwners
  /\ NothingFormer

(* What one step does to the calls: only that of j changes, and it ends,   *)
(* goes on for the same account, or a call of some account takes its       *)
(* place.                                                                  *)
OthersStay(j) == /\ DOMAIN job' = Jobs
                 /\ \A i \in Jobs \ {j} : job'[i] = job[i]
Ended(j) == OthersStay(j) /\ job'[j] = NoJob
Is(j, op, o, pc) == /\ OthersStay(j)
                    /\ DOMAIN job'[j] = JobFields
                    /\ job'[j].list \in [Owners -> Providers]
                    /\ job'[j].op = op /\ job'[j].o = o /\ job'[j].pc = pc


CallOK(op, o, pc) ==
  /\ op \in {"none", "clear"} \/ o \in Owners
  /\ ~mixed => op \notin {"logout", "former"} /\ ~(op = "remove" /\ pc = "former")
CallStep == \E j \in Jobs : \/ Ended(j)
                            \/ \E op, o, pc : Is(j, op, o, pc) /\ CallOK(op, o, pc)

LEMMA NoJobIs == /\ DOMAIN NoJob = JobFields /\ NoJob.list \in [Owners -> Providers]
                 /\ NoJob.op = "none" /\ NoJob.pc = "idle"
  BY DEF NoJob, JobFields, Providers

LEMMA EndIs ==
  ASSUME JobsOK, NEW j \in Jobs, job' = [job EXCEPT ![j] = NoJob]
  PROVE  Ended(j)
  BY DEF JobsOK, Ended, OthersStay

LEMMA GotoIs ==
  ASSUME JobsOK, NEW j \in Jobs, NEW pc, Goto(j, pc)
  PROVE  Is(j, job[j].op, job[j].o, pc)
  BY DEF JobsOK, Goto, Is, OthersStay, JobFields

LEMMA BeginIs ==
  ASSUME JobsOK, NEW j \in Jobs, NEW op, NEW o, NEW pc, Begin(j, op, o, pc)
  PROVE  Is(j, op, o, pc)
  BY DEF JobsOK, Begin, Is, OthersStay, JobFields, NoJob, Providers

LEMMA CallStepKeeps ==
  ASSUME ListInv, CallStep \/ UNCHANGED job, mixed' = mixed
  PROVE  /\ JobsOK' /\ CallsHaveOwners'
         /\ ~mixed => \A j \in Jobs : /\ job'[j].op \notin {"logout", "former"}
                                      /\ ~At(j, "remove", "former")'
<1>1. CASE UNCHANGED job
  BY <1>1 DEF ListInv, JobsOK, CallsHaveOwners, NothingFormer, At
<1>2. CASE CallStep
  <2>1. PICK j \in Jobs : \/ Ended(j)
                          \/ \E op, o, pc : Is(j, op, o, pc) /\ CallOK(op, o, pc)
    BY <1>2 DEF CallStep
  <2>2. /\ DOMAIN job' = Jobs /\ \A i \in Jobs \ {j} : job'[i] = job[i]
        /\ DOMAIN job'[j] = JobFields /\ job'[j].list \in [Owners -> Providers]
        /\ job'[j].op \in {"none", "clear"} \/ job'[j].o \in Owners
        /\ ~mixed => /\ job'[j].op \notin {"logout", "former"}
                     /\ ~(job'[j].op = "remove" /\ job'[j].pc = "former")
    BY <2>1, NoJobIs DEF Ended, Is, CallOK, OthersStay
  <2>3. QED
    BY <2>2 DEF ListInv, JobsOK, CallsHaveOwners, NothingFormer, At
<1>3. QED
  BY <1>1, <1>2

LEMMA QuietStepKeeps ==
  ASSUME ListInv, CallStep \/ UNCHANGED job, UNCHANGED storeVars, mixed' = mixed
  PROVE  ListInv'
  BY CallStepKeeps DEF ListInv, storeVars, Listed, NothingFormer

LEMMA FailsIs ==
  ASSUME ListInv, NEW j \in Jobs, job[j].op = "refresh",
         NEW result, NEW q, NEW m, NEW g, Fails(j, result, q, m, g)
  PROVE  CallStep
<1>1. job[j].o \in Owners /\ JobsOK
  BY DEF ListInv, CallsHaveOwners
<1>2. CASE End(j)
  BY <1>1, <1>2, EndIs DEF CallStep, End
<1>3. CASE job' = [job EXCEPT ![j].op = "reject", ![j].pc = "deleting"]
  <2>1. Is(j, "reject", job[j].o, "deleting")
    BY <1>1, <1>3 DEF JobsOK, Is, OthersStay, JobFields
  <2>2. CallOK("reject", job[j].o, "deleting")
    BY <1>1 DEF CallOK
  <2>3. QED
    BY <2>1, <2>2 DEF CallStep
<1>4. QED
  BY <1>2, <1>3 DEF Fails

LEMMA RemovesIs ==
  ASSUME ListInv, NEW j \in Jobs, NEW o \in Owners, Removes(j, o), mixed \/ Supabase(o)
  PROVE  CallStep
<1>0. JobsOK
  BY DEF ListInv
<1>1. CASE Supabase(o)
  <2>1. Is(j, "remove", o, "deleting")
    BY <1>0, <1>1, BeginIs DEF Removes
  <2>2. QED
    BY <2>1 DEF CallStep, CallOK
<1>2. CASE ~Supabase(o)
  <2>1. Without(o) \in [Owners -> Providers]
    BY DEF ListInv, Without, Providers
  <2>2. \E w : job' = [job EXCEPT ![j] = [NoJob EXCEPT !.op = "remove", !.o = o,
                      !.pc = "former", !.list = Without(o), !.owner = w]]
    BY <1>2 DEF Removes
  <2>3. Is(j, "remove", o, "former")
    BY <1>0, <2>1, <2>2 DEF JobsOK, Is, OthersStay, JobFields, NoJob
  <2>4. QED
    BY <1>2, <2>3 DEF CallStep, CallOK
<1>3. QED
  BY <1>1, <1>2

-----------------------------------------------------------------------------
(* Steps that leave the list *)

QuietStep == (CallStep \/ UNCHANGED job) /\ UNCHANGED <<storeVars, mixed>>

LEMMA BeginningsAreQuiet ==
  ASSUME ListInv, NEW j \in Jobs, NEW o \in Owners,
         \/ \E keep \in BOOLEAN : LoginBegins(j, o, keep)
         \/ \E outer \in BOOLEAN : RefreshBegins(j, o, outer)
         \/ RemoveBegins(j, o) \/ SignOut(j, o)
         \/ FormerLogout(j, o) \/ FormerRefresh(j, o)
  PROVE  QuietStep
<1>0. JobsOK /\ (accounts[o] = "legacy" => mixed) /\ accounts[o] \in Providers
  BY DEF ListInv, NothingFormer
<1>1. ASSUME NEW keep \in BOOLEAN, LoginBegins(j, o, keep) PROVE QuietStep
  <2>1. PICK n, p : job' = [job EXCEPT ![j] = [NoJob EXCEPT !.op = "login", !.o = o,
                       !.pc = "storing", !.id = n, !.prev = p]]
    BY <1>1 DEF LoginBegins
  <2>2. Is(j, "login", o, "storing")
    BY <1>0, <2>1 DEF JobsOK, Is, OthersStay, JobFields, NoJob, Providers
  <2>3. QED
    BY <1>1, <2>2 DEF LoginBegins, QuietStep, CallStep, CallOK
<1>2. ASSUME NEW outer \in BOOLEAN, RefreshBegins(j, o, outer) PROVE QuietStep
  <2>1. ASSUME NEW n, NEW pc, job' = [job EXCEPT ![j] = [NoJob EXCEPT !.op = "refresh",
                       !.o = o, !.pc = pc, !.id = n, !.outer = outer]]
        PROVE  Is(j, "refresh", o, pc)
    BY <1>0, <2>1 DEF JobsOK, Is, OthersStay, JobFields, NoJob, Providers
  <2>2. \E pc : Is(j, "refresh", o, pc)
    <3>1. CASE mem[o] # NoEntry
      BY <1>2, <2>1, <3>1 DEF RefreshBegins
    <3>2. CASE mem[o] = NoEntry
      BY <1>2, <2>1, <3>2 DEF RefreshBegins
    <3>3. QED
      BY <3>1, <3>2
  <2>3. CallStep
    BY <2>2 DEF CallStep, CallOK
  <2>4. QED
    BY <1>2, <2>3 DEF RefreshBegins, QuietStep
<1>3. CASE RemoveBegins(j, o)
  <2>1. CallStep
    BY <1>0, <1>3, RemovesIs DEF RemoveBegins, Providers, Supabase
  <2>2. QED
    BY <1>3, <2>1 DEF RemoveBegins, QuietStep
<1>4. CASE SignOut(j, o)
  <2>1. Is(j, "signout", o, "network")
    BY <1>0, <1>4, BeginIs DEF SignOut
  <2>2. QED
    BY <1>4, <2>1 DEF SignOut, QuietStep, CallStep, CallOK
<1>5. CASE FormerLogout(j, o)
  BY <1>0, <1>5, BeginIs DEF FormerLogout, QuietStep, CallStep, CallOK
<1>6. CASE FormerRefresh(j, o)
  <2>1. Begin(j, "former", o, "provider") \/ UNCHANGED job
    BY <1>6 DEF FormerRefresh
  <2>2. mixed /\ UNCHANGED <<storeVars, mixed>>
    BY <1>0, <1>6 DEF FormerRefresh
  <2>3. QED
    BY <1>0, <2>1, <2>2, BeginIs DEF QuietStep, CallStep, CallOK
<1>7. QED
  BY <1>1, <1>2, <1>3, <1>4, <1>5, <1>6

LEMMA RefreshesAreQuiet ==
  ASSUME ListInv, NEW j \in Jobs,
         \/ RefreshJoins(j) \/ RefreshLoaded(j) \/ Rotated(j) \/ NotRotated(j)
         \/ RotationSaved(j) \/ NotGranted(j) \/ RejectedDeleted(j)
  PROVE  QuietStep
<1>0. JobsOK /\ (job[j].op \in {"none", "clear"} \/ job[j].o \in Owners)
  BY DEF ListInv, CallsHaveOwners
<1>1. ASSUME NEW pc, Goto(j, pc), job[j].op = "refresh" PROVE CallStep
  BY <1>0, <1>1, GotoIs DEF CallStep, CallOK
<1>2. CASE RefreshJoins(j)
  <2>1. Is(j, "refresh", job[j].o, job[j].pc)
    BY <1>0, <1>2 DEF RefreshJoins, JobsOK, Is, OthersStay, JobFields
  <2>2. QED
    BY <1>0, <1>2, <2>1 DEF RefreshJoins, QuietStep, CallStep, CallOK
<1>3. CASE RefreshLoaded(j)
  <2>1. job[j].op = "refresh" /\ UNCHANGED <<storeVars, mixed>>
    BY <1>3 DEF RefreshLoaded, At
  <2>2. \/ Goto(j, "provider")
        \/ \E result, q, m, g : Fails(j, result, q, m, g)
    BY <1>3 DEF RefreshLoaded
  <2>3. QED
    BY <1>1, <2>1, <2>2, FailsIs DEF QuietStep
<1>4. CASE Rotated(j)
  BY <1>1, <1>4 DEF Rotated, At, QuietStep
<1>5. CASE NotRotated(j)
  BY <1>5, FailsIs DEF NotRotated, At, QuietStep
<1>6. CASE RotationSaved(j)
  BY <1>1, <1>6, FailsIs DEF RotationSaved, At, QuietStep
<1>7. CASE NotGranted(j)
  BY <1>1, <1>7, FailsIs DEF NotGranted, At, QuietStep
<1>8. CASE RejectedDeleted(j)
  BY <1>0, <1>8, EndIs DEF RejectedDeleted, QuietStep, CallStep, End
<1>9. QED
  BY <1>2, <1>3, <1>4, <1>5, <1>6, <1>7, <1>8

LEMMA FarewellsAreQuiet ==
  ASSUME ListInv, NEW j \in Jobs,
         \/ SignOutEnds(j) \/ FormerLogoutEnds(j) \/ ClearAll(j)
         \/ PanelLogout(j) \/ PanelLogoutEnds(j) \/ FormerAnswered(j)
         \/ \E o \in Owners : Cleared(j, o)
  PROVE  QuietStep
<1>0. /\ JobsOK /\ (job[j].op \in {"none", "clear"} \/ job[j].o \in Owners)
      /\ job[j].op \in {"logout", "former"} => mixed
      /\ active # Local => active \in Owners /\ (mixed \/ Supabase(active))
      /\ \A o \in Owners : accounts[o] = "legacy" => mixed
  BY DEF ListInv, CallsHaveOwners, NothingFormer, Listed, Supabase, Providers
<1>1. End(j) => CallStep
  BY <1>0, EndIs DEF CallStep, End
<1>2. CASE SignOutEnds(j)
  BY <1>0, <1>1, <1>2, RemovesIs DEF SignOutEnds, At, QuietStep
<1>3. CASE FormerLogoutEnds(j)
  BY <1>0, <1>1, <1>3, RemovesIs DEF FormerLogoutEnds, At, QuietStep
<1>4. CASE ClearAll(j)
  <2>1. PICK l : job' = [job EXCEPT ![j] = [NoJob EXCEPT !.op = "clear",
                                              !.pc = "deleting", !.left = l]]
    BY <1>4 DEF ClearAll
  <2>2. Is(j, "clear", Local, "deleting")
    BY <1>0, <2>1 DEF JobsOK, Is, OthersStay, JobFields, NoJob, Providers
  <2>3. QED
    BY <1>4, <2>2 DEF ClearAll, QuietStep, CallStep, CallOK
<1>5. CASE PanelLogout(j)
  BY <1>0, <1>5, BeginIs DEF PanelLogout, QuietStep, CallStep, CallOK
<1>6. CASE PanelLogoutEnds(j)
  <2>1. job[j].o \in Owners /\ UNCHANGED <<storeVars, mixed>>
    BY <1>0, <1>6 DEF PanelLogoutEnds, At
  <2>2. CASE Begin(j, "signout", job[j].o, "network")
    BY <1>0, <2>1, <2>2, BeginIs DEF QuietStep, CallStep, CallOK
  <2>3. CASE accounts[job[j].o] = "legacy" /\ Begin(j, "logout", job[j].o, "network")
    BY <1>0, <2>1, <2>3, BeginIs DEF QuietStep, CallStep, CallOK
  <2>4. CASE End(j)
    BY <1>1, <2>1, <2>4 DEF QuietStep
  <2>5. CASE active # Local /\ Removes(j, active)
    BY <1>0, <2>1, <2>5, RemovesIs DEF QuietStep
  <2>6. QED
    BY <1>6, <2>2, <2>3, <2>4, <2>5 DEF PanelLogoutEnds
<1>7. CASE FormerAnswered(j)
  <2>1. job[j].op = "former" /\ UNCHANGED <<storeVars, mixed>>
        /\ (End(j) \/ Goto(j, "save"))
    BY <1>7 DEF FormerAnswered, At
  <2>2. QED
    BY <1>0, <1>1, <2>1, GotoIs DEF QuietStep, CallStep, CallOK
<1>8. ASSUME NEW o \in Owners, Cleared(j, o) PROVE QuietStep
  <2>1. /\ job[j].op = "clear" /\ UNCHANGED <<storeVars, mixed>>
        /\ job' = [job EXCEPT ![j].left = @ \ {o}]
    BY <1>8 DEF Cleared, At
  <2>2. Is(j, "clear", job[j].o, job[j].pc)
    BY <1>0, <2>1 DEF JobsOK, Is, OthersStay, JobFields
  <2>3. QED
    BY <2>1, <2>2 DEF QuietStep, CallStep, CallOK
<1>9. QED
  BY <1>2, <1>3, <1>4, <1>5, <1>6, <1>7, <1>8

-----------------------------------------------------------------------------
(* Steps that change the list *)

ProviderKept ==
  \A o \in Owners : (Supabase(o) /\ accounts'[o] = "legacy") =>
     \E j \in Jobs : At(j, "remove", "former") /\ job'[j] = NoJob

Promised == /\ ListInv' /\ UNCHANGED mixed /\ ProviderKept
            /\ List!Next \/ UNCHANGED <<Listed, active>>

LEMMA QuietIsPromised ==
  ASSUME ListInv, QuietStep
  PROVE  Promised
<1>1. ListInv'
  BY QuietStepKeeps DEF QuietStep
<1>2. QED
  BY <1>1 DEF QuietStep, storeVars, Promised, ProviderKept, Listed, Supabase

LEMMA WriteIs ==
  ASSUME NEW list \in [Owners -> Providers], NEW who, Write(list, who)
  PROVE  /\ accounts' = list /\ accounts' \in [Owners -> Providers]
         /\ Listed' = {o \in Owners : list[o] # "none"}
         /\ active' = IF who \in Listed' THEN who ELSE Local
         /\ active' \in Listed' \cup {Local}
  BY DEF Write, Listed

LEMMA StoreIs ==
  ASSUME ListInv, NEW o \in Owners, NEW keep, NEW who, Store(o, keep, who)
  PROVE  /\ accounts' \in [Owners -> Providers]
         /\ Listed' = Listed \cup {o}
         /\ active' = IF who \in Listed' THEN who ELSE Local
         /\ active' \in Listed' \cup {Local}
         /\ \A x \in Owners : accounts'[x] = "legacy" => accounts[x] = "legacy"
<1> DEFINE list == [accounts EXCEPT ![o] = IF keep THEN "kept" ELSE "temporary"]
<1>1. list \in [Owners -> Providers]
  BY DEF ListInv, Providers
<1>2. Write(list, who)
  BY DEF Store
<1>3. accounts \in [Owners -> Providers]
  BY DEF ListInv
<1>4. /\ list[o] \in {"kept", "temporary"}
      /\ \A x \in Owners \ {o} : list[x] = accounts[x]
  BY <1>3
<1> HIDE DEF list
<1>5. accounts' = list /\ Listed' = {x \in Owners : list[x] # "none"}
  BY <1>1, <1>2, WriteIs
<1>6. Listed' = Listed \cup {o}
  BY <1>4, <1>5 DEF Listed
<1>7. QED
  BY <1>1, <1>2, <1>4, <1>5, <1>6, WriteIs

LEMMA WithoutIs ==
  ASSUME ListInv, NEW o \in Owners, Write(Without(o), active)
  PROVE  /\ accounts' \in [Owners -> Providers]
         /\ Listed' = Listed \ {o}
         /\ active' = IF active = o THEN Local ELSE active
         /\ active' \in Listed' \cup {Local}
         /\ \A x \in Owners : accounts'[x] = "legacy" => accounts[x] = "legacy"
<1>1. Without(o) \in [Owners -> Providers] /\ Without(o)[o] = "none"
      /\ \A x \in Owners \ {o} : Without(o)[x] = accounts[x]
  BY DEF ListInv, Without, Providers
<1>2. accounts' = Without(o) /\ Listed' = {x \in Owners : Without(o)[x] # "none"}
      /\ accounts' \in [Owners -> Providers]
      /\ active' = (IF active \in Listed' THEN active ELSE Local)
      /\ active' \in Listed' \cup {Local}
  BY <1>1, WriteIs
<1>3. Listed' = Listed \ {o}
  BY <1>1, <1>2 DEF Listed
<1>4. active' = IF active = o THEN Local ELSE active
  <2>1. active \in Listed \cup {Local} /\ Local # o
    BY LocalAssumption DEF ListInv
  <2>2. QED
    BY <1>2, <1>3, <2>1
<1>5. QED
  BY <1>1, <1>2, <1>3, <1>4

(* What is left to show of a step that writes the list and ends a call. *)
LEMMA ListStepIs ==
  ASSUME ListInv, CallStep, mixed' = mixed,
         accounts' \in [Owners -> Providers], active' \in Listed' \cup {Local},
         \A x \in Owners : accounts'[x] = "legacy" => accounts[x] = "legacy",
         \/ \E o \in Owners : List!SignIn(o) \/ List!Remove(o)
         \/ List!RemoveAll
         \/ UNCHANGED <<Listed, active>>
  PROVE  Promised
<1>1. ListInv'
  BY CallStepKeeps DEF ListInv, NothingFormer
<1>2. ProviderKept
  BY DEF ProviderKept, Supabase
<1>3. QED
  BY <1>1, <1>2 DEF Promised, List!Next

LEMMA LoginStoredIsPromised ==
  ASSUME ListInv, NEW j \in Jobs, LoginStored(j)
  PROVE  Promised
<1>1. JobsOK /\ job[j].o \in Owners /\ mixed' = mixed /\ CallStep
  <2>1. job[j].o \in Owners /\ JobsOK
    BY DEF ListInv, CallsHaveOwners, LoginStored, At
  <2>2. QED
    BY <2>1, EndIs DEF LoginStored, End, CallStep
<1>2. CASE UNCHANGED storeVars
  BY <1>1, <1>2, QuietIsPromised DEF QuietStep
<1>3. CASE Store(job[j].o, mem[job[j].o].keep, job[j].o)
  <2>1. List!SignIn(job[j].o)
    BY <1>1, <1>3, StoreIs DEF List!SignIn
  <2>2. QED
    BY <1>1, <1>3, <2>1, StoreIs, ListStepIs
<1>4. QED
  BY <1>2, <1>3 DEF LoginStored

LEMMA RenewIsPromised ==
  ASSUME ListInv, NEW j \in Jobs, job[j].op = "refresh", Renew(j), mixed' = mixed
  PROVE  Promised
<1>1. JobsOK /\ job[j].o \in Owners /\ CallStep
  <2>1. job[j].o \in Owners /\ JobsOK
    BY DEF ListInv, CallsHaveOwners
  <2>2. QED
    BY <2>1, EndIs DEF Renew, End, CallStep
<1>2. CASE UNCHANGED storeVars
  BY <1>1, <1>2, QuietIsPromised DEF QuietStep
<1>3. CASE Supabase(job[j].o) /\ Store(job[j].o, mem[job[j].o].keep, active)
  <2>1. job[j].o \in Listed /\ active \in Listed \cup {Local} /\ Local \notin Owners
    BY <1>1, <1>3, LocalAssumption DEF Supabase, Listed, ListInv
  <2>2. Listed' = Listed /\ active' = active
    BY <1>1, <1>3, <2>1, StoreIs
  <2>3. QED
    BY <1>1, <1>3, <2>2, StoreIs, ListStepIs
<1>4. QED
  BY <1>2, <1>3 DEF Renew

LEMMA GrantsArePromised ==
  ASSUME ListInv, NEW j \in Jobs, Granted(j) \/ LastSaved(j)
  PROVE  Promised
<1>1. job[j].op = "refresh" /\ mixed' = mixed
  BY DEF Granted, LastSaved, At
<1>2. \/ Renew(j)
      \/ Goto(j, "lastsave") /\ UNCHANGED storeVars
      \/ (\E result, q, m, g : Fails(j, result, q, m, g)) /\ UNCHANGED storeVars
  BY DEF Granted, LastSaved
<1>3. CASE Renew(j)
  BY <1>1, <1>3, RenewIsPromised
<1>4. CASE Goto(j, "lastsave") /\ UNCHANGED storeVars
  <2>1. JobsOK /\ CallOK(job[j].op, job[j].o, "lastsave")
    BY <1>1 DEF ListInv, CallsHaveOwners, CallOK
  <2>2. QED
    BY <1>1, <1>4, <2>1, GotoIs, QuietIsPromised DEF QuietStep, CallStep
<1>5. CASE (\E result, q, m, g : Fails(j, result, q, m, g)) /\ UNCHANGED storeVars
  BY <1>1, <1>5, FailsIs, QuietIsPromised DEF QuietStep
<1>6. QED
  BY <1>2, <1>3, <1>4, <1>5

LEMMA RemovalsArePromised ==
  ASSUME ListInv, NEW j \in Jobs, RefusedRemoved(j) \/ RemoveEnds(j)
  PROVE  Promised
<1>1. job[j].op \in {"refresh", "remove"} /\ mixed' = mixed
      /\ Write(Without(job[j].o), active)
  BY DEF RefusedRemoved, RemoveEnds, At
<1>2. JobsOK /\ job[j].o \in Owners
  BY <1>1 DEF ListInv, CallsHaveOwners
<1>3. CallStep
  <2>1. CASE RefusedRemoved(j)
    BY <2>1, FailsIs DEF RefusedRemoved, At
  <2>2. CASE RemoveEnds(j)
    BY <1>2, <2>2, EndIs DEF RemoveEnds, End, CallStep
  <2>3. QED
    BY <2>1, <2>2
<1>4. List!Remove(job[j].o)
  BY <1>1, <1>2, WithoutIs DEF List!Remove
<1>5. QED
  BY <1>1, <1>2, <1>3, <1>4, WithoutIs, ListStepIs

LEMMA ClearEndsIsPromised ==
  ASSUME ListInv, NEW j \in Jobs, ClearEnds(j)
  PROVE  Promised
<1> DEFINE empty == [o \in Owners |-> "none"]
<1>1. empty \in [Owners -> Providers] /\ \A o \in Owners : empty[o] = "none"
  BY DEF Providers
<1>2. Write(empty, Local) /\ mixed' = mixed
  BY DEF ClearEnds
<1>3. JobsOK /\ CallStep
  <2>1. JobsOK
    BY DEF ListInv
  <2>2. QED
    BY <2>1, EndIs DEF ClearEnds, End, CallStep
<1> HIDE DEF empty
<1>4. Listed' = {} /\ accounts' = empty /\ active' = Local
  BY <1>1, <1>2, WriteIs
<1>5. List!RemoveAll
  BY <1>4 DEF List!RemoveAll
<1>6. QED
  BY <1>1, <1>2, <1>3, <1>4, <1>5, ListStepIs

(* A removal that writes back an old list, and a refresh of the former      *)
(* sign-in: only in a window that holds such an account.                    *)
LEMMA FormerEndsArePromised ==
  ASSUME ListInv, NEW j \in Jobs, FormerRemoveEnds(j) \/ FormerSaved(j)
  PROVE  Promised
<1>1. JobsOK /\ mixed /\ mixed' = mixed
  BY DEF ListInv, NothingFormer, FormerRemoveEnds, FormerSaved, At
<1>2. CallStep /\ job'[j] = NoJob
  BY <1>1, EndIs DEF FormerRemoveEnds, FormerSaved, End, CallStep, Ended
<1>3. List!Next
  BY <1>1 DEF List!Next
<1>4. accounts' \in [Owners -> Providers] /\ active' \in Listed' \cup {Local}
      /\ ProviderKept
  <2>1. CASE FormerRemoveEnds(j)
    <3>1. job[j].list \in [Owners -> Providers] /\ At(j, "remove", "former")
          /\ Write(job[j].list, job[j].owner)
      BY <1>1, <2>1 DEF JobsOK, FormerRemoveEnds
    <3>2. QED
      BY <1>2, <3>1, WriteIs DEF ProviderKept
  <2>2. CASE FormerSaved(j)
    <3>1. CASE UNCHANGED storeVars
      BY <3>1 DEF ListInv, storeVars, Listed, ProviderKept, Supabase
    <3>2. CASE ~Supabase(job[j].o) /\ Write([accounts EXCEPT ![job[j].o] = "legacy"], active)
      <4> DEFINE list == [accounts EXCEPT ![job[j].o] = "legacy"]
      <4>1. list \in [Owners -> Providers]
            /\ \A o \in Owners : list[o] # accounts[o] => o = job[j].o
        BY DEF ListInv, Providers
      <4> HIDE DEF list
      <4>2. accounts' = list /\ active' \in Listed' \cup {Local}
        BY <3>2, <4>1, WriteIs DEF list
      <4>3. QED
        BY <3>2, <4>1, <4>2 DEF ProviderKept, Supabase
    <3>3. QED
      BY <2>2, <3>1, <3>2 DEF FormerSaved
  <2>3. QED
    BY <2>1, <2>2
<1>5. ListInv'
  BY <1>1, <1>2, <1>4, CallStepKeeps DEF ListInv, NothingFormer
<1>6. QED
  BY <1>1, <1>3, <1>4, <1>5 DEF Promised

LEMMA ForgetDeletedIsPromised ==
  ASSUME ListInv, NEW j \in Jobs, NEW o \in Owners, ForgetDeleted(j, o)
  PROVE  Promised
<1>1. accounts' = accounts /\ mixed' = mixed /\ JobsOK /\ accounts[o] # "none"
      /\ active' = (IF active = o THEN Local ELSE active)
  BY DEF ForgetDeleted, ListInv
<1>2. CallStep
  <2>1. CASE Supabase(o)
    BY <2>1, RemovesIs DEF ForgetDeleted
  <2>2. CASE ~Supabase(o)
    <3>1. mixed
      BY <1>1, <2>2 DEF Supabase, ListInv, NothingFormer, Providers
    <3>2. Without(o) \in [Owners -> Providers]
      BY DEF ListInv, Without, Providers
    <3>3. \E w : job' = [job EXCEPT ![j] = [NoJob EXCEPT !.op = "remove", !.o = o,
                         !.pc = "former", !.list = Without(o), !.owner = w]]
      BY <2>2 DEF ForgetDeleted
    <3>4. Is(j, "remove", o, "former")
      BY <1>1, <3>2, <3>3 DEF JobsOK, Is, OthersStay, JobFields, NoJob
    <3>5. QED
      BY <3>1, <3>4 DEF CallStep, CallOK
  <2>3. QED
    BY <2>1, <2>2
<1>3. Listed' = Listed /\ active' \in Listed \cup {Local}
  BY <1>1 DEF Listed, ListInv
<1>4. ListInv'
  BY <1>1, <1>2, <1>3, CallStepKeeps DEF ListInv, NothingFormer
<1>5. ProviderKept
  BY <1>1 DEF ProviderKept, Supabase
<1>6. active' = active \/ List!Switch(active')
  BY <1>1, <1>3 DEF List!Switch, ListInv
<1>7. active' \in Owners \cup {Local}
  BY <1>3 DEF Listed
<1>8. QED
  BY <1>1, <1>3, <1>4, <1>5, <1>6, <1>7 DEF Promised, List!Next

LEMMA SwitchIsPromised ==
  ASSUME ListInv, NEW o \in Owners \cup {Local}, Switch(o)
  PROVE  Promised
<1>1. UNCHANGED <<accounts, job, mixed>> /\ Write(accounts, o)
      /\ accounts \in [Owners -> Providers]
  BY DEF Switch, ListInv
<1>2. Listed' = Listed /\ active' \in Listed \cup {Local}
      /\ active' \in Owners \cup {Local}
  BY <1>1, WriteIs DEF Listed
<1>3. ListInv'
  BY <1>1, <1>2, CallStepKeeps DEF ListInv, NothingFormer
<1>4. List!Switch(active')
  BY <1>2 DEF List!Switch
<1>5. List!Next
  BY <1>1, <1>2, <1>4 DEF List!Next
<1>6. QED
  BY <1>1, <1>3, <1>5 DEF Promised, ProviderKept, Supabase

LEMMA RestartIsPromised ==
  ASSUME ListInv, NEW reload \in BOOLEAN, Restart(reload)
  PROVE  Promised
<1> DEFINE list == [o \in Owners |-> IF accounts[o] \in {"legacy", "kept"} \/ reload
                                     THEN accounts[o] ELSE "none"]
<1>1. list \in [Owners -> Providers]
      /\ \A o \in Owners : list[o] \in {accounts[o], "none"}
  BY DEF ListInv, Providers
<1>2. Write(list, active) /\ mixed' = mixed /\ job' = [j \in Jobs |-> NoJob]
  BY DEF Restart
<1> HIDE DEF list
<1>3. accounts' = list /\ Listed' = {o \in Owners : list[o] # "none"}
      /\ active' \in {active, Local} /\ active' \in Listed' \cup {Local}
  BY <1>1, <1>2, WriteIs
<1>4. Listed' \subseteq Listed
  BY <1>1, <1>3 DEF Listed
<1>5. ListInv'
  BY <1>1, <1>2, <1>3, NoJobIs
  DEF ListInv, JobsOK, CallsHaveOwners, NothingFormer, At
<1>6. List!Next
  BY <1>2, <1>3, <1>4 DEF List!Next, List!Restart
<1>7. ProviderKept
  BY <1>1, <1>3 DEF ProviderKept, Supabase
<1>8. QED
  BY <1>2, <1>5, <1>6, <1>7 DEF Promised

LEMMA StepIsPromised ==
  ASSUME ListInv, Next
  PROVE  Promised
<1>1. ASSUME Begins PROVE Promised
  <2>1. ASSUME NEW j \in Jobs, NEW o \in Owners, ForgetDeleted(j, o) PROVE Promised
    BY <2>1, ForgetDeletedIsPromised
  <2>2. ASSUME NEW reload \in BOOLEAN, Restart(reload) PROVE Promised
    BY <2>2, RestartIsPromised
  <2>3. ASSUME NEW j \in Jobs, ClearAll(j) \/ PanelLogout(j) PROVE Promised
    BY <2>3, FarewellsAreQuiet, QuietIsPromised
  <2>4. ASSUME NEW j \in Jobs, NEW o \in Owners,
               \/ \E keep \in BOOLEAN : LoginBegins(j, o, keep)
               \/ \E outer \in BOOLEAN : RefreshBegins(j, o, outer)
               \/ RemoveBegins(j, o) \/ SignOut(j, o)
               \/ FormerLogout(j, o) \/ FormerRefresh(j, o)
        PROVE  Promised
    BY <2>4, BeginningsAreQuiet, QuietIsPromised
  <2>5. QED
    BY <1>1, <2>1, <2>2, <2>3, <2>4 DEF Begins
<1>2. ASSUME Continues PROVE Promised
  <2>1. ASSUME NEW j \in Jobs, LoginStored(j) PROVE Promised
    BY <2>1, LoginStoredIsPromised
  <2>2. ASSUME NEW j \in Jobs,
               \/ RefreshJoins(j) \/ RefreshLoaded(j) \/ Rotated(j) \/ NotRotated(j)
               \/ RotationSaved(j) \/ NotGranted(j) \/ RejectedDeleted(j)
        PROVE  Promised
    BY <2>2, RefreshesAreQuiet, QuietIsPromised
  <2>3. ASSUME NEW j \in Jobs, Granted(j) \/ LastSaved(j) PROVE Promised
    BY <2>3, GrantsArePromised
  <2>4. ASSUME NEW j \in Jobs, RefusedRemoved(j) \/ RemoveEnds(j) PROVE Promised
    BY <2>4, RemovalsArePromised
  <2>5. ASSUME NEW j \in Jobs, FormerRemoveEnds(j) \/ FormerSaved(j) PROVE Promised
    BY <2>5, FormerEndsArePromised
  <2>6. ASSUME NEW j \in Jobs,
               \/ SignOutEnds(j) \/ FormerLogoutEnds(j)
               \/ PanelLogoutEnds(j) \/ FormerAnswered(j)
               \/ \E o \in Owners : Cleared(j, o)
        PROVE  Promised
    BY <2>6, FarewellsAreQuiet, QuietIsPromised
  <2>7. ASSUME NEW j \in Jobs, ClearEnds(j) PROVE Promised
    BY <2>7, ClearEndsIsPromised
  <2>8. ASSUME NEW o \in Owners, RefreshHasNothing(o) \/ Expire(o) PROVE Promised
    BY <2>8, QuietIsPromised DEF RefreshHasNothing, Expire, QuietStep
  <2>9. ASSUME NEW o \in Owners \cup {Local}, Switch(o) PROVE Promised
    BY <2>9, SwitchIsPromised
  <2>10. QED
    BY <1>2, <2>1, <2>2, <2>3, <2>4, <2>5, <2>6, <2>7, <2>8, <2>9 DEF Continues
<1>3. QED
  BY <1>1, <1>2 DEF Next

LEMMA ListStarts == ASSUME Init PROVE ListInv /\ List!Init
<1>1. PICK former \in SUBSET LegacyOwners :
        /\ accounts = [o \in Owners |-> IF o \in former THEN "legacy" ELSE "none"]
        /\ active \in former \cup {Local}
        /\ mixed = (former # {})
  BY DEF Init
<1>2. accounts \in [Owners -> Providers] /\ Listed = former
  BY <1>1, LegacyAssumption DEF Providers, Listed
<1>3. job = [j \in Jobs |-> NoJob]
  BY DEF Init
<1>4. mixed \in BOOLEAN
  BY <1>1
<1>5. ~mixed => \A o \in Owners : accounts[o] # "legacy"
  BY <1>1
<1>6. ListInv
  BY <1>1, <1>2, <1>3, <1>4, <1>5, NoJobIs
  DEF ListInv, JobsOK, CallsHaveOwners, NothingFormer, At
<1>7. QED
  BY <1>1, <1>2, <1>4, <1>6, LegacyAssumption DEF List!Init

LEMMA ListStutters ==
  ASSUME ListInv, UNCHANGED vars
  PROVE  ListInv' /\ UNCHANGED List!vars
  BY DEF ListInv, vars, storeVars, Listed, JobsOK, CallsHaveOwners, NothingFormer,
         At, List!vars

-----------------------------------------------------------------------------
(* ClientAccounts and the credentials: what the calls under way are about *)

(* A call of the native store waits in the queue q of its account; it is   *)
(* late if no deletion waits with or behind it.                            *)
Places(q) == 1..Len(q)
Deletes(q) == \E i \in Places(q) : q[i].kind = "delete"
Late(q, i) == \A k \in Places(q) : q[k].kind = "delete" => k < i
LateSave(q, i) == q[i].kind = "save" /\ Late(q, i)

(* What a call c under way does for the account o.                         *)
Storing(c, o) == c.op = "login" /\ c.o = o
Refreshing(c, o) == c.op = "refresh" /\ c.o = o
Clearing(c, o) == c.op = "clear" /\ o \in c.left
Saves(c, o) == Refreshing(c, o) /\ c.pc \in {"save", "lastsave"}
Waits(c, kind, o) ==
  \/ Clearing(c, o) /\ c.pc = "deleting" /\ kind = "delete"
  \/ Storing(c, o) /\ c.pc = "storing" /\ kind \in {"save", "delete"}
  \/ Saves(c, o) /\ kind = "save"
  \/ Refreshing(c, o) /\ c.pc = "load" /\ kind = "load"
  \/ Refreshing(c, o) /\ c.pc = "removing" /\ kind = "delete"
  \/ c.op \in {"reject", "remove"} /\ c.o = o /\ c.pc = "deleting" /\ kind = "delete"

(* Of the queue q, the session m in memory and the calls J about o: a call *)
(* of the store is one somebody waits for, and everybody for one at most.  *)
Asked(q, J, o) ==
  /\ \A i \in Places(q) : q[i].j \in Jobs /\ Waits(J[q[i].j], q[i].kind, o)
  /\ \A i, k \in Places(q) : q[i].j = q[k].j => i = k
  /\ \A j \in Jobs : Clearing(J[j], o) => \E i \in Places(q) : q[i].j = j

(* Sessions are told apart, also the one a sign-in puts back if it fails.  *)
Apart(m, J, o) ==
  /\ m.id = 0 => m = NoEntry
  /\ \A j \in Jobs : Storing(J[j], o) \/ Refreshing(J[j], o) => J[j].id # 0
  /\ \A j \in Jobs : Storing(J[j], o) =>
       IF J[j].prev.id = 0 THEN J[j].prev = NoEntry ELSE m.id # J[j].prev.id
  /\ \A i, j \in Jobs : Storing(J[i], o) /\ Storing(J[j], o) /\ J[j].prev.id # 0
                          /\ J[i].prev.id = J[j].prev.id => i = j
  /\ \A i, j \in Jobs : Refreshing(J[i], o) /\ Refreshing(J[j], o) => i = j

(* Calls about the session a sign-in replaced are ahead of its own.        *)
Behind(q, J, o) ==
  \A i, k \in Places(q) :
     /\ Storing(J[q[i].j], o) /\ J[q[i].j].prev.id # 0
     /\ Storing(J[q[k].j], o) \/ Refreshing(J[q[k].j], o)
     /\ J[q[k].j].id = J[q[i].j].prev.id
     => k < i

(* Who saves for a session saves one that is to be remembered.             *)
KeepsOnly(q, m, J, o) ==
  /\ \A j \in Jobs : Saves(J[j], o) =>
       /\ m.id = J[j].id => m.keep
       /\ \A i \in Jobs : Storing(J[i], o) /\ J[i].prev.id = J[j].id => J[i].prev.keep
  /\ \A i \in Places(q) : Storing(J[q[i].j], o) /\ J[q[i].j].id = m.id =>
       (q[i].kind = "save" <=> m.keep)

(* No deletion waits behind the sign-in of the session in memory, nothing  *)
(* but loads behind its load.                                              *)
Ahead(q, m, J, o) ==
  \A i, k \in Places(q) : i < k /\ J[q[i].j].id = m.id =>
    /\ Storing(J[q[i].j], o) => q[k].kind # "delete"
    /\ Refreshing(J[q[i].j], o) /\ q[i].kind = "load" => q[k].kind = "load"

Structure(q, m, J, o) == /\ Asked(q, J, o) /\ Apart(m, J, o) /\ Behind(q, J, o)
                         /\ KeepsOnly(q, m, J, o) /\ Ahead(q, m, J, o)

(* A queue with one more call behind, or without the one ahead.            *)
Grown(q, c, q1) ==
  /\ Len(q) \in Nat /\ Len(q1) = Len(q) + 1 /\ q1[Len(q) + 1] = c
  /\ \A i \in Places(q) : q1[i] = q[i]
Popped(q, q1) ==
  /\ Len(q) \in Nat /\ Len(q) >= 1 /\ Len(q1) = Len(q) - 1
  /\ \A i \in Places(q1) : q1[i] = q[i + 1]

(* The places of a queue that is part of another.                          *)
Embeds(e, q1, q) ==
  /\ \A i \in Places(q1) : e[i] \in Places(q) /\ q1[i] = q[e[i]]
  /\ \A i, k \in Places(q1) : (e[i] < e[k] <=> i < k) /\ (e[i] = e[k] <=> i = k)

-----------------------------------------------------------------------------
(* ClientAccounts and the credentials: the queue of an account *)

LEMMA AppendGrows ==
  ASSUME NEW S, NEW q \in Seq(S), NEW c \in S
  PROVE  Append(q, c) \in Seq(S) /\ Grown(q, c, Append(q, c))
<1>1. Append(q, c) \in Seq(S) /\ Len(q) \in Nat /\ Len(Append(q, c)) = Len(q) + 1
  OBVIOUS
<1>2. Append(q, c)[Len(q) + 1] = c /\ \A i \in 1..Len(q) : Append(q, c)[i] = q[i]
  OBVIOUS
<1> QED
  BY <1>1, <1>2 DEF Grown, Places

LEMMA TailPops ==
  ASSUME NEW S, NEW q \in Seq(S), q # <<>>
  PROVE  /\ Tail(q) \in Seq(S) /\ Popped(q, Tail(q))
         /\ Head(q) = q[1] /\ q[1] \in S
<1>1. Tail(q) \in Seq(S) /\ Len(q) \in Nat /\ Len(q) >= 1 /\ Len(Tail(q)) = Len(q) - 1
  OBVIOUS
<1>2. \A i \in 1..Len(Tail(q)) : Tail(q)[i] = q[i + 1]
  OBVIOUS
<1>3. Head(q) = q[1] /\ q[1] \in S
  BY <1>1
<1> QED
  BY <1>1, <1>2, <1>3 DEF Popped, Places

LEMMA GrownPlaces ==
  ASSUME NEW q, NEW c, NEW q1, Grown(q, c, q1)
  PROVE  /\ \A i \in Places(q1) : i = Len(q) + 1 \/ i \in Places(q)
         /\ \A i \in Places(q) : i \in Places(q1) /\ q1[i] = q[i]
                                 /\ i < Len(q) + 1 /\ ~(Len(q) + 1 < i)
         /\ Len(q) + 1 \in Places(q1) /\ q1[Len(q) + 1] = c
         /\ ~(Len(q) + 1 < Len(q) + 1)
<1>1. Len(q) \in Nat /\ Len(q1) = Len(q) + 1
  BY DEF Grown
<1>2. \A i \in 1..(Len(q) + 1) : i = Len(q) + 1 \/ i \in 1..Len(q)
  BY <1>1
<1>3. \A i \in 1..Len(q) : i \in 1..(Len(q) + 1) /\ i < Len(q) + 1 /\ ~(Len(q) + 1 < i)
  BY <1>1
<1>4. Len(q) + 1 \in 1..(Len(q) + 1) /\ ~(Len(q) + 1 < Len(q) + 1)
  BY <1>1
<1> QED
  BY <1>1, <1>2, <1>3, <1>4 DEF Grown, Places

LEMMA GrownLate ==
  ASSUME NEW q, NEW c, NEW q1, Grown(q, c, q1)
  PROVE  /\ Deletes(q1) <=> Deletes(q) \/ c.kind = "delete"
         /\ \A i \in Places(q) : Late(q1, i) <=> Late(q, i) /\ c.kind # "delete"
         /\ Late(q1, Len(q) + 1) <=> c.kind # "delete"
<1>1. Deletes(q1) <=> Deletes(q) \/ c.kind = "delete"
  BY GrownPlaces DEF Deletes
<1>2. ASSUME NEW i \in Places(q) PROVE Late(q1, i) <=> Late(q, i) /\ c.kind # "delete"
  BY GrownPlaces DEF Late
<1>3. Late(q1, Len(q) + 1) <=> c.kind # "delete"
  BY GrownPlaces DEF Late
<1> QED
  BY <1>1, <1>2, <1>3

LEMMA PoppedPlaces ==
  ASSUME NEW q, NEW q1, Popped(q, q1)
  PROVE  /\ \A i \in Places(q) : i = 1 \/ \E k \in Places(q1) : i = k + 1
         /\ \A i \in Places(q1) : i + 1 \in Places(q) /\ q1[i] = q[i + 1] /\ i + 1 # 1
         /\ 1 \in Places(q) /\ \A i \in Places(q) : ~(i < 1)
         /\ \A i \in Places(q1) : 1 < i + 1
         /\ \A i, k \in Places(q1) : (i + 1 < k + 1 <=> i < k) /\ (i + 1 = k + 1 <=> i = k)
                                     /\ (i + 1 <= k + 1 <=> i <= k)
<1>1. Len(q) \in Nat /\ Len(q) >= 1 /\ Len(q1) = Len(q) - 1
  BY DEF Popped
<1>2. ASSUME NEW i \in Places(q), i # 1 PROVE \E k \in Places(q1) : i = k + 1
  <2>1. i - 1 \in Places(q1) /\ i = (i - 1) + 1
    BY <1>1, <1>2 DEF Places
  <2> QED
    BY <2>1
<1>3. \A i \in Places(q1) : i + 1 \in Places(q) /\ i + 1 # 1 /\ 1 < i + 1
  BY <1>1 DEF Places
<1>4. \A i, k \in Places(q1) : (i + 1 < k + 1 <=> i < k) /\ (i + 1 = k + 1 <=> i = k)
                               /\ (i + 1 <= k + 1 <=> i <= k)
  BY <1>1 DEF Places
<1>5. 1 \in Places(q) /\ \A i \in Places(q) : ~(i < 1)
  BY <1>1 DEF Places
<1> QED
  BY <1>2, <1>3, <1>4, <1>5 DEF Popped

LEMMA PoppedLate ==
  ASSUME NEW q, NEW q1, Popped(q, q1)
  PROVE  /\ Deletes(q) <=> Deletes(q1) \/ q[1].kind = "delete"
         /\ \A i \in Places(q1) : Late(q1, i) <=> Late(q, i + 1)
         /\ Late(q, 1) <=> ~Deletes(q)
<1>1. Deletes(q) <=> Deletes(q1) \/ q[1].kind = "delete"
  BY PoppedPlaces DEF Deletes
<1>2. ASSUME NEW i \in Places(q1) PROVE Late(q1, i) <=> Late(q, i + 1)
  <2>1. Late(q, i + 1) => Late(q1, i)
    BY PoppedPlaces DEF Late
  <2>2. Late(q1, i) => Late(q, i + 1)
    BY PoppedPlaces DEF Late
  <2> QED
    BY <2>1, <2>2
<1>3. Late(q, 1) <=> ~Deletes(q)
  BY PoppedPlaces DEF Late, Deletes
<1> QED
  BY <1>1, <1>2, <1>3

LEMMA PoppedEmbeds ==
  ASSUME NEW q, NEW q1, Popped(q, q1)
  PROVE  \E e : Embeds(e, q1, q) /\ \A i \in Places(q1) : e[i] # 1
<1> DEFINE e == [i \in Places(q1) |-> i + 1]
<1>1. Embeds(e, q1, q) /\ \A i \in Places(q1) : e[i] # 1
  BY PoppedPlaces DEF Embeds
<1> QED
  BY <1>1

LEMMA SameEmbeds ==
  ASSUME NEW q
  PROVE  \E e : Embeds(e, q, q)
<1>1. Embeds([i \in Places(q) |-> i], q, q)
  BY DEF Embeds
<1> QED
  BY <1>1

(* The number chosen for a session is one nothing of the account holds.    *)
LEMMA FreshIs ==
  ASSUME NEW o \in Owners,
         queue[o] \in Seq([kind : {"load", "save", "delete"}, token : Nat, j : Jobs])
  PROVE  /\ Fresh(o) \in Nat /\ Fresh(o) # 0 /\ Fresh(o) # mem[o].id
         /\ \A j \in Jobs : Fresh(o) # job[j].id /\ Fresh(o) # job[j].prev.id
<1> DEFINE T == {queue[o][i].token : i \in DOMAIN queue[o]}
           A == {job[j].id : j \in Jobs}
           B == {job[j].prev.id : j \in Jobs}
           C == {job[j].prev.token : j \in Jobs}
           n == Cardinality(Used(o))
<1>1. IsFiniteSet(T)
  <2>1. DOMAIN queue[o] = 1..Len(queue[o]) /\ Len(queue[o]) \in Nat
    OBVIOUS
  <2>2. IsFiniteSet(DOMAIN queue[o])
    <3>1. 1 \in Int /\ Len(queue[o]) \in Int
      BY <2>1
    <3>2. IsFiniteSet(1..Len(queue[o]))
      BY <3>1, FS_Interval
    <3> QED
      BY <2>1, <3>2
  <2>3. [i \in DOMAIN queue[o] |-> queue[o][i].token] \in Surjection(DOMAIN queue[o], T)
    BY DEF Surjection
  <2> QED
    BY <2>2, <2>3, FS_Surjection
<1>2. IsFiniteSet(A) /\ IsFiniteSet(B) /\ IsFiniteSet(C)
  <2>1. [j \in Jobs |-> job[j].id] \in Surjection(Jobs, A)
    BY DEF Surjection
  <2>2. [j \in Jobs |-> job[j].prev.id] \in Surjection(Jobs, B)
    BY DEF Surjection
  <2>3. [j \in Jobs |-> job[j].prev.token] \in Surjection(Jobs, C)
    BY DEF Surjection
  <2>4. IsFiniteSet(Jobs)
    BY JobsAssumption
  <2> QED
    BY <2>1, <2>2, <2>3, <2>4, FS_Surjection
<1>3. Used(o) = (({saved[o]} \cup {mem[o].id}) \cup {mem[o].token})
                \cup (T \cup (A \cup (B \cup C)))
  BY DEF Used
<1>4. IsFiniteSet(Used(o))
  <2> HIDE DEF T, A, B, C
  <2>1. IsFiniteSet(B \cup C)
    BY <1>2, FS_Union
  <2>2. IsFiniteSet(A \cup (B \cup C))
    BY <1>2, <2>1, FS_Union
  <2>3. IsFiniteSet(T \cup (A \cup (B \cup C)))
    BY <1>1, <2>2, FS_Union
  <2>4. IsFiniteSet({saved[o]}) /\ IsFiniteSet({mem[o].id}) /\ IsFiniteSet({mem[o].token})
    BY FS_Singleton
  <2>5. IsFiniteSet({saved[o]} \cup {mem[o].id})
    BY <2>4, FS_Union
  <2>6. IsFiniteSet(({saved[o]} \cup {mem[o].id}) \cup {mem[o].token})
    BY <2>4, <2>5, FS_Union
  <2>7. IsFiniteSet((({saved[o]} \cup {mem[o].id}) \cup {mem[o].token})
                    \cup (T \cup (A \cup (B \cup C))))
    BY <2>3, <2>6, FS_Union
  <2>8. Used(o) = (({saved[o]} \cup {mem[o].id}) \cup {mem[o].token})
                  \cup (T \cup (A \cup (B \cup C)))
    BY <1>3
  <2> QED
    BY <2>7, <2>8
<1>5. n \in Nat
  BY <1>4, FS_CardinalityType
<1>6. \E t \in 1..n + 1 : t \notin Used(o)
  <2>1. SUFFICES ASSUME 1..n + 1 \in SUBSET Used(o) PROVE FALSE
    OBVIOUS
  <2>2. Cardinality(1..n + 1) <= n
    BY <1>4, <2>1, FS_Subset
  <2>3. Cardinality(1..n + 1) = n + 1
    BY <1>5, FS_Interval
  <2> QED
    BY <1>5, <2>2, <2>3
<1>7. Fresh(o) \in 1..n + 1 /\ Fresh(o) \notin Used(o)
  BY <1>6 DEF Fresh
<1>8. Fresh(o) \in Nat /\ Fresh(o) # 0
  <2> HIDE DEF n
  <2> QED
    BY <1>5, <1>7
<1> QED
  BY <1>3, <1>7, <1>8

(* What a step of one call leaves of the others, or of one not about o.    *)
Alike(c, c1, o) == /\ c1.op = c.op /\ c1.o = c.o /\ c1.pc = c.pc
                   /\ c1.id = c.id /\ c1.prev = c.prev
                   /\ o \in c1.left <=> o \in c.left
Others(J, J1, j, o) == \A i \in Jobs \ {j} : Alike(J[i], J1[i], o)

(* A call of j waits for nothing, so none is in the queue.                 *)
Unasked(q, j) == \A i \in Places(q) : q[i].j # j

(* The call goes on, or ends, without asking for anything more.            *)
Relaxes(c, c1, o) == /\ ~Storing(c1, o) /\ ~Saves(c1, o) /\ ~Clearing(c1, o)
                     /\ Refreshing(c1, o) => Refreshing(c, o) /\ c1.id = c.id

LEMMA AlikeWaits ==
  ASSUME NEW c, NEW c1, NEW kind, NEW o, Alike(c, c1, o), Waits(c, kind, o)
  PROVE  Waits(c1, kind, o)
<1>1. c1.op = c.op /\ c1.o = c.o /\ c1.pc = c.pc /\ (o \in c1.left <=> o \in c.left)
  BY DEF Alike
<1> QED
  BY <1>1 DEF Waits, Storing, Saves, Clearing, Refreshing

LEMMA StructureShrinks ==
  ASSUME NEW q, NEW m, NEW J, NEW o, NEW q1, NEW m1, NEW J1, NEW e, NEW j \in Jobs,
         Structure(q, m, J, o), Embeds(e, q1, q), Others(J, J1, j, o),
         \/ Alike(J[j], J1[j], o) /\ (Clearing(J[j], o) => q1 = q)
         \/ Unasked(q1, j) /\ Relaxes(J[j], J1[j], o),
         \A i \in Places(q) : q[i].j # j => \E k \in Places(q1) : q1[k] = q[i],
         m1 = NoEntry \/ m1 = m \/ (m1.id = m.id /\ m1.keep = m.keep /\ m1.id # 0)
  PROVE  Structure(q1, m1, J1, o)
<1>1. /\ \A i \in Jobs : Storing(J1[i], o) => Alike(J[i], J1[i], o)
      /\ \A i \in Jobs : Saves(J1[i], o) => Alike(J[i], J1[i], o)
      /\ \A i \in Jobs : Clearing(J1[i], o) => Alike(J[i], J1[i], o)
      /\ \A i \in Jobs : Refreshing(J1[i], o) => Refreshing(J[i], o) /\ J1[i].id = J[i].id
  BY DEF Others, Relaxes, Alike, Storing, Saves, Clearing, Refreshing
<1>2. \A i \in Places(q1) : /\ q1[i].j \in Jobs
                            /\ Alike(J[q1[i].j], J1[q1[i].j], o)
  BY DEF Others, Unasked, Structure, Asked, Embeds
<1>3. Asked(q1, J1, o)
  <2>1. \A i \in Places(q1) : Waits(J1[q1[i].j], q1[i].kind, o)
    <3>1. \A i \in Places(q1) : Waits(J[q1[i].j], q1[i].kind, o)
      BY DEF Structure, Asked, Embeds
    <3> QED
      BY <1>2, <3>1, AlikeWaits
  <2>2. \A i, k \in Places(q1) : q1[i].j = q1[k].j => i = k
    BY DEF Structure, Asked, Embeds
  <2>3. ASSUME NEW i \in Jobs, Clearing(J1[i], o) PROVE \E k \in Places(q1) : q1[k].j = i
    <3>1. Alike(J[i], J1[i], o) /\ Clearing(J[i], o)
      BY <1>1, <2>3 DEF Alike, Clearing
    <3>2. PICK k \in Places(q) : q[k].j = i
      BY <3>1 DEF Structure, Asked
    <3>3. CASE i # j
      BY <3>2, <3>3
    <3>4. CASE i = j
      BY <2>3, <3>1, <3>2, <3>4 DEF Relaxes
    <3> QED
      BY <3>3, <3>4
  <2> QED
    BY <1>2, <2>1, <2>2, <2>3 DEF Asked
<1>4. Apart(m1, J1, o)
  <2>1. Apart(m, J, o)
    BY DEF Structure
  <2>2. m1.id = 0 => m1 = NoEntry
    BY <2>1 DEF Apart
  <2>3. \A i \in Jobs : Storing(J1[i], o) \/ Refreshing(J1[i], o) => J1[i].id # 0
    BY <1>1, <2>1 DEF Apart, Alike, Storing
  <2>4. ASSUME NEW i \in Jobs, Storing(J1[i], o)
        PROVE  IF J1[i].prev.id = 0 THEN J1[i].prev = NoEntry ELSE m1.id # J1[i].prev.id
    <3>1. Storing(J[i], o) /\ J1[i].prev = J[i].prev
      BY <1>1, <2>4 DEF Alike, Storing
    <3> QED
      BY <2>1, <3>1 DEF Apart, NoEntry
  <2>5. \A i, k \in Jobs : Storing(J1[i], o) /\ Storing(J1[k], o) /\ J1[k].prev.id # 0
                          /\ J1[i].prev.id = J1[k].prev.id => i = k
    BY <1>1, <2>1 DEF Apart, Alike, Storing
  <2>6. \A i, k \in Jobs : Refreshing(J1[i], o) /\ Refreshing(J1[k], o) => i = k
    BY <1>1, <2>1 DEF Apart
  <2> QED
    BY <2>2, <2>3, <2>4, <2>5, <2>6 DEF Apart
<1>5. Behind(q1, J1, o)
  <2>1. Behind(q, J, o)
    BY DEF Structure
  <2> SUFFICES ASSUME NEW i \in Places(q1), NEW k \in Places(q1),
                      Storing(J1[q1[i].j], o), J1[q1[i].j].prev.id # 0,
                      Storing(J1[q1[k].j], o) \/ Refreshing(J1[q1[k].j], o),
                      J1[q1[k].j].id = J1[q1[i].j].prev.id
               PROVE  k < i
    BY DEF Behind
  <2>2. /\ Storing(J[q1[i].j], o) /\ J[q1[i].j].prev.id # 0
        /\ Storing(J[q1[k].j], o) \/ Refreshing(J[q1[k].j], o)
        /\ J[q1[k].j].id = J[q1[i].j].prev.id
    BY <1>2 DEF Alike, Storing, Refreshing
  <2>3. e[k] < e[i]
    BY <2>1, <2>2 DEF Behind, Embeds
  <2> QED
    BY <2>3 DEF Embeds
<1>6. KeepsOnly(q1, m1, J1, o)
  <2>1. KeepsOnly(q, m, J, o) /\ Apart(m, J, o)
    BY DEF Structure
  <2>2. ASSUME NEW i \in Jobs, Saves(J1[i], o)
        PROVE  /\ m1.id = J1[i].id => m1.keep
               /\ \A k \in Jobs : Storing(J1[k], o) /\ J1[k].prev.id = J1[i].id
                                    => J1[k].prev.keep
    <3>1. Saves(J[i], o) /\ J1[i].id = J[i].id /\ J[i].id # 0
      BY <1>1, <2>1, <2>2 DEF Alike, Saves, Refreshing, Apart
    <3>2. m1.id = J1[i].id => m1.keep
      BY <2>1, <3>1 DEF KeepsOnly, NoEntry
    <3>3. \A k \in Jobs : Storing(J1[k], o) => Storing(J[k], o) /\ J1[k].prev = J[k].prev
      BY <1>1 DEF Alike, Storing
    <3> QED
      BY <2>1, <3>1, <3>2, <3>3 DEF KeepsOnly
  <2>3. ASSUME NEW i \in Places(q1), Storing(J1[q1[i].j], o), J1[q1[i].j].id = m1.id
        PROVE  q1[i].kind = "save" <=> m1.keep
    <3>1. Storing(J[q1[i].j], o) /\ J[q1[i].j].id = m1.id /\ q1[i].j \in Jobs
      BY <1>2, <2>3 DEF Alike, Storing
    <3>2. m1.id = m.id /\ m1.keep = m.keep
      BY <2>1, <3>1 DEF Apart, NoEntry
    <3> QED
      BY <2>1, <3>1, <3>2 DEF KeepsOnly, Embeds
  <2> QED
    BY <2>2, <2>3 DEF KeepsOnly
<1>7. Ahead(q1, m1, J1, o)
  <2>1. Ahead(q, m, J, o) /\ Apart(m, J, o)
    BY DEF Structure
  <2> SUFFICES ASSUME NEW i \in Places(q1), NEW k \in Places(q1), i < k,
                      J1[q1[i].j].id = m1.id
               PROVE  /\ Storing(J1[q1[i].j], o) => q1[k].kind # "delete"
                      /\ Refreshing(J1[q1[i].j], o) /\ q1[i].kind = "load"
                           => q1[k].kind = "load"
    BY DEF Ahead
  <2>2. /\ Storing(J1[q1[i].j], o) => Storing(J[q1[i].j], o)
        /\ Refreshing(J1[q1[i].j], o) => Refreshing(J[q1[i].j], o)
        /\ J[q1[i].j].id = m1.id /\ q1[i].j \in Jobs
    BY <1>2 DEF Alike, Storing, Refreshing
  <2>3. Storing(J[q1[i].j], o) \/ Refreshing(J[q1[i].j], o) => J[q1[i].j].id = m.id
    BY <2>1, <2>2 DEF Apart, NoEntry
  <2>4. e[i] \in Places(q) /\ e[k] \in Places(q) /\ e[i] < e[k]
        /\ q1[i] = q[e[i]] /\ q1[k] = q[e[k]]
    BY DEF Embeds
  <2> QED
    BY <2>1, <2>2, <2>3, <2>4 DEF Ahead
<1> QED
  BY <1>3, <1>4, <1>5, <1>6, <1>7 DEF Structure

(* What the others wait for, and what they are, stays behind a call of j. *)
Goes(q, q1, J, J1, j, o) ==
  /\ \A i \in Places(q) :
       /\ q1[i] = q[i] /\ q[i].j \in Jobs \ {j}
       /\ J1[q[i].j].id = J[q[i].j].id /\ J1[q[i].j].prev = J[q[i].j].prev
       /\ Storing(J1[q[i].j], o) <=> Storing(J[q[i].j], o)
       /\ Refreshing(J1[q[i].j], o) <=> Refreshing(J[q[i].j], o)
  /\ \A i \in Jobs \ {j} : Storing(J1[i], o) <=> Storing(J[i], o)
  /\ \A i \in Jobs \ {j} : Refreshing(J1[i], o) <=> Refreshing(J[i], o)
  /\ \A i \in Jobs \ {j} : Saves(J1[i], o) <=> Saves(J[i], o)
  /\ \A i \in Jobs \ {j} : J1[i].id = J[i].id /\ J1[i].prev = J[i].prev

(* A call of j is added to the queue. *)
LEMMA AskedGrows ==
  ASSUME NEW q, NEW J, NEW o, NEW c, NEW q1, NEW J1, NEW j \in Jobs,
         Asked(q, J, o), Unasked(q, j), Others(J, J1, j, o),
         Grown(q, c, q1), c.j = j, Waits(J1[j], c.kind, o)
  PROVE  Asked(q1, J1, o) /\ Goes(q, q1, J, J1, j, o)
<1> DEFINE n == Len(q) + 1
<1>1. /\ \A i \in Places(q1) : i = n \/ i \in Places(q)
      /\ \A i \in Places(q) : i \in Places(q1) /\ q1[i] = q[i]
      /\ n \in Places(q1) /\ q1[n] = c
  BY GrownPlaces
<1> HIDE DEF n
<1>2. \A i \in Places(q) : /\ q1[i] = q[i] /\ q[i].j \in Jobs \ {j}
                           /\ Alike(J[q[i].j], J1[q[i].j], o)
  BY <1>1 DEF Asked, Unasked, Others
<1>3. \A i \in Places(q1) : q1[i].j \in Jobs /\ Waits(J1[q1[i].j], q1[i].kind, o)
  <2>1. ASSUME NEW i \in Places(q) PROVE q1[i].j \in Jobs /\ Waits(J1[q1[i].j], q1[i].kind, o)
    <3>1. Waits(J[q[i].j], q[i].kind, o)
      BY DEF Asked
    <3> QED
      BY <1>2, <3>1, AlikeWaits
  <2> QED
    BY <1>1, <2>1
<1>4. \A i, k \in Places(q1) : q1[i].j = q1[k].j => i = k
  BY <1>1, <1>2 DEF Asked
<1>5. ASSUME NEW i \in Jobs, Clearing(J1[i], o) PROVE \E k \in Places(q1) : q1[k].j = i
  <2>1. CASE i = j
    BY <1>1, <2>1
  <2>2. CASE i # j
    <3>1. Clearing(J[i], o)
      BY <1>5, <2>2 DEF Others, Alike, Clearing
    <3> QED
      BY <1>1, <3>1 DEF Asked
  <2> QED
    BY <2>1, <2>2
<1>6. /\ \A i \in Jobs \ {j} : Storing(J1[i], o) <=> Storing(J[i], o)
      /\ \A i \in Jobs \ {j} : Refreshing(J1[i], o) <=> Refreshing(J[i], o)
      /\ \A i \in Jobs \ {j} : Saves(J1[i], o) <=> Saves(J[i], o)
      /\ \A i \in Jobs \ {j} : J1[i].id = J[i].id /\ J1[i].prev = J[i].prev
  BY DEF Others, Alike, Storing, Refreshing, Saves
<1>7. \A i \in Places(q) :
        /\ J1[q[i].j].id = J[q[i].j].id /\ J1[q[i].j].prev = J[q[i].j].prev
        /\ Storing(J1[q[i].j], o) <=> Storing(J[q[i].j], o)
        /\ Refreshing(J1[q[i].j], o) <=> Refreshing(J[q[i].j], o)
  BY <1>2 DEF Alike, Storing, Refreshing
<1>8. Asked(q1, J1, o)
  BY <1>3, <1>4, <1>5 DEF Asked
<1> QED
  BY <1>2, <1>6, <1>7, <1>8 DEF Goes

(* A sign-in, or a load of what is saved, begins: the session is a new one. *)
LEMMA StructureBegins ==
  ASSUME NEW q, NEW m, NEW J, NEW o, NEW c, NEW q1, NEW m1, NEW J1, NEW j \in Jobs,
         Structure(q, m, J, o), Unasked(q, j), Others(J, J1, j, o),
         Grown(q, c, q1), c.j = j,
         ~Storing(J[j], o), ~Refreshing(J[j], o),
         m1.id # 0, m1.id # m.id, J1[j].id = m1.id,
         \A i \in Jobs : m1.id # J[i].id /\ m1.id # J[i].prev.id,
         \/ /\ Storing(J1[j], o) /\ J1[j].pc = "storing" /\ J1[j].prev = m
            /\ c.kind = IF m1.keep THEN "save" ELSE "delete"
         \/ /\ Refreshing(J1[j], o) /\ J1[j].pc = "load" /\ c.kind = "load"
            /\ \A i \in Jobs : ~Refreshing(J[i], o)
  PROVE  Structure(q1, m1, J1, o)
<1> DEFINE n == Len(q) + 1
<1>1. /\ \A i \in Places(q1) : i = n \/ i \in Places(q)
      /\ \A i \in Places(q) : i < n /\ ~(n < i)
      /\ n \in Places(q1) /\ q1[n] = c /\ ~(n < n)
  BY GrownPlaces
<1> HIDE DEF n
<1>2. /\ Asked(q, J, o) /\ Apart(m, J, o) /\ Behind(q, J, o)
      /\ KeepsOnly(q, m, J, o) /\ Ahead(q, m, J, o)
  BY DEF Structure
<1>3. Waits(J1[j], c.kind, o)
  BY DEF Waits
<1>4. /\ Asked(q1, J1, o)
      /\ \A i \in Places(q) :
           /\ q1[i] = q[i] /\ q[i].j \in Jobs \ {j}
           /\ J1[q[i].j].id = J[q[i].j].id /\ J1[q[i].j].prev = J[q[i].j].prev
           /\ Storing(J1[q[i].j], o) <=> Storing(J[q[i].j], o)
           /\ Refreshing(J1[q[i].j], o) <=> Refreshing(J[q[i].j], o)
      /\ \A i \in Jobs \ {j} : Storing(J1[i], o) <=> Storing(J[i], o)
      /\ \A i \in Jobs \ {j} : Refreshing(J1[i], o) <=> Refreshing(J[i], o)
      /\ \A i \in Jobs \ {j} : Saves(J1[i], o) <=> Saves(J[i], o)
      /\ \A i \in Jobs \ {j} : J1[i].id = J[i].id /\ J1[i].prev = J[i].prev
  <2>1. Asked(q1, J1, o) /\ Goes(q, q1, J, J1, j, o)
    BY <1>2, <1>3, AskedGrows
  <2> QED
    BY <2>1 DEF Goes
<1>5. ~(Storing(J1[j], o) /\ Refreshing(J1[j], o)) /\ ~Saves(J1[j], o)
  BY DEF Storing, Refreshing, Saves
<1>6. Storing(J1[j], o) => J1[j].prev = m
  BY <1>5
<1>7. Apart(m1, J1, o)
  <2>1. \A i \in Jobs : Storing(J1[i], o) \/ Refreshing(J1[i], o) => J1[i].id # 0
    BY <1>2, <1>4 DEF Apart
  <2>2. \A i \in Jobs : Storing(J1[i], o) =>
          IF J1[i].prev.id = 0 THEN J1[i].prev = NoEntry ELSE m1.id # J1[i].prev.id
    BY <1>2, <1>4, <1>6 DEF Apart
  <2>3. \A i, k \in Jobs : Storing(J1[i], o) /\ Storing(J1[k], o) /\ J1[k].prev.id # 0
                           /\ J1[i].prev.id = J1[k].prev.id => i = k
    BY <1>2, <1>4, <1>6 DEF Apart
  <2>4. \A i, k \in Jobs : Refreshing(J1[i], o) /\ Refreshing(J1[k], o) => i = k
    BY <1>2, <1>4, <1>5 DEF Apart
  <2> QED
    BY <2>1, <2>2, <2>3, <2>4 DEF Apart
<1>8. Behind(q1, J1, o)
  <2> SUFFICES ASSUME NEW i \in Places(q1), NEW k \in Places(q1),
                      Storing(J1[q1[i].j], o), J1[q1[i].j].prev.id # 0,
                      Storing(J1[q1[k].j], o) \/ Refreshing(J1[q1[k].j], o),
                      J1[q1[k].j].id = J1[q1[i].j].prev.id
               PROVE  k < i
    BY DEF Behind
  <2>1. CASE i = n
    BY <1>1, <1>4, <1>6, <2>1
  <2>2. CASE i \in Places(q) /\ k = n
    BY <1>1, <1>4, <2>2
  <2>3. CASE i \in Places(q) /\ k \in Places(q)
    <3>1. /\ Storing(J[q[i].j], o) /\ J[q[i].j].prev.id # 0
          /\ Storing(J[q[k].j], o) \/ Refreshing(J[q[k].j], o)
          /\ J[q[k].j].id = J[q[i].j].prev.id
      BY <1>4, <2>3, SMTT(30)
    <3> QED
      BY <1>2, <2>3, <3>1 DEF Behind
  <2> QED
    BY <1>1, <2>1, <2>2, <2>3
<1>9. KeepsOnly(q1, m1, J1, o)
  <2>1. ASSUME NEW i \in Jobs, Saves(J1[i], o)
        PROVE  /\ m1.id = J1[i].id => m1.keep
               /\ \A k \in Jobs : Storing(J1[k], o) /\ J1[k].prev.id = J1[i].id
                                    => J1[k].prev.keep
    <3>1. i # j /\ Saves(J[i], o) /\ J1[i].id = J[i].id
      BY <1>4, <1>5, <2>1
    <3>2. m1.id # J1[i].id
      BY <3>1
    <3>3. \A k \in Jobs : Storing(J1[k], o) /\ J1[k].prev.id = J1[i].id => J1[k].prev.keep
      BY <1>2, <1>4, <1>6, <3>1 DEF KeepsOnly
    <3> QED
      BY <3>2, <3>3
  <2>2. ASSUME NEW i \in Places(q1), Storing(J1[q1[i].j], o), J1[q1[i].j].id = m1.id
        PROVE  q1[i].kind = "save" <=> m1.keep
    <3>1. i = n
      BY <1>1, <1>4, <2>2
    <3>2. Storing(J1[j], o) /\ q1[i].kind = c.kind
      BY <1>1, <2>2, <3>1
    <3>3. c.kind = IF m1.keep THEN "save" ELSE "delete"
      BY <1>5, <3>2
    <3> QED
      BY <3>2, <3>3
  <2> QED
    BY <2>1, <2>2 DEF KeepsOnly
<1>10. Ahead(q1, m1, J1, o)
  <2> SUFFICES ASSUME NEW i \in Places(q1), NEW k \in Places(q1), i < k,
                      J1[q1[i].j].id = m1.id
               PROVE  FALSE
    BY DEF Ahead
  <2>1. i = n
    BY <1>1, <1>4
  <2> QED
    BY <1>1, <2>1
<1> QED
  BY <1>4, <1>7, <1>8, <1>9, <1>10 DEF Structure

(* A refresh begins with the session in memory. *)
LEMMA StructureRefreshes ==
  ASSUME NEW q, NEW m, NEW J, NEW o, NEW J1, NEW j \in Jobs,
         Structure(q, m, J, o), Unasked(q, j), Others(J, J1, j, o),
         \A i \in Jobs : ~Refreshing(J[i], o),
         Refreshing(J1[j], o), J1[j].pc = "provider", J1[j].id # 0
  PROVE  Structure(q, m, J1, o)
<1>1. /\ Asked(q, J, o) /\ Apart(m, J, o) /\ Behind(q, J, o)
      /\ KeepsOnly(q, m, J, o) /\ Ahead(q, m, J, o)
  BY DEF Structure
<1>2. ~Storing(J1[j], o) /\ ~Saves(J1[j], o) /\ ~Clearing(J1[j], o)
  BY DEF Storing, Refreshing, Saves, Clearing
<1>3. \A i \in Places(q) : q[i].j \in Jobs \ {j} /\ Alike(J[q[i].j], J1[q[i].j], o)
  BY <1>1 DEF Asked, Unasked, Others
<1>4. /\ \A i \in Jobs : Storing(J1[i], o) =>
                           Storing(J[i], o) /\ J1[i].id = J[i].id /\ J1[i].prev = J[i].prev
      /\ \A i \in Jobs : Saves(J1[i], o) => Saves(J[i], o) /\ J1[i].id = J[i].id
      /\ \A i \in Jobs : Clearing(J1[i], o) => Clearing(J[i], o)
      /\ \A i \in Jobs \ {j} : ~Refreshing(J1[i], o)
  BY <1>2 DEF Others, Alike, Storing, Refreshing, Saves, Clearing
<1>5. Asked(q, J1, o)
  <2>1. \A i \in Places(q) : Waits(J[q[i].j], q[i].kind, o)
    BY <1>1 DEF Asked
  <2>2. \A i \in Places(q) : Waits(J1[q[i].j], q[i].kind, o)
    BY <1>3, <2>1, AlikeWaits
  <2> QED
    BY <1>1, <1>3, <1>4, <2>2 DEF Asked
<1>6. Apart(m, J1, o)
  BY <1>1, <1>4 DEF Apart
<1>7. Behind(q, J1, o)
  BY <1>1, <1>3 DEF Behind, Alike, Storing, Refreshing
<1>8. KeepsOnly(q, m, J1, o)
  BY <1>1, <1>3, <1>4 DEF KeepsOnly
<1>9. Ahead(q, m, J1, o)
  BY <1>1, <1>3 DEF Ahead, Alike, Storing, Refreshing
<1> QED
  BY <1>5, <1>6, <1>7, <1>8, <1>9 DEF Structure

(* The refresh of the session in memory asks for its new token to be saved, *)
(* or for what is saved to be deleted; a removal, for the latter.           *)
LEMMA StructureAsks ==
  ASSUME NEW q, NEW m, NEW J, NEW o, NEW c, NEW q1, NEW m1, NEW J1, NEW j \in Jobs,
         Structure(q, m, J, o), Unasked(q, j), Others(J, J1, j, o),
         Grown(q, c, q1), c.j = j, Waits(J1[j], c.kind, o), ~Storing(J1[j], o),
         Refreshing(J1[j], o) => /\ Refreshing(J[j], o) /\ J1[j].id = J[j].id
                                 /\ J[j].id = m.id,
         \/ /\ Saves(J1[j], o) /\ c.kind = "save" /\ m.keep
            /\ m1.id = m.id /\ m1.keep = m.keep
         \/ ~Saves(J1[j], o) /\ c.kind = "delete" /\ m1 = NoEntry
  PROVE  Structure(q1, m1, J1, o)
<1> DEFINE n == Len(q) + 1
<1>1. /\ \A i \in Places(q1) : i = n \/ i \in Places(q)
      /\ \A i \in Places(q) : i < n /\ ~(n < i)
      /\ n \in Places(q1) /\ q1[n] = c /\ ~(n < n)
  BY GrownPlaces
<1> HIDE DEF n
<1>2. /\ Asked(q, J, o) /\ Apart(m, J, o) /\ Behind(q, J, o)
      /\ KeepsOnly(q, m, J, o) /\ Ahead(q, m, J, o)
  BY DEF Structure
<1>3. /\ Asked(q1, J1, o)
      /\ \A i \in Places(q) :
           /\ q1[i] = q[i] /\ q[i].j \in Jobs \ {j}
           /\ J1[q[i].j].id = J[q[i].j].id /\ J1[q[i].j].prev = J[q[i].j].prev
           /\ Storing(J1[q[i].j], o) <=> Storing(J[q[i].j], o)
           /\ Refreshing(J1[q[i].j], o) <=> Refreshing(J[q[i].j], o)
      /\ \A i \in Jobs \ {j} : Storing(J1[i], o) <=> Storing(J[i], o)
      /\ \A i \in Jobs \ {j} : Refreshing(J1[i], o) <=> Refreshing(J[i], o)
      /\ \A i \in Jobs \ {j} : Saves(J1[i], o) <=> Saves(J[i], o)
      /\ \A i \in Jobs \ {j} : J1[i].id = J[i].id /\ J1[i].prev = J[i].prev
  <2>1. Asked(q1, J1, o) /\ Goes(q, q1, J, J1, j, o)
    BY <1>2, AskedGrows
  <2> QED
    BY <2>1 DEF Goes
<1>4. Saves(J1[j], o) => Refreshing(J1[j], o)
  BY DEF Saves
<1>5. m1 = NoEntry \/ (m1.id = m.id /\ m1.id # 0 /\ m1.keep = m.keep /\ m.keep)
  BY <1>2, <1>4 DEF Apart
<1>6. \A i \in Jobs : /\ Storing(J1[i], o) => Storing(J[i], o)
                      /\ Refreshing(J1[i], o) => Refreshing(J[i], o) /\ J1[i].id = J[i].id
                      /\ Storing(J1[i], o) => J1[i].id = J[i].id /\ J1[i].prev = J[i].prev
  BY <1>3
<1>7. Apart(m1, J1, o)
  <2>1. m1.id = 0 => m1 = NoEntry
    BY <1>5
  <2>2. \A i \in Jobs : Storing(J1[i], o) \/ Refreshing(J1[i], o) => J1[i].id # 0
    BY <1>2, <1>6 DEF Apart
  <2>3. \A i \in Jobs : Storing(J1[i], o) =>
          IF J1[i].prev.id = 0 THEN J1[i].prev = NoEntry ELSE m1.id # J1[i].prev.id
    BY <1>2, <1>5, <1>6 DEF Apart, NoEntry
  <2>4. \A i, k \in Jobs : Storing(J1[i], o) /\ Storing(J1[k], o) /\ J1[k].prev.id # 0
                           /\ J1[i].prev.id = J1[k].prev.id => i = k
    BY <1>2, <1>6 DEF Apart
  <2>5. \A i, k \in Jobs : Refreshing(J1[i], o) /\ Refreshing(J1[k], o) => i = k
    BY <1>2, <1>6 DEF Apart
  <2> QED
    BY <2>1, <2>2, <2>3, <2>4, <2>5 DEF Apart
<1>8. Behind(q1, J1, o)
  <2> SUFFICES ASSUME NEW i \in Places(q1), NEW k \in Places(q1),
                      Storing(J1[q1[i].j], o), J1[q1[i].j].prev.id # 0,
                      Storing(J1[q1[k].j], o) \/ Refreshing(J1[q1[k].j], o),
                      J1[q1[k].j].id = J1[q1[i].j].prev.id
               PROVE  k < i
    BY DEF Behind
  <2>1. i \in Places(q)
    BY <1>1
  <2>2. CASE k = n
    <3>1. Refreshing(J1[j], o) /\ J1[q1[i].j].prev.id = m.id
      BY <1>1, <2>2
    <3>2. q[i].j \in Jobs /\ Storing(J[q[i].j], o) /\ J[q[i].j].prev.id = m.id
          /\ J[q[i].j].prev.id # 0
      BY <1>3, <2>1, <3>1
    <3> QED
      BY <1>2, <3>2 DEF Apart
  <2>3. CASE k \in Places(q)
    <3>1. /\ Storing(J[q[i].j], o) /\ J[q[i].j].prev.id # 0
          /\ Storing(J[q[k].j], o) \/ Refreshing(J[q[k].j], o)
          /\ J[q[k].j].id = J[q[i].j].prev.id
      BY <1>3, <2>1, <2>3, SMTT(30)
    <3> QED
      BY <1>2, <2>1, <2>3, <3>1 DEF Behind
  <2> QED
    BY <1>1, <2>2, <2>3
<1>9. KeepsOnly(q1, m1, J1, o)
  <2>1. ASSUME NEW i \in Jobs, Saves(J1[i], o)
        PROVE  /\ m1.id = J1[i].id => m1.keep
               /\ \A k \in Jobs : Storing(J1[k], o) /\ J1[k].prev.id = J1[i].id
                                    => J1[k].prev.keep
    <3>1. CASE i = j
      <4>1. J1[i].id = m.id /\ m.id # 0 /\ m1.keep
        BY <1>2, <1>4, <2>1, <3>1 DEF Apart
      <4>2. ASSUME NEW k \in Jobs, Storing(J1[k], o), J1[k].prev.id = J1[i].id PROVE FALSE
        <5>1. Storing(J[k], o) /\ J[k].prev.id = m.id
          BY <1>6, <4>1, <4>2
        <5> QED
          BY <1>2, <4>1, <5>1 DEF Apart
      <4> QED
        BY <4>1, <4>2
    <3>2. CASE i # j
      <4>1. Saves(J[i], o) /\ J1[i].id = J[i].id /\ J[i].id # 0
        BY <1>2, <1>3, <2>1, <3>2 DEF Saves, Apart
      <4>2. m1.id = J1[i].id => m1.keep
        BY <1>2, <1>5, <4>1 DEF KeepsOnly, NoEntry
      <4> QED
        BY <1>2, <1>6, <4>1, <4>2 DEF KeepsOnly
    <3> QED
      BY <3>1, <3>2
  <2>2. ASSUME NEW i \in Places(q1), Storing(J1[q1[i].j], o), J1[q1[i].j].id = m1.id
        PROVE  q1[i].kind = "save" <=> m1.keep
    <3>1. i \in Places(q)
      BY <1>1, <2>2
    <3>2. Storing(J[q[i].j], o) /\ J[q[i].j].id = m1.id /\ J[q[i].j].id # 0
          /\ q1[i] = q[i]
      BY <1>2, <1>3, <2>2, <3>1 DEF Apart
    <3>3. m1.id = m.id /\ m1.keep = m.keep
      BY <1>5, <3>2 DEF NoEntry
    <3> QED
      BY <1>2, <3>1, <3>2, <3>3 DEF KeepsOnly
  <2> QED
    BY <2>1, <2>2 DEF KeepsOnly
<1>10. Ahead(q1, m1, J1, o)
  <2> SUFFICES ASSUME NEW i \in Places(q1), NEW k \in Places(q1), i < k,
                      J1[q1[i].j].id = m1.id,
                      Storing(J1[q1[i].j], o) \/ Refreshing(J1[q1[i].j], o)
               PROVE  /\ Storing(J1[q1[i].j], o) => q1[k].kind # "delete"
                      /\ Refreshing(J1[q1[i].j], o) /\ q1[i].kind = "load"
                           => q1[k].kind = "load"
    BY DEF Ahead
  <2>1. i \in Places(q)
    BY <1>1
  <2>2. /\ q1[i] = q[i] /\ q[i].j \in Jobs \ {j} /\ J[q[i].j].id = m1.id
        /\ Storing(J1[q1[i].j], o) <=> Storing(J[q[i].j], o)
        /\ Refreshing(J1[q1[i].j], o) <=> Refreshing(J[q[i].j], o)
    BY <1>3, <2>1
  <2>3. m1.id # 0
    BY <1>2, <2>2 DEF Apart
  <2>4. m1.id = m.id /\ Saves(J1[j], o) /\ c.kind = "save"
    BY <2>3 DEF NoEntry
  <2>5. CASE k = n
    <3>1. Refreshing(J[j], o)
      BY <1>4, <2>4
    <3>2. ~Refreshing(J[q[i].j], o)
      BY <1>2, <2>2, <3>1 DEF Apart
    <3> QED
      BY <1>1, <2>2, <2>4, <2>5, <3>2
  <2>6. CASE k \in Places(q)
    BY <1>2, <1>3, <2>1, <2>2, <2>4, <2>6 DEF Ahead
  <2> QED
    BY <1>1, <2>5, <2>6
<1> QED
  BY <1>3, <1>7, <1>8, <1>9, <1>10 DEF Structure

(* A sign-in that could not be stored puts back the session it replaced. *)
LEMMA StructureRestores ==
  ASSUME NEW q, NEW m, NEW J, NEW o, NEW q1, NEW J1, NEW j \in Jobs,
         Structure(q, m, J, o), Popped(q, q1), q[1].j = j, Others(J, J1, j, o),
         Storing(J[j], o), J[j].prev.id # 0,
         ~Storing(J1[j], o), ~Refreshing(J1[j], o), ~Clearing(J1[j], o)
  PROVE  Structure(q1, J[j].prev, J1, o)
<1> DEFINE m1 == J[j].prev
<1>1. /\ Asked(q, J, o) /\ Apart(m, J, o) /\ Behind(q, J, o)
      /\ KeepsOnly(q, m, J, o) /\ Ahead(q, m, J, o)
  BY DEF Structure
<1>2. PICK e : Embeds(e, q1, q) /\ \A i \in Places(q1) : e[i] # 1
  BY PoppedEmbeds
<1>3. 1 \in Places(q) /\ \A i \in Places(q) : ~(i < 1)
  BY PoppedPlaces
<1>4. /\ Unasked(q1, j)
      /\ \A i \in Places(q) : q[i].j # j => \E k \in Places(q1) : q1[k] = q[i]
  <2>1. Unasked(q1, j)
    BY <1>1, <1>2, <1>3 DEF Asked, Unasked, Embeds
  <2>2. \A i \in Places(q) : q[i].j # j => \E k \in Places(q1) : q1[k] = q[i]
    BY PoppedPlaces
  <2> QED
    BY <2>1, <2>2
<1>5. Relaxes(J[j], J1[j], o)
  BY DEF Relaxes, Saves
<1>6. Structure(q1, NoEntry, J1, o)
  BY <1>2, <1>4, <1>5, StructureShrinks
<1>7. /\ \A i \in Jobs \ {j} : Storing(J1[i], o) <=> Storing(J[i], o)
      /\ \A i \in Jobs \ {j} : Saves(J1[i], o) <=> Saves(J[i], o)
      /\ \A i \in Jobs \ {j} : Refreshing(J1[i], o) <=> Refreshing(J[i], o)
      /\ \A i \in Jobs \ {j} : J1[i].id = J[i].id /\ J1[i].prev = J[i].prev
      /\ ~Saves(J1[j], o)
  BY DEF Others, Alike, Storing, Refreshing, Saves
<1>8. /\ Asked(q1, J1, o) /\ Apart(NoEntry, J1, o) /\ Behind(q1, J1, o)
      /\ KeepsOnly(q1, NoEntry, J1, o)
  BY <1>6 DEF Structure
<1>9. Apart(m1, J1, o)
  <2>1. \A i \in Jobs : Storing(J1[i], o) =>
          IF J1[i].prev.id = 0 THEN J1[i].prev = NoEntry ELSE m1.id # J1[i].prev.id
    BY <1>1, <1>7 DEF Apart
  <2> QED
    BY <1>8, <2>1 DEF Apart
<1>10. \A i \in Places(q1) : Storing(J1[q1[i].j], o) \/ Refreshing(J1[q1[i].j], o)
                              => J1[q1[i].j].id # m1.id
  <2> SUFFICES ASSUME NEW i \in Places(q1), J1[q1[i].j].id = m1.id,
                      Storing(J1[q1[i].j], o) \/ Refreshing(J1[q1[i].j], o)
               PROVE  FALSE
    OBVIOUS
  <2>1. e[i] \in Places(q) /\ q[e[i]] = q1[i] /\ q1[i].j \in Jobs \ {j}
    BY <1>2, <1>4, <1>8 DEF Embeds, Unasked, Asked
  <2>2. J[q[e[i]].j].id = m1.id /\ (Storing(J[q[e[i]].j], o) \/ Refreshing(J[q[e[i]].j], o))
    BY <1>7, <2>1
  <2>3. e[i] < 1
    BY <1>1, <1>3, <2>1, <2>2 DEF Behind
  <2> QED
    BY <1>3, <2>1, <2>3
<1>11. KeepsOnly(q1, m1, J1, o)
  <2>1. ASSUME NEW i \in Jobs, Saves(J1[i], o) PROVE m1.id = J1[i].id => m1.keep
    BY <1>1, <1>7, <2>1 DEF KeepsOnly
  <2> QED
    BY <1>8, <1>10, <2>1 DEF KeepsOnly
<1>12. Ahead(q1, m1, J1, o)
  BY <1>10 DEF Ahead
<1> QED
  BY <1>8, <1>9, <1>11, <1>12 DEF Structure

-----------------------------------------------------------------------------
(* ClientAccounts and the credentials: what is saved, or will be *)

NativeCalls == [kind : {"load", "save", "delete"}, token : Nat, j : Jobs]
Entries == [id : Nat, token : Nat, keep : BOOLEAN]

CallType(c) == /\ c.id \in Nat /\ c.prev \in Entries /\ c.left \subseteq Owners
               /\ c.o \in Owners \cup {Local}
               /\ c.op \in {"none", "clear"} <=> c.o = Local

CredTypes ==
  /\ mem \in [Owners -> Entries] /\ saved \in [Owners -> Nat]
  /\ queue \in [Owners -> Seq(NativeCalls)]
  /\ incomplete \subseteq Owners /\ overlooked \subseteq Owners
  /\ access \in [Owners -> {"none", "good", "old"}]
  /\ \A j \in Jobs : CallType(job[j])

(* Nothing failed and nothing was left behind; what is saved of the        *)
(* account is to go, or should have gone.                                  *)
Sound(o) == o \notin incomplete /\ o \notin overlooked
Leaving(o) == Deletes(queue[o]) \/ (Sound(o) /\ accounts[o] # "kept")

LastDelete(q, i) == /\ q[i].kind = "delete"
                    /\ \A k \in Places(q) : q[k].kind = "delete" => k <= i
LastChange(q, i) == /\ q[i].kind # "load"
                    /\ \A k \in Places(q) : q[k].kind # "load" => k <= i
OnlyLoads(q) == \A i \in Places(q) : q[i].kind = "load"

(* A session that is not to be remembered: the last deletion is its own,   *)
(* and nothing is saved after it.                                          *)
Forgotten(o) ==
  mem[o] # NoEntry /\ ~mem[o].keep =>
    /\ Deletes(queue[o]) \/ o \notin incomplete =>
         \A i \in Places(queue[o]) : ~LateSave(queue[o], i)
    /\ \A i \in Places(queue[o]) : LastDelete(queue[o], i) =>
         Storing(job[queue[o][i].j], o) /\ job[queue[o][i].j].id = mem[o].id
    /\ ~Deletes(queue[o]) /\ o \notin incomplete => saved[o] = 0 /\ accounts[o] # "kept"

(* The desktop's token is what the store will have.                        *)
Rotation(o) ==
  /\ OnDesktop /\ mem[o].keep /\ mem[o].token # 0
  /\ o \notin incomplete \/ Deletes(queue[o])
  => /\ \A i \in Places(queue[o]) : LastChange(queue[o], i) =>
          queue[o][i].kind = "save" /\ queue[o][i].token = mem[o].token
     /\ OnlyLoads(queue[o]) => saved[o] = mem[o].token

(* Of an account that leaves, the first late save is that of a sign-in; a  *)
(* session to be remembered has a late save, or is still being loaded.     *)
Led(o) ==
  Leaving(o) => \A i \in Places(queue[o]) : LateSave(queue[o], i) =>
     \E k \in Places(queue[o]) : /\ k <= i /\ LateSave(queue[o], k)
                                 /\ Storing(job[queue[o][k].j], o)
Backed(o) ==
  Leaving(o) /\ mem[o] # NoEntry /\ mem[o].keep =>
     \E i \in Places(queue[o]) : Late(queue[o], i) /\
        \/ queue[o][i].kind = "save"
        \/ queue[o][i].kind = "load" /\ job[queue[o][i].j].id = mem[o].id
Gone(o) == ~Deletes(queue[o]) /\ Leaving(o) => saved[o] = 0

(* What is saved, or will be, while the list is about to be emptied is of  *)
(* an account in use, one that signs out, or one no longer kept.           *)
SigningOut(o) == \E j \in Jobs : job[j].op = "signout" /\ job[j].o = o
Wanted(o) == mem[o] # NoEntry \/ SigningOut(o) \/ accounts[o] # "kept"
SavesWanted(o) ==
  Deletes(queue[o]) \/ Sound(o) =>
    \A i \in Places(queue[o]) : LateSave(queue[o], i) => Wanted(o)
Emptying(c, o) == c.op = "clear" /\ o \notin c.left
KeptWanted(o) ==
  \A j \in Jobs : Emptying(job[j], o) /\ Sound(o) /\ ~Deletes(queue[o]) /\ saved[o] # 0
                    => Wanted(o)

AccessListed(o) == access[o] # "none" => accounts[o] # "none" \/ o \in overlooked

Promise(o) == /\ Forgotten(o) /\ Rotation(o) /\ Led(o) /\ Backed(o) /\ Gone(o)
              /\ SavesWanted(o) /\ KeptWanted(o) /\ AccessListed(o)

CredInv == ~mixed => /\ CredTypes
                     /\ \A o \in Owners : /\ Structure(queue[o], mem[o], job, o)
                                          /\ Promise(o)

LEMMA GrownChanges ==
  ASSUME NEW q, NEW c, NEW q1, Grown(q, c, q1)
  PROVE  /\ c.kind # "load" => /\ ~OnlyLoads(q1)
                               /\ \A i \in Places(q1) : LastChange(q1, i) => i = Len(q) + 1
         /\ c.kind = "delete" => \A i \in Places(q1) : LastDelete(q1, i) => i = Len(q) + 1
         /\ \A i \in Places(q) : ~(Len(q) + 1 <= i)
<1>1. \A i \in Places(q) : ~(Len(q) + 1 <= i)
  BY DEF Grown, Places
<1>2. c.kind # "load" => ~OnlyLoads(q1)
  BY GrownPlaces DEF OnlyLoads
<1>3. c.kind # "load" => \A i \in Places(q1) : LastChange(q1, i) => i = Len(q) + 1
  BY <1>1, GrownPlaces DEF LastChange
<1>4. c.kind = "delete" => \A i \in Places(q1) : LastDelete(q1, i) => i = Len(q) + 1
  BY <1>1, GrownPlaces DEF LastDelete
<1> QED
  BY <1>1, <1>2, <1>3, <1>4

LEMMA PoppedChanges ==
  ASSUME NEW q, NEW q1, Popped(q, q1)
  PROVE  /\ \A i \in Places(q1) : LastChange(q1, i) => LastChange(q, i + 1)
         /\ \A i \in Places(q1) : LastDelete(q1, i) => LastDelete(q, i + 1)
         /\ OnlyLoads(q1) => IF q[1].kind = "load" THEN OnlyLoads(q) ELSE LastChange(q, 1)
         /\ ~Deletes(q1) /\ q[1].kind = "delete" => LastDelete(q, 1)
<1>1. 1 <= 1 /\ \A i \in Places(q1) : 1 <= i + 1
  BY DEF Popped, Places
<1>2. ASSUME NEW i \in Places(q1), LastChange(q1, i) PROVE LastChange(q, i + 1)
  BY <1>1, <1>2, PoppedPlaces DEF LastChange
<1>3. ASSUME NEW i \in Places(q1), LastDelete(q1, i) PROVE LastDelete(q, i + 1)
  BY <1>1, <1>3, PoppedPlaces DEF LastDelete
<1>4. ASSUME OnlyLoads(q1)
      PROVE  IF q[1].kind = "load" THEN OnlyLoads(q) ELSE LastChange(q, 1)
  BY <1>1, <1>4, PoppedPlaces DEF OnlyLoads, LastChange
<1>5. ~Deletes(q1) /\ q[1].kind = "delete" => LastDelete(q, 1)
  BY <1>1, PoppedPlaces DEF Deletes, LastDelete
<1> QED
  BY <1>2, <1>3, <1>4, <1>5

(* A step that leaves what is saved and what waits. *)
Clears(o) == \A j \in Jobs : Emptying(job'[j], o) =>
                (\E i \in Jobs : Emptying(job[i], o)) \/ accounts'[o] # "kept"

LEMMA PromiseStays ==
  ASSUME NEW o \in Owners, Promise(o), platform' = platform,
         queue'[o] = queue[o], saved'[o] = saved[o],
         o \in incomplete' <=> o \in incomplete,
         \/ mem'[o] = mem[o] \/ mem'[o] = NoEntry
         \/ /\ mem[o] # NoEntry /\ mem'[o].id = mem[o].id /\ mem'[o].keep = mem[o].keep
            /\ ~(OnDesktop /\ mem[o].keep),
         \A i \in Places(queue[o]) : Alike(job[queue[o][i].j], job'[queue[o][i].j], o),
         Sound(o)' => Sound(o),
         accounts'[o] = accounts[o] \/ accounts'[o] = "none"
           \/ (accounts'[o] = "kept" /\ mem'[o].keep),
         Leaving(o)' => Leaving(o), Wanted(o) => Wanted(o)', Clears(o),
         AccessListed(o)'
  PROVE  Promise(o)'
<1>1. \A i \in Places(queue[o]) :
         /\ job'[queue[o][i].j].id = job[queue[o][i].j].id
         /\ Storing(job'[queue[o][i].j], o) <=> Storing(job[queue[o][i].j], o)
  BY DEF Alike, Storing
<1>2. Forgotten(o)'
  <2>1. CASE mem'[o] = NoEntry
    BY <2>1 DEF Forgotten
  <2>2. CASE mem'[o] # NoEntry
    <3>1. mem[o] # NoEntry /\ mem'[o].id = mem[o].id /\ mem'[o].keep = mem[o].keep
      BY <2>2
    <3> SUFFICES ASSUME ~mem'[o].keep PROVE Forgotten(o)'
      BY DEF Forgotten
    <3>2. accounts'[o] = "kept" => accounts[o] = "kept"
      OBVIOUS
    <3>3. Forgotten(o)
      BY DEF Promise
    <3> QED
      BY <1>1, <3>1, <3>2, <3>3 DEF Forgotten
  <2> QED
    BY <2>1, <2>2
<1>3. Rotation(o)'
  <2>1. CASE mem'[o] = NoEntry
    BY <2>1 DEF Rotation, NoEntry
  <2>2. CASE mem'[o] = mem[o]
    BY <2>2 DEF Promise, Rotation, OnDesktop
  <2>3. CASE mem'[o].keep = mem[o].keep /\ ~(OnDesktop /\ mem[o].keep)
    BY <2>3 DEF Rotation, OnDesktop
  <2> QED
    BY <2>1, <2>2, <2>3
<1>4. Led(o)'
  BY <1>1 DEF Promise, Led
<1>5. Backed(o)'
  <2>1. CASE mem'[o] = NoEntry
    BY <2>1 DEF Backed
  <2>2. CASE mem'[o] # NoEntry
    <3>1. mem[o] # NoEntry /\ mem'[o].id = mem[o].id /\ mem'[o].keep = mem[o].keep
      BY <2>2
    <3> QED
      BY <1>1, <3>1 DEF Promise, Backed
  <2> QED
    BY <2>1, <2>2
<1>6. Gone(o)'
  BY DEF Promise, Gone
<1>7. SavesWanted(o)'
  BY DEF Promise, SavesWanted
<1>8. KeptWanted(o)'
  <2> SUFFICES ASSUME NEW j \in Jobs, Emptying(job'[j], o), Sound(o)',
                      ~Deletes(queue[o]), saved[o] # 0
               PROVE  Wanted(o)'
    BY DEF KeptWanted
  <2>1. CASE accounts'[o] # "kept"
    BY <2>1 DEF Wanted
  <2>2. ASSUME NEW i \in Jobs, Emptying(job[i], o) PROVE Wanted(o)'
    BY <2>2 DEF Promise, KeptWanted
  <2> QED
    BY <2>1, <2>2 DEF Clears
<1> QED
  BY <1>2, <1>3, <1>4, <1>5, <1>6, <1>7, <1>8 DEF Promise

(* A session that is not to be remembered is renewed. *)
LEMMA PromiseRenewed ==
  ASSUME NEW o \in Owners, Promise(o), platform' = platform,
         queue'[o] = queue[o], saved'[o] = saved[o], mem'[o] = mem[o],
         o \in incomplete' <=> o \in incomplete, o \in overlooked' <=> o \in overlooked,
         mem[o] # NoEntry, ~mem[o].keep, accounts'[o] = "temporary",
         \A i \in Places(queue[o]) : Alike(job[queue[o][i].j], job'[queue[o][i].j], o)
  PROVE  Promise(o)'
<1>1. \A i \in Places(queue[o]) :
         /\ job'[queue[o][i].j].id = job[queue[o][i].j].id
         /\ Storing(job'[queue[o][i].j], o) <=> Storing(job[queue[o][i].j], o)
  BY DEF Alike, Storing
<1>2. Forgotten(o)
  BY DEF Promise
<1>3. Forgotten(o)'
  BY <1>1, <1>2 DEF Forgotten
<1>4. Rotation(o)' /\ Backed(o)'
  BY DEF Rotation, Backed
<1>5. Led(o)'
  BY <1>2 DEF Led, Leaving, Sound, Forgotten
<1>6. Gone(o)'
  BY <1>2 DEF Gone, Leaving, Sound, Forgotten
<1>7. SavesWanted(o)' /\ KeptWanted(o)' /\ AccessListed(o)'
  BY DEF SavesWanted, KeptWanted, Wanted, AccessListed
<1> QED
  BY <1>3, <1>4, <1>5, <1>6, <1>7 DEF Promise

(* A deletion is asked for, and the session is forgotten. *)
LEMMA PromiseForgets ==
  ASSUME NEW o \in Owners, NEW q, NEW c, Grown(q, c, queue'[o]), c.kind = "delete",
         mem'[o] = NoEntry, AccessListed(o)'
  PROVE  Promise(o)'
<1>1. Deletes(queue'[o]) /\ \A i \in Places(queue'[o]) : ~Late(queue'[o], i)
  BY GrownPlaces, GrownLate
<1>2. Forgotten(o)' /\ Rotation(o)' /\ Backed(o)'
  BY DEF Forgotten, Rotation, Backed, NoEntry
<1>3. Led(o)' /\ Gone(o)'
  BY <1>1 DEF Led, Gone, LateSave
<1>4. SavesWanted(o)' /\ KeptWanted(o)'
  BY <1>1 DEF SavesWanted, KeptWanted, LateSave
<1> QED
  BY <1>2, <1>3, <1>4 DEF Promise

(* A sign-in replaces the session and asks for it to be saved, or for what *)
(* is saved to be deleted.                                                 *)
LEMMA PromiseSignsIn ==
  ASSUME NEW o \in Owners, Promise(o), NEW j \in Jobs, NEW c,
         Grown(queue[o], c, queue'[o]), c.j = j,
         saved'[o] = saved[o], accounts'[o] = accounts[o],
         o \in incomplete' <=> o \in incomplete, o \in overlooked' <=> o \in overlooked,
         mem'[o] # NoEntry, Storing(job'[j], o), job'[j].id = mem'[o].id,
         \/ mem'[o].keep /\ c.kind = "save" /\ c.token = mem'[o].token
         \/ ~mem'[o].keep /\ c.kind = "delete",
         \A i \in Places(queue[o]) : Alike(job[queue[o][i].j], job'[queue[o][i].j], o),
         AccessListed(o)'
  PROVE  Promise(o)'
<1> DEFINE n == Len(queue[o]) + 1
<1>1. /\ \A i \in Places(queue'[o]) : i = n \/ i \in Places(queue[o])
      /\ \A i \in Places(queue[o]) : i \in Places(queue'[o]) /\ queue'[o][i] = queue[o][i]
      /\ n \in Places(queue'[o]) /\ queue'[o][n] = c
  BY GrownPlaces
<1>2. /\ Deletes(queue'[o]) <=> Deletes(queue[o]) \/ c.kind = "delete"
      /\ \A i \in Places(queue[o]) : Late(queue'[o], i) <=>
            Late(queue[o], i) /\ c.kind # "delete"
      /\ Late(queue'[o], n) <=> c.kind # "delete"
  BY GrownLate
<1>3. /\ ~OnlyLoads(queue'[o])
      /\ \A i \in Places(queue'[o]) : LastChange(queue'[o], i) => i = n
      /\ c.kind = "delete" => \A i \in Places(queue'[o]) : LastDelete(queue'[o], i) => i = n
  BY GrownChanges
<1>4. n <= n
  BY DEF Grown
<1>5. \A i \in Places(queue[o]) :
         Storing(job'[queue[o][i].j], o) <=> Storing(job[queue[o][i].j], o)
  BY DEF Alike, Storing
<1> HIDE DEF n
<1>6. Forgotten(o)'
  <2>1. CASE mem'[o].keep
    BY <2>1 DEF Forgotten
  <2>2. CASE c.kind = "delete"
    BY <1>1, <1>2, <1>3, <2>2 DEF Forgotten, LateSave
  <2> QED
    BY <2>1, <2>2
<1>7. Rotation(o)'
  BY <1>1, <1>3 DEF Rotation
<1>8. Led(o)'
  <2> SUFFICES ASSUME Leaving(o)', NEW i \in Places(queue'[o]), LateSave(queue'[o], i)
               PROVE  \E k \in Places(queue'[o]) :
                        /\ k <= i /\ LateSave(queue'[o], k)
                        /\ Storing(job'[queue'[o][k].j], o)
    BY DEF Led
  <2>1. CASE i = n
    BY <1>1, <1>4, <2>1
  <2>2. CASE i \in Places(queue[o])
    <3>1. c.kind = "save" /\ LateSave(queue[o], i)
      BY <1>1, <1>2, <2>2 DEF LateSave
    <3>2. Leaving(o)
      BY <1>2, <3>1 DEF Leaving, Sound
    <3>3. PICK k \in Places(queue[o]) : /\ k <= i /\ LateSave(queue[o], k)
                                        /\ Storing(job[queue[o][k].j], o)
      BY <2>2, <3>1, <3>2 DEF Promise, Led
    <3>4. k \in Places(queue'[o]) /\ LateSave(queue'[o], k)
          /\ Storing(job'[queue'[o][k].j], o)
      BY <1>1, <1>2, <1>5, <3>1, <3>3 DEF LateSave
    <3> QED
      BY <3>3, <3>4
  <2> QED
    BY <1>1, <2>1, <2>2
<1>9. Backed(o)'
  BY <1>1, <1>2 DEF Backed
<1>10. Gone(o)'
  BY <1>2 DEF Promise, Gone, Leaving, Sound
<1>11. SavesWanted(o)' /\ KeptWanted(o)'
  BY DEF SavesWanted, KeptWanted, Wanted
<1> QED
  BY <1>6, <1>7, <1>8, <1>9, <1>10, <1>11 DEF Promise

(* What is saved is asked for, for a session that has no token yet. *)
LEMMA PromiseLoads ==
  ASSUME NEW o \in Owners, Promise(o), NEW j \in Jobs, NEW c,
         Grown(queue[o], c, queue'[o]), c.j = j, c.kind = "load",
         saved'[o] = saved[o], accounts'[o] = accounts[o],
         o \in incomplete' <=> o \in incomplete, o \in overlooked' <=> o \in overlooked,
         mem'[o] # NoEntry, mem'[o].keep, mem'[o].token = 0, job'[j].id = mem'[o].id,
         \A i \in Places(queue[o]) : Alike(job[queue[o][i].j], job'[queue[o][i].j], o),
         AccessListed(o)'
  PROVE  Promise(o)'
<1> DEFINE n == Len(queue[o]) + 1
<1>1. /\ \A i \in Places(queue'[o]) : i = n \/ i \in Places(queue[o])
      /\ \A i \in Places(queue[o]) : i \in Places(queue'[o]) /\ queue'[o][i] = queue[o][i]
      /\ n \in Places(queue'[o]) /\ queue'[o][n] = c
  BY GrownPlaces
<1>2. /\ Deletes(queue'[o]) <=> Deletes(queue[o])
      /\ \A i \in Places(queue[o]) : Late(queue'[o], i) <=> Late(queue[o], i)
      /\ Late(queue'[o], n)
  BY GrownLate
<1>3. \A i \in Places(queue[o]) :
         Storing(job'[queue[o][i].j], o) <=> Storing(job[queue[o][i].j], o)
  BY DEF Alike, Storing
<1> HIDE DEF n
<1>4. Forgotten(o)' /\ Rotation(o)'
  BY DEF Forgotten, Rotation
<1>5. Led(o)'
  <2>1. Leaving(o)' <=> Leaving(o)
    BY <1>2 DEF Leaving, Sound
  <2>2. \A i \in Places(queue'[o]) : LateSave(queue'[o], i) =>
           i \in Places(queue[o]) /\ LateSave(queue[o], i)
    BY <1>1, <1>2 DEF LateSave
  <2>3. \A i \in Places(queue[o]) : LateSave(queue[o], i) =>
           i \in Places(queue'[o]) /\ LateSave(queue'[o], i)
    BY <1>1, <1>2 DEF LateSave
  <2> QED
    BY <1>1, <1>3, <2>1, <2>2, <2>3 DEF Promise, Led
<1>6. Backed(o)'
  BY <1>1, <1>2 DEF Backed
<1>7. Gone(o)'
  BY <1>2 DEF Promise, Gone, Leaving, Sound
<1>8. SavesWanted(o)' /\ KeptWanted(o)'
  BY DEF SavesWanted, KeptWanted, Wanted
<1> QED
  BY <1>4, <1>5, <1>6, <1>7, <1>8 DEF Promise

(* The new token of a session to be remembered is to be saved. *)
LEMMA PromiseSaves ==
  ASSUME NEW o \in Owners, Promise(o), NEW j \in Jobs, NEW c,
         Grown(queue[o], c, queue'[o]), c.j = j, c.kind = "save",
         saved'[o] = saved[o], accounts'[o] = accounts[o],
         o \in incomplete' <=> o \in incomplete, o \in overlooked' <=> o \in overlooked,
         mem[o] # NoEntry, mem[o].keep, mem'[o] # NoEntry, mem'[o].keep,
         OnDesktop' => c.token = mem'[o].token,
         \A i \in Places(queue[o]) : queue[o][i].kind = "load" =>
            job[queue[o][i].j].id # mem[o].id,
         \A i \in Places(queue[o]) : Alike(job[queue[o][i].j], job'[queue[o][i].j], o),
         AccessListed(o)'
  PROVE  Promise(o)'
<1> DEFINE n == Len(queue[o]) + 1
<1>1. /\ \A i \in Places(queue'[o]) : i = n \/ i \in Places(queue[o])
      /\ \A i \in Places(queue[o]) : i \in Places(queue'[o]) /\ queue'[o][i] = queue[o][i]
      /\ n \in Places(queue'[o]) /\ queue'[o][n] = c
  BY GrownPlaces
<1>2. /\ Deletes(queue'[o]) <=> Deletes(queue[o])
      /\ \A i \in Places(queue[o]) : Late(queue'[o], i) <=> Late(queue[o], i)
      /\ Late(queue'[o], n)
  BY GrownLate
<1>3. /\ ~OnlyLoads(queue'[o])
      /\ \A i \in Places(queue'[o]) : LastChange(queue'[o], i) => i = n
  BY GrownChanges
<1>4. \A i \in Places(queue[o]) : i <= n
  BY DEF Grown, Places
<1>5. \A i \in Places(queue[o]) :
         Storing(job'[queue[o][i].j], o) <=> Storing(job[queue[o][i].j], o)
  BY DEF Alike, Storing
<1> HIDE DEF n
<1>6. Forgotten(o)'
  BY DEF Forgotten
<1>7. Rotation(o)'
  BY <1>1, <1>3 DEF Rotation
<1>8. Led(o)'
  <2> SUFFICES ASSUME Leaving(o)', NEW i \in Places(queue'[o]), LateSave(queue'[o], i)
               PROVE  \E k \in Places(queue'[o]) :
                        /\ k <= i /\ LateSave(queue'[o], k)
                        /\ Storing(job'[queue'[o][k].j], o)
    BY DEF Led
  <2>1. Leaving(o)
    BY <1>2 DEF Leaving, Sound
  <2>2. \A k \in Places(queue[o]) : LateSave(queue[o], k) /\ Storing(job[queue[o][k].j], o)
           => /\ k \in Places(queue'[o]) /\ LateSave(queue'[o], k)
              /\ Storing(job'[queue'[o][k].j], o)
    BY <1>1, <1>2, <1>5 DEF LateSave
  <2>3. CASE i \in Places(queue[o])
    <3>1. LateSave(queue[o], i)
      BY <1>1, <1>2, <2>3 DEF LateSave
    <3>2. PICK k \in Places(queue[o]) : /\ k <= i /\ LateSave(queue[o], k)
                                        /\ Storing(job[queue[o][k].j], o)
      BY <2>1, <2>3, <3>1 DEF Promise, Led
    <3> QED
      BY <2>2, <3>2
  <2>4. CASE i = n
    <3>1. PICK l \in Places(queue[o]) : LateSave(queue[o], l)
      BY <2>1 DEF Promise, Backed, LateSave
    <3>2. PICK k \in Places(queue[o]) : /\ k <= l /\ LateSave(queue[o], k)
                                        /\ Storing(job[queue[o][k].j], o)
      BY <2>1, <3>1 DEF Promise, Led
    <3> QED
      BY <1>4, <2>2, <2>4, <3>2
  <2> QED
    BY <1>1, <2>3, <2>4
<1>9. Backed(o)'
  BY <1>1, <1>2 DEF Backed
<1>10. Gone(o)'
  BY <1>2 DEF Promise, Gone, Leaving, Sound
<1>11. SavesWanted(o)' /\ KeptWanted(o)'
  BY DEF SavesWanted, KeptWanted, Wanted
<1> QED
  BY <1>6, <1>7, <1>8, <1>9, <1>10, <1>11 DEF Promise

(* The call ahead was executed, or failed, with a deletion still to come. *)
LEMMA PromiseBeforeDelete ==
  ASSUME NEW o \in Owners, Promise(o), platform' = platform,
         Popped(queue[o], queue'[o]), Deletes(queue'[o]),
         mem'[o] = mem[o] \/ mem'[o] = NoEntry,
         \A i \in Places(queue'[o]) : Alike(job[queue'[o][i].j], job'[queue'[o][i].j], o),
         Wanted(o) => Wanted(o)', AccessListed(o)'
  PROVE  Promise(o)'
<1>1. /\ \A i \in Places(queue[o]) : i = 1 \/ \E k \in Places(queue'[o]) : i = k + 1
      /\ \A i \in Places(queue'[o]) : i + 1 \in Places(queue[o])
                                      /\ queue'[o][i] = queue[o][i + 1]
      /\ \A i, k \in Places(queue'[o]) : i + 1 <= k + 1 <=> i <= k
  BY PoppedPlaces
<1>2. /\ Deletes(queue[o]) /\ ~Late(queue[o], 1)
      /\ \A i \in Places(queue'[o]) : Late(queue'[o], i) <=> Late(queue[o], i + 1)
  BY PoppedLate
<1>3. Leaving(o)
  BY <1>2 DEF Leaving
<1>4. \A i \in Places(queue'[o]) :
         /\ job'[queue'[o][i].j].id = job[queue'[o][i].j].id
         /\ Storing(job'[queue'[o][i].j], o) <=> Storing(job[queue'[o][i].j], o)
  BY DEF Alike, Storing
<1>5. Forgotten(o)'
  <2>1. CASE mem'[o] = NoEntry
    BY <2>1 DEF Forgotten
  <2>2. CASE mem'[o] = mem[o]
    <3> SUFFICES ASSUME mem[o] # NoEntry, ~mem[o].keep PROVE Forgotten(o)'
      BY <2>2 DEF Forgotten
    <3>1. \A i \in Places(queue'[o]) : ~LateSave(queue'[o], i)
      BY <1>1, <1>2 DEF Promise, Forgotten, LateSave
    <3>2. \A i \in Places(queue'[o]) : LastDelete(queue'[o], i) =>
            /\ Storing(job[queue'[o][i].j], o)
            /\ job[queue'[o][i].j].id = mem[o].id
      BY <1>1, PoppedChanges DEF Promise, Forgotten
    <3> QED
      BY <1>4, <2>2, <3>1, <3>2 DEF Forgotten
  <2> QED
    BY <2>1, <2>2
<1>6. Rotation(o)'
  <2>1. CASE mem'[o] = NoEntry
    BY <2>1 DEF Rotation, NoEntry
  <2>2. CASE mem'[o] = mem[o]
    <3> SUFFICES ASSUME OnDesktop, mem[o].keep, mem[o].token # 0 PROVE Rotation(o)'
      BY <2>2 DEF Rotation, OnDesktop
    <3>1. \A i \in Places(queue'[o]) : LastChange(queue'[o], i) =>
            queue'[o][i].kind = "save" /\ queue'[o][i].token = mem[o].token
      BY <1>1, <1>2, PoppedChanges DEF Promise, Rotation
    <3>2. ~OnlyLoads(queue'[o])
      BY DEF Deletes, OnlyLoads
    <3> QED
      BY <2>2, <3>1, <3>2 DEF Rotation
  <2> QED
    BY <2>1, <2>2
<1>7. Led(o)'
  <2> SUFFICES ASSUME NEW i \in Places(queue'[o]), LateSave(queue'[o], i)
               PROVE  \E k \in Places(queue'[o]) :
                        /\ k <= i /\ LateSave(queue'[o], k)
                        /\ Storing(job'[queue'[o][k].j], o)
    BY DEF Led
  <2>1. i + 1 \in Places(queue[o]) /\ LateSave(queue[o], i + 1)
    BY <1>1, <1>2 DEF LateSave
  <2>2. PICK k \in Places(queue[o]) : /\ k <= i + 1 /\ LateSave(queue[o], k)
                                      /\ Storing(job[queue[o][k].j], o)
    BY <1>3, <2>1 DEF Promise, Led
  <2>3. PICK l \in Places(queue'[o]) : k = l + 1
    BY <1>1, <1>2, <2>2 DEF LateSave
  <2> QED
    BY <1>1, <1>2, <1>4, <2>2, <2>3 DEF LateSave
<1>8. Backed(o)'
  <2> SUFFICES ASSUME mem'[o] = mem[o], mem[o] # NoEntry, mem[o].keep PROVE Backed(o)'
    BY DEF Backed
  <2>1. PICK i \in Places(queue[o]) : Late(queue[o], i) /\
           \/ queue[o][i].kind = "save"
           \/ queue[o][i].kind = "load" /\ job[queue[o][i].j].id = mem[o].id
    BY <1>3 DEF Promise, Backed
  <2>2. PICK k \in Places(queue'[o]) : i = k + 1
    BY <1>1, <1>2, <2>1
  <2> QED
    BY <1>1, <1>2, <1>4, <2>1, <2>2 DEF Backed
<1>9. Gone(o)' /\ KeptWanted(o)'
  BY DEF Gone, KeptWanted
<1>10. SavesWanted(o)'
  BY <1>1, <1>2 DEF Promise, SavesWanted, LateSave
<1> QED
  BY <1>5, <1>6, <1>7, <1>8, <1>9, <1>10 DEF Promise

(* It failed, with no deletion to come. *)
LEMMA PromiseCut ==
  ASSUME NEW o \in Owners, ~Deletes(queue'[o]), o \in incomplete', AccessListed(o)'
  PROVE  Promise(o)'
<1>1. ~Sound(o)' /\ ~Leaving(o)'
  BY DEF Sound, Leaving
<1>2. Forgotten(o)' /\ Rotation(o)'
  BY DEF Forgotten, Rotation, LastDelete, Deletes
<1> QED
  BY <1>1, <1>2 DEF Promise, Led, Backed, Gone, SavesWanted, KeptWanted

(* The last deletion was executed. *)
LEMMA PromiseDeleted ==
  ASSUME NEW o \in Owners, Promise(o), platform' = platform,
         Popped(queue[o], queue'[o]), queue[o][1].kind = "delete", ~Deletes(queue'[o]),
         saved'[o] = 0, mem'[o] = mem[o],
         Storing(job[queue[o][1].j], o) /\ job[queue[o][1].j].id = mem[o].id /\ ~mem[o].keep
           => accounts'[o] # "kept",
         \A i \in Places(queue'[o]) : Alike(job[queue'[o][i].j], job'[queue'[o][i].j], o),
         Wanted(o) => Wanted(o)', AccessListed(o)'
  PROVE  Promise(o)'
<1>1. /\ \A i \in Places(queue[o]) : i = 1 \/ \E k \in Places(queue'[o]) : i = k + 1
      /\ \A i \in Places(queue'[o]) : i + 1 \in Places(queue[o])
                                      /\ queue'[o][i] = queue[o][i + 1]
      /\ \A i, k \in Places(queue'[o]) : i + 1 <= k + 1 <=> i <= k
      /\ 1 \in Places(queue[o])
  BY PoppedPlaces
<1>2. /\ Deletes(queue[o])
      /\ \A i \in Places(queue'[o]) : Late(queue'[o], i) <=> Late(queue[o], i + 1)
  BY PoppedLate
<1>3. Leaving(o)
  BY <1>2 DEF Leaving
<1>4. \A i \in Places(queue'[o]) :
         /\ job'[queue'[o][i].j].id = job[queue'[o][i].j].id
         /\ Storing(job'[queue'[o][i].j], o) <=> Storing(job[queue'[o][i].j], o)
  BY DEF Alike, Storing
<1>5. LastDelete(queue[o], 1) /\ (OnlyLoads(queue'[o]) => LastChange(queue[o], 1))
  BY PoppedChanges
<1>6. Forgotten(o)'
  <2> SUFFICES ASSUME mem[o] # NoEntry, ~mem[o].keep PROVE Forgotten(o)'
    BY DEF Forgotten
  <2>1. \A i \in Places(queue'[o]) : ~LateSave(queue'[o], i)
    BY <1>1, <1>2 DEF Promise, Forgotten, LateSave
  <2>2. \A i \in Places(queue'[o]) : ~LastDelete(queue'[o], i)
    BY DEF LastDelete, Deletes
  <2>3. accounts'[o] # "kept"
    BY <1>1, <1>5 DEF Promise, Forgotten
  <2> QED
    BY <2>1, <2>2, <2>3 DEF Forgotten
<1>7. Rotation(o)'
  <2> SUFFICES ASSUME OnDesktop, mem[o].keep, mem[o].token # 0 PROVE Rotation(o)'
    BY DEF Rotation, OnDesktop
  <2>1. \A i \in Places(queue[o]) : LastChange(queue[o], i) =>
          queue[o][i].kind = "save" /\ queue[o][i].token = mem[o].token
    BY <1>2 DEF Promise, Rotation
  <2>2. ~OnlyLoads(queue'[o])
    BY <1>1, <1>5, <2>1
  <2>3. \A i \in Places(queue'[o]) : LastChange(queue'[o], i) =>
          queue'[o][i].kind = "save" /\ queue'[o][i].token = mem[o].token
    BY <1>1, <2>1, PoppedChanges
  <2> QED
    BY <2>2, <2>3 DEF Rotation
<1>8. Led(o)'
  <2> SUFFICES ASSUME NEW i \in Places(queue'[o]), LateSave(queue'[o], i)
               PROVE  \E k \in Places(queue'[o]) :
                        /\ k <= i /\ LateSave(queue'[o], k)
                        /\ Storing(job'[queue'[o][k].j], o)
    BY DEF Led
  <2>1. i + 1 \in Places(queue[o]) /\ LateSave(queue[o], i + 1)
    BY <1>1, <1>2 DEF LateSave
  <2>2. PICK k \in Places(queue[o]) : /\ k <= i + 1 /\ LateSave(queue[o], k)
                                      /\ Storing(job[queue[o][k].j], o)
    BY <1>3, <2>1 DEF Promise, Led
  <2>3. PICK l \in Places(queue'[o]) : k = l + 1
    BY <1>1, <2>2 DEF LateSave
  <2> QED
    BY <1>1, <1>2, <1>4, <2>2, <2>3 DEF LateSave
<1>9. Backed(o)'
  <2> SUFFICES ASSUME mem[o] # NoEntry, mem[o].keep PROVE Backed(o)'
    BY DEF Backed
  <2>1. PICK i \in Places(queue[o]) : Late(queue[o], i) /\
           \/ queue[o][i].kind = "save"
           \/ queue[o][i].kind = "load" /\ job[queue[o][i].j].id = mem[o].id
    BY <1>3 DEF Promise, Backed
  <2>2. PICK k \in Places(queue'[o]) : i = k + 1
    BY <1>1, <2>1
  <2> QED
    BY <1>1, <1>2, <1>4, <2>1, <2>2 DEF Backed
<1>10. Gone(o)' /\ KeptWanted(o)'
  BY DEF Gone, KeptWanted
<1>11. SavesWanted(o)'
  BY <1>1, <1>2 DEF Promise, SavesWanted, LateSave
<1> QED
  BY <1>6, <1>7, <1>8, <1>9, <1>10, <1>11 DEF Promise

(* A token was saved that no deletion follows: the account is kept, or what *)
(* was saved is accounted for.                                              *)
LEMMA PromiseSaved ==
  ASSUME NEW o \in Owners, Promise(o), platform' = platform,
         Popped(queue[o], queue'[o]), queue[o][1].kind = "save", ~Deletes(queue'[o]),
         saved'[o] = queue[o][1].token, mem'[o] = mem[o],
         o \in incomplete' <=> o \in incomplete,
         Sound(o)' => Sound(o) \/ Wanted(o)', Sound(o)' => accounts'[o] = "kept",
         Wanted(o) => Wanted(o)', AccessListed(o)'
  PROVE  Promise(o)'
<1>1. /\ \A i \in Places(queue'[o]) : i + 1 \in Places(queue[o])
                                      /\ queue'[o][i] = queue[o][i + 1]
      /\ 1 \in Places(queue[o])
  BY PoppedPlaces
<1>2. /\ ~Deletes(queue[o]) /\ Late(queue[o], 1)
      /\ \A i \in Places(queue'[o]) : Late(queue'[o], i) <=> Late(queue[o], i + 1)
  BY PoppedLate
<1>3. LateSave(queue[o], 1)
  BY <1>2 DEF LateSave
<1>4. ~Leaving(o)'
  BY DEF Leaving
<1>5. Forgotten(o)'
  <2>1. \A i \in Places(queue'[o]) : ~LastDelete(queue'[o], i)
    BY DEF LastDelete, Deletes
  <2>2. mem[o] # NoEntry /\ ~mem[o].keep => o \in incomplete
    BY <1>1, <1>3 DEF Promise, Forgotten
  <2> QED
    BY <2>1, <2>2 DEF Forgotten
<1>6. Rotation(o)'
  <2> SUFFICES ASSUME OnDesktop, mem[o].keep, mem[o].token # 0, o \notin incomplete
               PROVE  Rotation(o)'
    BY DEF Rotation, OnDesktop
  <2>1. \A i \in Places(queue[o]) : LastChange(queue[o], i) =>
          queue[o][i].kind = "save" /\ queue[o][i].token = mem[o].token
    BY DEF Promise, Rotation
  <2>2. OnlyLoads(queue'[o]) => saved'[o] = mem[o].token
    BY <1>1, <2>1, PoppedChanges
  <2>3. \A i \in Places(queue'[o]) : LastChange(queue'[o], i) =>
          queue'[o][i].kind = "save" /\ queue'[o][i].token = mem[o].token
    BY <1>1, <2>1, PoppedChanges
  <2> QED
    BY <2>2, <2>3 DEF Rotation
<1>7. Led(o)' /\ Backed(o)' /\ Gone(o)'
  BY <1>4 DEF Led, Backed, Gone
<1>8. Sound(o)' => Wanted(o)'
  BY <1>1, <1>3 DEF Promise, SavesWanted
<1>9. SavesWanted(o)' /\ KeptWanted(o)'
  BY <1>8 DEF SavesWanted, KeptWanted
<1> QED
  BY <1>5, <1>6, <1>7, <1>9 DEF Promise

(* What is saved was read. *)
LEMMA PromiseLoaded ==
  ASSUME NEW o \in Owners, Promise(o), platform' = platform,
         Popped(queue[o], queue'[o]), queue[o][1].kind = "load", ~Deletes(queue'[o]),
         saved'[o] = saved[o], accounts'[o] = accounts[o],
         o \in incomplete' <=> o \in incomplete, o \in overlooked' <=> o \in overlooked,
         \/ job[queue[o][1].j].id # mem[o].id /\ mem'[o] = mem[o]
         \/ mem'[o] = NoEntry /\ saved[o] = 0 /\ OnlyLoads(queue'[o])
         \/ /\ saved[o] # 0 /\ OnlyLoads(queue'[o])
            /\ mem[o] # NoEntry /\ mem'[o].id = mem[o].id /\ mem'[o].keep = mem[o].keep
            /\ mem'[o].token = saved[o],
         \A i \in Places(queue'[o]) : Alike(job[queue'[o][i].j], job'[queue'[o][i].j], o),
         Clears(o), SigningOut(o) => SigningOut(o)', AccessListed(o)'
  PROVE  Promise(o)'
<1>1. /\ \A i \in Places(queue[o]) : i = 1 \/ \E k \in Places(queue'[o]) : i = k + 1
      /\ \A i \in Places(queue'[o]) : i + 1 \in Places(queue[o])
                                      /\ queue'[o][i] = queue[o][i + 1]
      /\ \A i, k \in Places(queue'[o]) : i + 1 <= k + 1 <=> i <= k
      /\ 1 \in Places(queue[o])
  BY PoppedPlaces
<1>2. /\ ~Deletes(queue[o])
      /\ \A i \in Places(queue'[o]) : Late(queue'[o], i) <=> Late(queue[o], i + 1)
  BY PoppedLate
<1>3. Leaving(o)' <=> Leaving(o)
  BY <1>2 DEF Leaving, Sound
<1>4. \A i \in Places(queue'[o]) :
         /\ job'[queue'[o][i].j].id = job[queue'[o][i].j].id
         /\ Storing(job'[queue'[o][i].j], o) <=> Storing(job[queue'[o][i].j], o)
  BY DEF Alike, Storing
<1>5. OnlyLoads(queue'[o]) =>
        /\ \A i \in Places(queue'[o]) : ~LateSave(queue'[o], i)
        /\ \A i \in Places(queue'[o]) : ~LastChange(queue'[o], i)
  BY DEF OnlyLoads, LateSave, LastChange
<1>6. \A i \in Places(queue'[o]) : LateSave(queue'[o], i) => LateSave(queue[o], i + 1)
  BY <1>1, <1>2 DEF LateSave
<1>7. Forgotten(o)'
  <2> SUFFICES ASSUME mem'[o] # NoEntry, ~mem'[o].keep PROVE Forgotten(o)'
    BY DEF Forgotten
  <2>1. mem[o] # NoEntry /\ ~mem[o].keep
    OBVIOUS
  <2>2. \A i \in Places(queue'[o]) : ~LastDelete(queue'[o], i)
    BY DEF LastDelete, Deletes
  <2>3. o \notin incomplete => \A i \in Places(queue'[o]) : ~LateSave(queue'[o], i)
    BY <1>1, <1>6, <2>1 DEF Promise, Forgotten
  <2>4. o \notin incomplete => saved[o] = 0 /\ accounts[o] # "kept"
    BY <1>2, <2>1 DEF Promise, Forgotten
  <2> QED
    BY <2>2, <2>3, <2>4 DEF Forgotten
<1>8. Rotation(o)'
  <2>1. CASE mem'[o] = NoEntry
    BY <2>1 DEF Rotation, NoEntry
  <2>2. CASE mem'[o].token = saved[o] /\ OnlyLoads(queue'[o])
    BY <1>5, <2>2 DEF Rotation
  <2>3. CASE mem'[o] = mem[o]
    <3> SUFFICES ASSUME OnDesktop, mem[o].keep, mem[o].token # 0, o \notin incomplete
                 PROVE  Rotation(o)'
      BY <2>3 DEF Rotation, OnDesktop
    <3>1. /\ \A i \in Places(queue[o]) : LastChange(queue[o], i) =>
               queue[o][i].kind = "save" /\ queue[o][i].token = mem[o].token
          /\ OnlyLoads(queue[o]) => saved[o] = mem[o].token
      BY DEF Promise, Rotation
    <3>2. OnlyLoads(queue'[o]) => saved'[o] = mem[o].token
      BY <3>1, PoppedChanges
    <3>3. \A i \in Places(queue'[o]) : LastChange(queue'[o], i) =>
            queue'[o][i].kind = "save" /\ queue'[o][i].token = mem[o].token
      BY <1>1, <3>1, PoppedChanges
    <3> QED
      BY <2>3, <3>2, <3>3 DEF Rotation
  <2> QED
    BY <2>1, <2>2, <2>3
<1>9. Led(o)'
  <2> SUFFICES ASSUME Leaving(o), NEW i \in Places(queue'[o]), LateSave(queue'[o], i)
               PROVE  \E k \in Places(queue'[o]) :
                        /\ k <= i /\ LateSave(queue'[o], k)
                        /\ Storing(job'[queue'[o][k].j], o)
    BY <1>3 DEF Led
  <2>1. i + 1 \in Places(queue[o]) /\ LateSave(queue[o], i + 1)
    BY <1>1, <1>6
  <2>2. PICK k \in Places(queue[o]) : /\ k <= i + 1 /\ LateSave(queue[o], k)
                                      /\ Storing(job[queue[o][k].j], o)
    BY <2>1 DEF Promise, Led
  <2>3. PICK l \in Places(queue'[o]) : k = l + 1
    BY <1>1, <2>2 DEF LateSave
  <2> QED
    BY <1>1, <1>2, <1>4, <2>2, <2>3 DEF LateSave
<1>10. Backed(o)'
  <2> SUFFICES ASSUME Leaving(o), mem'[o] # NoEntry, mem'[o].keep PROVE Backed(o)'
    BY <1>3 DEF Backed
  <2>1. job[queue[o][1].j].id # mem[o].id /\ mem'[o] = mem[o]
    BY <1>2 DEF Promise, Gone
  <2>2. PICK i \in Places(queue[o]) : Late(queue[o], i) /\
           \/ queue[o][i].kind = "save"
           \/ queue[o][i].kind = "load" /\ job[queue[o][i].j].id = mem[o].id
    BY <2>1 DEF Promise, Backed
  <2>3. PICK k \in Places(queue'[o]) : i = k + 1
    BY <1>1, <2>1, <2>2
  <2> QED
    BY <1>1, <1>2, <1>4, <2>1, <2>2, <2>3 DEF Backed
<1>11. Gone(o)'
  BY <1>2, <1>3 DEF Promise, Gone
<1>12. mem'[o] # NoEntry \/ mem'[o] = mem[o] => (Wanted(o) => Wanted(o)')
  BY DEF Wanted
<1>13. SavesWanted(o)'
  <2>1. CASE OnlyLoads(queue'[o])
    BY <1>5, <2>1 DEF SavesWanted
  <2>2. CASE mem'[o] = mem[o]
    BY <1>1, <1>2, <1>6, <1>12, <2>2 DEF Promise, SavesWanted, Sound
  <2> QED
    BY <2>1, <2>2
<1>14. KeptWanted(o)'
  <2> SUFFICES ASSUME NEW j \in Jobs, Emptying(job'[j], o), Sound(o), saved[o] # 0
               PROVE  Wanted(o)'
    BY DEF KeptWanted, Sound
  <2>1. CASE accounts'[o] # "kept"
    BY <2>1 DEF Wanted
  <2>2. ASSUME NEW i \in Jobs, Emptying(job[i], o) PROVE Wanted(o)'
    <3>1. Wanted(o)
      BY <1>2, <2>2 DEF Promise, KeptWanted
    <3>2. mem'[o] # NoEntry \/ mem'[o] = mem[o]
      BY DEF NoEntry
    <3> QED
      BY <1>12, <3>1, <3>2
  <2> QED
    BY <2>1, <2>2 DEF Clears
<1> QED
  BY <1>7, <1>8, <1>9, <1>10, <1>11, <1>13, <1>14 DEF Promise

-----------------------------------------------------------------------------
(* ClientAccounts and the credentials: the steps *)

Kept(o) == Structure(queue[o], mem[o], job, o) /\ Promise(o)

(* The state before a step, as the lemmas below assume it. *)
Before == ListInv /\ ~mixed /\ CredTypes /\ \A o \in Owners : Kept(o)

(* A step about an account o leaves the others. *)
Same(x) == /\ mem'[x] = mem[x] /\ queue'[x] = queue[x] /\ saved'[x] = saved[x]
           /\ accounts'[x] = accounts[x]
           /\ x \in incomplete' <=> x \in incomplete
           /\ x \in overlooked' <=> x \in overlooked
           /\ access'[x] # "none" => access[x] # "none"
NotAbout(c, c1, x) == /\ c.o # x \/ c.op = "panel"
                      /\ c1.o # x \/ c1.op = "panel"
                      /\ IF Clearing(c, x) THEN Alike(c, c1, x) ELSE ~Clearing(c1, x)
                      /\ Emptying(c1, x) => Emptying(c, x) \/ accounts'[x] # "kept"

LEMMA OthersAreAlike ==
  ASSUME NEW j \in Jobs, NEW o, OthersStay(j)
  PROVE  Others(job, job', j, o)
  BY DEF Others, OthersStay, Alike

LEMMA IsUnasked ==
  ASSUME NEW q, NEW J, NEW o, NEW j \in Jobs, Asked(q, J, o),
         \A kind : ~Waits(J[j], kind, o)
  PROVE  Unasked(q, j)
  BY DEF Asked, Unasked

LEMMA WaitingAreAlike ==
  ASSUME NEW j \in Jobs, NEW o, NEW q, OthersStay(j),
         \A i \in Places(q) : q[i].j \in Jobs,
         Unasked(q, j) \/ Alike(job[j], job'[j], o)
  PROVE  \A i \in Places(q) : Alike(job[q[i].j], job'[q[i].j], o)
  BY DEF OthersStay, Alike, Unasked

(* The store is left, the session too or forgotten, and the call goes on.  *)
LEMMA LeftAloneKeeps ==
  ASSUME NEW o \in Owners, Kept(o), platform' = platform,
         NEW j \in Jobs, OthersStay(j),
         \/ Alike(job[j], job'[j], o)
         \/ Unasked(queue[o], j) /\ Relaxes(job[j], job'[j], o),
         queue'[o] = queue[o], saved'[o] = saved[o],
         o \in incomplete' <=> o \in incomplete, o \in overlooked' <=> o \in overlooked,
         \/ mem'[o] = mem[o] \/ mem'[o] = NoEntry
         \/ /\ mem[o] # NoEntry /\ mem'[o].id = mem[o].id /\ mem'[o].keep = mem[o].keep
            /\ ~(OnDesktop /\ mem[o].keep),
         accounts'[o] = accounts[o] \/ (accounts'[o] = "kept" /\ mem'[o].keep),
         Wanted(o) => Wanted(o)', Clears(o), AccessListed(o)'
  PROVE  Kept(o)'
<1>1. Structure(queue[o], mem[o], job, o) /\ Promise(o) /\ Asked(queue[o], job, o)
      /\ Apart(mem[o], job, o)
  BY DEF Kept, Structure
<1>2. Others(job, job', j, o)
  BY OthersAreAlike
<1>3. PICK e : Embeds(e, queue[o], queue[o])
  BY SameEmbeds
<1>4. mem'[o] = NoEntry \/ mem'[o] = mem[o]
      \/ (mem'[o].id = mem[o].id /\ mem'[o].keep = mem[o].keep /\ mem'[o].id # 0)
  BY <1>1 DEF Apart
<1>5. Structure(queue[o], mem'[o], job', o)
  BY <1>1, <1>2, <1>3, <1>4, StructureShrinks
<1>6. \A i \in Places(queue[o]) : Alike(job[queue[o][i].j], job'[queue[o][i].j], o)
  <2>1. \A i \in Places(queue[o]) : queue[o][i].j \in Jobs
    BY <1>1 DEF Asked
  <2> QED
    BY <2>1, WaitingAreAlike
<1>7. (Sound(o)' => Sound(o)) /\ (Leaving(o)' => Leaving(o))
  BY DEF Sound, Leaving
<1>8. Promise(o)'
  BY <1>1, <1>6, <1>7, PromiseStays
<1> QED
  BY <1>5, <1>8 DEF Kept

(* An account a step is not about.                                         *)
LEMMA UntouchedKeeps ==
  ASSUME NEW x \in Owners, Kept(x), platform' = platform,
         NEW j \in Jobs, OthersStay(j), Same(x), NotAbout(job[j], job'[j], x)
  PROVE  Kept(x)'
<1>1. Structure(queue[x], mem[x], job, x) /\ Promise(x) /\ Asked(queue[x], job, x)
  BY DEF Kept, Structure
<1>2. Alike(job[j], job'[j], x) \/ (Unasked(queue[x], j) /\ Relaxes(job[j], job'[j], x))
  <2>1. CASE Clearing(job[j], x)
    BY <2>1 DEF NotAbout
  <2>2. CASE ~Clearing(job[j], x)
    <3>1. Unasked(queue[x], j)
      BY <1>1, <2>2 DEF Waits, NotAbout, Storing, Saves, Refreshing, Asked, Unasked
    <3>2. Relaxes(job[j], job'[j], x)
      BY <2>2 DEF NotAbout, Relaxes, Storing, Saves, Refreshing
    <3> QED
      BY <3>1, <3>2
  <2> QED
    BY <2>1, <2>2
<1>3. Wanted(x) => Wanted(x)'
  BY DEF Wanted, SigningOut, Same, NotAbout, OthersStay
<1>4. Clears(x)
  BY DEF Clears, NotAbout, OthersStay
<1>5. AccessListed(x)'
  BY <1>1 DEF Promise, AccessListed, Same
<1> QED
  BY <1>2, <1>3, <1>4, <1>5, LeftAloneKeeps DEF Same

(* What one step does to the calls. *)
LEMMA EndsCall ==
  ASSUME ListInv, NEW j \in Jobs, job' = [job EXCEPT ![j] = NoJob]
  PROVE  OthersStay(j) /\ job'[j] = NoJob /\ CallType(job'[j])
<1>1. OthersStay(j) /\ job'[j] = NoJob
  BY DEF ListInv, JobsOK, OthersStay
<1>2. CallType(NoJob)
  BY DEF CallType, NoJob, NoEntry, Entries
<1> QED
  BY <1>1, <1>2

LEMMA GoesOn ==
  ASSUME ListInv, NEW j \in Jobs, NEW pc, Goto(j, pc), CallType(job[j])
  PROVE  /\ OthersStay(j) /\ CallType(job'[j])
         /\ job'[j].op = job[j].op /\ job'[j].o = job[j].o /\ job'[j].pc = pc
         /\ job'[j].id = job[j].id /\ job'[j].prev = job[j].prev
         /\ job'[j].left = job[j].left
<1>1. /\ OthersStay(j) /\ job'[j].op = job[j].op /\ job'[j].o = job[j].o
      /\ job'[j].pc = pc /\ job'[j].id = job[j].id /\ job'[j].prev = job[j].prev
      /\ job'[j].left = job[j].left
  BY DEF ListInv, JobsOK, OthersStay, Goto, JobFields
<1> QED
  BY <1>1 DEF CallType

LEMMA BeginsCall ==
  ASSUME ListInv, NEW j \in Jobs, NEW op, NEW o \in Owners, NEW pc, Begin(j, op, o, pc),
         op \notin {"none", "clear"}
  PROVE  /\ OthersStay(j) /\ CallType(job'[j])
         /\ job'[j].op = op /\ job'[j].o = o /\ job'[j].pc = pc
<1>1. OthersStay(j) /\ job'[j] = [NoJob EXCEPT !.op = op, !.o = o, !.pc = pc]
  BY DEF ListInv, JobsOK, OthersStay, Begin
<1>2. /\ job'[j].op = op /\ job'[j].o = o /\ job'[j].pc = pc
      /\ job'[j].id = 0 /\ job'[j].prev = NoEntry /\ job'[j].left = {}
  BY <1>1 DEF NoJob
<1>3. NoEntry \in Entries
  BY DEF NoEntry, Entries
<1> QED
  BY <1>1, <1>2, <1>3, LocalAssumption DEF CallType

LEMMA RejectsCall ==
  ASSUME ListInv, NEW j \in Jobs, CallType(job[j]), job[j].o \in Owners,
         job' = [job EXCEPT ![j].op = "reject", ![j].pc = "deleting"]
  PROVE  /\ OthersStay(j) /\ CallType(job'[j])
         /\ job'[j].op = "reject" /\ job'[j].o = job[j].o /\ job'[j].pc = "deleting"
<1>1. /\ OthersStay(j) /\ job'[j].op = "reject" /\ job'[j].o = job[j].o
      /\ job'[j].pc = "deleting" /\ job'[j].id = job[j].id
      /\ job'[j].prev = job[j].prev /\ job'[j].left = job[j].left
  BY DEF ListInv, JobsOK, OthersStay, JobFields
<1> QED
  BY <1>1, LocalAssumption DEF CallType

(* A step of a call about o: the other accounts are as before. *)
Own(c, o) == c.op # "clear" /\ (c.o \in {o, Local} \/ c.op = "panel")
StateTypes == /\ mem \in [Owners -> Entries] /\ saved \in [Owners -> Nat]
              /\ queue \in [Owners -> Seq(NativeCalls)]
              /\ incomplete \subseteq Owners /\ overlooked \subseteq Owners
              /\ access \in [Owners -> {"none", "good", "old"}]
Around(j, o) == /\ OthersStay(j) /\ CallType(job'[j])
                /\ Own(job[j], o) /\ Own(job'[j], o)
                /\ platform' = platform
                /\ \A x \in Owners \ {o} : Same(x)

LEMMA AroundKeeps ==
  ASSUME Before, NEW j \in Jobs, NEW o \in Owners, Around(j, o), StateTypes', Kept(o)'
  PROVE  CredTypes' /\ \A x \in Owners : Kept(x)'
<1>1. CredTypes'
  BY DEF Before, CredTypes, CallType, StateTypes, Around, OthersStay
<1>2. ASSUME NEW x \in Owners \ {o} PROVE Kept(x)'
  <2>1. NotAbout(job[j], job'[j], x)
    BY LocalAssumption DEF Around, Own, NotAbout, Clearing, Emptying
  <2> QED
    BY <2>1, UntouchedKeeps DEF Before, Around
<1> QED
  BY <1>1, <1>2

LEMMA CallIs ==
  ASSUME NEW kind \in {"load", "save", "delete"}, NEW token \in Nat, NEW j \in Jobs
  PROVE  /\ Call(kind, token, j) \in NativeCalls /\ Call(kind, token, j).kind = kind
         /\ Call(kind, token, j).token = token /\ Call(kind, token, j).j = j
  BY DEF Call, NativeCalls

LEMMA AskIs ==
  ASSUME queue \in [Owners -> Seq(NativeCalls)], NEW o \in Owners, NEW c \in NativeCalls,
         queue' = Ask(queue, o, c)
  PROVE  /\ queue' \in [Owners -> Seq(NativeCalls)] /\ Grown(queue[o], c, queue'[o])
         /\ \A x \in Owners \ {o} : queue'[x] = queue[x]
<1>1. queue' = [queue EXCEPT ![o] = Append(queue[o], c)]
  BY DEF Ask
<1>2. Append(queue[o], c) \in Seq(NativeCalls) /\ Grown(queue[o], c, Append(queue[o], c))
  BY AppendGrows
<1> QED
  BY <1>1, <1>2

LEMMA RestIs ==
  ASSUME queue \in [Owners -> Seq(NativeCalls)], NEW o \in Owners, queue[o] # <<>>
  PROVE  /\ Rest(o) \in [Owners -> Seq(NativeCalls)] /\ Popped(queue[o], Rest(o)[o])
         /\ \A x \in Owners \ {o} : Rest(o)[x] = queue[x]
         /\ Head(queue[o]) = queue[o][1] /\ queue[o][1] \in NativeCalls
<1>1. Rest(o) = [queue EXCEPT ![o] = Tail(queue[o])]
  BY DEF Rest
<1>2. /\ Tail(queue[o]) \in Seq(NativeCalls) /\ Popped(queue[o], Tail(queue[o]))
      /\ Head(queue[o]) = queue[o][1] /\ queue[o][1] \in NativeCalls
  BY TailPops
<1> QED
  BY <1>1, <1>2

(* The call ahead is one of j, and is executed or not. *)
LEMMA AnsweredIs ==
  ASSUME Before, NEW j \in Jobs, NEW o \in Owners, NEW ok \in BOOLEAN, Answered(j, o, ok)
  PROVE  /\ queue[o] # <<>> /\ Rest(o) \in [Owners -> Seq(NativeCalls)]
         /\ Popped(queue[o], Rest(o)[o])
         /\ \A x \in Owners \ {o} : Rest(o)[x] = queue[x]
         /\ queue[o][1] \in NativeCalls /\ queue[o][1].j = j /\ Head(queue[o]) = queue[o][1]
         /\ Waits(job[j], queue[o][1].kind, o)
         /\ Unasked(Rest(o)[o], j)
         /\ \A i \in Places(queue[o]) : queue[o][i].j # j =>
               \E k \in Places(Rest(o)[o]) : Rest(o)[o][k] = queue[o][i]
         /\ saved' \in [Owners -> Nat] /\ incomplete' \subseteq Owners
         /\ \A x \in Owners \ {o} : saved'[x] = saved[x]
                                    /\ (x \in incomplete' <=> x \in incomplete)
         /\ ~ok => o \in incomplete'
         /\ ok /\ queue[o][1].kind = "delete" => saved'[o] = 0
         /\ ok /\ queue[o][1].kind = "save" => saved'[o] = queue[o][1].token
         /\ ok /\ queue[o][1].kind = "load" => saved'[o] = saved[o]
         /\ ok /\ queue[o][1].kind # "delete" => incomplete' = incomplete
<1>1. queue[o] # <<>> /\ queue \in [Owners -> Seq(NativeCalls)]
  BY DEF Answered, Before, CredTypes
<1>2. /\ Rest(o) \in [Owners -> Seq(NativeCalls)] /\ Popped(queue[o], Rest(o)[o])
      /\ \A x \in Owners \ {o} : Rest(o)[x] = queue[x]
      /\ Head(queue[o]) = queue[o][1] /\ queue[o][1] \in NativeCalls
  BY <1>1, RestIs
<1>3. queue[o][1].j = j
  BY <1>2 DEF Answered
<1>4. /\ 1 \in Places(queue[o]) /\ Asked(queue[o], job, o)
      /\ \A i \in Places(queue[o]) : i = 1 \/ \E k \in Places(Rest(o)[o]) : i = k + 1
      /\ \A i \in Places(Rest(o)[o]) : i + 1 \in Places(queue[o])
            /\ Rest(o)[o][i] = queue[o][i + 1] /\ i + 1 # 1
  BY <1>2, PoppedPlaces DEF Before, Kept, Structure
<1>5. Waits(job[j], queue[o][1].kind, o)
  BY <1>3, <1>4 DEF Asked
<1>6. Unasked(Rest(o)[o], j)
  BY <1>3, <1>4 DEF Asked, Unasked
<1>7. \A i \in Places(queue[o]) : queue[o][i].j # j =>
               \E k \in Places(Rest(o)[o]) : Rest(o)[o][k] = queue[o][i]
  BY <1>3, <1>4
<1>8. PICK t \in After(queue[o][1], saved[o], ok) : saved' = [saved EXCEPT ![o] = t]
  BY <1>2 DEF Answered
<1>9. /\ queue[o][1].kind \in {"load", "save", "delete"} /\ queue[o][1].token \in Nat
      /\ saved \in [Owners -> Nat] /\ incomplete \subseteq Owners
  BY <1>2 DEF NativeCalls, Before, CredTypes
<1>10. /\ t \in Nat
       /\ ok /\ queue[o][1].kind = "delete" => t = 0
       /\ ok /\ queue[o][1].kind = "save" => t = queue[o][1].token
       /\ ok /\ queue[o][1].kind = "load" => t = saved[o]
  BY <1>8, <1>9 DEF After
<1>11. /\ saved' \in [Owners -> Nat] /\ saved'[o] = t
       /\ \A x \in Owners \ {o} : saved'[x] = saved[x]
  BY <1>8, <1>9, <1>10
<1>12. incomplete' = IF ~ok THEN incomplete \cup {o}
                     ELSE IF queue[o][1].kind = "delete" THEN incomplete \ {o}
                     ELSE incomplete
  BY <1>2 DEF Answered
<1>13. /\ incomplete' \subseteq Owners
       /\ ~ok => o \in incomplete'
       /\ \A x \in Owners \ {o} : x \in incomplete' <=> x \in incomplete
       /\ ok /\ queue[o][1].kind # "delete" => incomplete' = incomplete
  BY <1>9, <1>12
<1>14. /\ ok /\ queue[o][1].kind = "delete" => saved'[o] = 0
       /\ ok /\ queue[o][1].kind = "save" => saved'[o] = queue[o][1].token
       /\ ok /\ queue[o][1].kind = "load" => saved'[o] = saved[o]
  BY <1>10, <1>11
<1>15. \A x \in Owners \ {o} : saved'[x] = saved[x] /\ (x \in incomplete' <=> x \in incomplete)
  BY <1>11, <1>13
<1> QED
  BY <1>1, <1>2, <1>3, <1>5, <1>6, <1>7, <1>11, <1>13, <1>14, <1>15

LEMMA AnsweredStore ==
  ASSUME Before, NEW j \in Jobs, NEW o \in Owners, NEW ok \in BOOLEAN, Answered(j, o, ok)
  PROVE  /\ ~ok => o \in incomplete'
         /\ ok /\ queue[o][1].kind = "load" => saved'[o] = saved[o]
         /\ ok /\ queue[o][1].kind # "delete" => incomplete' = incomplete
  BY AnsweredIs

LEMMA AnsweredKind ==
  ASSUME Before, NEW j \in Jobs, NEW o \in Owners, NEW ok \in BOOLEAN, Answered(j, o, ok)
  PROVE  /\ Storing(job[j], o) => queue[o][1].kind \in {"save", "delete"}
         /\ Refreshing(job[j], o) /\ job[j].pc = "load" => queue[o][1].kind = "load"
         /\ Refreshing(job[j], o) /\ job[j].pc = "removing" => queue[o][1].kind = "delete"
<1>1. Waits(job[j], queue[o][1].kind, o)
  BY AnsweredIs
<1> QED
  BY <1>1 DEF Waits, Saves, Refreshing, Storing, Clearing

(* A call that changes what is saved goes on after it was answered.        *)
LEMMA AnswerKeeps ==
  ASSUME Before, NEW j \in Jobs, NEW o \in Owners, NEW ok \in BOOLEAN, Answered(j, o, ok),
         platform' = platform, OthersStay(j), Relaxes(job[j], job'[j], o),
         queue'[o] = Rest(o)[o], queue[o][1].kind # "load", mem'[o] = mem[o],
         Wanted(o) => Wanted(o)', AccessListed(o)',
         ok /\ queue[o][1].kind = "save" /\ ~Deletes(queue'[o]) =>
            /\ Sound(o)' => Sound(o) \/ Wanted(o)'
            /\ Sound(o)' => accounts'[o] = "kept",
         ok /\ queue[o][1].kind = "delete" /\ Storing(job[j], o) /\ job[j].id = mem[o].id
           /\ ~mem[o].keep => accounts'[o] # "kept"
  PROVE  Kept(o)'
<1>1. /\ Popped(queue[o], queue'[o]) /\ queue[o][1] \in NativeCalls /\ queue[o][1].j = j
      /\ Unasked(queue'[o], j)
      /\ \A i \in Places(queue[o]) : queue[o][i].j # j =>
            \E k \in Places(queue'[o]) : queue'[o][k] = queue[o][i]
      /\ ~ok => o \in incomplete'
      /\ ok /\ queue[o][1].kind = "delete" => saved'[o] = 0
      /\ ok /\ queue[o][1].kind = "save" => saved'[o] = queue[o][1].token
      /\ ok /\ queue[o][1].kind # "delete" => incomplete' = incomplete
  BY AnsweredIs
<1>2. Structure(queue[o], mem[o], job, o) /\ Promise(o)
  BY DEF Before, Kept
<1>3. PICK e : Embeds(e, queue'[o], queue[o])
  BY <1>1, PoppedEmbeds
<1>4. Others(job, job', j, o)
  BY OthersAreAlike
<1>5. Structure(queue'[o], mem[o], job', o)
  BY <1>1, <1>2, <1>3, <1>4, StructureShrinks
<1>6. \A i \in Places(queue'[o]) : Alike(job[queue'[o][i].j], job'[queue'[o][i].j], o)
  <2>1. \A i \in Places(queue'[o]) : queue'[o][i].j \in Jobs
    BY <1>5 DEF Structure, Asked
  <2> QED
    BY <1>1, <2>1, WaitingAreAlike
<1>7. Promise(o)'
  <2>1. CASE Deletes(queue'[o])
    BY <1>1, <1>2, <1>6, <2>1, PromiseBeforeDelete
  <2>2. CASE ~Deletes(queue'[o]) /\ ~ok
    BY <1>1, <2>2, PromiseCut
  <2>3. CASE ~Deletes(queue'[o]) /\ ok /\ queue[o][1].kind = "delete"
    BY <1>1, <1>2, <1>6, <2>3, PromiseDeleted
  <2>4. CASE ~Deletes(queue'[o]) /\ ok /\ queue[o][1].kind = "save"
    BY <1>1, <1>2, <2>4, PromiseSaved
  <2>5. queue[o][1].kind \in {"save", "delete"}
    BY <1>1 DEF NativeCalls
  <2> QED
    BY <2>1, <2>2, <2>3, <2>4, <2>5
<1> QED
  BY <1>5, <1>7 DEF Kept

(* A call asks for what is saved to be deleted, and the session is gone.   *)
LEMMA ForgettingKeeps ==
  ASSUME Before, NEW j \in Jobs, NEW o \in Owners,
         NEW q, NEW J, NEW c, Structure(q, mem[o], J, o), Unasked(q, j),
         Others(J, job', j, o), Grown(q, c, queue'[o]), c.kind = "delete", c.j = j,
         Waits(job'[j], "delete", o), ~Storing(job'[j], o), mem'[o] = NoEntry,
         Refreshing(job'[j], o) => /\ Refreshing(J[j], o) /\ job'[j].id = J[j].id
                                   /\ J[j].id = mem[o].id,
         AccessListed(o)'
  PROVE  Kept(o)'
<1>1. ~Saves(job'[j], o)
  BY DEF Waits, Saves, Storing, Clearing, Refreshing
<1>2. Structure(queue'[o], mem'[o], job', o)
  BY <1>1, StructureAsks
<1>3. Promise(o)'
  BY PromiseForgets
<1> QED
  BY <1>2, <1>3 DEF Kept

LEMMA TypedCall ==
  ASSUME Before, NEW j \in Jobs
  PROVE  /\ CallType(job[j])
         /\ job[j].op \notin {"none", "clear"} => job[j].o \in Owners
         /\ StateTypes
  BY DEF Before, CredTypes, CallType, StateTypes

LEMMA IdleCall ==
  ASSUME Before, NEW j \in Jobs, Idle(j), NEW o \in Owners
  PROVE  /\ Unasked(queue[o], j) /\ Own(job[j], o)
         /\ ~Storing(job[j], o) /\ ~Refreshing(job[j], o) /\ ~Clearing(job[j], o)
         /\ job[j].op = "none"
<1>1. job[j].op = "none" /\ job[j].o = Local
  BY DEF Idle, NoJob
<1>2. \A kind : ~Waits(job[j], kind, o)
  BY <1>1 DEF Waits, Storing, Saves, Clearing, Refreshing
<1>3. Asked(queue[o], job, o)
  BY DEF Before, Kept, Structure
<1>4. Unasked(queue[o], j)
  BY <1>2, <1>3, IsUnasked
<1> QED
  BY <1>1, <1>4 DEF Own, Storing, Refreshing, Clearing

LEMMA LoginBeginsKeeps ==
  ASSUME Before, NEW j \in Jobs, NEW o \in Owners, NEW keep \in BOOLEAN,
         LoginBegins(j, o, keep)
  PROVE  CredTypes' /\ \A x \in Owners : Kept(x)'
<1> DEFINE n == Fresh(o)
           entry == [id |-> n, token |-> n, keep |-> keep]
           c == IF keep THEN Call("save", n, j) ELSE Call("delete", 0, j)
<1>1. /\ StateTypes /\ Idle(j) /\ ListInv /\ Kept(o)
  BY TypedCall DEF LoginBegins, Before
<1>2. /\ n \in Nat /\ n # 0 /\ n # mem[o].id
      /\ \A i \in Jobs : n # job[i].id /\ n # job[i].prev.id
  BY <1>1, FreshIs DEF StateTypes, NativeCalls
<1>3. /\ Unasked(queue[o], j) /\ Own(job[j], o)
      /\ ~Storing(job[j], o) /\ ~Refreshing(job[j], o)
  BY <1>1, IdleCall
<1>4. /\ mem' = [mem EXCEPT ![o] = entry] /\ queue' = Ask(queue, o, c)
      /\ job' = [job EXCEPT ![j] = [NoJob EXCEPT !.op = "login", !.o = o,
                       !.pc = "storing", !.id = n, !.prev = mem[o]]]
      /\ platform' = platform /\ accounts' = accounts /\ access' = access
      /\ saved' = saved /\ incomplete' = incomplete /\ overlooked' = overlooked
  BY DEF LoginBegins, storeVars
<1> HIDE DEF n
<1>5. c \in NativeCalls /\ c.j = j /\ c.kind = (IF keep THEN "save" ELSE "delete")
      /\ (keep => c.token = n)
  BY <1>2, CallIs
<1>6. entry \in Entries /\ entry.id = n /\ entry.token = n /\ entry.keep = keep
      /\ mem[o] \in Entries
  BY <1>1, <1>2 DEF Entries, StateTypes
<1> HIDE DEF c, entry
<1>7. mem' \in [Owners -> Entries] /\ mem'[o] = entry
      /\ \A x \in Owners \ {o} : mem'[x] = mem[x]
  BY <1>1, <1>4, <1>6 DEF StateTypes
<1>8. queue' \in [Owners -> Seq(NativeCalls)] /\ Grown(queue[o], c, queue'[o])
      /\ \A x \in Owners \ {o} : queue'[x] = queue[x]
  BY <1>1, <1>4, <1>5, AskIs DEF StateTypes
<1>9. OthersStay(j) /\ CallType(job'[j]) /\ job'[j].op = "login" /\ job'[j].o = o
      /\ job'[j].pc = "storing" /\ job'[j].id = n /\ job'[j].prev = mem[o]
  <2>1. OthersStay(j) /\ job'[j] = [NoJob EXCEPT !.op = "login", !.o = o,
                       !.pc = "storing", !.id = n, !.prev = mem[o]]
    BY <1>1, <1>4 DEF ListInv, JobsOK, OthersStay
  <2>2. /\ job'[j].op = "login" /\ job'[j].o = o /\ job'[j].pc = "storing"
        /\ job'[j].id = n /\ job'[j].prev = mem[o] /\ job'[j].left = {}
    BY <2>1 DEF NoJob
  <2> QED
    BY <1>2, <1>6, <2>1, <2>2, LocalAssumption DEF CallType
<1>10. Around(j, o) /\ StateTypes'
  BY <1>1, <1>3, <1>4, <1>7, <1>8, <1>9 DEF Around, StateTypes, Own, Same
<1>11. Others(job, job', j, o)
  BY <1>9, OthersAreAlike
<1>12. Storing(job'[j], o)
  BY <1>9 DEF Storing
<1>13. Structure(queue[o], mem[o], job, o) /\ Promise(o)
  BY <1>1 DEF Kept
<1>14. Structure(queue'[o], mem'[o], job', o)
  <2>1. mem'[o].id = n /\ mem'[o].keep = keep
    BY <1>6, <1>7
  <2> QED
    BY <1>2, <1>3, <1>5, <1>8, <1>9, <1>11, <1>12, <1>13, <2>1, StructureBegins, SMTT(30)
<1>15. \A i \in Places(queue[o]) : Alike(job[queue[o][i].j], job'[queue[o][i].j], o)
  <2>1. \A i \in Places(queue[o]) : queue[o][i].j \in Jobs
    BY <1>13 DEF Structure, Asked
  <2> QED
    BY <1>3, <1>9, <2>1, WaitingAreAlike
<1>16. Promise(o)'
  <2>1. mem'[o].id = n /\ mem'[o].keep = keep /\ mem'[o].token = n /\ mem'[o] # NoEntry
    BY <1>2, <1>6, <1>7 DEF NoEntry
  <2>2. AccessListed(o)'
    BY <1>4, <1>13 DEF Promise, AccessListed
  <2>3. \/ mem'[o].keep /\ c.kind = "save" /\ c.token = mem'[o].token
        \/ ~mem'[o].keep /\ c.kind = "delete"
    BY <1>5, <2>1
  <2> QED
    BY <1>4, <1>5, <1>8, <1>9, <1>12, <1>13, <1>15, <2>1, <2>2, <2>3, PromiseSignsIn
<1> QED
  BY <1>1, <1>10, <1>14, <1>16, AroundKeeps DEF Kept

LEMMA RefreshBeginsKeeps ==
  ASSUME Before, NEW j \in Jobs, NEW o \in Owners, NEW outer \in BOOLEAN,
         RefreshBegins(j, o, outer)
  PROVE  CredTypes' /\ \A x \in Owners : Kept(x)'
<1>1. /\ StateTypes /\ Idle(j) /\ ListInv /\ Kept(o)
      /\ Structure(queue[o], mem[o], job, o) /\ Promise(o)
  BY TypedCall DEF RefreshBegins, Before, Kept
<1>2. /\ Unasked(queue[o], j) /\ Own(job[j], o)
      /\ ~Storing(job[j], o) /\ ~Refreshing(job[j], o) /\ ~Clearing(job[j], o)
      /\ job[j].op = "none"
  BY <1>1, IdleCall
<1>3. \A i \in Jobs : ~Refreshing(job[i], o)
  BY DEF RefreshBegins, Running, Refreshing
<1>4. /\ platform' = platform /\ accounts' = accounts /\ access' = access
      /\ saved' = saved /\ incomplete' = incomplete /\ overlooked' = overlooked
  BY DEF RefreshBegins, storeVars
<1>5. ASSUME NEW n \in Nat, NEW pc,
             job' = [job EXCEPT ![j] = [NoJob EXCEPT !.op = "refresh", !.o = o,
                       !.pc = pc, !.id = n, !.outer = outer]]
      PROVE  /\ OthersStay(j) /\ CallType(job'[j]) /\ Refreshing(job'[j], o)
             /\ job'[j].op = "refresh" /\ job'[j].o = o
             /\ job'[j].pc = pc /\ job'[j].id = n /\ Others(job, job', j, o)
  <2>1. OthersStay(j) /\ job'[j] = [NoJob EXCEPT !.op = "refresh", !.o = o,
                       !.pc = pc, !.id = n, !.outer = outer]
    BY <1>1, <1>5 DEF ListInv, JobsOK, OthersStay
  <2>2. /\ job'[j].op = "refresh" /\ job'[j].o = o /\ job'[j].pc = pc
        /\ job'[j].id = n /\ job'[j].prev = NoEntry /\ job'[j].left = {}
    BY <2>1 DEF NoJob
  <2>3. NoEntry \in Entries
    BY DEF NoEntry, Entries
  <2> QED
    BY <2>1, <2>2, <2>3, OthersAreAlike, LocalAssumption DEF CallType, Refreshing
<1>6. ASSUME OthersStay(j)
      PROVE  \A i \in Places(queue[o]) : Alike(job[queue[o][i].j], job'[queue[o][i].j], o)
  <2>1. \A i \in Places(queue[o]) : queue[o][i].j \in Jobs
    BY <1>1 DEF Structure, Asked
  <2> QED
    BY <1>2, <1>6, <2>1, WaitingAreAlike
<1>7. AccessListed(o)'
  BY <1>1, <1>4 DEF Promise, AccessListed
<1>8. CASE mem[o] # NoEntry
  <2>1. /\ mem' = mem /\ queue' = queue
        /\ job' = [job EXCEPT ![j] = [NoJob EXCEPT !.op = "refresh", !.o = o,
                       !.pc = "provider", !.id = mem[o].id, !.outer = outer]]
    BY <1>8 DEF RefreshBegins
  <2>2. mem[o].id \in Nat /\ mem[o].id # 0
    BY <1>1, <1>8 DEF StateTypes, Entries, Structure, Apart
  <2>3. /\ OthersStay(j) /\ CallType(job'[j]) /\ Refreshing(job'[j], o)
        /\ job'[j].op = "refresh" /\ job'[j].o = o
        /\ job'[j].pc = "provider" /\ job'[j].id # 0 /\ Others(job, job', j, o)
    BY <1>5, <2>1, <2>2
  <2>4. Around(j, o) /\ StateTypes'
    BY <1>1, <1>2, <1>4, <2>1, <2>3 DEF Around, StateTypes, Own, Same
  <2>5. Structure(queue'[o], mem'[o], job', o)
    BY <1>1, <1>2, <1>3, <2>1, <2>3, StructureRefreshes
  <2>6. Promise(o)'
    <3>1. Wanted(o)'
      BY <1>8, <2>1 DEF Wanted
    <3>2. Clears(o)
      BY <2>3 DEF Clears, Emptying, OthersStay
    <3>3. (Sound(o)' => Sound(o)) /\ (Leaving(o)' => Leaving(o))
      BY <1>4, <2>1 DEF Sound, Leaving
    <3> QED
      BY <1>1, <1>4, <1>6, <1>7, <2>1, <2>3, <3>1, <3>2, <3>3, PromiseStays
  <2> QED
    BY <2>4, <2>5, <2>6, AroundKeeps DEF Kept
<1>9. CASE mem[o] = NoEntry
  <2> DEFINE n == Fresh(o)
             entry == [id |-> n, token |-> 0, keep |-> TRUE]
             c == Call("load", 0, j)
  <2>1. /\ n \in Nat /\ n # 0 /\ n # mem[o].id
        /\ \A i \in Jobs : n # job[i].id /\ n # job[i].prev.id
    BY <1>1, FreshIs DEF StateTypes, NativeCalls
  <2>2. /\ mem' = [mem EXCEPT ![o] = entry] /\ queue' = Ask(queue, o, c)
        /\ job' = [job EXCEPT ![j] = [NoJob EXCEPT !.op = "refresh", !.o = o,
                       !.pc = "load", !.id = n, !.outer = outer]]
    BY <1>9 DEF RefreshBegins
  <2> HIDE DEF n
  <2>3. c \in NativeCalls /\ c.j = j /\ c.kind = "load"
    BY CallIs
  <2>4. entry \in Entries /\ entry.id = n /\ entry.token = 0 /\ entry.keep
    BY <2>1 DEF Entries
  <2> HIDE DEF c, entry
  <2>5. mem' \in [Owners -> Entries] /\ mem'[o] = entry
        /\ \A x \in Owners \ {o} : mem'[x] = mem[x]
    BY <1>1, <2>2, <2>4 DEF StateTypes
  <2>6. queue' \in [Owners -> Seq(NativeCalls)] /\ Grown(queue[o], c, queue'[o])
        /\ \A x \in Owners \ {o} : queue'[x] = queue[x]
    BY <1>1, <2>2, <2>3, AskIs DEF StateTypes
  <2>7. /\ OthersStay(j) /\ CallType(job'[j]) /\ Refreshing(job'[j], o)
        /\ job'[j].op = "refresh" /\ job'[j].o = o
        /\ job'[j].pc = "load" /\ job'[j].id = n /\ Others(job, job', j, o)
    BY <1>5, <2>1, <2>2
  <2>8. Around(j, o) /\ StateTypes'
    BY <1>1, <1>2, <1>4, <2>5, <2>6, <2>7 DEF Around, StateTypes, Own, Same
  <2>9. mem'[o].id = n /\ mem'[o].keep /\ mem'[o].token = 0 /\ mem'[o] # NoEntry
    BY <2>1, <2>4, <2>5 DEF NoEntry
  <2>10. Structure(queue'[o], mem'[o], job', o)
    BY <1>1, <1>2, <1>3, <2>1, <2>3, <2>6, <2>7, <2>9, StructureBegins
  <2>11. Promise(o)'
    BY <1>1, <1>4, <1>6, <1>7, <2>3, <2>6, <2>7, <2>9, PromiseLoads
  <2> QED
    BY <2>8, <2>10, <2>11, AroundKeeps DEF Kept
<1> QED
  BY <1>8, <1>9

LEMMA NoEntryIs == NoEntry \in Entries
  BY DEF NoEntry, Entries

(* What a step of a refresh may do to the access tokens. *)
Drops == /\ access' \in [Owners -> {"none", "good", "old"}]
         /\ \A x \in Owners : access'[x] # "none" => access[x] # "none"

LEMMA DropIs ==
  ASSUME Before, NEW j \in Jobs, job[j].o \in Owners, NEW result, Drop(j, result)
  PROVE  Drops
<1>1. access \in [Owners -> {"none", "good", "old"}]
  BY TypedCall DEF StateTypes
<1> QED
  BY <1>1 DEF Drop, Drops

LEMMA StillWanted ==
  ASSUME NEW j \in Jobs, NEW o, OthersStay(j), job[j].op # "signout",
         mem'[o] = mem[o], accounts'[o] = accounts[o] \/ accounts'[o] # "kept"
  PROVE  Wanted(o) => Wanted(o)'
  BY DEF Wanted, SigningOut, OthersStay

(* Nothing moves but access tokens. *)
LEMMA StillKeeps ==
  ASSUME Before, platform' = platform, mem' = mem, queue' = queue, saved' = saved,
         accounts' = accounts, job' = job, incomplete' = incomplete,
         overlooked' = overlooked, Drops
  PROVE  CredTypes' /\ \A x \in Owners : Kept(x)'
<1>1. CredTypes'
  BY DEF Before, CredTypes, CallType, Drops
<1>2. ASSUME NEW x \in Owners PROVE Kept(x)'
  <2>1. Structure(queue[x], mem[x], job, x) /\ Promise(x)
    BY DEF Before, Kept
  <2>2. \A i \in Places(queue[x]) : Alike(job[queue[x][i].j], job'[queue[x][i].j], x)
    BY DEF Alike
  <2>3. AccessListed(x)'
    BY <2>1 DEF Promise, AccessListed, Drops
  <2>4. (Wanted(x) => Wanted(x)') /\ Clears(x)
    BY DEF Wanted, SigningOut, Clears
  <2>5. (Sound(x)' => Sound(x)) /\ (Leaving(x)' => Leaving(x))
    BY DEF Sound, Leaving
  <2>6. Promise(x)'
    BY <2>1, <2>2, <2>3, <2>4, <2>5, PromiseStays
  <2> QED
    BY <2>1, <2>6 DEF Kept
<1> QED
  BY <1>1, <1>2

(* A call about o goes on or ends, and asks for nothing more. *)
LEMMA CallKeeps ==
  ASSUME Before, NEW j \in Jobs, NEW o \in Owners, OthersStay(j), CallType(job'[j]),
         Own(job[j], o), Own(job'[j], o), platform' = platform,
         Unasked(queue[o], j), Relaxes(job[j], job'[j], o),
         queue' = queue, saved' = saved, accounts' = accounts,
         incomplete' = incomplete, overlooked' = overlooked, Drops,
         mem' = mem \/ mem' = [mem EXCEPT ![o] = NoEntry], Wanted(o) => Wanted(o)'
  PROVE  CredTypes' /\ \A x \in Owners : Kept(x)'
<1>1. StateTypes /\ Kept(o) /\ Promise(o)
  BY TypedCall DEF Before, Kept
<1>2. mem' \in [Owners -> Entries] /\ (mem'[o] = mem[o] \/ mem'[o] = NoEntry)
      /\ \A x \in Owners \ {o} : mem'[x] = mem[x]
  BY <1>1, NoEntryIs DEF StateTypes
<1>3. Around(j, o) /\ StateTypes'
  BY <1>1, <1>2 DEF Around, Same, StateTypes, Drops
<1>4. AccessListed(o)'
  BY <1>1 DEF Promise, AccessListed, Drops
<1>5. Clears(o)
  BY DEF Clears, Emptying, Own, OthersStay
<1>6. Kept(o)'
  BY <1>1, <1>2, <1>4, <1>5, LeftAloneKeeps
<1> QED
  BY <1>3, <1>6, AroundKeeps

(* A deletion is asked for by a call that was about nothing of the store.  *)
LEMMA ForgetsKeeps ==
  ASSUME Before, NEW j \in Jobs, NEW o \in Owners, OthersStay(j), CallType(job'[j]),
         Own(job[j], o), job'[j].o = o, platform' = platform,
         Unasked(queue[o], j),
         \/ job'[j].op \in {"reject", "remove"} /\ job'[j].pc = "deleting"
         \/ /\ Refreshing(job[j], o) /\ Refreshing(job'[j], o) /\ job'[j].pc = "removing"
            /\ job'[j].id = job[j].id /\ job[j].id = mem[o].id,
         queue' = Ask(queue, o, Call("delete", 0, j)), mem' = [mem EXCEPT ![o] = NoEntry],
         saved' = saved, accounts' = accounts,
         incomplete' = incomplete, overlooked' = overlooked, Drops
  PROVE  CredTypes' /\ \A x \in Owners : Kept(x)'
<1>1. StateTypes /\ Kept(o) /\ Promise(o) /\ Structure(queue[o], mem[o], job, o)
  BY TypedCall DEF Before, Kept
<1>2. mem' \in [Owners -> Entries] /\ mem'[o] = NoEntry
      /\ \A x \in Owners \ {o} : mem'[x] = mem[x]
  BY <1>1, NoEntryIs DEF StateTypes
<1> DEFINE c == Call("delete", 0, j)
<1>3. c \in NativeCalls /\ c.j = j /\ c.kind = "delete"
  BY CallIs
<1> HIDE DEF c
<1>4. queue' \in [Owners -> Seq(NativeCalls)] /\ Grown(queue[o], c, queue'[o])
      /\ \A x \in Owners \ {o} : queue'[x] = queue[x]
  BY <1>1, <1>3, AskIs DEF StateTypes, c
<1>5. Own(job'[j], o)
  BY DEF Own, Refreshing
<1>6. Around(j, o) /\ StateTypes'
  BY <1>1, <1>2, <1>4, <1>5 DEF Around, Same, StateTypes, Drops
<1>7. AccessListed(o)'
  BY <1>1 DEF Promise, AccessListed, Drops
<1>8. Others(job, job', j, o)
  BY OthersAreAlike
<1>9. Waits(job'[j], "delete", o) /\ ~Storing(job'[j], o)
      /\ (Refreshing(job'[j], o) => /\ Refreshing(job[j], o) /\ job'[j].id = job[j].id
                                   /\ job[j].id = mem[o].id)
  BY DEF Waits, Storing, Refreshing
<1>10. Kept(o)'
  BY <1>1, <1>2, <1>3, <1>4, <1>7, <1>8, <1>9, ForgettingKeeps
<1> QED
  BY <1>6, <1>10, AroundKeeps

(* A refresh ends without a session, the store left alone. *)
LEMMA FailsKeeps ==
  ASSUME Before, NEW j \in Jobs, NEW o \in Owners, job[j].o = o, Refreshing(job[j], o),
         Unasked(queue[o], j), NEW result, Fails(j, result, queue, mem, grant), Drops,
         platform' = platform, saved' = saved, accounts' = accounts,
         incomplete' = incomplete, overlooked' = overlooked
  PROVE  CredTypes' /\ \A x \in Owners : Kept(x)'
<1>1. ListInv /\ CallType(job[j]) /\ Own(job[j], o)
  <2>1. Own(job[j], o)
    BY DEF Own, Refreshing
  <2> QED
    BY <2>1, TypedCall DEF Before
<1>2. CASE job[j].outer /\ result = "rejected"
  <2>1. /\ mem' = [mem EXCEPT ![o] = NoEntry] /\ queue' = Ask(queue, o, Call("delete", 0, j))
        /\ job' = [job EXCEPT ![j].op = "reject", ![j].pc = "deleting"]
    BY <1>2 DEF Fails
  <2>2. /\ OthersStay(j) /\ CallType(job'[j])
        /\ job'[j].op = "reject" /\ job'[j].o = o /\ job'[j].pc = "deleting"
    BY <1>1, <2>1, RejectsCall
  <2> QED
    BY <1>1, <2>1, <2>2, ForgetsKeeps
<1>3. CASE ~(job[j].outer /\ result = "rejected")
  <2>1. mem' = mem /\ queue' = queue /\ End(j)
    BY <1>3 DEF Fails
  <2>2. OthersStay(j) /\ job'[j] = NoJob /\ CallType(job'[j])
    BY <1>1, <2>1, EndsCall DEF End
  <2>3. Relaxes(job[j], job'[j], o) /\ Own(job'[j], o)
    BY <2>2 DEF Relaxes, Storing, Saves, Clearing, Refreshing, NoJob, Own
  <2>4. Wanted(o) => Wanted(o)'
    BY <2>1, <2>2, StillWanted DEF Refreshing
  <2> QED
    BY <1>1, <2>1, <2>2, <2>3, <2>4, CallKeeps
<1> QED
  BY <1>2, <1>3

LEMMA QuietKeeps ==
  ASSUME Before,
         \/ \E o \in Owners : RefreshHasNothing(o) \/ Expire(o)
         \/ \E o \in Owners \cup {Local} : Switch(o)
  PROVE  CredTypes' /\ \A x \in Owners : Kept(x)'
<1>1. /\ platform' = platform /\ mem' = mem /\ queue' = queue /\ saved' = saved
      /\ accounts' = accounts /\ job' = job /\ incomplete' = incomplete
      /\ overlooked' = overlooked
  BY DEF RefreshHasNothing, Expire, Switch, storeVars, memVars
<1>2. access \in [Owners -> {"none", "good", "old"}]
  BY TypedCall DEF Before, CredTypes
<1>3. Drops
  <2>1. CASE \E o \in Owners : RefreshHasNothing(o)
    BY <1>2, <2>1 DEF RefreshHasNothing, Drops
  <2>2. CASE \E o \in Owners : Expire(o)
    BY <1>2, <2>2 DEF Expire, Drops
  <2>3. CASE \E o \in Owners \cup {Local} : Switch(o)
    BY <1>2, <2>3 DEF Switch, memVars, Drops
  <2> QED
    BY <2>1, <2>2, <2>3
<1> QED
  BY <1>1, <1>3, StillKeeps

(* What every step of a refresh or of another call that goes on knows. *)
LEMMA OfCall ==
  ASSUME Before, NEW j \in Jobs, NEW op, NEW pc, At(j, op, pc),
         op \notin {"none", "clear"}
  PROVE  /\ ListInv /\ StateTypes /\ CallType(job[j]) /\ job[j].o \in Owners
         /\ Own(job[j], job[j].o) /\ job[j].op = op /\ job[j].pc = pc
         /\ Structure(queue[job[j].o], mem[job[j].o], job, job[j].o)
         /\ Promise(job[j].o) /\ Asked(queue[job[j].o], job, job[j].o)
         /\ op = "refresh" => Refreshing(job[j], job[j].o)
         /\ op = "login" => Storing(job[j], job[j].o)
<1>1. job[j].op = op /\ job[j].pc = pc
  BY DEF At
<1>2. ListInv /\ StateTypes /\ CallType(job[j]) /\ job[j].o \in Owners
  BY <1>1, TypedCall DEF Before
<1>3. Structure(queue[job[j].o], mem[job[j].o], job, job[j].o) /\ Promise(job[j].o)
  BY <1>2 DEF Before, Kept
<1>4. Asked(queue[job[j].o], job, job[j].o)
  BY <1>3 DEF Structure
<1>5. /\ op = "refresh" => Refreshing(job[j], job[j].o)
      /\ op = "login" => Storing(job[j], job[j].o)
      /\ Own(job[j], job[j].o)
  BY <1>1 DEF Refreshing, Storing, Own
<1> QED
  BY <1>1, <1>2, <1>3, <1>4, <1>5

(* A refresh that waits for the provider or the cloud waits for no call of *)
(* the store; the session it is about is one.                              *)
LEMMA AwayFromStore ==
  ASSUME Before, NEW j \in Jobs, NEW pc \in {"provider", "grant"}, At(j, "refresh", pc)
  PROVE  /\ Unasked(queue[job[j].o], j)
         /\ \A i \in Places(queue[job[j].o]) : queue[job[j].o][i].kind # "load"
         /\ Current(j) => mem[job[j].o] # NoEntry /\ mem[job[j].o].id # 0
<1> DEFINE o == job[j].o
<1>1. /\ job[j].op = "refresh" /\ job[j].pc = pc /\ Refreshing(job[j], o)
      /\ Asked(queue[o], job, o) /\ Structure(queue[o], mem[o], job, o)
  BY OfCall
<1> HIDE DEF o
<1>2. \A kind : ~Waits(job[j], kind, o)
  BY <1>1 DEF Waits, Storing, Saves, Clearing, Refreshing
<1>3. Unasked(queue[o], j)
  BY <1>1, <1>2, IsUnasked
<1>4. Apart(mem[o], job, o)
  BY <1>1 DEF Structure
<1>5. ASSUME NEW i \in Places(queue[o]), queue[o][i].kind = "load" PROVE FALSE
  <2>1. queue[o][i].j \in Jobs /\ Waits(job[queue[o][i].j], "load", o)
    BY <1>1, <1>5 DEF Asked
  <2>2. Refreshing(job[queue[o][i].j], o)
    BY <2>1 DEF Waits
  <2> QED
    BY <1>1, <1>3, <1>4, <2>1, <2>2 DEF Apart, Unasked
<1>6. Current(j) => mem[o] # NoEntry /\ mem[o].id # 0
  BY <1>1, <1>4 DEF Current, o, Apart, NoEntry
<1> QED
  BY <1>3, <1>5, <1>6 DEF o

LEMMA JoinsKeeps ==
  ASSUME Before, NEW j \in Jobs, RefreshJoins(j)
  PROVE  CredTypes' /\ \A x \in Owners : Kept(x)'
<1> PICK o \in Owners : o = job[j].o
  <2>1. At(j, "refresh", job[j].pc)
    BY DEF RefreshJoins, At
  <2> QED
    BY <2>1, OfCall
<1>1. /\ ListInv /\ StateTypes /\ CallType(job[j]) /\ o \in Owners /\ Own(job[j], o)
      /\ job[j].op = "refresh" /\ Promise(o)
  <2>1. At(j, "refresh", job[j].pc)
    BY DEF RefreshJoins, At
  <2> QED
    BY <2>1, OfCall
<1>2. /\ platform' = platform /\ mem' = mem /\ queue' = queue /\ saved' = saved
      /\ accounts' = accounts /\ access' = access /\ incomplete' = incomplete
      /\ overlooked' = overlooked /\ job' = [job EXCEPT ![j].outer = TRUE]
  BY DEF RefreshJoins, storeVars, memVars
<1>3. OthersStay(j) /\ Alike(job[j], job'[j], o) /\ job'[j].left = job[j].left
  BY <1>1, <1>2 DEF ListInv, JobsOK, JobFields, OthersStay, Alike
<1>4. CallType(job'[j]) /\ Own(job'[j], o)
  BY <1>1, <1>3 DEF CallType, Own, Alike
<1>5. Around(j, o) /\ StateTypes'
  BY <1>1, <1>2, <1>3, <1>4 DEF Around, Same, StateTypes
<1>6. AccessListed(o)'
  BY <1>1, <1>2 DEF Promise, AccessListed
<1>7. Clears(o)
  BY <1>3, <1>4 DEF Clears, Emptying, Own, OthersStay
<1>8. Wanted(o) => Wanted(o)'
  BY <1>1, <1>2, <1>3, StillWanted
<1>9. Kept(o)'
  BY <1>1, <1>2, <1>3, <1>6, <1>7, <1>8, LeftAloneKeeps DEF Before
<1> QED
  BY <1>1, <1>5, <1>9, AroundKeeps

LEMMA StructureSaves ==
  ASSUME NEW q, NEW m, NEW J, NEW o, NEW c, NEW q1, NEW m1, NEW J1, NEW j \in Jobs,
         Structure(q, m, J, o), Unasked(q, j), Others(J, J1, j, o),
         Grown(q, c, q1), c.j = j, c.kind = "save", m.keep,
         Waits(J1[j], "save", o), ~Storing(J1[j], o), Saves(J1[j], o),
         Refreshing(J[j], o), J1[j].id = J[j].id, J[j].id = m.id,
         m1.id = m.id, m1.keep = m.keep
  PROVE  Structure(q1, m1, J1, o)
  BY StructureAsks

LEMMA AskedSaveKeeps ==
  ASSUME NEW j \in Jobs, NEW o \in Owners, NEW c, Kept(o), OthersStay(j),
         Unasked(queue[o], j), Refreshing(job[j], o), job[j].id = mem[o].id,
         mem[o] # NoEntry, mem[o].id # 0, mem[o].keep,
         \A i \in Places(queue[o]) : queue[o][i].kind # "load",
         Grown(queue[o], c, queue'[o]), c.j = j, c.kind = "save",
         Waits(job'[j], "save", o), ~Storing(job'[j], o), Saves(job'[j], o),
         job'[j].id = job[j].id, mem'[o].id = mem[o].id, mem'[o].keep = mem[o].keep,
         OnDesktop' => c.token = mem'[o].token, AccessListed(o)',
         saved'[o] = saved[o], accounts'[o] = accounts[o],
         o \in incomplete' <=> o \in incomplete, o \in overlooked' <=> o \in overlooked
  PROVE  Kept(o)'
<1>1. Structure(queue[o], mem[o], job, o) /\ Asked(queue[o], job, o) /\ Promise(o)
  BY DEF Kept, Structure
<1>2. Others(job, job', j, o)
  BY OthersAreAlike
<1>3. Structure(queue'[o], mem'[o], job', o)
  <2>1. PICK m1 : m1 = mem'[o]
    OBVIOUS
  <2>2. m1.id = mem[o].id /\ m1.keep = mem[o].keep
    BY <2>1
  <2>3. Structure(queue'[o], m1, job', o)
    BY <1>1, <1>2, <2>2, StructureSaves
  <2> QED
    BY <2>1, <2>3
<1>4. \A i \in Places(queue[o]) : Alike(job[queue[o][i].j], job'[queue[o][i].j], o)
  <2>1. \A i \in Places(queue[o]) : queue[o][i].j \in Jobs
    BY <1>1 DEF Asked
  <2> QED
    BY <2>1, WaitingAreAlike
<1>5. mem'[o] # NoEntry /\ mem'[o].keep
  BY DEF NoEntry
<1>6. Promise(o)'
  BY <1>1, <1>4, <1>5, PromiseSaves
<1> QED
  BY <1>3, <1>6 DEF Kept

(* The new token of a session is kept in memory, and asked to be saved. *)
LEMMA SavingKeeps ==
  ASSUME Before, NEW j \in Jobs, NEW pc \in {"provider", "grant"}, At(j, "refresh", pc),
         Current(j), NEW o \in Owners, o = job[j].o, mem[o].keep, NEW t \in Nat,
         queue' = Ask(queue, o, Call("save", t, j)),
         NEW to \in {"save", "lastsave"}, Goto(j, to),
         mem' \in [Owners -> Entries], \A x \in Owners \ {o} : mem'[x] = mem[x],
         mem'[o].id = mem[o].id, mem'[o].keep = mem[o].keep,
         OnDesktop' => t = mem'[o].token,
         platform' = platform, accounts' = accounts, access' = access, saved' = saved,
         incomplete' = incomplete, overlooked' = overlooked
  PROVE  CredTypes' /\ \A x \in Owners : Kept(x)'
<1>1. /\ ListInv /\ StateTypes /\ CallType(job[j]) /\ Own(job[j], o)
      /\ job[j].op = "refresh" /\ Promise(o) /\ Refreshing(job[j], o)
      /\ Structure(queue[o], mem[o], job, o) /\ Asked(queue[o], job, o)
  BY OfCall
<1>2. /\ Unasked(queue[o], j) /\ \A i \in Places(queue[o]) : queue[o][i].kind # "load"
      /\ mem[o] # NoEntry /\ mem[o].id # 0
  BY AwayFromStore
<1> DEFINE c == Call("save", t, j)
<1>3. c \in NativeCalls /\ c.j = j /\ c.kind = "save" /\ c.token = t
  BY CallIs
<1> HIDE DEF c
<1>4. queue' \in [Owners -> Seq(NativeCalls)] /\ Grown(queue[o], c, queue'[o])
      /\ \A x \in Owners \ {o} : queue'[x] = queue[x]
  BY <1>1, <1>3, AskIs DEF StateTypes, c
<1>5. /\ OthersStay(j) /\ CallType(job'[j]) /\ job'[j].op = "refresh"
      /\ job'[j].o = o /\ job'[j].pc = to /\ job'[j].id = job[j].id
  BY <1>1, GoesOn
<1>6. /\ Refreshing(job'[j], o) /\ Saves(job'[j], o) /\ ~Storing(job'[j], o)
      /\ Waits(job'[j], "save", o) /\ Own(job'[j], o)
  BY <1>5 DEF Refreshing, Saves, Storing, Waits, Own
<1>7. Around(j, o) /\ StateTypes'
  BY <1>1, <1>4, <1>5, <1>6 DEF Around, Same, StateTypes
<1>8. job[j].id = mem[o].id
  BY DEF Current
<1>9. AccessListed(o)'
  BY <1>1 DEF Promise, AccessListed
<1>10. Kept(o)'
  BY <1>1, <1>2, <1>3, <1>4, <1>5, <1>6, <1>8, <1>9, AskedSaveKeeps DEF Before
<1> QED
  BY <1>7, <1>10, AroundKeeps

LEMMA RotatedKeeps ==
  ASSUME Before, NEW j \in Jobs, Rotated(j)
  PROVE  CredTypes' /\ \A x \in Owners : Kept(x)'
<1> PICK o \in Owners : o = job[j].o
  BY OfCall DEF Rotated
<1> DEFINE n == Fresh(o)
<1>1. /\ At(j, "refresh", "provider") /\ Current(j)
      /\ mem' = [mem EXCEPT ![o].token = n]
      /\ platform' = platform /\ accounts' = accounts /\ access' = access
      /\ saved' = saved /\ incomplete' = incomplete /\ overlooked' = overlooked
      /\ IF OnDesktop /\ mem[o].keep
         THEN queue' = Ask(queue, o, Call("save", n, j)) /\ Goto(j, "save")
         ELSE queue' = queue /\ Goto(j, "grant")
  BY DEF Rotated, storeVars
<1>2. /\ ListInv /\ StateTypes /\ CallType(job[j]) /\ Own(job[j], o) /\ o \in Owners
      /\ job[j].op = "refresh" /\ Promise(o) /\ Refreshing(job[j], o) /\ Kept(o)
  BY <1>1, OfCall DEF Before
<1>3. n \in Nat
  BY <1>2, FreshIs DEF StateTypes, NativeCalls
<1> HIDE DEF n
<1>4. /\ mem' \in [Owners -> Entries] /\ \A x \in Owners \ {o} : mem'[x] = mem[x]
      /\ mem'[o].id = mem[o].id /\ mem'[o].keep = mem[o].keep /\ mem'[o].token = n
  <2>1. mem' = [mem EXCEPT ![o] = [mem[o] EXCEPT !.token = n]] /\ mem[o] \in Entries
    BY <1>1, <1>2 DEF StateTypes
  <2>2. [mem[o] EXCEPT !.token = n] \in Entries
        /\ [mem[o] EXCEPT !.token = n].id = mem[o].id
        /\ [mem[o] EXCEPT !.token = n].keep = mem[o].keep
        /\ [mem[o] EXCEPT !.token = n].token = n
    BY <1>3, <2>1 DEF Entries
  <2> QED
    BY <1>2, <2>1, <2>2 DEF StateTypes
<1>5. CASE OnDesktop /\ mem[o].keep
  <2>1. queue' = Ask(queue, o, Call("save", n, j)) /\ Goto(j, "save")
    BY <1>1, <1>5
  <2>2. /\ At(j, "refresh", "provider") /\ Current(j) /\ mem[o].keep /\ n \in Nat
        /\ OnDesktop' => n = mem'[o].token
    BY <1>1, <1>3, <1>4, <1>5
  <2>3. /\ platform' = platform /\ accounts' = accounts /\ access' = access
        /\ saved' = saved /\ incomplete' = incomplete /\ overlooked' = overlooked
    BY <1>1
  <2>4. "provider" \in {"provider", "grant"} /\ "save" \in {"save", "lastsave"}
    OBVIOUS
  <2> QED
    BY <1>4, <2>1, <2>2, <2>3, <2>4, SavingKeeps
<1>6. CASE ~(OnDesktop /\ mem[o].keep)
  <2>1. /\ Unasked(queue[o], j) /\ mem[o] # NoEntry
    BY <1>1, AwayFromStore
  <2>2. /\ OthersStay(j) /\ CallType(job'[j]) /\ job'[j].op = "refresh"
        /\ job'[j].o = o /\ job'[j].pc = "grant" /\ job'[j].id = job[j].id
    BY <1>1, <1>2, <1>6, GoesOn
  <2>3. Relaxes(job[j], job'[j], o) /\ Own(job'[j], o)
    BY <1>2, <2>2 DEF Relaxes, Refreshing, Saves, Storing, Clearing, Own
  <2>4. Around(j, o) /\ StateTypes'
    BY <1>1, <1>2, <1>4, <1>6, <2>2, <2>3 DEF Around, Same, StateTypes
  <2>5. AccessListed(o)'
    BY <1>1, <1>2 DEF Promise, AccessListed
  <2>6. Wanted(o)'
    <3>1. mem[o].id # 0
      BY <1>1, AwayFromStore
    <3> QED
      BY <1>4, <3>1 DEF Wanted, NoEntry
  <2>7. Clears(o)
    BY <2>2, <2>3 DEF Clears, Emptying, Own, OthersStay
  <2>8. Kept(o)'
    BY <1>1, <1>2, <1>4, <1>6, <2>1, <2>2, <2>3, <2>5, <2>6, <2>7, LeftAloneKeeps
  <2> QED
    BY <1>2, <2>4, <2>8, AroundKeeps
<1> QED
  BY <1>5, <1>6

LEMMA NotRotatedKeeps ==
  ASSUME Before, NEW j \in Jobs, NotRotated(j)
  PROVE  CredTypes' /\ \A x \in Owners : Kept(x)'
<1> DEFINE o == job[j].o
<1>1. /\ At(j, "refresh", "provider")
      /\ platform' = platform /\ accounts' = accounts /\ saved' = saved
      /\ incomplete' = incomplete /\ overlooked' = overlooked
  BY DEF NotRotated, storeVars
<1>2. PICK result : Fails(j, result, queue, mem, grant) /\ Drop(j, result)
  BY DEF NotRotated
<1>3. o \in Owners /\ Refreshing(job[j], o)
  BY <1>1, OfCall
<1>4. Unasked(queue[o], j)
  BY <1>1, AwayFromStore
<1>5. Drops
  BY <1>2, <1>3, DropIs
<1> QED
  BY <1>1, <1>2, <1>3, <1>4, <1>5, FailsKeeps

LEMMA RenewIs ==
  ASSUME Before, NEW j \in Jobs, NEW o \in Owners, o = job[j].o, Renew(j),
         overlooked' = overlooked
  PROVE  /\ OthersStay(j) /\ job'[j] = NoJob /\ CallType(job'[j])
         /\ access' \in [Owners -> {"none", "good", "old"}] /\ AccessListed(o)'
         /\ \A x \in Owners \ {o} : /\ accounts'[x] = accounts[x]
                                    /\ access'[x] # "none" => access[x] # "none"
         /\ \/ accounts'[o] = accounts[o]
            \/ Current(j) /\ accounts'[o] = IF mem[o].keep THEN "kept" ELSE "temporary"
<1>1. ListInv /\ StateTypes /\ AccessListed(o)
  BY TypedCall DEF Before, Kept, Promise
<1>2. job' = [job EXCEPT ![j] = NoJob]
  BY DEF Renew, End
<1>3. OthersStay(j) /\ job'[j] = NoJob /\ CallType(job'[j])
  BY <1>1, <1>2, EndsCall
<1>4. CASE Current(j) /\ Supabase(o)
  <2>1. Store(o, mem[o].keep, active)
    BY <1>4 DEF Renew
  <2>2. /\ accounts' = [accounts EXCEPT ![o] = IF mem[o].keep THEN "kept" ELSE "temporary"]
        /\ access' = [access EXCEPT ![o] = "good"]
    BY <2>1 DEF Store, Write
  <2>3. accounts \in [Owners -> Providers] /\ access \in [Owners -> {"none", "good", "old"}]
    BY <1>1 DEF ListInv, StateTypes
  <2>4. /\ access' \in [Owners -> {"none", "good", "old"}]
        /\ \A x \in Owners \ {o} : access'[x] = access[x] /\ accounts'[x] = accounts[x]
        /\ accounts'[o] = IF mem[o].keep THEN "kept" ELSE "temporary"
    BY <2>2, <2>3
  <2>5. AccessListed(o)'
    BY <2>4 DEF AccessListed
  <2> QED
    BY <1>3, <1>4, <2>4, <2>5
<1>5. CASE ~(Current(j) /\ Supabase(o))
  <2>1. Drop(j, "nothing") /\ accounts' = accounts
    BY <1>5 DEF Renew, storeVars
  <2>2. Drops
    BY <2>1, DropIs
  <2>3. AccessListed(o)'
    BY <1>1, <2>1, <2>2 DEF AccessListed, Drops
  <2> QED
    BY <1>3, <2>1, <2>2, <2>3 DEF Drops
<1> QED
  BY <1>4, <1>5

LEMMA GrantedKeeps ==
  ASSUME Before, NEW j \in Jobs, Granted(j)
  PROVE  CredTypes' /\ \A x \in Owners : Kept(x)'
<1> PICK o \in Owners : o = job[j].o
  BY OfCall DEF Granted
<1>1. /\ At(j, "refresh", "grant") /\ platform' = platform /\ saved' = saved
      /\ incomplete' = incomplete /\ overlooked' = overlooked
  BY DEF Granted
<1>2. /\ ListInv /\ StateTypes /\ CallType(job[j]) /\ Own(job[j], o)
      /\ job[j].op = "refresh" /\ Refreshing(job[j], o) /\ Promise(o)
      /\ Structure(queue[o], mem[o], job, o) /\ Kept(o)
  BY <1>1, OfCall DEF Before
<1>3. Unasked(queue[o], j) /\ (Current(j) => mem[o] # NoEntry /\ mem[o].id # 0)
  BY <1>1, AwayFromStore
<1>4. CASE Current(j) /\ mem[o].keep /\ ~OnDesktop
  <2>1. /\ queue' = Ask(queue, o, Call("save", mem[o].token, j)) /\ Goto(j, "lastsave")
        /\ accounts' = accounts /\ access' = access /\ mem' = mem
    BY <1>4 DEF Granted, storeVars, memVars
  <2>2. mem[o].token \in Nat /\ mem \in [Owners -> Entries]
    BY <1>2 DEF StateTypes, Entries
  <2>3. ~OnDesktop'
    BY <1>1, <1>4 DEF OnDesktop
  <2> QED
    BY <1>1, <1>4, <2>1, <2>2, <2>3, SavingKeeps
<1>5. CASE Current(j) /\ (OnDesktop \/ ~mem[o].keep)
  <2>1. Renew(j) /\ mem' = mem /\ queue' = queue
    BY <1>5 DEF Granted
  <2>2. /\ OthersStay(j) /\ job'[j] = NoJob /\ CallType(job'[j])
        /\ access' \in [Owners -> {"none", "good", "old"}] /\ AccessListed(o)'
        /\ \A x \in Owners \ {o} : /\ accounts'[x] = accounts[x]
                                   /\ access'[x] # "none" => access[x] # "none"
        /\ \/ accounts'[o] = accounts[o]
           \/ accounts'[o] = IF mem[o].keep THEN "kept" ELSE "temporary"
    BY <1>1, <2>1, RenewIs
  <2>3. Relaxes(job[j], job'[j], o) /\ Own(job'[j], o)
    BY <2>2 DEF Relaxes, Storing, Saves, Clearing, Refreshing, NoJob, Own
  <2>4. Around(j, o) /\ StateTypes'
    BY <1>1, <1>2, <2>1, <2>2, <2>3 DEF Around, Same, StateTypes
  <2>5. Wanted(o)' /\ Clears(o)
    BY <1>3, <1>5, <2>1, <2>2, <2>3 DEF Wanted, Clears, Emptying, Own, OthersStay
  <2>6. CASE accounts'[o] = accounts[o] \/ mem[o].keep
    <3>1. Kept(o)'
      BY <1>1, <1>2, <1>3, <2>1, <2>2, <2>3, <2>5, <2>6, LeftAloneKeeps
    <3> QED
      BY <2>4, <3>1, AroundKeeps
  <2>7. CASE accounts'[o] = "temporary" /\ ~mem[o].keep
    <3>1. Others(job, job', j, o)
      BY <2>2, OthersAreAlike
    <3>2. PICK e : Embeds(e, queue[o], queue[o])
      BY SameEmbeds
    <3>3. Structure(queue[o], mem[o], job', o)
      BY <1>2, <1>3, <2>3, <3>1, <3>2, StructureShrinks
    <3>4. \A i \in Places(queue[o]) : Alike(job[queue[o][i].j], job'[queue[o][i].j], o)
      <4>1. \A i \in Places(queue[o]) : queue[o][i].j \in Jobs
        BY <1>2 DEF Structure, Asked
      <4> QED
        BY <1>3, <2>2, <4>1, WaitingAreAlike
    <3>5. Promise(o)'
      BY <1>1, <1>2, <1>3, <1>5, <2>1, <2>7, <3>4, PromiseRenewed
    <3> QED
      BY <2>1, <2>4, <3>3, <3>5, AroundKeeps DEF Kept
  <2> QED
    BY <2>2, <2>6, <2>7
<1>6. CASE ~Current(j)
  <2>1. Fails(j, "nothing", queue, mem, grant) /\ Drop(j, "nothing") /\ accounts' = accounts
    BY <1>6 DEF Granted, storeVars
  <2> QED
    BY <1>1, <1>2, <1>3, <2>1, DropIs, FailsKeeps
<1> QED
  BY <1>4, <1>5, <1>6

LEMMA NotGrantedKeeps ==
  ASSUME Before, NEW j \in Jobs, NotGranted(j)
  PROVE  CredTypes' /\ \A x \in Owners : Kept(x)'
<1> PICK o \in Owners : o = job[j].o
  BY OfCall DEF NotGranted
<1>1. /\ At(j, "refresh", "grant") /\ platform' = platform /\ saved' = saved
      /\ incomplete' = incomplete /\ overlooked' = overlooked /\ accounts' = accounts
  BY DEF NotGranted, storeVars
<1>2. /\ ListInv /\ StateTypes /\ CallType(job[j]) /\ Own(job[j], o)
      /\ job[j].op = "refresh" /\ Refreshing(job[j], o)
  BY <1>1, OfCall
<1>3. Unasked(queue[o], j)
  BY <1>1, AwayFromStore
<1>4. ASSUME NEW result, Fails(j, result, queue, mem, grant), Drop(j, result)
      PROVE  CredTypes' /\ \A x \in Owners : Kept(x)'
  BY <1>1, <1>2, <1>3, <1>4, DropIs, FailsKeeps
<1>5. ASSUME Current(j), mem' = [mem EXCEPT ![o] = NoEntry],
             queue' = Ask(queue, o, Call("delete", 0, j)), Goto(j, "removing"),
             access' = access
      PROVE  CredTypes' /\ \A x \in Owners : Kept(x)'
  <2>1. /\ OthersStay(j) /\ CallType(job'[j]) /\ job'[j].op = "refresh"
        /\ job'[j].o = o /\ job'[j].pc = "removing" /\ job'[j].id = job[j].id
    BY <1>2, <1>5, GoesOn
  <2>2. Refreshing(job'[j], o) /\ job[j].id = mem[o].id
    BY <1>5, <2>1 DEF Refreshing, Current
  <2>3. Drops
    BY <1>2, <1>5 DEF Drops, StateTypes
  <2> QED
    BY <1>1, <1>2, <1>3, <1>5, <2>1, <2>2, <2>3, ForgetsKeeps
<1> QED
  BY <1>4, <1>5 DEF NotGranted

(* A call about o that waited for the store goes on or ends.               *)
LEMMA AnsweredCallKeeps ==
  ASSUME Before, NEW j \in Jobs, NEW o \in Owners, NEW ok \in BOOLEAN, Answered(j, o, ok),
         platform' = platform, OthersStay(j), CallType(job'[j]),
         Own(job[j], o), Own(job'[j], o), Relaxes(job[j], job'[j], o),
         queue' = Rest(o), queue[o][1].kind # "load", mem' = mem,
         access' \in [Owners -> {"none", "good", "old"}], AccessListed(o)',
         overlooked' \subseteq Owners,
         \A x \in Owners \ {o} : /\ accounts'[x] = accounts[x]
                                 /\ access'[x] # "none" => access[x] # "none"
                                 /\ x \in overlooked' <=> x \in overlooked,
         Wanted(o) => Wanted(o)',
         ok /\ queue[o][1].kind = "save" /\ ~Deletes(queue'[o]) =>
            /\ Sound(o)' => Sound(o) \/ Wanted(o)'
            /\ Sound(o)' => accounts'[o] = "kept",
         ok /\ queue[o][1].kind = "delete" /\ Storing(job[j], o) /\ job[j].id = mem[o].id
           /\ ~mem[o].keep => accounts'[o] # "kept"
  PROVE  CredTypes' /\ \A x \in Owners : Kept(x)'
<1>1. StateTypes
  BY TypedCall
<1>2. /\ queue' \in [Owners -> Seq(NativeCalls)]
      /\ \A x \in Owners \ {o} : queue'[x] = queue[x]
      /\ saved' \in [Owners -> Nat] /\ incomplete' \subseteq Owners
      /\ \A x \in Owners \ {o} : saved'[x] = saved[x]
                                 /\ (x \in incomplete' <=> x \in incomplete)
  BY AnsweredIs
<1>3. Around(j, o) /\ StateTypes'
  BY <1>1, <1>2 DEF Around, Same, StateTypes
<1>4. Kept(o)'
  BY AnswerKeeps
<1> QED
  BY <1>3, <1>4, AroundKeeps

(* A refresh that is answered after saving saved for an account kept, or   *)
(* for one whose clean-up did not succeed.                                 *)
LEMMA SaveIsOfKept ==
  ASSUME Before, NEW j \in Jobs, NEW o \in Owners, NEW ok \in BOOLEAN, Answered(j, o, ok),
         Refreshing(job[j], o), queue[o][1].kind = "save", ~Deletes(Rest(o)[o]), Sound(o)
  PROVE  accounts[o] = "kept"
<1> SUFFICES ASSUME accounts[o] # "kept" PROVE FALSE
  OBVIOUS
<1>1. Leaving(o) /\ Led(o)
  BY DEF Leaving, Before, Kept, Promise
<1>2. Popped(queue[o], Rest(o)[o]) /\ queue[o][1].j = j
  BY AnsweredIs
<1>3. LateSave(queue[o], 1) /\ 1 \in Places(queue[o])
  BY <1>2, PoppedLate, PoppedPlaces DEF LateSave
<1>4. PICK k \in Places(queue[o]) : k <= 1 /\ Storing(job[queue[o][k].j], o)
  BY <1>1, <1>3 DEF Led
<1>5. k = 1
  BY <1>2, <1>4 DEF Places, Popped
<1> QED
  BY <1>2, <1>4, <1>5 DEF Storing, Refreshing

LEMMA RotationSavedKeeps ==
  ASSUME Before, NEW j \in Jobs, RotationSaved(j)
  PROVE  CredTypes' /\ \A x \in Owners : Kept(x)'
<1> PICK o \in Owners : o = job[j].o
  BY OfCall DEF RotationSaved
<1>1. /\ At(j, "refresh", "save") /\ platform' = platform
      /\ overlooked' = overlooked /\ accounts' = accounts
  BY DEF RotationSaved, storeVars
<1>2. PICK ok \in BOOLEAN :
        /\ Answered(j, o, ok)
        /\ IF ok THEN Goto(j, "grant") /\ queue' = Rest(o) /\ UNCHANGED memVars
           ELSE Fails(j, "retry", Rest(o), mem, grant) /\ Drop(j, "retry")
  BY DEF RotationSaved
<1>3. /\ ListInv /\ StateTypes /\ CallType(job[j]) /\ Own(job[j], o) /\ AccessListed(o)
      /\ job[j].op = "refresh" /\ job[j].pc = "save" /\ Refreshing(job[j], o)
  BY <1>1, OfCall DEF Promise
<1>4. queue[o][1].kind = "save"
  BY <1>2, <1>3, AnsweredIs DEF Waits, Refreshing, Storing, Clearing
<1>5. /\ OthersStay(j) /\ CallType(job'[j]) /\ Own(job'[j], o)
      /\ Relaxes(job[j], job'[j], o) /\ queue' = Rest(o) /\ mem' = mem /\ Drops
  <2>1. CASE ok
    <3>1. /\ OthersStay(j) /\ CallType(job'[j]) /\ job'[j].op = "refresh"
          /\ job'[j].o = o /\ job'[j].pc = "grant" /\ job'[j].id = job[j].id
      BY <1>2, <1>3, <2>1, GoesOn
    <3>2. queue' = Rest(o) /\ mem' = mem /\ access' = access
      BY <1>2, <2>1 DEF memVars
    <3> QED
      BY <1>3, <3>1, <3>2
      DEF Relaxes, Own, Refreshing, Saves, Storing, Clearing, Drops, StateTypes
  <2>2. CASE ~ok
    <3>1. queue' = Rest(o) /\ mem' = mem /\ End(j)
      BY <1>2, <2>2 DEF Fails
    <3>2. OthersStay(j) /\ job'[j] = NoJob /\ CallType(job'[j])
      BY <1>3, <3>1, EndsCall DEF End
    <3>3. Relaxes(job[j], job'[j], o) /\ Own(job'[j], o)
      BY <3>2 DEF Relaxes, Storing, Saves, Clearing, Refreshing, NoJob, Own
    <3>4. Drops
      BY <1>2, <2>2, DropIs
    <3> QED
      BY <3>1, <3>2, <3>3, <3>4
  <2> QED
    BY <2>1, <2>2
<1>6. AccessListed(o)'
  BY <1>1, <1>3, <1>5 DEF AccessListed, Drops
<1>7. Wanted(o) => Wanted(o)'
  BY <1>1, <1>3, <1>5, StillWanted
<1>8. ok /\ ~Deletes(queue'[o]) => /\ Sound(o)' => Sound(o)
                                   /\ Sound(o)' => accounts'[o] = "kept"
  <2>1. ok => incomplete' = incomplete
    BY <1>2, <1>4, AnsweredIs
  <2> QED
    BY <1>1, <1>2, <1>3, <1>4, <1>5, <2>1, SaveIsOfKept DEF Sound
<1>9. overlooked \subseteq Owners /\ access' \in [Owners -> {"none", "good", "old"}]
      /\ \A x \in Owners : access'[x] # "none" => access[x] # "none"
  BY <1>3, <1>5 DEF StateTypes, Drops
<1> QED
  BY <1>1, <1>2, <1>3, <1>4, <1>5, <1>6, <1>7, <1>8, <1>9, AnsweredCallKeeps

LEMMA LastSavedKeeps ==
  ASSUME Before, NEW j \in Jobs, LastSaved(j)
  PROVE  CredTypes' /\ \A x \in Owners : Kept(x)'
<1> PICK o \in Owners : o = job[j].o
  BY OfCall DEF LastSaved
<1>1. /\ At(j, "refresh", "lastsave") /\ platform' = platform /\ overlooked' = overlooked
  BY DEF LastSaved
<1>2. PICK ok \in BOOLEAN :
        /\ Answered(j, o, ok)
        /\ IF ok THEN Renew(j) /\ queue' = Rest(o) /\ mem' = mem
           ELSE /\ Fails(j, "retry", Rest(o), mem, grant) /\ Drop(j, "retry")
                /\ accounts' = accounts
  BY DEF LastSaved, storeVars
<1>3. /\ ListInv /\ StateTypes /\ CallType(job[j]) /\ Own(job[j], o) /\ AccessListed(o)
      /\ job[j].op = "refresh" /\ job[j].pc = "lastsave" /\ Refreshing(job[j], o)
      /\ Structure(queue[o], mem[o], job, o)
  BY <1>1, OfCall DEF Promise
<1>4. queue[o][1].kind = "save"
  BY <1>2, <1>3, AnsweredIs DEF Waits, Refreshing, Storing, Clearing
<1>5. Current(j) => mem[o].keep /\ mem[o] # NoEntry
  <2>1. Saves(job[j], o) /\ KeepsOnly(queue[o], mem[o], job, o) /\ Apart(mem[o], job, o)
    BY <1>3 DEF Saves, Structure
  <2>2. mem[o].id = job[j].id => mem[o].keep
    BY <2>1 DEF KeepsOnly
  <2>3. job[j].id # 0
    BY <1>3, <2>1 DEF Apart
  <2>4. NoEntry.id = 0
    BY DEF NoEntry
  <2>5. Current(j) => mem[o].id = job[j].id
    BY DEF Current
  <2> QED
    BY <2>2, <2>3, <2>4, <2>5
<1>6. /\ OthersStay(j) /\ job'[j] = NoJob /\ CallType(job'[j]) /\ queue' = Rest(o)
      /\ mem' = mem
      /\ access' \in [Owners -> {"none", "good", "old"}] /\ AccessListed(o)'
      /\ \A x \in Owners \ {o} : /\ accounts'[x] = accounts[x]
                                 /\ access'[x] # "none" => access[x] # "none"
      /\ \/ accounts'[o] = accounts[o]
         \/ ok /\ accounts'[o] = "kept" /\ mem[o] # NoEntry
  <2>1. CASE ok
    BY <1>1, <1>2, <1>5, <2>1, RenewIs
  <2>2. CASE ~ok
    <3>1. queue' = Rest(o) /\ mem' = mem /\ End(j) /\ accounts' = accounts
      BY <1>2, <2>2 DEF Fails
    <3>2. OthersStay(j) /\ job'[j] = NoJob /\ CallType(job'[j])
      BY <1>3, <3>1, EndsCall DEF End
    <3>3. Drops
      BY <1>2, <2>2, DropIs
    <3>4. AccessListed(o)'
      BY <1>1, <1>3, <3>1, <3>3 DEF AccessListed, Drops
    <3> QED
      BY <3>1, <3>2, <3>3, <3>4 DEF Drops
  <2> QED
    BY <2>1, <2>2
<1>7. Relaxes(job[j], job'[j], o) /\ Own(job'[j], o)
  BY <1>6 DEF Relaxes, Storing, Saves, Clearing, Refreshing, NoJob, Own
<1>8. Wanted(o) => Wanted(o)'
  <2>1. CASE accounts'[o] = accounts[o]
    BY <1>3, <1>6, <2>1, StillWanted
  <2>2. CASE mem[o] # NoEntry
    BY <1>6, <2>2 DEF Wanted
  <2> QED
    BY <1>6, <2>1, <2>2
<1>9. ok /\ ~Deletes(queue'[o]) => /\ Sound(o)' => Sound(o)
                                   /\ Sound(o)' => accounts'[o] = "kept"
  <2>1. ok => incomplete' = incomplete
    BY <1>2, <1>4, AnsweredIs
  <2>2. ok /\ ~Deletes(queue'[o]) /\ Sound(o) => accounts[o] = "kept"
    BY <1>2, <1>3, <1>4, <1>6, SaveIsOfKept
  <2> QED
    BY <1>1, <1>6, <2>1, <2>2 DEF Sound
<1> QED
  <2>1. overlooked' \subseteq Owners
    BY <1>1, <1>3 DEF StateTypes
  <2> QED
    BY <1>1, <1>2, <1>3, <1>4, <1>6, <1>7, <1>8, <1>9, <2>1, AnsweredCallKeeps

(* A deletion was answered, and the call ends; the account may have left.  *)
LEMMA DeletedEnds ==
  ASSUME Before, NEW j \in Jobs, NEW o \in Owners, NEW ok \in BOOLEAN, Answered(j, o, ok),
         ListInv, job[j].op \in {"refresh", "reject", "remove"}, Own(job[j], o),
         queue[o][1].kind = "delete", platform' = platform, End(j),
         queue' = Rest(o), mem' = mem, access' = [access EXCEPT ![o] = "none"],
         overlooked' = overlooked, accounts' = accounts \/ accounts' = Without(o)
  PROVE  CredTypes' /\ \A x \in Owners : Kept(x)'
<1>1. OthersStay(j) /\ job'[j] = NoJob /\ CallType(job'[j])
  BY EndsCall DEF End
<1>2. Relaxes(job[j], job'[j], o) /\ Own(job'[j], o)
  BY <1>1 DEF Relaxes, Storing, Saves, Clearing, Refreshing, NoJob, Own
<1>3. accounts \in [Owners -> Providers] /\ access \in [Owners -> {"none", "good", "old"}]
      /\ overlooked \subseteq Owners
  BY TypedCall DEF ListInv, StateTypes
<1>4. /\ access' \in [Owners -> {"none", "good", "old"}] /\ access'[o] = "none"
      /\ \A x \in Owners \ {o} : access'[x] = access[x]
  BY <1>3
<1>5. /\ \A x \in Owners \ {o} : accounts'[x] = accounts[x]
      /\ accounts'[o] = accounts[o] \/ accounts'[o] # "kept"
  BY <1>3 DEF Without
<1>6. AccessListed(o)'
  BY <1>4 DEF AccessListed
<1>7. Wanted(o) => Wanted(o)'
  BY <1>1, <1>5, StillWanted
<1>8. ~Storing(job[j], o)
  BY DEF Storing
<1> QED
  BY <1>1, <1>2, <1>3, <1>4, <1>5, <1>6, <1>7, <1>8, AnsweredCallKeeps

LEMMA RejectedDeletedKeeps ==
  ASSUME Before, NEW j \in Jobs, RejectedDeleted(j)
  PROVE  CredTypes' /\ \A x \in Owners : Kept(x)'
<1> PICK o \in Owners : o = job[j].o
  BY OfCall DEF RejectedDeleted
<1>1. /\ At(j, "reject", "deleting") /\ platform' = platform /\ overlooked' = overlooked
      /\ accounts' = accounts /\ queue' = Rest(o) /\ End(j) /\ mem' = mem
      /\ access' = [access EXCEPT ![o] = "none"]
  BY DEF RejectedDeleted, storeVars
<1>2. PICK ok \in BOOLEAN : Answered(j, o, ok)
  BY DEF RejectedDeleted
<1>3. ListInv /\ Own(job[j], o) /\ job[j].op = "reject"
  BY <1>1, OfCall
<1>4. queue[o][1].kind = "delete"
  BY <1>2, <1>3, AnsweredIs DEF Waits, Saves, Refreshing, Storing, Clearing
<1> QED
  BY <1>1, <1>2, <1>3, <1>4, DeletedEnds

LEMMA RemoveEndsKeeps ==
  ASSUME Before, NEW j \in Jobs, RemoveEnds(j)
  PROVE  CredTypes' /\ \A x \in Owners : Kept(x)'
<1> PICK o \in Owners : o = job[j].o
  BY OfCall DEF RemoveEnds
<1>1. /\ At(j, "remove", "deleting") /\ platform' = platform /\ overlooked' = overlooked
      /\ accounts' = Without(o) /\ queue' = Rest(o) /\ End(j) /\ mem' = mem
      /\ access' = [access EXCEPT ![o] = "none"]
  BY DEF RemoveEnds, Write
<1>2. PICK ok \in BOOLEAN : Answered(j, o, ok)
  BY DEF RemoveEnds
<1>3. ListInv /\ Own(job[j], o) /\ job[j].op = "remove"
  BY <1>1, OfCall
<1>4. queue[o][1].kind = "delete"
  BY <1>2, <1>3, AnsweredIs DEF Waits, Saves, Refreshing, Storing, Clearing
<1> QED
  BY <1>1, <1>2, <1>3, <1>4, DeletedEnds

(* ... or it asks for another deletion: the refresh was a rejected one.    *)
LEMMA RefusedRemovedKeeps ==
  ASSUME Before, NEW j \in Jobs, RefusedRemoved(j)
  PROVE  CredTypes' /\ \A x \in Owners : Kept(x)'
<1> PICK o \in Owners : o = job[j].o
  BY OfCall DEF RefusedRemoved
<1>1. /\ At(j, "refresh", "removing") /\ platform' = platform /\ overlooked' = overlooked
      /\ accounts' = Without(o) /\ access' = [access EXCEPT ![o] = "none"]
      /\ Fails(j, "rejected", Rest(o), mem, grant)
  BY DEF RefusedRemoved, Write
<1>2. PICK ok \in BOOLEAN : Answered(j, o, ok)
  BY DEF RefusedRemoved
<1>3. /\ ListInv /\ StateTypes /\ CallType(job[j]) /\ Own(job[j], o)
      /\ job[j].op = "refresh" /\ job[j].pc = "removing" /\ Refreshing(job[j], o)
      /\ Structure(queue[o], mem[o], job, o)
  BY <1>1, OfCall
<1>4. queue[o][1].kind = "delete"
  BY <1>2, <1>3, AnsweredKind DEF Refreshing
<1>5. CASE ~job[j].outer
  <2>1. mem' = mem /\ queue' = Rest(o) /\ End(j)
    BY <1>1, <1>5 DEF Fails
  <2> QED
    BY <1>1, <1>2, <1>3, <1>4, <2>1, DeletedEnds
<1>6. CASE job[j].outer
  <2> DEFINE c == Call("delete", 0, j)
  <2>1. /\ mem' = [mem EXCEPT ![o] = NoEntry] /\ queue' = Ask(Rest(o), o, c)
        /\ job' = [job EXCEPT ![j].op = "reject", ![j].pc = "deleting"]
    BY <1>1, <1>6 DEF Fails
  <2>2. /\ OthersStay(j) /\ CallType(job'[j])
        /\ job'[j].op = "reject" /\ job'[j].o = o /\ job'[j].pc = "deleting"
    BY <1>3, <2>1, RejectsCall
  <2>3. c \in NativeCalls /\ c.j = j /\ c.kind = "delete"
    BY CallIs
  <2> HIDE DEF c
  <2>4. /\ Rest(o) \in [Owners -> Seq(NativeCalls)] /\ Popped(queue[o], Rest(o)[o])
        /\ \A x \in Owners \ {o} : Rest(o)[x] = queue[x]
        /\ Unasked(Rest(o)[o], j) /\ queue[o][1].j = j
        /\ \A i \in Places(queue[o]) : queue[o][i].j # j =>
               \E k \in Places(Rest(o)[o]) : Rest(o)[o][k] = queue[o][i]
        /\ saved' \in [Owners -> Nat] /\ incomplete' \subseteq Owners
        /\ \A x \in Owners \ {o} : saved'[x] = saved[x]
                                   /\ (x \in incomplete' <=> x \in incomplete)
    BY <1>2, AnsweredIs
  <2>5. /\ queue' \in [Owners -> Seq(NativeCalls)] /\ Grown(Rest(o)[o], c, queue'[o])
        /\ \A x \in Owners \ {o} : queue'[x] = queue[x]
    <3>1. queue' = [Rest(o) EXCEPT ![o] = Append(Rest(o)[o], c)]
      BY <2>1 DEF Ask
    <3>2. Append(Rest(o)[o], c) \in Seq(NativeCalls)
          /\ Grown(Rest(o)[o], c, Append(Rest(o)[o], c))
      BY <2>3, <2>4, AppendGrows
    <3> QED
      BY <2>4, <3>1, <3>2
  <2>6. /\ mem' \in [Owners -> Entries] /\ mem'[o] = NoEntry
        /\ \A x \in Owners \ {o} : mem'[x] = mem[x]
    BY <1>3, <2>1, NoEntryIs DEF StateTypes
  <2>7. /\ access' \in [Owners -> {"none", "good", "old"}] /\ access'[o] = "none"
        /\ \A x \in Owners \ {o} : access'[x] = access[x] /\ accounts'[x] = accounts[x]
    BY <1>1, <1>3 DEF StateTypes, ListInv, Without
  <2>8. Around(j, o) /\ StateTypes'
    BY <1>1, <1>3, <2>2, <2>4, <2>5, <2>6, <2>7 DEF Around, Same, StateTypes, Own
  <2> DEFINE J0 == [job EXCEPT ![j] = NoJob]
  <2>9. J0[j] = NoJob /\ \A i \in Jobs \ {j} : J0[i] = job[i]
    BY <1>3 DEF ListInv, JobsOK
  <2> HIDE DEF J0
  <2>10. Others(job, J0, j, o) /\ Others(J0, job', j, o)
    BY <2>2, <2>9 DEF Others, Alike, OthersStay
  <2>11. Structure(Rest(o)[o], mem[o], J0, o)
    <3>1. Relaxes(job[j], J0[j], o)
      BY <2>9 DEF Relaxes, Storing, Saves, Clearing, Refreshing, NoJob
    <3>2. PICK e : Embeds(e, Rest(o)[o], queue[o])
      BY <2>4, PoppedEmbeds
    <3>3. /\ Structure(queue[o], mem[o], job, o) /\ Others(job, J0, j, o)
          /\ Unasked(Rest(o)[o], j)
          /\ \A i \in Places(queue[o]) : queue[o][i].j # j =>
                 \E k \in Places(Rest(o)[o]) : Rest(o)[o][k] = queue[o][i]
      BY <1>3, <2>4, <2>10
    <3> QED
      BY <3>1, <3>2, <3>3, StructureShrinks
  <2>12. Waits(job'[j], "delete", o) /\ ~Storing(job'[j], o) /\ ~Refreshing(job'[j], o)
    BY <2>2 DEF Waits, Storing, Refreshing
  <2>13. AccessListed(o)'
    BY <2>7 DEF AccessListed
  <2>14. Kept(o)'
    BY <2>3, <2>4, <2>5, <2>6, <2>10, <2>11, <2>12, <2>13, ForgettingKeeps
  <2> QED
    BY <2>8, <2>14, AroundKeeps
<1> QED
  BY <1>5, <1>6

-----------------------------------------------------------------------------
(* ClientAccounts and the credentials: signing out *)

LEMMA RemovesKeeps ==
  ASSUME Before, NEW j \in Jobs, NEW o \in Owners, Removes(j, o), accounts[o] # "none",
         Own(job[j], o), Unasked(queue[o], j), platform' = platform, saved' = saved,
         accounts' = accounts, incomplete' = incomplete, overlooked' = overlooked
  PROVE  CredTypes' /\ \A x \in Owners : Kept(x)'
<1>1. ListInv /\ StateTypes
  BY TypedCall DEF Before
<1>2. Supabase(o)
  BY <1>1 DEF Before, ListInv, NothingFormer, Providers, Supabase
<1>3. /\ mem' = [mem EXCEPT ![o] = NoEntry] /\ queue' = Ask(queue, o, Call("delete", 0, j))
      /\ Begin(j, "remove", o, "deleting") /\ access' = access
  BY <1>2 DEF Removes
<1>4. /\ OthersStay(j) /\ CallType(job'[j])
      /\ job'[j].op = "remove" /\ job'[j].o = o /\ job'[j].pc = "deleting"
  BY <1>1, <1>3, BeginsCall
<1>5. Drops
  BY <1>1, <1>3 DEF Drops, StateTypes
<1> QED
  BY <1>3, <1>4, <1>5, ForgetsKeeps

LEMMA RemovingKeeps ==
  ASSUME Before, NEW j \in Jobs, NEW o \in Owners, RemoveBegins(j, o) \/ ForgetDeleted(j, o)
  PROVE  CredTypes' /\ \A x \in Owners : Kept(x)'
<1>1. /\ Idle(j) /\ accounts[o] # "none" /\ platform' = platform /\ saved' = saved
      /\ accounts' = accounts /\ incomplete' = incomplete /\ overlooked' = overlooked
  BY DEF RemoveBegins, ForgetDeleted, storeVars
<1>2. Supabase(o)
  BY <1>1 DEF Before, ListInv, NothingFormer, Providers, Supabase
<1>3. Removes(j, o)
  BY <1>2 DEF RemoveBegins, ForgetDeleted
<1> QED
  BY <1>1, <1>3, IdleCall, RemovesKeeps

(* The session is forgotten by a call that signs out. *)
LEMMA SigningOutKeeps ==
  ASSUME Before, NEW j \in Jobs, NEW o \in Owners, Begin(j, "signout", o, "network"),
         Own(job[j], o), Unasked(queue[o], j), mem' = [mem EXCEPT ![o] = NoEntry],
         platform' = platform, queue' = queue, saved' = saved, accounts' = accounts,
         access' = access, incomplete' = incomplete, overlooked' = overlooked
  PROVE  CredTypes' /\ \A x \in Owners : Kept(x)'
<1>1. ListInv /\ StateTypes
  BY TypedCall DEF Before
<1>2. /\ OthersStay(j) /\ CallType(job'[j])
      /\ job'[j].op = "signout" /\ job'[j].o = o
  BY <1>1, BeginsCall
<1>3. Relaxes(job[j], job'[j], o) /\ Own(job'[j], o)
  BY <1>2 DEF Relaxes, Storing, Saves, Clearing, Refreshing, Own
<1>4. Wanted(o)'
  BY <1>2 DEF Wanted, SigningOut
<1>5. Drops
  BY <1>1 DEF Drops, StateTypes
<1> QED
  BY <1>2, <1>3, <1>4, <1>5, CallKeeps

LEMMA SignOutKeeps ==
  ASSUME Before, NEW j \in Jobs, NEW o \in Owners, SignOut(j, o)
  PROVE  CredTypes' /\ \A x \in Owners : Kept(x)'
  BY IdleCall, SigningOutKeeps DEF SignOut, storeVars

LEMMA PanelLogoutKeeps ==
  ASSUME Before, NEW j \in Jobs, PanelLogout(j)
  PROVE  CredTypes' /\ \A x \in Owners : Kept(x)'
<1>1. ListInv /\ StateTypes
  BY TypedCall DEF Before
<1>2. PICK o \in Owners : o = active
  BY <1>1 DEF PanelLogout, ListInv, Listed
<1>3. /\ Idle(j) /\ Begin(j, "panel", o, "session") /\ platform' = platform
      /\ mem' = mem /\ queue' = queue /\ saved' = saved /\ accounts' = accounts
      /\ access' = access /\ incomplete' = incomplete /\ overlooked' = overlooked
  BY <1>2 DEF PanelLogout, storeVars, memVars
<1>4. /\ OthersStay(j) /\ CallType(job'[j]) /\ job'[j].op = "panel" /\ job'[j].o = o
  BY <1>1, <1>3, BeginsCall
<1>5. Unasked(queue[o], j) /\ Own(job[j], o) /\ job[j].op = "none"
  BY <1>3, IdleCall
<1>6. Relaxes(job[j], job'[j], o) /\ Own(job'[j], o)
  BY <1>4 DEF Relaxes, Storing, Saves, Clearing, Refreshing, Own
<1>7. Wanted(o) => Wanted(o)'
  BY <1>3, <1>4, <1>5, StillWanted
<1>8. Drops
  BY <1>1, <1>3 DEF Drops, StateTypes
<1> QED
  BY <1>3, <1>4, <1>5, <1>6, <1>7, <1>8, CallKeeps

(* A call that asks for nothing more ends without having done anything.    *)
LEMMA EndsKeeps ==
  ASSUME Before, NEW j \in Jobs, NEW o \in Owners, End(j), Own(job[j], o),
         Unasked(queue[o], j), platform' = platform, mem' = mem, queue' = queue,
         saved' = saved, accounts' = accounts, access' = access,
         incomplete' = incomplete, overlooked' = overlooked, Wanted(o) => Wanted(o)'
  PROVE  CredTypes' /\ \A x \in Owners : Kept(x)'
<1>1. ListInv /\ StateTypes
  BY TypedCall DEF Before
<1>2. OthersStay(j) /\ job'[j] = NoJob /\ CallType(job'[j])
  BY <1>1, EndsCall DEF End
<1>3. Relaxes(job[j], job'[j], o) /\ Own(job'[j], o)
  BY <1>2 DEF Relaxes, Storing, Saves, Clearing, Refreshing, NoJob, Own
<1>4. Drops
  BY <1>1 DEF Drops, StateTypes
<1> QED
  BY <1>2, <1>3, <1>4, CallKeeps

LEMMA SignOutEndsKeeps ==
  ASSUME Before, NEW j \in Jobs, SignOutEnds(j)
  PROVE  CredTypes' /\ \A x \in Owners : Kept(x)'
<1> PICK o \in Owners : o = job[j].o
  BY OfCall DEF SignOutEnds
<1>1. /\ At(j, "signout", "network") /\ platform' = platform /\ saved' = saved
      /\ accounts' = accounts /\ incomplete' = incomplete /\ overlooked' = overlooked
  BY DEF SignOutEnds, storeVars
<1>2. Own(job[j], o) /\ job[j].op = "signout" /\ Asked(queue[o], job, o) /\ ListInv
  BY <1>1, OfCall
<1>3. Unasked(queue[o], j)
  <2>1. \A kind : ~Waits(job[j], kind, o)
    BY <1>2 DEF Waits, Storing, Saves, Clearing, Refreshing
  <2> QED
    BY <1>2, <2>1, IsUnasked
<1>4. CASE mem[o] # NoEntry \/ ~Supabase(o)
  <2>1. End(j) /\ mem' = mem /\ queue' = queue /\ access' = access
    BY <1>4 DEF SignOutEnds, memVars
  <2>2. Wanted(o)'
    BY <1>1, <1>4, <2>1 DEF Wanted, Supabase
  <2> QED
    BY <1>1, <1>2, <1>3, <2>1, <2>2, EndsKeeps
<1>5. CASE ~(mem[o] # NoEntry \/ ~Supabase(o))
  <2>1. Removes(j, o) /\ accounts[o] # "none"
    BY <1>5 DEF SignOutEnds, Supabase
  <2> QED
    BY <1>1, <1>2, <1>3, <2>1, RemovesKeeps
<1> QED
  BY <1>4, <1>5

LEMMA PanelLogoutEndsKeeps ==
  ASSUME Before, NEW j \in Jobs, PanelLogoutEnds(j)
  PROVE  CredTypes' /\ \A x \in Owners : Kept(x)'
<1> PICK o \in Owners : o = job[j].o
  BY OfCall DEF PanelLogoutEnds
<1>1. /\ At(j, "panel", "session") /\ platform' = platform /\ saved' = saved
      /\ accounts' = accounts /\ incomplete' = incomplete /\ overlooked' = overlooked
  BY DEF PanelLogoutEnds, storeVars
<1>2. job[j].op = "panel" /\ ListInv
  BY <1>1, OfCall
<1>3. ASSUME NEW x \in Owners PROVE Own(job[j], x) /\ Unasked(queue[x], j)
  <2>1. \A kind : ~Waits(job[j], kind, x)
    BY <1>2 DEF Waits, Storing, Saves, Clearing, Refreshing
  <2>2. Asked(queue[x], job, x)
    BY DEF Before, Kept, Structure
  <2> QED
    BY <1>2, <2>1, <2>2, IsUnasked DEF Own
<1>4. CASE /\ mem' = [mem EXCEPT ![o] = NoEntry] /\ Begin(j, "signout", o, "network")
           /\ access' = access /\ queue' = queue
  BY <1>1, <1>3, <1>4, SigningOutKeeps
<1>5. CASE End(j) /\ mem' = mem /\ queue' = queue /\ access' = access
  <2>1. OthersStay(j)
    BY <1>2, <1>5, EndsCall DEF End
  <2>2. Wanted(o) => Wanted(o)'
    BY <1>1, <1>2, <1>5, <2>1, StillWanted
  <2> QED
    BY <1>1, <1>3, <1>5, <2>2, EndsKeeps
<1>6. CASE active # Local /\ Removes(j, active)
  <2>1. PICK x \in Owners : x = active
    BY <1>2, <1>6 DEF ListInv, Listed
  <2>2. accounts[x] # "none" /\ Removes(j, x)
    BY <1>2, <1>6, <2>1 DEF ListInv, Listed
  <2> QED
    BY <1>1, <1>3, <2>2, RemovesKeeps
<1>7. accounts[o] # "legacy"
  BY DEF Before, ListInv, NothingFormer
<1> QED
  BY <1>4, <1>5, <1>6, <1>7 DEF PanelLogoutEnds, memVars

-----------------------------------------------------------------------------
(* ClientAccounts and the credentials: emptying the list, and the end *)

(* What a step of a call j does to the accounts, one by one. *)
LEMMA EachKeeps ==
  ASSUME Before, NEW j \in Jobs, OthersStay(j), CallType(job'[j]), StateTypes',
         \A x \in Owners : Kept(x)'
  PROVE  CredTypes' /\ \A x \in Owners : Kept(x)'
  BY DEF Before, CredTypes, CallType, StateTypes, OthersStay

LEMMA ClearAllKeeps ==
  ASSUME Before, NEW j \in Jobs, ClearAll(j)
  PROVE  CredTypes' /\ \A x \in Owners : Kept(x)'
<1> DEFINE here == {o \in Owners : accounts[o] # "none"}
           c == Call("delete", 0, j)
<1>1. /\ ListInv /\ StateTypes /\ Idle(j)
  BY TypedCall DEF Before, ClearAll
<1>2. \A o \in Owners : Supabase(o) <=> o \in here
  BY <1>1 DEF Before, ListInv, NothingFormer, Providers, Supabase
<1>3. /\ platform' = platform /\ accounts' = accounts /\ saved' = saved
      /\ incomplete' = incomplete /\ overlooked' = overlooked
      /\ mem' = [o \in Owners |-> IF o \in here THEN NoEntry ELSE mem[o]]
      /\ access' = [o \in Owners |-> IF o \in here THEN "none" ELSE access[o]]
      /\ queue' = [o \in Owners |-> IF o \in here THEN Append(queue[o], c) ELSE queue[o]]
      /\ job' = [job EXCEPT ![j] = [NoJob EXCEPT !.op = "clear", !.pc = "deleting",
                                             !.left = here]]
  BY <1>2 DEF ClearAll, storeVars
<1>4. c \in NativeCalls /\ c.j = j /\ c.kind = "delete"
  BY CallIs
<1>5. here \subseteq Owners
  OBVIOUS
<1>6. \A o \in here : accounts[o] # "none"
  OBVIOUS
<1>7. \A o \in Owners \ here : accounts[o] = "none"
  OBVIOUS
<1> HIDE DEF here, c
<1>8. /\ OthersStay(j) /\ CallType(job'[j]) /\ job'[j].op = "clear" /\ job'[j].o = Local
      /\ job'[j].pc = "deleting" /\ job'[j].left = here
  <2>1. OthersStay(j) /\ job'[j] = [NoJob EXCEPT !.op = "clear", !.pc = "deleting",
                                             !.left = here]
    BY <1>1, <1>3 DEF ListInv, JobsOK, OthersStay
  <2>2. /\ job'[j].op = "clear" /\ job'[j].o = Local /\ job'[j].pc = "deleting"
        /\ job'[j].left = here /\ job'[j].id = 0 /\ job'[j].prev = NoEntry
    BY <2>1 DEF NoJob
  <2> QED
    BY <1>5, <2>1, <2>2, NoEntryIs DEF CallType
<1>9. \A o \in Owners : Append(queue[o], c) \in Seq(NativeCalls)
                        /\ Grown(queue[o], c, Append(queue[o], c))
  BY <1>1, <1>4, AppendGrows DEF StateTypes
<1>10. StateTypes'
  BY <1>1, <1>3, <1>9, NoEntryIs DEF StateTypes
<1>11. ASSUME NEW x \in here PROVE Kept(x)'
  <2>1. x \in Owners
    BY <1>5
  <2>2. /\ mem'[x] = NoEntry /\ access'[x] = "none" /\ Grown(queue[x], c, queue'[x])
    BY <1>3, <1>9, <2>1
  <2>3. Unasked(queue[x], j)
    BY <1>1, <2>1, IdleCall
  <2>4. Waits(job'[j], "delete", x) /\ ~Storing(job'[j], x) /\ ~Refreshing(job'[j], x)
    BY <1>8 DEF Waits, Clearing, Storing, Refreshing
  <2>5. Structure(queue[x], mem[x], job, x)
    BY <2>1 DEF Before, Kept
  <2>6. Others(job, job', j, x)
    BY <1>8, OthersAreAlike
  <2>7. AccessListed(x)'
    BY <2>2 DEF AccessListed
  <2> QED
    BY <1>4, <2>1, <2>2, <2>3, <2>4, <2>5, <2>6, <2>7, ForgettingKeeps
<1>12. ASSUME NEW x \in Owners \ here PROVE Kept(x)'
  <2>1. Same(x)
    BY <1>3 DEF Same
  <2>2. job[j].op = "none" /\ job[j].o = Local
    BY <1>1 DEF Idle, NoJob
  <2>3. NotAbout(job[j], job'[j], x)
    BY <1>3, <1>7, <1>8, <2>2, LocalAssumption DEF NotAbout, Clearing, Emptying
  <2> QED
    BY <1>3, <1>8, <2>1, <2>3, UntouchedKeeps DEF Before
<1> QED
  BY <1>8, <1>10, <1>11, <1>12, EachKeeps

LEMMA ClearedKeeps ==
  ASSUME Before, NEW j \in Jobs, NEW o \in Owners, Cleared(j, o)
  PROVE  CredTypes' /\ \A x \in Owners : Kept(x)'
<1>1. /\ ListInv /\ StateTypes /\ CallType(job[j]) /\ job[j].op = "clear"
      /\ job[j].pc = "deleting" /\ o \in job[j].left
      /\ Promise(o) /\ Asked(queue[o], job, o)
  BY TypedCall DEF Before, Kept, Structure, Cleared, At
<1>2. /\ platform' = platform /\ accounts' = accounts /\ mem' = mem /\ access' = access
      /\ overlooked' = overlooked /\ job' = [job EXCEPT ![j].left = @ \ {o}]
  BY DEF Cleared, storeVars, memVars
<1>3. PICK ok \in BOOLEAN : Answered(j, o, ok) /\ queue' = Rest(o)
  <2>1. \E i \in Places(queue[o]) : queue[o][i].j = j
    BY <1>1 DEF Asked, Clearing
  <2>2. DOMAIN queue[o] = Places(queue[o])
    BY <1>1 DEF StateTypes, Places
  <2> QED
    BY <2>1, <2>2 DEF Cleared
<1>4. /\ OthersStay(j) /\ job'[j].op = "clear" /\ job'[j].left = job[j].left \ {o}
      /\ job'[j].o = job[j].o /\ job'[j].pc = job[j].pc /\ job'[j].id = job[j].id
      /\ job'[j].prev = job[j].prev
  BY <1>1, <1>2 DEF ListInv, JobsOK, JobFields, OthersStay
<1>5. CallType(job'[j])
  BY <1>1, <1>4 DEF CallType
<1>6. /\ queue' \in [Owners -> Seq(NativeCalls)] /\ Waits(job[j], queue[o][1].kind, o)
      /\ \A x \in Owners \ {o} : queue'[x] = queue[x]
      /\ saved' \in [Owners -> Nat] /\ incomplete' \subseteq Owners
      /\ \A x \in Owners \ {o} : saved'[x] = saved[x]
                                 /\ (x \in incomplete' <=> x \in incomplete)
  BY <1>3, AnsweredIs
<1>7. StateTypes'
  BY <1>1, <1>2, <1>6 DEF StateTypes
<1>8. Kept(o)'
  <2>1. queue[o][1].kind = "delete"
    BY <1>1, <1>6 DEF Waits, Saves, Storing, Refreshing
  <2>2. Relaxes(job[j], job'[j], o) /\ ~Storing(job[j], o)
    BY <1>1, <1>4 DEF Relaxes, Storing, Saves, Clearing, Refreshing
  <2>3. Wanted(o) => Wanted(o)'
    BY <1>1, <1>2, <1>4, StillWanted
  <2>4. AccessListed(o)'
    BY <1>1, <1>2 DEF Promise, AccessListed
  <2> QED
    BY <1>2, <1>3, <1>4, <2>1, <2>2, <2>3, <2>4, AnswerKeeps
<1>9. ASSUME NEW x \in Owners \ {o} PROVE Kept(x)'
  <2>1. Same(x)
    BY <1>2, <1>6 DEF Same
  <2>2. job[j].o = Local
    BY <1>1 DEF CallType
  <2>3. NotAbout(job[j], job'[j], x)
    <3>1. job[j].o # x /\ job'[j].o # x
      BY <1>4, <2>2, LocalAssumption
    <3>2. Alike(job[j], job'[j], x)
      BY <1>1, <1>4 DEF Alike
    <3>3. Clearing(job'[j], x) => Clearing(job[j], x)
      BY <1>1, <1>4 DEF Clearing
    <3>4. Emptying(job'[j], x) => Emptying(job[j], x)
      BY <1>1, <1>4 DEF Emptying
    <3> QED
      BY <3>1, <3>2, <3>3, <3>4 DEF NotAbout
  <2> QED
    BY <1>2, <1>4, <2>1, <2>3, UntouchedKeeps DEF Before
<1> QED
  BY <1>4, <1>5, <1>7, <1>8, <1>9, EachKeeps

(* The list is emptied: of an account in use the clean-up was cut short,   *)
(* of another nothing is saved.                                            *)
LEMMA PromiseEmptied ==
  ASSUME NEW o \in Owners, Promise(o), platform' = platform,
         queue'[o] = queue[o], saved'[o] = saved[o], mem'[o] = mem[o],
         access'[o] = access[o], accounts'[o] = "none",
         \A i \in Places(queue[o]) : Alike(job[queue[o][i].j], job'[queue[o][i].j], o),
         NEW j \in Jobs, Emptying(job[j], o),
         \/ o \in incomplete' /\ o \in overlooked'
         \/ /\ o \in incomplete' <=> o \in incomplete
            /\ o \in overlooked' <=> o \in overlooked
            /\ mem[o] = NoEntry /\ queue[o] = <<>> /\ access[o] = "none"
            /\ ~SigningOut(o)
  PROVE  Promise(o)'
<1>1. \A i \in Places(queue[o]) :
         /\ job'[queue[o][i].j].id = job[queue[o][i].j].id
         /\ Storing(job'[queue[o][i].j], o) <=> Storing(job[queue[o][i].j], o)
  BY DEF Alike, Storing
<1>2. Wanted(o)'
  BY DEF Wanted
<1>3. SavesWanted(o)' /\ KeptWanted(o)'
  BY <1>2 DEF SavesWanted, KeptWanted
<1>4. CASE o \in incomplete' /\ o \in overlooked'
  <2>1. Leaving(o)' => Deletes(queue[o])
    BY <1>4 DEF Leaving, Sound
  <2>2. Forgotten(o)'
    BY <1>1, <1>4 DEF Promise, Forgotten
  <2>3. Rotation(o)'
    BY <1>4 DEF Promise, Rotation, OnDesktop
  <2>4. Led(o)' /\ Gone(o)'
    BY <1>1, <2>1 DEF Promise, Led, Gone, Leaving
  <2>5. Backed(o)'
    BY <1>1, <2>1 DEF Promise, Backed, Leaving
  <2>6. AccessListed(o)'
    BY <1>4 DEF AccessListed
  <2> QED
    BY <1>3, <2>2, <2>3, <2>4, <2>5, <2>6 DEF Promise
<1>5. CASE /\ o \in incomplete' <=> o \in incomplete
           /\ o \in overlooked' <=> o \in overlooked
           /\ mem[o] = NoEntry /\ queue[o] = <<>> /\ access[o] = "none"
           /\ ~SigningOut(o)
  <2>1. Places(queue[o]) = {}
    BY <1>5 DEF Places
  <2>2. Forgotten(o)' /\ Rotation(o)' /\ Backed(o)'
    BY <1>5 DEF Forgotten, Rotation, Backed, NoEntry
  <2>3. Led(o)' /\ ~Deletes(queue[o])
    BY <2>1 DEF Led, Deletes
  <2>4. Gone(o)'
    <3> SUFFICES ASSUME Sound(o), saved[o] # 0 PROVE FALSE
      BY <1>5, <2>3 DEF Gone, Leaving, Sound
    <3>1. accounts[o] = "kept"
      BY <2>3 DEF Promise, Gone, Leaving
    <3>2. Wanted(o)
      BY <2>3 DEF Promise, KeptWanted
    <3> QED
      BY <1>5, <3>1, <3>2 DEF Wanted
  <2>5. AccessListed(o)'
    BY <1>5 DEF AccessListed
  <2> QED
    BY <1>3, <2>2, <2>3, <2>4, <2>5 DEF Promise
<1> QED
  BY <1>4, <1>5

LEMMA ClearEndsKeeps ==
  ASSUME Before, NEW j \in Jobs, ClearEnds(j)
  PROVE  CredTypes' /\ \A x \in Owners : Kept(x)'
<1> DEFINE used == {o \in Owners : \/ mem[o] # NoEntry \/ queue[o] # <<>> \/ access[o] # "none"
                                  \/ \E i \in Jobs : job[i].o = o}
<1>1. /\ ListInv /\ StateTypes /\ CallType(job[j]) /\ job[j].op = "clear"
      /\ job[j].left = {}
  BY TypedCall DEF Before, ClearEnds, At
<1>2. /\ platform' = platform /\ mem' = mem /\ access' = access /\ queue' = queue
      /\ saved' = saved /\ End(j) /\ accounts' = [o \in Owners |-> "none"]
      /\ incomplete' = incomplete \cup used /\ overlooked' = overlooked \cup used
  BY DEF ClearEnds, Write, memVars
<1>3. OthersStay(j) /\ job'[j] = NoJob /\ CallType(job'[j])
  BY <1>1, <1>2, EndsCall DEF End
<1>4. StateTypes'
  BY <1>1, <1>2 DEF StateTypes
<1>5. ASSUME NEW x \in Owners PROVE Kept(x)'
  <2>1. Structure(queue[x], mem[x], job, x) /\ Asked(queue[x], job, x) /\ Promise(x)
    BY DEF Before, Kept, Structure
  <2>2. Unasked(queue[x], j)
    <3>1. job[j].o = Local
      BY <1>1 DEF CallType
    <3>2. \A kind : ~Waits(job[j], kind, x)
      BY <1>1 DEF Waits, Storing, Saves, Clearing, Refreshing
    <3> QED
      BY <2>1, <3>2, IsUnasked
  <2>3. Others(job, job', j, x)
    BY <1>3, OthersAreAlike
  <2>4. Relaxes(job[j], job'[j], x)
    BY <1>3 DEF Relaxes, Storing, Saves, Clearing, Refreshing, NoJob
  <2>5. PICK e : Embeds(e, queue[x], queue[x])
    BY SameEmbeds
  <2>6. Structure(queue[x], mem[x], job', x)
    BY <2>1, <2>2, <2>3, <2>4, <2>5, StructureShrinks
  <2>7. \A i \in Places(queue[x]) : Alike(job[queue[x][i].j], job'[queue[x][i].j], x)
    <3>1. \A i \in Places(queue[x]) : queue[x][i].j \in Jobs
      BY <2>1 DEF Asked
    <3> QED
      BY <1>3, <2>2, <3>1, WaitingAreAlike
  <2>8. Emptying(job[j], x)
    BY <1>1 DEF Emptying
  <2>9. Promise(x)'
    <3>1. accounts'[x] = "none"
      BY <1>2
    <3>2. CASE x \in used
      BY <1>2, <2>1, <2>7, <2>8, <3>1, <3>2, PromiseEmptied
    <3>3. CASE x \notin used
      <4>1. mem[x] = NoEntry /\ queue[x] = <<>> /\ access[x] = "none" /\ ~SigningOut(x)
        BY <3>3 DEF SigningOut
      <4>2. /\ x \in incomplete' <=> x \in incomplete
            /\ x \in overlooked' <=> x \in overlooked
        BY <1>2, <3>3
      <4> HIDE DEF used
      <4> QED
        BY <1>2, <2>1, <2>7, <2>8, <3>1, <4>1, <4>2, PromiseEmptied
    <3> QED
      BY <3>2, <3>3
  <2> QED
    BY <1>2, <2>6, <2>9 DEF Kept
<1> QED
  BY <1>3, <1>4, <1>5, EachKeeps

LEMMA NothingIs ==
  ASSUME NEW J, NEW o \in Owners, \A j \in Jobs : J[j] = NoJob
  PROVE  Structure(<<>>, NoEntry, J, o)
<1>1. Places(<<>>) = {}
  BY DEF Places
<1>2. \A j \in Jobs : ~Storing(J[j], o) /\ ~Refreshing(J[j], o) /\ ~Clearing(J[j], o)
                      /\ ~Saves(J[j], o)
  BY DEF Storing, Refreshing, Clearing, Saves, NoJob
<1>3. Asked(<<>>, J, o) /\ Behind(<<>>, J, o) /\ Ahead(<<>>, NoEntry, J, o)
  BY <1>1, <1>2 DEF Asked, Behind, Ahead
<1>4. Apart(NoEntry, J, o) /\ KeepsOnly(<<>>, NoEntry, J, o)
  BY <1>1, <1>2 DEF Apart, KeepsOnly
<1> QED
  BY <1>3, <1>4 DEF Structure

(* Nothing waits and nothing is in memory. *)
NothingLeft(o) == /\ queue[o] = <<>> /\ mem[o] = NoEntry /\ \A j \in Jobs : job[j] = NoJob
                  /\ AccessListed(o)
                  /\ Sound(o) /\ accounts[o] # "kept" => saved[o] = 0

LEMMA NothingPromised == \A o \in Owners : NothingLeft(o) => Promise(o)
<1> SUFFICES ASSUME NEW o \in Owners, NothingLeft(o) PROVE Promise(o)
  OBVIOUS
<1>1. Places(queue[o]) = {}
  BY DEF NothingLeft, Places
<1>2. ~Deletes(queue[o])
  BY <1>1 DEF Deletes
<1>3. Forgotten(o) /\ Rotation(o) /\ Backed(o)
  BY DEF NothingLeft, Forgotten, Rotation, Backed, NoEntry
<1>4. Led(o) /\ Gone(o) /\ SavesWanted(o)
  BY <1>1, <1>2 DEF NothingLeft, Led, Gone, Leaving, SavesWanted
<1>5. KeptWanted(o)
  BY DEF NothingLeft, KeptWanted, Emptying, NoJob
<1> QED
  BY <1>3, <1>4, <1>5 DEF NothingLeft, Promise

LEMMA NothingPromisedThen == (\A o \in Owners : NothingLeft(o) => Promise(o))'
  BY NothingPromised, PTL

LEMMA CredStarts == ASSUME Init PROVE CredInv
<1>1. /\ mem = [o \in Owners |-> NoEntry] /\ saved = [o \in Owners |-> 0]
      /\ queue = [o \in Owners |-> <<>>] /\ incomplete = {} /\ overlooked = {}
      /\ access = [o \in Owners |-> "none"] /\ job = [j \in Jobs |-> NoJob]
  BY DEF Init
<1>2. CallType(NoJob)
  BY NoEntryIs DEF CallType, NoJob
<1>3. CredTypes
  <2>1. \A j \in Jobs : CallType(job[j])
    BY <1>1, <1>2 DEF CallType
  <2> QED
    BY <1>1, <2>1, NoEntryIs DEF CredTypes
<1>4. ASSUME NEW o \in Owners PROVE Structure(queue[o], mem[o], job, o) /\ Promise(o)
  <2>1. Structure(queue[o], mem[o], job, o)
    BY <1>1, NothingIs
  <2>2. AccessListed(o)
    BY <1>1 DEF AccessListed
  <2> QED
    BY <1>1, <2>1, <2>2, NothingPromised DEF NothingLeft
<1> QED
  BY <1>3, <1>4 DEF CredInv

(* The program ends: what was under way of an account was cut short.       *)
LEMMA RestartKeeps ==
  ASSUME Before, NEW reload \in BOOLEAN, Restart(reload)
  PROVE  CredTypes' /\ \A x \in Owners : Kept(x)'
<1> DEFINE cut == {o \in Owners : queue[o] # <<>>
                    \/ \E j \in Jobs : job[j].o = o \/ o \in job[j].left}
           stays(o) == accounts[o] \in {"legacy", "kept"} \/ reload
<1>1. /\ mem' = [o \in Owners |-> NoEntry] /\ queue' = [o \in Owners |-> <<>>]
      /\ job' = [j \in Jobs |-> NoJob] /\ incomplete' = incomplete \cup cut
      /\ overlooked' = overlooked
      /\ access' = [o \in Owners |-> IF reload /\ OnDesktop THEN access[o] ELSE "none"]
      /\ accounts' = [o \in Owners |-> IF stays(o) THEN accounts[o] ELSE "none"]
  BY DEF Restart, Write
<1>2. PICK w \in Owners : saved' \in
         {saved} \cup IF queue[w] = <<>> THEN {}
                      ELSE {[saved EXCEPT ![w] = t] : t \in After(Head(queue[w]), saved[w], TRUE)}
  BY DEF Restart
<1>3. StateTypes
  BY TypedCall DEF Before, StateTypes, CredTypes
<1>4. CallType(NoJob)
  BY NoEntryIs DEF CallType, NoJob
<1>5. /\ saved' \in [Owners -> Nat]
      /\ \A x \in Owners : queue[x] = <<>> => saved'[x] = saved[x]
  <2>1. CASE saved' = saved
    BY <1>3, <2>1 DEF StateTypes
  <2>2. CASE saved' # saved
    <3>1. queue[w] # <<>>
      BY <1>2, <2>2
    <3>2. PICK t \in After(Head(queue[w]), saved[w], TRUE) : saved' = [saved EXCEPT ![w] = t]
      BY <1>2, <2>2, <3>1
    <3>3. Head(queue[w]) \in NativeCalls
      BY <1>3, <3>1, RestIs DEF StateTypes
    <3>4. t \in Nat
      BY <1>3, <3>2, <3>3 DEF After, NativeCalls, StateTypes
    <3> QED
      BY <1>3, <3>1, <3>2, <3>4 DEF StateTypes
  <2> QED
    BY <2>1, <2>2
<1>6. /\ \A x \in Owners : x \notin incomplete' => x \notin incomplete /\ queue[x] = <<>>
      /\ incomplete' \subseteq Owners
  BY <1>1, <1>3 DEF StateTypes
<1>7. /\ \A x \in Owners : accounts'[x] # "kept" => accounts[x] # "kept"
      /\ \A x \in Owners : access'[x] # "none" => access[x] # "none" /\ accounts'[x] = accounts[x]
      /\ access' \in [Owners -> {"none", "good", "old"}]
  BY <1>1, <1>3 DEF StateTypes
<1> HIDE DEF cut, stays
<1>8. CredTypes'
  <2>1. (\A j \in Jobs : CallType(job[j]))'
    BY <1>1, <1>4 DEF CallType
  <2>2. queue' \in [Owners -> Seq(NativeCalls)] /\ mem' \in [Owners -> Entries]
    BY <1>1, NoEntryIs
  <2> QED
    BY <1>1, <1>3, <1>5, <1>6, <1>7, <2>1, <2>2 DEF CredTypes, StateTypes
<1>9. ASSUME NEW x \in Owners PROVE Kept(x)'
  <2>1. queue'[x] = <<>> /\ mem'[x] = NoEntry /\ \A j \in Jobs : job'[j] = NoJob
    BY <1>1
  <2>2. Structure(queue'[x], mem'[x], job', x)
    BY <2>1, NothingIs
  <2>3. Promise(x)
    BY DEF Before, Kept
  <2>4. AccessListed(x)'
    BY <1>1, <1>7, <2>3 DEF Promise, AccessListed
  <2>5. Sound(x)' /\ accounts'[x] # "kept" => saved'[x] = 0
    <3> SUFFICES ASSUME Sound(x)', accounts'[x] # "kept" PROVE saved'[x] = 0
      OBVIOUS
    <3>1. queue[x] = <<>> /\ Sound(x) /\ accounts[x] # "kept"
      BY <1>1, <1>6, <1>7 DEF Sound
    <3>2. ~Deletes(queue[x])
      BY <3>1 DEF Deletes, Places
    <3> QED
      BY <1>5, <2>3, <3>1, <3>2 DEF Promise, Gone, Leaving
  <2>6. Promise(x)'
    <3>1. NothingLeft(x)'
      BY <2>1, <2>4, <2>5 DEF NothingLeft
    <3>2. (\A o \in Owners : NothingLeft(o) => Promise(o))'
      BY NothingPromisedThen
    <3> QED
      BY <3>1, <3>2
  <2> QED
    BY <2>2, <2>6 DEF Kept
<1> QED
  BY <1>8, <1>9

LEMMA RestKeepsOthers ==
  ASSUME Before, NEW j \in Jobs, NEW o \in Owners, NEW ok \in BOOLEAN, Answered(j, o, ok)
  PROVE  \A i \in Places(queue[o]) : queue[o][i].j # j =>
            \E k \in Places(Rest(o)[o]) : Rest(o)[o][k] = queue[o][i]
  BY AnsweredIs

LEMMA LoginStoredKeeps ==
  ASSUME Before, NEW j \in Jobs, LoginStored(j)
  PROVE  CredTypes' /\ \A x \in Owners : Kept(x)'
<1> PICK o \in Owners : o = job[j].o
  BY OfCall DEF LoginStored
<1>1. /\ At(j, "login", "storing") /\ platform' = platform /\ queue' = Rest(o) /\ End(j)
  BY DEF LoginStored
<1>2. PICK ok \in BOOLEAN :
         /\ Answered(j, o, ok)
         /\ \/ /\ mem[o].id = job[j].id /\ ok
               /\ Store(o, mem[o].keep, o) /\ mem' = mem
               /\ overlooked' = overlooked \ {o}
            \/ /\ mem[o].id = job[j].id /\ ~ok
               /\ mem' = [mem EXCEPT ![o] = job[j].prev]
               /\ accounts' = accounts /\ access' = access /\ overlooked' = overlooked
            \/ /\ mem[o].id # job[j].id
               /\ overlooked' = overlooked \cup LeftBehind(o, ok)
               /\ accounts' = accounts /\ access' = access /\ mem' = mem
  BY DEF LoginStored, storeVars, memVars
<1>3. /\ ListInv /\ StateTypes /\ CallType(job[j]) /\ Own(job[j], o) /\ Promise(o)
      /\ job[j].op = "login" /\ job[j].pc = "storing" /\ Storing(job[j], o)
      /\ Structure(queue[o], mem[o], job, o) /\ AccessListed(o)
  BY <1>1, OfCall DEF Promise
<1>4. /\ queue[o][1].kind \in {"save", "delete"} /\ queue[o][1].j = j
      /\ Popped(queue[o], Rest(o)[o]) /\ Head(queue[o]) = queue[o][1]
      /\ ok /\ queue[o][1].kind # "delete" => incomplete' = incomplete
  BY <1>2, <1>3, AnsweredIs, AnsweredKind
<1>5. OthersStay(j) /\ job'[j] = NoJob /\ CallType(job'[j])
  BY <1>1, <1>3, EndsCall DEF End
<1>6. Relaxes(job[j], job'[j], o) /\ Own(job'[j], o)
      /\ ~Storing(job'[j], o) /\ ~Refreshing(job'[j], o) /\ ~Clearing(job'[j], o)
  BY <1>5 DEF Relaxes, Storing, Saves, Clearing, Refreshing, NoJob, Own
<1>7. 1 \in Places(queue[o]) /\ overlooked \subseteq Owners
      /\ access \in [Owners -> {"none", "good", "old"}]
      /\ accounts \in [Owners -> Providers]
      /\ (Deletes(queue[o]) <=> Deletes(queue'[o]) \/ queue[o][1].kind = "delete")
  BY <1>1, <1>3, <1>4, PoppedPlaces, PoppedLate DEF StateTypes, ListInv
<1>8. CASE /\ mem[o].id = job[j].id /\ ok
           /\ Store(o, mem[o].keep, o) /\ mem' = mem
           /\ overlooked' = overlooked \ {o}
  <2>1. (queue[o][1].kind = "save" <=> mem[o].keep) /\ mem[o] # NoEntry
    <3>1. KeepsOnly(queue[o], mem[o], job, o) /\ Apart(mem[o], job, o)
      BY <1>3 DEF Structure
    <3>2. queue[o][1].kind = "save" <=> mem[o].keep
      BY <1>3, <1>4, <1>7, <1>8, <3>1 DEF KeepsOnly
    <3>3. mem[o] # NoEntry
      BY <1>3, <1>8, <3>1 DEF Apart, NoEntry
    <3> QED
      BY <3>2, <3>3
  <2>2. /\ accounts' = [accounts EXCEPT ![o] = IF mem[o].keep THEN "kept" ELSE "temporary"]
        /\ access' = [access EXCEPT ![o] = "good"]
    BY <1>8 DEF Store, Write
  <2>3. /\ access' \in [Owners -> {"none", "good", "old"}]
        /\ \A x \in Owners \ {o} : access'[x] = access[x] /\ accounts'[x] = accounts[x]
        /\ accounts'[o] = IF mem[o].keep THEN "kept" ELSE "temporary"
    BY <1>7, <2>2
  <2>4. AccessListed(o)' /\ Wanted(o)'
    BY <1>8, <2>1, <2>3 DEF AccessListed, Wanted
  <2>5. /\ overlooked' \subseteq Owners
        /\ \A x \in Owners \ {o} : x \in overlooked' <=> x \in overlooked
    BY <1>7, <1>8
  <2> QED
    BY <1>1, <1>2, <1>3, <1>4, <1>5, <1>6, <1>8, <2>1, <2>3, <2>4, <2>5, AnsweredCallKeeps
<1>9. CASE /\ mem[o].id = job[j].id /\ ~ok
           /\ mem' = [mem EXCEPT ![o] = job[j].prev]
           /\ accounts' = accounts /\ access' = access /\ overlooked' = overlooked
  <2>1. /\ queue' \in [Owners -> Seq(NativeCalls)]
        /\ \A x \in Owners \ {o} : queue'[x] = queue[x]
        /\ saved' \in [Owners -> Nat] /\ incomplete' \subseteq Owners /\ o \in incomplete'
        /\ \A x \in Owners \ {o} : saved'[x] = saved[x]
                                   /\ (x \in incomplete' <=> x \in incomplete)
        /\ Unasked(queue'[o], j)
        /\ \A i \in Places(queue[o]) : queue[o][i].j # j =>
               \E k \in Places(queue'[o]) : queue'[o][k] = queue[o][i]
    <3>1. /\ Rest(o) \in [Owners -> Seq(NativeCalls)]
          /\ \A x \in Owners \ {o} : Rest(o)[x] = queue[x]
          /\ saved' \in [Owners -> Nat] /\ incomplete' \subseteq Owners
          /\ \A x \in Owners \ {o} : saved'[x] = saved[x]
                                     /\ (x \in incomplete' <=> x \in incomplete)
          /\ Unasked(Rest(o)[o], j)
          /\ \A i \in Places(queue[o]) : queue[o][i].j # j =>
                 \E k \in Places(Rest(o)[o]) : Rest(o)[o][k] = queue[o][i]
      <4>1. Answered(j, o, ok)
        BY <1>2
      <4>2. /\ Rest(o) \in [Owners -> Seq(NativeCalls)]
            /\ \A x \in Owners \ {o} : Rest(o)[x] = queue[x]
            /\ saved' \in [Owners -> Nat] /\ incomplete' \subseteq Owners
        BY <4>1, AnsweredIs
      <4>3. \A x \in Owners \ {o} : saved'[x] = saved[x]
                                    /\ (x \in incomplete' <=> x \in incomplete)
        BY <4>1, AnsweredIs
      <4>4. Unasked(Rest(o)[o], j)
        BY <4>1, AnsweredIs
      <4>5. \A i \in Places(queue[o]) : queue[o][i].j # j =>
               \E k \in Places(Rest(o)[o]) : Rest(o)[o][k] = queue[o][i]
        BY <4>1, RestKeepsOthers
      <4> QED
        BY <4>2, <4>3, <4>4, <4>5
    <3>2. ~ok => o \in incomplete'
      BY <1>2, AnsweredIs
    <3> QED
      BY <1>1, <1>9, <3>1, <3>2
  <2>2. /\ mem' \in [Owners -> Entries] /\ mem'[o] = job[j].prev
        /\ \A x \in Owners \ {o} : mem'[x] = mem[x]
    BY <1>3, <1>9 DEF StateTypes, CallType
  <2>3. Around(j, o) /\ StateTypes'
    <3>1. \A x \in Owners \ {o} : Same(x)
      BY <1>1, <1>3, <1>5, <1>6, <1>9, <2>1, <2>2 DEF Same, StateTypes
    <3>2. StateTypes'
      BY <1>1, <1>3, <1>5, <1>6, <1>9, <2>1, <2>2 DEF StateTypes
    <3> QED
      BY <1>1, <1>3, <1>5, <1>6, <1>9, <3>1, <3>2 DEF Around
  <2>4. ~Deletes(queue'[o])
    <3>1. Ahead(queue[o], mem[o], job, o)
      BY <1>3 DEF Structure
    <3>2. \A k \in Places(queue'[o]) : /\ k + 1 \in Places(queue[o]) /\ 1 < k + 1
                                       /\ queue'[o][k] = queue[o][k + 1]
      BY <1>1, <1>4, PoppedPlaces
    <3>3. \A k \in Places(queue[o]) : 1 < k => queue[o][k].kind # "delete"
      BY <1>3, <1>4, <1>7, <1>9, <3>1 DEF Ahead
    <3> QED
      BY <3>2, <3>3 DEF Deletes
  <2>5. Others(job, job', j, o)
    BY <1>5, OthersAreAlike
  <2>6. Structure(queue'[o], mem'[o], job', o)
    <3>1. CASE job[j].prev.id = 0
      <4>1. mem'[o] = NoEntry
        BY <1>3, <2>2, <3>1 DEF Structure, Apart
      <4>2. PICK e : Embeds(e, queue'[o], queue[o])
        BY <1>1, <1>4, PoppedEmbeds
      <4> QED
        BY <1>3, <1>6, <2>1, <2>5, <4>1, <4>2, StructureShrinks
    <3>2. CASE job[j].prev.id # 0
      BY <1>1, <1>3, <1>4, <1>6, <2>2, <2>5, <3>2, StructureRestores
    <3> QED
      BY <3>1, <3>2
  <2>7. AccessListed(o)'
    BY <1>3, <1>9 DEF AccessListed
  <2>8. Promise(o)'
    BY <2>1, <2>4, <2>7, PromiseCut
  <2> QED
    BY <2>3, <2>6, <2>8, AroundKeeps DEF Kept
<1>10. CASE /\ mem[o].id # job[j].id
            /\ overlooked' = overlooked \cup LeftBehind(o, ok)
            /\ accounts' = accounts /\ access' = access /\ mem' = mem
  <2>1. /\ overlooked' \subseteq Owners /\ overlooked \subseteq overlooked'
        /\ \A x \in Owners \ {o} : x \in overlooked' <=> x \in overlooked
    BY <1>7, <1>10 DEF LeftBehind
  <2>2. AccessListed(o)'
    BY <1>3, <1>10, <2>1 DEF AccessListed
  <2>3. Wanted(o) => Wanted(o)'
    BY <1>3, <1>5, <1>10, StillWanted
  <2>4. ok /\ queue[o][1].kind = "save" /\ ~Deletes(queue'[o]) =>
            /\ Sound(o)' => Sound(o)
            /\ Sound(o)' => accounts'[o] = "kept"
    <3> SUFFICES ASSUME ok, queue[o][1].kind = "save", ~Deletes(queue'[o]), Sound(o)'
                 PROVE  Sound(o) /\ accounts'[o] = "kept"
      OBVIOUS
    <3>1. incomplete' = incomplete
      BY <1>4
    <3>2. ~Deletes(queue[o])
      BY <1>7
    <3>3. DOMAIN queue[o] = Places(queue[o])
      BY <1>3 DEF StateTypes, Places
    <3>4. accounts[o] = "kept"
      BY <1>4, <1>10, <3>2, <3>3 DEF LeftBehind, Sound, Deletes
    <3> QED
      BY <1>10, <2>1, <3>1, <3>4 DEF Sound
  <2> QED
    BY <1>1, <1>2, <1>3, <1>4, <1>5, <1>6, <1>7, <1>10, <2>1, <2>2, <2>3, <2>4,
       AnsweredCallKeeps
<1> QED
  BY <1>2, <1>8, <1>9, <1>10

LEMMA RefreshLoadedKeeps ==
  ASSUME Before, NEW j \in Jobs, RefreshLoaded(j)
  PROVE  CredTypes' /\ \A x \in Owners : Kept(x)'
<1> PICK o \in Owners : o = job[j].o
  BY OfCall DEF RefreshLoaded
<1>1. /\ At(j, "refresh", "load") /\ platform' = platform /\ accounts' = accounts
      /\ overlooked' = overlooked
  BY DEF RefreshLoaded, storeVars
<1>2. /\ ListInv /\ StateTypes /\ CallType(job[j]) /\ Own(job[j], o) /\ Promise(o)
      /\ job[j].op = "refresh" /\ job[j].pc = "load" /\ Refreshing(job[j], o)
      /\ Structure(queue[o], mem[o], job, o) /\ AccessListed(o)
  BY <1>1, OfCall DEF Promise
<1> DEFINE none == [mem EXCEPT ![o] = NoEntry]
<1>3. PICK ok \in BOOLEAN : Answered(j, o, ok) /\
         \/ /\ Current(j) /\ ok /\ saved[o] # 0 /\ Goto(j, "provider")
            /\ mem' = [mem EXCEPT ![o].token = saved[o]]
            /\ queue' = Rest(o) /\ access' = access
         \/ /\ Current(j) /\ (ok => saved[o] = 0)
            /\ \E r \in {"nothing", "retry"} : Fails(j, r, Rest(o), none, grant) /\ Drop(j, r)
         \/ /\ ~Current(j)
            /\ \E r \in {"nothing", "retry"} : Fails(j, r, Rest(o), mem, grant) /\ Drop(j, r)
  BY DEF RefreshLoaded
<1>4. \A m : \A r \in {"nothing", "retry"} : Fails(j, r, Rest(o), m, grant) =>
         mem' = m /\ queue' = Rest(o) /\ End(j)
  BY DEF Fails
<1>5. /\ queue[o][1].kind = "load" /\ queue[o][1].j = j /\ Popped(queue[o], Rest(o)[o])
      /\ Rest(o) \in [Owners -> Seq(NativeCalls)]
      /\ \A x \in Owners \ {o} : Rest(o)[x] = queue[x]
      /\ saved' \in [Owners -> Nat] /\ incomplete' \subseteq Owners
      /\ ~ok => o \in incomplete'
      /\ ok => saved'[o] = saved[o] /\ incomplete' = incomplete
      /\ \A x \in Owners \ {o} : saved'[x] = saved[x]
                                 /\ (x \in incomplete' <=> x \in incomplete)
      /\ Unasked(Rest(o)[o], j)
      /\ \A i \in Places(queue[o]) : queue[o][i].j # j =>
             \E k \in Places(Rest(o)[o]) : Rest(o)[o][k] = queue[o][i]
  <2>1. queue[o][1].kind = "load"
    BY <1>2, <1>3, AnsweredKind
  <2>2. Answered(j, o, ok)
    BY <1>3
  <2>3. /\ queue[o][1].j = j /\ Popped(queue[o], Rest(o)[o])
        /\ Rest(o) \in [Owners -> Seq(NativeCalls)]
        /\ \A x \in Owners \ {o} : Rest(o)[x] = queue[x]
        /\ saved' \in [Owners -> Nat] /\ incomplete' \subseteq Owners
    BY <2>2, AnsweredIs
  <2>4. /\ \A x \in Owners \ {o} : saved'[x] = saved[x]
                                   /\ (x \in incomplete' <=> x \in incomplete)
        /\ Unasked(Rest(o)[o], j)
    BY <2>2, AnsweredIs
  <2>5. \A i \in Places(queue[o]) : queue[o][i].j # j =>
           \E k \in Places(Rest(o)[o]) : Rest(o)[o][k] = queue[o][i]
    BY <2>2, RestKeepsOthers
  <2>6. ~ok => o \in incomplete'
    BY <2>2, AnsweredIs
  <2>7. ok => saved'[o] = saved[o]
    BY <2>1, <2>2, AnsweredStore
  <2>8. ok => incomplete' = incomplete
    BY <2>1, <2>2, AnsweredStore
  <2> QED
    BY <2>1, <2>3, <2>4, <2>5, <2>6, <2>7, <2>8
<1>6. queue' = Rest(o)
  BY <1>3, <1>4
<1>7. /\ OthersStay(j) /\ CallType(job'[j]) /\ Own(job'[j], o)
      /\ Relaxes(job[j], job'[j], o)
  <2>1. CASE Goto(j, "provider")
    <3>1. /\ OthersStay(j) /\ CallType(job'[j]) /\ job'[j].op = "refresh"
          /\ job'[j].o = o /\ job'[j].pc = "provider" /\ job'[j].id = job[j].id
      BY <1>2, <2>1, GoesOn
    <3> QED
      BY <1>2, <3>1 DEF Relaxes, Own, Refreshing, Saves, Storing, Clearing
  <2>2. CASE End(j)
    <3>1. OthersStay(j) /\ job'[j] = NoJob /\ CallType(job'[j])
      BY <1>2, <2>2, EndsCall DEF End
    <3> QED
      BY <3>1 DEF Relaxes, Storing, Saves, Clearing, Refreshing, NoJob, Own
  <2> QED
    BY <1>3, <1>4, <2>1, <2>2
<1>8. Drops
  <2>1. access' = access => Drops
    BY <1>2 DEF Drops, StateTypes
  <2> QED
    BY <1>2, <1>3, <2>1, DropIs
<1>9. /\ mem' \in [Owners -> Entries] /\ \A x \in Owners \ {o} : mem'[x] = mem[x]
      /\ \/ Current(j) /\ mem'[o] = NoEntry /\ (ok => saved[o] = 0)
         \/ ~Current(j) /\ mem'[o] = mem[o]
         \/ /\ Current(j) /\ ok /\ saved[o] # 0 /\ mem'[o].token = saved[o]
            /\ mem'[o].id = mem[o].id /\ mem'[o].keep = mem[o].keep
  <2>1. CASE Current(j) /\ (ok => saved[o] = 0) /\ mem' = none
    BY <1>2, <2>1, NoEntryIs DEF StateTypes
  <2>2. CASE ~Current(j) /\ mem' = mem
    BY <1>2, <2>2 DEF StateTypes
  <2>3. CASE /\ Current(j) /\ ok /\ saved[o] # 0
             /\ mem' = [mem EXCEPT ![o].token = saved[o]]
    <3>1. mem' = [mem EXCEPT ![o] = [mem[o] EXCEPT !.token = saved[o]]]
          /\ mem[o] \in Entries /\ saved[o] \in Nat
      BY <1>2, <2>3 DEF StateTypes
    <3>2. [mem[o] EXCEPT !.token = saved[o]] \in Entries
          /\ [mem[o] EXCEPT !.token = saved[o]].id = mem[o].id
          /\ [mem[o] EXCEPT !.token = saved[o]].keep = mem[o].keep
          /\ [mem[o] EXCEPT !.token = saved[o]].token = saved[o]
      BY <3>1 DEF Entries
    <3> QED
      BY <1>2, <2>3, <3>1, <3>2 DEF StateTypes
  <2> QED
    BY <1>3, <1>4, <2>1, <2>2, <2>3
<1> HIDE DEF none
<1>10. Around(j, o) /\ StateTypes'
  BY <1>1, <1>2, <1>5, <1>6, <1>7, <1>8, <1>9 DEF Around, Same, StateTypes, Drops
<1>11. Others(job, job', j, o)
  BY <1>7, OthersAreAlike
<1>12. Structure(queue'[o], mem'[o], job', o)
  <2>1. PICK e : Embeds(e, queue'[o], queue[o])
    BY <1>5, <1>6, PoppedEmbeds
  <2>2. mem'[o] = NoEntry \/ mem'[o] = mem[o]
        \/ (mem'[o].id = mem[o].id /\ mem'[o].keep = mem[o].keep /\ mem'[o].id # 0)
    <3>1. Apart(mem[o], job, o)
      BY <1>2 DEF Structure
    <3>2. Current(j) => mem[o].id # 0
      BY <1>2, <3>1 DEF Current, Apart
    <3> QED
      BY <1>9, <3>2
  <2> QED
    <3>1. PICK m1 : m1 = mem'[o]
      OBVIOUS
    <3>2. m1 = NoEntry \/ m1 = mem[o]
          \/ (m1.id = mem[o].id /\ m1.keep = mem[o].keep /\ m1.id # 0)
      BY <2>2, <3>1
    <3>3. Structure(queue[o], mem[o], job, o) /\ Unasked(queue'[o], j)
          /\ \A i \in Places(queue[o]) : queue[o][i].j # j =>
                 \E k \in Places(queue'[o]) : queue'[o][k] = queue[o][i]
      BY <1>2, <1>5, <1>6
    <3>4. Structure(queue'[o], m1, job', o)
      BY <1>7, <1>11, <2>1, <3>2, <3>3, StructureShrinks
    <3> QED
      BY <3>1, <3>4
<1>13. \A i \in Places(queue'[o]) : Alike(job[queue'[o][i].j], job'[queue'[o][i].j], o)
  <2>1. \A i \in Places(queue'[o]) : queue'[o][i].j \in Jobs
    BY <1>12 DEF Structure, Asked
  <2> QED
    BY <1>5, <1>6, <1>7, <2>1, WaitingAreAlike
<1>14. AccessListed(o)'
  BY <1>1, <1>2, <1>8 DEF AccessListed, Drops
<1>15. Current(j) => OnlyLoads(queue'[o]) /\ ~Deletes(queue'[o])
  <2> SUFFICES ASSUME Current(j) PROVE OnlyLoads(queue'[o]) /\ ~Deletes(queue'[o])
    OBVIOUS
  <2>1. \A k \in Places(queue'[o]) : /\ k + 1 \in Places(queue[o]) /\ 1 < k + 1
                                     /\ queue'[o][k] = queue[o][k + 1]
    BY <1>5, <1>6, PoppedPlaces
  <2>2. 1 \in Places(queue[o]) /\ Ahead(queue[o], mem[o], job, o)
    BY <1>2, <1>5, PoppedPlaces DEF Structure
  <2>3. \A k \in Places(queue[o]) : 1 < k => queue[o][k].kind = "load"
    <3>1. /\ queue[o][1].j = j /\ queue[o][1].kind = "load" /\ Refreshing(job[j], o)
          /\ job[j].id = mem[o].id
      BY <1>2, <1>5 DEF Current
    <3> QED
      BY <2>2, <3>1 DEF Ahead
  <2> QED
    BY <2>1, <2>3 DEF OnlyLoads, Deletes
<1>16. Clears(o) /\ (SigningOut(o) => SigningOut(o)')
  BY <1>2, <1>7 DEF Clears, Emptying, Own, OthersStay, SigningOut
<1>17. Promise(o)'
  <2>1. CASE Deletes(queue'[o])
    <3>1. mem'[o] = mem[o]
      BY <1>9, <1>15, <2>1
    <3>2. Wanted(o) => Wanted(o)'
      BY <1>1, <1>2, <1>7, <3>1, StillWanted
    <3> QED
      BY <1>1, <1>2, <1>5, <1>6, <1>13, <1>14, <2>1, <3>1, <3>2, PromiseBeforeDelete
  <2>2. CASE ~Deletes(queue'[o]) /\ ~ok
    BY <1>5, <1>14, <2>2, PromiseCut
  <2>3. CASE ~Deletes(queue'[o]) /\ ok
    <3>1. /\ o \in incomplete' <=> o \in incomplete
          /\ o \in overlooked' <=> o \in overlooked
          /\ saved'[o] = saved[o] /\ Popped(queue[o], queue'[o])
      BY <1>1, <1>5, <1>6, <2>3
    <3>2. \/ job[queue[o][1].j].id # mem[o].id /\ mem'[o] = mem[o]
          \/ mem'[o] = NoEntry /\ saved[o] = 0 /\ OnlyLoads(queue'[o])
          \/ /\ saved[o] # 0 /\ OnlyLoads(queue'[o])
             /\ mem[o] # NoEntry /\ mem'[o].id = mem[o].id /\ mem'[o].keep = mem[o].keep
             /\ mem'[o].token = saved[o]
      <4>1. Apart(mem[o], job, o)
        BY <1>2 DEF Structure
      <4>2. Current(j) => mem[o] # NoEntry
        BY <1>2, <4>1 DEF Current, Apart, NoEntry
      <4> QED
        BY <1>5, <1>9, <1>15, <2>3, <4>2 DEF Current
    <3> QED
      BY <1>1, <1>2, <1>5, <1>13, <1>14, <1>16, <2>3, <3>1, <3>2, PromiseLoaded
  <2> QED
    BY <2>1, <2>2, <2>3
<1> QED
  BY <1>10, <1>12, <1>17, AroundKeeps DEF Kept

(* Steps only a device with an account of the former sign-in takes.        *)
LEMMA NothingOfFormer ==
  ASSUME Before
  PROVE  /\ \A j \in Jobs, o \in Owners : ~FormerLogout(j, o) /\ ~FormerRefresh(j, o)
         /\ \A j \in Jobs : ~FormerRemoveEnds(j) /\ ~FormerLogoutEnds(j)
                            /\ ~FormerAnswered(j) /\ ~FormerSaved(j)
<1>1. \A o \in Owners : accounts[o] # "legacy"
  BY DEF Before, ListInv, NothingFormer
<1>2. \A j \in Jobs : job[j].op \notin {"logout", "former"} /\ ~At(j, "remove", "former")
  BY DEF Before, ListInv, NothingFormer
<1>3. \A j \in Jobs, o \in Owners : ~FormerLogout(j, o) /\ ~FormerRefresh(j, o)
  BY <1>1 DEF FormerLogout, FormerRefresh
<1>4. \A j \in Jobs : ~FormerRemoveEnds(j)
  BY <1>2 DEF FormerRemoveEnds
<1>5. \A j \in Jobs : ~FormerLogoutEnds(j)
  BY <1>2 DEF FormerLogoutEnds, At
<1>6. \A j \in Jobs : ~FormerAnswered(j) /\ ~FormerSaved(j)
  BY <1>2 DEF FormerAnswered, FormerSaved, At
<1> QED
  BY <1>3, <1>4, <1>5, <1>6

LEMMA BeginsKeeps ==
  ASSUME Before, Begins
  PROVE  CredTypes' /\ \A x \in Owners : Kept(x)'
<1> DEFINE Goal == CredTypes' /\ \A x \in Owners : Kept(x)'
<1>1. ASSUME NEW j \in Jobs, NEW o \in Owners, NEW keep \in BOOLEAN, LoginBegins(j, o, keep)
      PROVE  Goal
  BY <1>1, LoginBeginsKeeps
<1>2. ASSUME NEW j \in Jobs, NEW o \in Owners, NEW outer \in BOOLEAN, RefreshBegins(j, o, outer)
      PROVE  Goal
  BY <1>2, RefreshBeginsKeeps
<1>3. ASSUME NEW j \in Jobs, NEW o \in Owners, RemoveBegins(j, o) \/ ForgetDeleted(j, o)
      PROVE  Goal
  BY <1>3, RemovingKeeps
<1>4. ASSUME NEW j \in Jobs, NEW o \in Owners, SignOut(j, o) PROVE Goal
  BY <1>4, SignOutKeeps
<1>5. ASSUME NEW j \in Jobs, NEW o \in Owners, FormerLogout(j, o) \/ FormerRefresh(j, o)
      PROVE  Goal
  BY <1>5, NothingOfFormer
<1>6. ASSUME NEW j \in Jobs, ClearAll(j) PROVE Goal
  BY <1>6, ClearAllKeeps
<1>7. ASSUME NEW j \in Jobs, PanelLogout(j) PROVE Goal
  BY <1>7, PanelLogoutKeeps
<1>8. ASSUME NEW reload \in BOOLEAN, Restart(reload) PROVE Goal
  BY <1>8, RestartKeeps
<1> HIDE DEF Goal
<1>9. Goal
  BY <1>1, <1>2, <1>3, <1>4, <1>5, <1>6, <1>7, <1>8 DEF Begins
<1> QED
  BY <1>9 DEF Goal

LEMMA ContinuesKeeps ==
  ASSUME Before, Continues
  PROVE  CredTypes' /\ \A x \in Owners : Kept(x)'
<1> DEFINE Goal == CredTypes' /\ \A x \in Owners : Kept(x)'
<1>1. ASSUME NEW j \in Jobs, NEW o \in Owners, Cleared(j, o) PROVE Goal
  BY <1>1, ClearedKeeps
<1>2. ASSUME NEW j \in Jobs, LoginStored(j) PROVE Goal
  BY <1>2, LoginStoredKeeps
<1>3. ASSUME NEW j \in Jobs, RefreshJoins(j) PROVE Goal
  BY <1>3, JoinsKeeps
<1>4. ASSUME NEW j \in Jobs, RefreshLoaded(j) PROVE Goal
  BY <1>4, RefreshLoadedKeeps
<1>5. ASSUME NEW j \in Jobs, Rotated(j) PROVE Goal
  BY <1>5, RotatedKeeps
<1>6. ASSUME NEW j \in Jobs, NotRotated(j) PROVE Goal
  BY <1>6, NotRotatedKeeps
<1>7. ASSUME NEW j \in Jobs, RotationSaved(j) PROVE Goal
  BY <1>7, RotationSavedKeeps
<1>8. ASSUME NEW j \in Jobs, Granted(j) PROVE Goal
  BY <1>8, GrantedKeeps
<1>9. ASSUME NEW j \in Jobs, NotGranted(j) PROVE Goal
  BY <1>9, NotGrantedKeeps
<1>10. ASSUME NEW j \in Jobs, LastSaved(j) PROVE Goal
  BY <1>10, LastSavedKeeps
<1>11. ASSUME NEW j \in Jobs, RefusedRemoved(j) PROVE Goal
  BY <1>11, RefusedRemovedKeeps
<1>12. ASSUME NEW j \in Jobs, RejectedDeleted(j) PROVE Goal
  BY <1>12, RejectedDeletedKeeps
<1>13. ASSUME NEW j \in Jobs, RemoveEnds(j) PROVE Goal
  BY <1>13, RemoveEndsKeeps
<1>14. ASSUME NEW j \in Jobs, SignOutEnds(j) PROVE Goal
  BY <1>14, SignOutEndsKeeps
<1>15. ASSUME NEW j \in Jobs, ClearEnds(j) PROVE Goal
  BY <1>15, ClearEndsKeeps
<1>16. ASSUME NEW j \in Jobs, PanelLogoutEnds(j) PROVE Goal
  BY <1>16, PanelLogoutEndsKeeps
<1>17. ASSUME NEW j \in Jobs, \/ FormerRemoveEnds(j) \/ FormerLogoutEnds(j)
                              \/ FormerAnswered(j) \/ FormerSaved(j)
       PROVE  Goal
  BY <1>17, NothingOfFormer
<1>18. ASSUME \/ \E o \in Owners : RefreshHasNothing(o) \/ Expire(o)
              \/ \E o \in Owners \cup {Local} : Switch(o)
       PROVE  Goal
  BY <1>18, QuietKeeps
<1> HIDE DEF Goal
<1>19. Goal
  BY <1>1, <1>2, <1>3, <1>4, <1>5, <1>6, <1>7, <1>8, <1>9, <1>10, <1>11, <1>12,
     <1>13, <1>14, <1>15, <1>16, <1>17, <1>18 DEF Continues
<1> QED
  BY <1>19 DEF Goal

LEMMA CredKept ==
  ASSUME ListInv, CredInv, [Next]_vars
  PROVE  CredInv'
<1>1. UNCHANGED mixed
  BY StepIsPromised DEF Promised, vars
<1>2. SUFFICES ASSUME ~mixed PROVE CredTypes' /\ \A x \in Owners : Kept(x)'
  BY <1>1 DEF CredInv, Kept
<1>3. Before
  BY <1>2 DEF CredInv, Before, Kept
<1>4. CASE Next
  BY <1>3, <1>4, BeginsKeeps, ContinuesKeeps DEF Next
<1>5. CASE UNCHANGED vars
  <2>1. access \in [Owners -> {"none", "good", "old"}]
    BY <1>3 DEF Before, CredTypes
  <2>2. Drops /\ platform' = platform /\ mem' = mem /\ queue' = queue /\ saved' = saved
        /\ accounts' = accounts /\ job' = job /\ incomplete' = incomplete
        /\ overlooked' = overlooked
    BY <1>5, <2>1 DEF vars, Drops
  <2> QED
    BY <1>3, <2>2, StillKeeps
<1> QED
  BY <1>4, <1>5

(* Once nothing about the account waits, what leaves is gone, and the      *)
(* desktop's token is the one saved.                                       *)
LEMMA CredFollows ==
  ASSUME CredInv
  PROVE  CredentialsAreKept
<1>1. ASSUME ~mixed, NEW o \in Owners PROVE Promise(o)
  BY <1>1 DEF CredInv
<1>2. ASSUME NEW o \in Owners, queue[o] = <<>>
      PROVE  ~Deletes(queue[o]) /\ OnlyLoads(queue[o])
  BY <1>2 DEF Deletes, OnlyLoads, Places
<1>3. CredentialsLeft
  <2>1. ASSUME ~mixed, NEW o \in Owners, Quiet(o), o \notin incomplete \cup overlooked,
               saved[o] # 0
        PROVE  accounts[o] = "kept"
    BY <1>1, <1>2, <2>1 DEF Promise, Gone, Leaving, Sound, Quiet
  <2>2. ASSUME ~mixed, NEW o \in Owners, access[o] # "none"
        PROVE  o \in Listed \cup overlooked
    BY <1>1, <2>2 DEF Promise, AccessListed, Listed
  <2> QED
    BY <2>1, <2>2 DEF CredentialsLeft
<1>4. RotationSurvives
  <2>1. ASSUME NEW o \in Owners, OnDesktop, ~mixed, Quiet(o), accounts[o] = "kept",
               mem[o].token # 0, o \notin incomplete
        PROVE  saved[o] = mem[o].token
    <3>1. Rotation(o) /\ Forgotten(o) /\ ~Deletes(queue[o]) /\ OnlyLoads(queue[o])
      BY <1>1, <1>2, <2>1 DEF Promise, Quiet
    <3>2. mem[o] # NoEntry
      BY <2>1 DEF NoEntry
    <3>3. mem[o].keep
      BY <2>1, <3>1, <3>2 DEF Forgotten
    <3> QED
      BY <2>1, <3>1, <3>3 DEF Rotation
  <2> QED
    BY <2>1 DEF RotationSurvives
<1> QED
  BY <1>3, <1>4 DEF CredentialsAreKept

-----------------------------------------------------------------------------
(* Entitlements *)

Levels == {"none", "free", "premium"}
Licences == [plan : Levels, ends : Nat]
Calls == [pc : {"free", "saved", "session", "sent", "closed", "answer"},
          of : Accounts \cup {NoAccount}, version : Nat, answer : Licences]

PlansTypeOK ==
  /\ mobile \in BOOLEAN /\ now \in Nat
  /\ signedIn \subseteq Accounts /\ owner \in signedIn \cup {NoAccount}
  /\ plan \in [Accounts -> {"free", "premium"}]
  /\ gone \subseteq Accounts
  /\ cache \in [Accounts -> Levels] /\ until \in [Accounts -> Nat]
  /\ stored \in [Accounts -> Licences]
  /\ version \in [Accounts -> Nat] /\ writer \in [Accounts -> Nat]
  /\ requests \in [Requests -> Calls]
  /\ licensed \in [Accounts -> Nat]

(* The account a call is of, and what the call knows of it. *)
CallsAreOfAccounts ==
  \A i \in Requests : LET r == requests[i] IN
    /\ r.pc # "free" => r.of \in Accounts
    /\ r.pc = "closed" => r.of \in gone

(* No premium that is kept or on its way ends after the last one given. *)
PremiumKept ==
  mobile => \A o \in Accounts :
              /\ licensed[o] <= now + LicenceLife
              /\ cache[o] = "premium" => until[o] <= licensed[o]
              /\ stored[o].plan = "premium" => stored[o].ends <= licensed[o]
PremiumSent ==
  mobile => \A i \in Requests : LET r == requests[i] IN
              r.pc # "free" /\ r.answer.plan = "premium" => r.answer.ends <= licensed[r.of]

(* An account this device learnt is deleted does not sign in again. *)
DeletedIsOut == forgotten \subseteq gone /\ forgotten \cap signedIn = {}

PlansInv ==
  /\ PlansTypeOK /\ CallsAreOfAccounts /\ PremiumKept /\ PremiumSent
  /\ DeletedIsOut
  /\ Plans!DeletedIsForgotten
  /\ \A o \in Accounts : writer[o] <= version[o]

NewestStays == \A o \in Accounts : writer'[o] >= writer[o] \/ version'[o] = 0

LEMMA PlansStart == ASSUME Plans!Init PROVE PlansInv
  BY PlansAssumption
  DEF Plans!Init, PlansInv, PlansTypeOK, CallsAreOfAccounts, PremiumKept, PremiumSent, DeletedIsOut,
      Plans!DeletedIsForgotten, Plans!Free, Plans!Nothing, Levels, Licences, Calls

(* A call goes on as x, or ends. *)
LEMMA CallGoesOn ==
  ASSUME PlansInv, NEW i \in Requests, NEW x \in Calls,
         requests' = [requests EXCEPT ![i] = x], UNCHANGED mobile,
         \/ UNCHANGED licensed
         \/ /\ licensed' \in [Accounts -> Nat]
            /\ \A o \in Accounts : mobile => licensed'[o] >= licensed[o],
         gone \subseteq gone',
         x.pc # "free" => x.of \in Accounts,
         x.pc = "closed" => x.of \in gone',
         (mobile /\ x.pc # "free" /\ x.answer.plan = "premium") => x.answer.ends <= licensed'[x.of]
  PROVE  requests' \in [Requests -> Calls] /\ CallsAreOfAccounts' /\ PremiumSent'
<1>1. /\ requests \in [Requests -> Calls]
      /\ licensed' \in [Accounts -> Nat]
      /\ \A o \in Accounts : mobile => licensed'[o] >= licensed[o]
  BY DEF PlansInv, PlansTypeOK
<1>2. requests' \in [Requests -> Calls] /\ requests'[i] = x
      /\ \A k \in Requests \ {i} : requests'[k] = requests[k]
  BY <1>1
<1>3. CallsAreOfAccounts'
  BY <1>2 DEF PlansInv, CallsAreOfAccounts
<1>4. ASSUME mobile, NEW k \in Requests, requests[k].pc # "free",
             requests[k].answer.plan = "premium"
      PROVE  requests[k].answer.ends <= licensed'[requests[k].of]
  <2>1. requests[k].of \in Accounts /\ requests[k].answer.ends \in Nat
        /\ requests[k].answer.ends <= licensed[requests[k].of]
    BY <1>1, <1>4 DEF PlansInv, CallsAreOfAccounts, PremiumSent, Calls, Licences
  <2>2. licensed[requests[k].of] \in Nat /\ licensed'[requests[k].of] \in Nat
        /\ licensed'[requests[k].of] >= licensed[requests[k].of]
    BY <1>1, <1>4, <2>1 DEF PlansInv, PlansTypeOK
  <2>3. QED
    BY <2>1, <2>2
<1>5. PremiumSent'
  BY <1>2, <1>4 DEF PremiumSent
<1>6. QED
  BY <1>2, <1>3, <1>5

LEMMA FreeIsCall == Plans!Free \in Calls /\ Plans!Free.pc = "free"
  BY DEF Plans!Free, Plans!Nothing, Calls, Licences, Levels

(* Only the cache changes, and of one account, in use and so not deleted. *)
LEMMA WriteKeeps ==
  ASSUME PlansInv, NEW o \in Accounts, NEW licence \in Licences, NEW number \in Nat,
         o \notin forgotten, mobile /\ licence.plan = "premium" => licence.ends <= licensed[o],
         number = version[o],
         cache' = [cache EXCEPT ![o] = licence.plan],
         until' = [until EXCEPT ![o] = licence.ends],
         writer' = [writer EXCEPT ![o] = number],
         stored' \in {stored, [stored EXCEPT ![o] = licence]},
         UNCHANGED <<mobile, now, version, licensed, forgotten>>
  PROVE  /\ cache' \in [Accounts -> Levels] /\ until' \in [Accounts -> Nat]
         /\ writer' \in [Accounts -> Nat] /\ stored' \in [Accounts -> Licences]
         /\ PremiumKept' /\ Plans!DeletedIsForgotten' /\ NewestStays
         /\ \A x \in Accounts : writer'[x] <= version'[x]
<1> USE DEF PlansInv, PlansTypeOK
<1>1. /\ cache' \in [Accounts -> Levels] /\ until' \in [Accounts -> Nat]
      /\ writer' \in [Accounts -> Nat] /\ stored' \in [Accounts -> Licences]
  BY DEF Licences
<1>2. /\ cache'[o] = licence.plan /\ until'[o] = licence.ends /\ writer'[o] = version[o]
      /\ stored'[o] \in {stored[o], licence}
      /\ \A x \in Accounts \ {o} : cache'[x] = cache[x] /\ until'[x] = until[x]
                                   /\ writer'[x] = writer[x] /\ stored'[x] = stored[x]
  OBVIOUS
<1>3. PremiumKept'
  BY <1>2 DEF PremiumKept
<1>4. Plans!DeletedIsForgotten'
  BY <1>2 DEF Plans!DeletedIsForgotten, DeletedIsOut
<1>5. NewestStays /\ \A x \in Accounts : writer'[x] <= version'[x]
  BY <1>2 DEF NewestStays
<1>6. QED
  BY <1>1, <1>3, <1>4, <1>5

LEMMA CacheStays ==
  ASSUME PlansInv, UNCHANGED <<Plans!cacheVars, Plans!historyVars, mobile, now>>
  PROVE  /\ PremiumKept' /\ Plans!DeletedIsForgotten' /\ NewestStays
         /\ \A x \in Accounts : writer'[x] <= version'[x]
  BY DEF PlansInv, PlansTypeOK, PremiumKept, Plans!DeletedIsForgotten, NewestStays,
         Plans!cacheVars, Plans!historyVars

LEMMA AskAct ==
  ASSUME PlansInv, NEW i \in Requests, NEW o \in Accounts, Plans!Ask(i, o)
  PROVE  PlansInv' /\ NewestStays
<1> DEFINE r == [pc |-> "saved", of |-> o, version |-> version[o] + 1, answer |-> stored[o]]
<1>1. PlansTypeOK /\ stored[o] \in Licences /\ version[o] \in Nat
      /\ (mobile /\ stored[o].plan = "premium" => stored[o].ends <= licensed[o])
  BY DEF PlansInv, PlansTypeOK, PremiumKept
<1>2. /\ r \in Calls /\ r.pc = "saved" /\ r.of = o /\ r.answer = stored[o]
      /\ [r EXCEPT !.pc = "session"] \in Calls
      /\ [r EXCEPT !.pc = "session"].pc = "session" /\ [r EXCEPT !.pc = "session"].of = o
      /\ [r EXCEPT !.pc = "session"].answer = stored[o]
  BY <1>1 DEF Calls
<1>3. /\ UNCHANGED <<mobile, now, owner, signedIn, plan, gone, cache, until, stored, writer,
                     forgotten, licensed>>
      /\ version' = [version EXCEPT ![o] = @ + 1]
  BY DEF Plans!Ask, Plans!worldVars, Plans!historyVars
<1>4. PICK x \in {r, [r EXCEPT !.pc = "session"], Plans!Free} :
        requests' = [requests EXCEPT ![i] = x]
  BY DEF Plans!Ask
<1> HIDE DEF r
<1>5. /\ x \in Calls /\ x.pc # "closed" /\ (x.pc # "free" => x.of = o /\ x.answer = stored[o])
  BY <1>2, FreeIsCall
<1>6. requests' \in [Requests -> Calls] /\ CallsAreOfAccounts' /\ PremiumSent'
  BY <1>1, <1>3, <1>4, <1>5, CallGoesOn
<1>7. version' \in [Accounts -> Nat] /\ \A y \in Accounts : version'[y] >= version[y]
  BY <1>1, <1>3 DEF PlansTypeOK
<1>8. NewestStays /\ \A y \in Accounts : writer'[y] <= version'[y]
  BY <1>1, <1>3, <1>7 DEF PlansInv, PlansTypeOK, NewestStays
<1>9. QED
  BY <1>1, <1>3, <1>6, <1>7, <1>8
  DEF PlansInv, PlansTypeOK, PremiumKept, DeletedIsOut, Plans!DeletedIsForgotten

LEMMA SavedVerifiedAct ==
  ASSUME PlansInv, NEW i \in Requests, Plans!SavedVerified(i)
  PROVE  PlansInv' /\ NewestStays
<1> DEFINE r == requests[i]
<1>1. r \in Calls /\ r.pc = "saved" /\ r.of \in Accounts /\ PlansTypeOK
  BY DEF PlansInv, PlansTypeOK, CallsAreOfAccounts, Plans!SavedVerified
<1>2. UNCHANGED <<mobile, now, owner, signedIn, plan, gone, forgotten, licensed, stored, version>>
  BY DEF Plans!SavedVerified, Plans!worldVars, Plans!historyVars, Plans!cacheVars
<1>3. requests' \in [Requests -> Calls] /\ CallsAreOfAccounts' /\ PremiumSent'
  <2>1. requests' = [requests EXCEPT ![i] = Plans!GoesOn(r)]
    BY DEF Plans!SavedVerified
  <2>2. Plans!GoesOn(r) \in {[r EXCEPT !.pc = "session"], Plans!Free}
    BY DEF Plans!GoesOn
  <2>3. /\ [r EXCEPT !.pc = "session"] \in Calls
        /\ [r EXCEPT !.pc = "session"].of = r.of
        /\ [r EXCEPT !.pc = "session"].pc = "session"
        /\ [r EXCEPT !.pc = "session"].answer = r.answer
    BY <1>1 DEF Calls
  <2>4. mobile /\ r.answer.plan = "premium" => r.answer.ends <= licensed[r.of]
    BY <1>1 DEF PlansInv, PremiumSent
  <2>5. \A o \in Accounts : licensed'[o] >= licensed[o]
    BY <1>1, <1>2 DEF PlansTypeOK
  <2> HIDE DEF r
  <2>6. CASE Plans!GoesOn(r) = Plans!Free
    BY <1>1, <1>2, <2>1, <2>5, <2>6, FreeIsCall, CallGoesOn DEF PlansTypeOK
  <2>7. CASE Plans!GoesOn(r) = [r EXCEPT !.pc = "session"]
    BY <1>1, <1>2, <2>1, <2>3, <2>4, <2>5, <2>7, CallGoesOn DEF PlansTypeOK
  <2>8. QED
    BY <2>2, <2>6, <2>7
<1>4. /\ cache' \in [Accounts -> Levels] /\ until' \in [Accounts -> Nat]
      /\ writer' \in [Accounts -> Nat]
      /\ PremiumKept' /\ Plans!DeletedIsForgotten' /\ NewestStays
      /\ \A x \in Accounts : writer'[x] <= version'[x]
  <2>1. CASE UNCHANGED Plans!cacheVars
    BY <1>1, <1>2, <2>1, CacheStays DEF PlansTypeOK, Plans!cacheVars, Plans!historyVars
  <2>2. CASE Plans!Current(r) /\ Plans!Writes(r, r.answer)
    <3>1. r.of \notin forgotten
      BY <1>1, <2>2, PlansAssumption
      DEF Plans!Current, PlansInv, PlansTypeOK, DeletedIsOut
    <3>2. r.answer \in Licences /\ r.version \in Nat /\ r.version = version[r.of]
      BY <1>1, <2>2 DEF Calls, Plans!Current
    <3>3. mobile /\ r.answer.plan = "premium" => r.answer.ends <= licensed[r.of]
      BY <1>1 DEF PlansInv, PremiumSent
    <3> HIDE DEF r
    <3>4. QED
      BY <1>1, <1>2, <2>2, <3>1, <3>2, <3>3, WriteKeeps DEF Plans!Writes
  <2>3. CASE Plans!Clears(r.of) /\ UNCHANGED writer
    <3>1. /\ cache'[r.of] = "none" /\ until'[r.of] = 0
          /\ \A x \in Accounts \ {r.of} : cache'[x] = cache[x] /\ until'[x] = until[x]
          /\ cache' \in [Accounts -> Levels] /\ until' \in [Accounts -> Nat]
      BY <1>1, <2>3 DEF PlansTypeOK, Plans!Clears, Levels
    <3>2. \A x \in Accounts : writer'[x] <= version'[x] /\ writer'[x] >= writer[x]
      BY <1>1, <1>2, <2>3 DEF PlansInv, PlansTypeOK
    <3>3. Plans!DeletedIsForgotten'
      BY <1>1, <1>2, <3>1
      DEF PlansInv, PlansTypeOK, Plans!DeletedIsForgotten, DeletedIsOut
    <3>4. PremiumKept'
      BY <1>2, <3>1 DEF PlansInv, PremiumKept
    <3>5. writer' \in [Accounts -> Nat]
      BY <1>1, <2>3 DEF PlansTypeOK
    <3>6. QED
      BY <3>1, <3>2, <3>3, <3>4, <3>5 DEF NewestStays
  <2>4. QED
    BY <2>1, <2>2, <2>3 DEF Plans!SavedVerified
<1>5. QED
  BY <1>1, <1>2, <1>3, <1>4 DEF PlansInv, PlansTypeOK, DeletedIsOut

(* An action that only moves a call. *)
LEMMA OnlyCallMoves ==
  ASSUME PlansInv, UNCHANGED <<mobile, now, Plans!worldVars, Plans!cacheVars, forgotten>>,
         requests' \in [Requests -> Calls], CallsAreOfAccounts', PremiumSent',
         licensed' \in [Accounts -> Nat],
         \A o \in Accounts : mobile => /\ licensed'[o] >= licensed[o]
                                       /\ licensed'[o] <= now + LicenceLife
  PROVE  PlansInv' /\ NewestStays
<1>1. PlansTypeOK'
  BY DEF PlansInv, PlansTypeOK, Plans!worldVars, Plans!cacheVars
<1>2. PremiumKept'
  <2>1. ASSUME mobile, NEW o \in Accounts
        PROVE  /\ licensed[o] \in Nat /\ licensed'[o] \in Nat /\ until[o] \in Nat
               /\ stored[o].ends \in Nat
               /\ licensed'[o] >= licensed[o]
               /\ licensed'[o] <= now + LicenceLife
               /\ cache[o] = "premium" => until[o] <= licensed[o]
               /\ stored[o].plan = "premium" => stored[o].ends <= licensed[o]
    BY <2>1 DEF PlansInv, PlansTypeOK, PremiumKept, Licences
  <2>2. UNCHANGED <<mobile, now, cache, until, stored>>
    BY DEF Plans!cacheVars
  <2>3. QED
    BY <2>1, <2>2 DEF PremiumKept
<1>3. QED
  BY <1>1, <1>2 DEF PlansInv, PlansTypeOK, DeletedIsOut, Plans!DeletedIsForgotten,
     NewestStays, Plans!worldVars, Plans!cacheVars

LEMMA CallsMove ==
  ASSUME PlansInv, NEW i \in Requests,
         Plans!SessionCame(i) \/ Plans!CloudAnswers(i) \/ Plans!AnswerLost(i)
  PROVE  PlansInv' /\ NewestStays
<1> DEFINE r == requests[i]
<1>1. r \in Calls /\ r.pc # "free" /\ r.of \in Accounts /\ PlansTypeOK
  BY DEF PlansInv, PlansTypeOK, CallsAreOfAccounts, Plans!SessionCame, Plans!CloudAnswers,
         Plans!AnswerLost
<1>2. UNCHANGED <<mobile, now, Plans!worldVars, Plans!cacheVars, forgotten>>
  BY DEF Plans!SessionCame, Plans!CloudAnswers, Plans!AnswerLost, Plans!historyVars
<1>3. \A o \in Accounts : mobile => licensed[o] <= now + LicenceLife
  BY DEF PlansInv, PremiumKept
<1>4. UNCHANGED gone
  BY <1>2 DEF Plans!worldVars
<1>5. CASE requests' = [requests EXCEPT ![i] = Plans!Free] /\ UNCHANGED licensed
  <2>1. requests' \in [Requests -> Calls] /\ CallsAreOfAccounts' /\ PremiumSent'
    BY <1>1, <1>2, <1>4, <1>5, FreeIsCall, CallGoesOn DEF PlansTypeOK
  <2>2. QED
    BY <1>1, <1>2, <1>3, <1>5, <2>1, OnlyCallMoves DEF PlansTypeOK
<1>6. ASSUME NEW pc \in {"sent", "closed"}, UNCHANGED licensed, pc = "closed" => r.of \in gone,
             requests' = [requests EXCEPT ![i].pc = pc]
      PROVE  PlansInv' /\ NewestStays
  <2> DEFINE x == [r EXCEPT !.pc = pc]
  <2>1. x \in Calls /\ x.pc = pc /\ x.of = r.of /\ x.answer = r.answer
    BY <1>1 DEF Calls
  <2>2. requests' = [requests EXCEPT ![i] = x]
    BY <1>1, <1>6 DEF PlansTypeOK
  <2>3. mobile /\ r.answer.plan = "premium" => r.answer.ends <= licensed[r.of]
    BY <1>1 DEF PlansInv, PremiumSent
  <2> HIDE DEF x, r
  <2>4. requests' \in [Requests -> Calls] /\ CallsAreOfAccounts' /\ PremiumSent'
    <3>1. /\ x.pc # "free" => x.of \in Accounts
          /\ x.pc = "closed" => x.of \in gone'
          /\ (mobile /\ x.pc # "free" /\ x.answer.plan = "premium") => x.answer.ends <= licensed'[x.of]
      BY <1>1, <1>4, <1>6, <2>1, <2>3
    <3>2. QED
      BY <1>2, <1>4, <1>6, <2>1, <2>2, <3>1, CallGoesOn
  <2>5. QED
    BY <1>1, <1>2, <1>3, <1>6, <2>4, OnlyCallMoves DEF PlansTypeOK
<1>7. CASE /\ Plans!CloudAnswers(i) /\ r.of \notin gone
  <2> DEFINE ends == IF mobile THEN now + LicenceLife ELSE 0
             answer == [plan |-> plan[r.of], ends |-> ends]
             x == [r EXCEPT !.pc = "answer", !.answer = answer]
  <2>1. ends \in Nat /\ plan[r.of] \in {"free", "premium"} /\ now \in Nat
    BY <1>1, PlansAssumption DEF PlansTypeOK
  <2>2. requests' = [requests EXCEPT ![i] = x]
    BY <1>1, <1>7 DEF Plans!CloudAnswers, PlansTypeOK
  <2>3. licensed' = IF plan[r.of] = "premium" THEN [licensed EXCEPT ![r.of] = ends] ELSE licensed
    BY <1>7 DEF Plans!CloudAnswers
  <2> HIDE DEF ends
  <2>4. answer \in Licences /\ answer.plan = plan[r.of] /\ answer.ends = ends
    BY <2>1 DEF Licences, Levels
  <2> HIDE DEF answer
  <2>5. x \in Calls /\ x.pc = "answer" /\ x.of = r.of /\ x.answer = answer
    BY <1>1, <2>4 DEF Calls
  <2>6. mobile => ends = now + LicenceLife
    BY DEF ends
  <2> HIDE DEF x, r
  <2>7. licensed' \in [Accounts -> Nat]
        /\ (plan[r.of] = "premium" => licensed'[r.of] = ends)
        /\ \A o \in Accounts : licensed'[o] \in {licensed[o], ends}
    BY <1>1, <2>1, <2>3 DEF PlansTypeOK
  <2>8. \A o \in Accounts : mobile => /\ licensed'[o] >= licensed[o]
                                      /\ licensed'[o] <= now + LicenceLife
    BY <1>1, <1>3, <2>1, <2>6, <2>7, PlansAssumption DEF PlansTypeOK
  <2>9. requests' \in [Requests -> Calls] /\ CallsAreOfAccounts' /\ PremiumSent'
    <3>1. mobile /\ x.answer.plan = "premium" => x.answer.ends <= licensed'[x.of]
      BY <2>1, <2>4, <2>5, <2>7
    <3>2. QED
      BY <1>1, <1>2, <1>4, <2>2, <2>5, <2>7, <2>8, <3>1, CallGoesOn
  <2>10. QED
    BY <1>2, <2>7, <2>8, <2>9, OnlyCallMoves
<1>8. QED
  <2>1. CASE Plans!SessionCame(i)
    BY <1>5, <1>6, <2>1 DEF Plans!SessionCame, Plans!historyVars
  <2>2. CASE Plans!CloudAnswers(i)
    BY <1>6, <1>7, <2>2 DEF Plans!CloudAnswers
  <2>3. CASE Plans!AnswerLost(i)
    BY <1>5, <2>3 DEF Plans!AnswerLost, Plans!historyVars
  <2>4. QED
    BY <2>1, <2>2, <2>3

LEMMA AnswerCameAct ==
  ASSUME PlansInv, NEW i \in Requests, Plans!AnswerCame(i)
  PROVE  PlansInv' /\ NewestStays
<1> DEFINE r == requests[i]
<1>1. r \in Calls /\ r.pc = "answer" /\ r.of \in Accounts /\ PlansTypeOK
  BY DEF PlansInv, PlansTypeOK, CallsAreOfAccounts, Plans!AnswerCame
<1>2. UNCHANGED <<mobile, now, owner, signedIn, plan, gone, forgotten, licensed, version>>
      /\ requests' = [requests EXCEPT ![i] = Plans!Free]
  BY DEF Plans!AnswerCame, Plans!worldVars, Plans!historyVars, Plans!cacheVars
<1>3. requests' \in [Requests -> Calls] /\ CallsAreOfAccounts' /\ PremiumSent'
  BY <1>1, <1>2, FreeIsCall, CallGoesOn DEF PlansTypeOK
<1>4. /\ cache' \in [Accounts -> Levels] /\ until' \in [Accounts -> Nat]
      /\ writer' \in [Accounts -> Nat] /\ stored' \in [Accounts -> Licences]
      /\ PremiumKept' /\ Plans!DeletedIsForgotten' /\ NewestStays
      /\ \A x \in Accounts : writer'[x] <= version'[x]
  <2>1. CASE UNCHANGED Plans!cacheVars
    BY <1>1, <1>2, <2>1, CacheStays DEF PlansTypeOK, Plans!cacheVars, Plans!historyVars
  <2>2. CASE /\ Plans!Current(r) /\ r.of \in signedIn /\ Plans!Writes(r, r.answer)
             /\ stored' = [stored EXCEPT ![r.of] = r.answer]
    <3>1. r.of \notin forgotten
      BY <2>2 DEF PlansInv, DeletedIsOut
    <3>2. r.answer \in Licences /\ r.version \in Nat /\ r.version = version[r.of]
      BY <1>1, <2>2 DEF Calls, Plans!Current
    <3>3. mobile /\ r.answer.plan = "premium" => r.answer.ends <= licensed[r.of]
      BY <1>1 DEF PlansInv, PremiumSent
    <3> HIDE DEF r
    <3>4. QED
      BY <1>1, <1>2, <2>2, <3>1, <3>2, <3>3, WriteKeeps DEF Plans!Writes
  <2>3. QED
    BY <2>1, <2>2 DEF Plans!AnswerCame
<1>5. QED
  BY <1>1, <1>2, <1>3, <1>4 DEF PlansInv, PlansTypeOK, DeletedIsOut

LEMMA PlansAct ==
  ASSUME PlansInv, Plans!Next
  PROVE  PlansInv' /\ NewestStays
<1>1. ASSUME NEW i \in Requests, NEW o \in Accounts, Plans!Ask(i, o)
      PROVE  PlansInv' /\ NewestStays
  BY <1>1, AskAct
<1>2. ASSUME NEW i \in Requests,
             \/ Plans!SavedVerified(i) \/ Plans!SessionCame(i) \/ Plans!CloudAnswers(i)
             \/ Plans!AnswerLost(i) \/ Plans!AnswerCame(i)
      PROVE  PlansInv' /\ NewestStays
  BY <1>2, SavedVerifiedAct, CallsMove, AnswerCameAct
<1>3. ASSUME NEW i \in Requests, Plans!ClosedCame(i)
      PROVE  PlansInv' /\ NewestStays
  <2>1. CASE Plans!Leaves(requests[i].of)
    BY <1>3, <2>1, PlansAssumption
    DEF Plans!ClosedCame, Plans!Leaves, Plans!Forget, Plans!Clears,
        Plans!Free, Plans!Nothing, Levels, Licences, Calls,
        PlansInv, PlansTypeOK, CallsAreOfAccounts, PremiumKept, PremiumSent,
        DeletedIsOut, Plans!DeletedIsForgotten, NewestStays,
        Plans!worldVars, Plans!cacheVars, Plans!historyVars
  <2>2. CASE UNCHANGED <<owner, signedIn, forgotten, Plans!cacheVars>>
    BY <1>3, <2>2, PlansAssumption
    DEF Plans!ClosedCame,
        Plans!Free, Plans!Nothing, Levels, Licences, Calls,
        PlansInv, PlansTypeOK, CallsAreOfAccounts, PremiumKept, PremiumSent,
        DeletedIsOut, Plans!DeletedIsForgotten, NewestStays,
        Plans!worldVars, Plans!cacheVars, Plans!historyVars
  <2>3. QED
    BY <1>3, <2>1, <2>2 DEF Plans!ClosedCame
<1>4. ASSUME NEW o \in Accounts, Plans!SignIn(o)
      PROVE  PlansInv' /\ NewestStays
  BY <1>4, PlansAssumption
    DEF Plans!SignIn, Plans!Change,
        Plans!Free, Plans!Nothing, Levels, Licences, Calls,
        PlansInv, PlansTypeOK, CallsAreOfAccounts, PremiumKept, PremiumSent,
        DeletedIsOut, Plans!DeletedIsForgotten, NewestStays,
        Plans!worldVars, Plans!cacheVars, Plans!historyVars
<1>5. ASSUME NEW o \in Accounts, Plans!SignOut(o)
      PROVE  PlansInv' /\ NewestStays
  BY <1>5, PlansAssumption
    DEF Plans!SignOut, Plans!Change,
        Plans!Free, Plans!Nothing, Levels, Licences, Calls,
        PlansInv, PlansTypeOK, CallsAreOfAccounts, PremiumKept, PremiumSent,
        DeletedIsOut, Plans!DeletedIsForgotten, NewestStays,
        Plans!worldVars, Plans!cacheVars, Plans!historyVars
<1>6. ASSUME NEW o \in Accounts, Plans!Pays(o)
      PROVE  PlansInv' /\ NewestStays
  BY <1>6, PlansAssumption
    DEF Plans!Pays, Plans!Change,
        Plans!Free, Plans!Nothing, Levels, Licences, Calls,
        PlansInv, PlansTypeOK, CallsAreOfAccounts, PremiumKept, PremiumSent,
        DeletedIsOut, Plans!DeletedIsForgotten, NewestStays,
        Plans!worldVars, Plans!cacheVars, Plans!historyVars
<1>7. ASSUME NEW o \in Accounts, Plans!DeletedElsewhere(o)
      PROVE  PlansInv' /\ NewestStays
  BY <1>7, PlansAssumption
    DEF Plans!DeletedElsewhere, Plans!Change,
        Plans!Free, Plans!Nothing, Levels, Licences, Calls,
        PlansInv, PlansTypeOK, CallsAreOfAccounts, PremiumKept, PremiumSent,
        DeletedIsOut, Plans!DeletedIsForgotten, NewestStays,
        Plans!worldVars, Plans!cacheVars, Plans!historyVars
<1>8. ASSUME NEW o \in Accounts, Plans!DeletedHere(o)
      PROVE  PlansInv' /\ NewestStays
  BY <1>8, PlansAssumption
    DEF Plans!DeletedHere, Plans!Change, Plans!Leaves, Plans!Forget, Plans!Clears,
        Plans!Free, Plans!Nothing, Levels, Licences, Calls,
        PlansInv, PlansTypeOK, CallsAreOfAccounts, PremiumKept, PremiumSent,
        DeletedIsOut, Plans!DeletedIsForgotten, NewestStays,
        Plans!worldVars, Plans!cacheVars, Plans!historyVars
<1>9. CASE Plans!Tick
  BY <1>9, PlansAssumption
    DEF Plans!Tick,
        Plans!Free, Plans!Nothing, Levels, Licences, Calls,
        PlansInv, PlansTypeOK, CallsAreOfAccounts, PremiumKept, PremiumSent,
        DeletedIsOut, Plans!DeletedIsForgotten, NewestStays,
        Plans!worldVars, Plans!cacheVars, Plans!historyVars
<1>10. CASE Plans!Restart
  BY <1>10, PlansAssumption
    DEF Plans!Restart, Plans!Change,
        Plans!Free, Plans!Nothing, Levels, Licences, Calls,
        PlansInv, PlansTypeOK, CallsAreOfAccounts, PremiumKept, PremiumSent,
        DeletedIsOut, Plans!DeletedIsForgotten, NewestStays,
        Plans!worldVars, Plans!cacheVars, Plans!historyVars
<1> QED
  BY <1>1, <1>2, <1>3, <1>4, <1>5, <1>6, <1>7, <1>8, <1>9, <1>10 DEF Plans!Next

LEMMA PlansStutter ==
  ASSUME PlansInv, UNCHANGED plansState
  PROVE  PlansInv' /\ UNCHANGED Plans!vars
<1>1. UNCHANGED Plans!vars
  BY DEF plansState, Plans!vars, Plans!worldVars, Plans!cacheVars, Plans!historyVars
<1>2. PlansInv'
  BY DEF plansState, PlansInv, PlansTypeOK, CallsAreOfAccounts, PremiumKept, PremiumSent,
         DeletedIsOut, Plans!DeletedIsForgotten, Plans!Nothing
<1>3. QED
  BY <1>1, <1>2

LEMMA PremiumFollows == ASSUME PlansInv PROVE Plans!PremiumIsLicensed
  BY DEF PlansInv, PlansTypeOK, PremiumKept, PremiumSent, Plans!PremiumIsLicensed, Plans!Shown, Levels, Licences

-----------------------------------------------------------------------------
(* AccountLease *)

Whose == Accounts \cup {Local}
Contexts == [owner : Whose, account : Whose, fresh : BOOLEAN]
Works == [kind : {"rows", "change"}, context : Contexts, moved : BOOLEAN,
          at : {"open", "begun", "checked", "done"}]

LeaseTypeOK ==
  /\ inUse \in Whose /\ lease \in {Local, Unresolved, inUse}
  /\ context \in Contexts
  /\ tasks \subseteq Works
  /\ run = None \/ run \in [account : Accounts, at : LeasePlaces]

(* A context that is fresh is of the lease; of the local data, the account  *)
(* it was published under is in use still, or none is.                      *)
FreshOK(c) ==
  c.fresh => lease = c.owner /\ (c.owner = Local => inUse \in {Local, c.account})

(* What began before a change of account and may be current still is local  *)
(* and was begun with an account, and none is in use: it is not current.    *)
WorksOK ==
  \A t \in tasks :
    /\ FreshOK(t.context)
    /\ t.at = "done" => ~t.moved
    /\ t.moved /\ t.context.fresh =>
         t.context.owner = Local /\ inUse = Local /\ t.context.account # Local

(* A refresh is of the account in use, and what it confirmed holds still.   *)
RunOK == run # None => /\ run.account = inUse
                       /\ run.at = "absent" => run.account \notin tokens

LeaseInv == LeaseTypeOK /\ FreshOK(context) /\ WorksOK /\ RunOK /\ Lease!NotLeftWaiting

LEMMA LeaseStarts == ASSUME Lease!Init PROVE LeaseInv
<1>1. inUse \in Whose /\ (inUse # Local => inUse \in Accounts)
  BY DEF Lease!Init, Whose
<1>2. LeaseTypeOK
  BY <1>1 DEF Lease!Init, LeaseTypeOK, Whose, Contexts, LeasePlaces
<1>3. FreshOK(context)
  <2>1. context = [owner |-> Local, account |-> Local, fresh |-> inUse = Local]
    BY DEF Lease!Init
  <2>2. context.owner = Local /\ context.account = Local /\ (context.fresh => inUse = Local)
    BY <2>1
  <2>3. inUse = Local => lease = Local
    BY DEF Lease!Init
  <2>4. QED
    BY <2>2, <2>3 DEF FreshOK
<1>4. RunOK
  BY DEF Lease!Init, RunOK
<1>5. Lease!NotLeftWaiting
  <2>1. CASE inUse = Local
    BY <2>1 DEF Lease!Init, Lease!NotLeftWaiting
  <2>2. CASE inUse # Local
    <3>1. inUse \in Accounts
      BY <1>1, <2>2
    <3>2. run \in [account : Accounts, at : LeasePlaces]
      BY <2>2, <3>1 DEF Lease!Init, LeasePlaces
    <3>3. QED
      BY <3>2, LeaseAssumption DEF Lease!NotLeftWaiting
  <2>3. QED
    BY <2>1, <2>2
<1>6. WorksOK
  BY DEF Lease!Init, WorksOK
<1>7. QED
  BY <1>2, <1>3, <1>4, <1>5, <1>6 DEF LeaseInv

LEMMA TasksKeep ==
  ASSUME LeaseTypeOK, WorksOK, NEW generation \in BOOLEAN, NEW change \in BOOLEAN,
         Lease!Tasks(generation, change),
         \/ generation
         \/ lease' = lease /\ inUse' = inUse /\ ~change
         \/ lease' = lease /\ lease = Local /\ inUse' = Local /\ (change => inUse # Local)
  PROVE  tasks' \subseteq Works /\ WorksOK'
<1>1. SUFFICES ASSUME NEW u \in tasks'
      PROVE  /\ u \in Works /\ FreshOK(u.context)' /\ (u.at = "done" => ~u.moved)
             /\ u.moved /\ u.context.fresh =>
                  u.context.owner = Local /\ inUse' = Local /\ u.context.account # Local
  BY DEF WorksOK, FreshOK
<1>2. PICK t \in tasks :
        u = [t EXCEPT !.context = IF generation THEN Lease!Stale(@) ELSE @,
                      !.moved = (@ \/ (change /\ t.at # "done"))]
  BY DEF Lease!Tasks
<1>3. t \in Works /\ t.context \in Contexts
  BY DEF LeaseTypeOK, Works
<1>4. /\ u.context = (IF generation THEN Lease!Stale(t.context) ELSE t.context)
      /\ u.moved = (t.moved \/ (change /\ t.at # "done")) /\ u.at = t.at
  BY <1>2, <1>3 DEF Works
<1>5. Lease!Stale(t.context) \in Contexts /\ ~Lease!Stale(t.context).fresh
  BY <1>3 DEF Lease!Stale, Contexts
<1>6. u \in Works
  BY <1>2, <1>3, <1>5 DEF Works
<1>7. /\ FreshOK(t.context)
      /\ t.at = "done" => ~t.moved
      /\ t.moved /\ t.context.fresh =>
           t.context.owner = Local /\ inUse = Local /\ t.context.account # Local
  BY DEF WorksOK
<1>8. CASE generation
  BY <1>4, <1>5, <1>6, <1>7, <1>8 DEF FreshOK
<1>9. CASE ~generation /\ lease' = lease /\ inUse' = inUse /\ ~change
  BY <1>4, <1>6, <1>7, <1>9 DEF FreshOK
<1>10. CASE ~generation /\ lease' = lease /\ lease = Local /\ inUse' = Local
            /\ (change => inUse # Local)
  BY <1>4, <1>6, <1>7, <1>10 DEF FreshOK
<1>11. QED
  BY <1>8, <1>9, <1>10

(* A publication: for the account in use, or the local data.               *)
LEMMA PublishKeeps ==
  ASSUME LeaseInv, NEW o \in {inUse, Local}, Lease!Publish(o), inUse' = inUse
  PROVE  /\ lease' \in {Local, Unresolved, inUse'} /\ context' \in Contexts
         /\ FreshOK(context)' /\ tasks' \subseteq Works /\ WorksOK' /\ mounted'
<1>1. LeaseTypeOK /\ WorksOK /\ inUse \in Whose /\ o \in Whose
  BY DEF LeaseInv, LeaseTypeOK, Whose
<1>2. /\ lease' = o /\ context' = [owner |-> o, account |-> inUse, fresh |-> TRUE]
      /\ mounted' /\ Lease!Tasks(o # lease, FALSE)
  BY DEF Lease!Publish
<1>3. context' \in Contexts
  BY <1>1, <1>2 DEF Contexts
<1>4. FreshOK(context)'
  BY <1>2 DEF FreshOK
<1>5. tasks' \subseteq Works /\ WorksOK'
  BY <1>1, <1>2, TasksKeep
<1>6. QED
  BY <1>2, <1>3, <1>4, <1>5

(* A change of the accounts, and the refresh it begins.                    *)
LEMMA RefreshKeeps ==
  ASSUME LeaseInv, NEW o \in Whose, Lease!Refresh(o)
  PROVE  LeaseInv'
<1>1. LeaseTypeOK /\ WorksOK /\ FreshOK(context) /\ Lease!NotLeftWaiting
      /\ Local \notin Accounts /\ Unresolved \notin Accounts /\ Local # Unresolved
  BY LeaseAssumption DEF LeaseInv
<1>2. inUse' = o /\ Lease!Leases(o)
  BY DEF Lease!Refresh
<1>3. CASE o = Local
  <2>1. /\ lease' = Local /\ mounted'
        /\ context' = [owner |-> Local, account |-> Local, fresh |-> TRUE]
        /\ Lease!Tasks(lease # Local, o # inUse) /\ run' = None
    BY <1>3 DEF Lease!Refresh, Lease!Leases
  <2>2. tasks' \subseteq Works /\ WorksOK'
    <3>1. CASE lease # Local
      BY <1>1, <2>1, <3>1, TasksKeep
    <3>2. CASE lease = Local
      BY <1>1, <1>2, <1>3, <2>1, <3>2, TasksKeep
    <3>3. QED
      BY <3>1, <3>2
  <2>3. LeaseTypeOK' /\ FreshOK(context)' /\ RunOK' /\ Lease!NotLeftWaiting'
    BY <1>2, <1>3, <2>1, <2>2
    DEF LeaseTypeOK, FreshOK, RunOK, Lease!NotLeftWaiting, Contexts, Whose
  <2>4. QED
    BY <2>2, <2>3 DEF LeaseInv
<1>4. CASE o # Local
  <2>1. PICK place \in {"stored", "session"} : run' = [account |-> o, at |-> place]
    BY <1>4 DEF Lease!Refresh
  <2>2. /\ run' \in [account : Accounts, at : LeasePlaces] /\ run' # None
        /\ run'.account = inUse' /\ run'.at # "absent"
    BY <1>2, <1>4, <2>1, LeaseAssumption DEF Whose, LeasePlaces
  <2>3. CASE lease = o
    <3>1. o = inUse
      BY <1>1, <1>4, <2>3 DEF LeaseTypeOK, Whose
    <3>2. UNCHANGED <<lease, context, mounted>> /\ Lease!Tasks(FALSE, FALSE)
      BY <1>2, <1>4, <2>3, <3>1, (o # inUse) = FALSE DEF Lease!Leases, Lease!published
    <3>3. tasks' \subseteq Works /\ WorksOK'
      BY <1>1, <1>2, <3>1, <3>2, TasksKeep
    <3>4. LeaseTypeOK' /\ FreshOK(context)'
      BY <1>1, <1>2, <2>2, <3>1, <3>2, <3>3 DEF LeaseTypeOK, FreshOK
    <3>5. RunOK' /\ Lease!NotLeftWaiting'
      BY <2>2 DEF RunOK, Lease!NotLeftWaiting
    <3>6. QED
      BY <3>3, <3>4, <3>5 DEF LeaseInv
  <2>4. CASE lease # o
    <3>1. /\ lease' = Unresolved /\ context' = Lease!Stale(context)
          /\ Lease!Tasks(TRUE, o # inUse)
      BY <1>2, <1>4, <2>4 DEF Lease!Leases
    <3>2. tasks' \subseteq Works /\ WorksOK'
      BY <1>1, <3>1, TasksKeep
    <3>3. context' \in Contexts /\ ~context'.fresh
      BY <1>1, <3>1 DEF LeaseTypeOK, Contexts, Lease!Stale
    <3>4. LeaseTypeOK' /\ FreshOK(context)'
      BY <1>2, <2>2, <3>1, <3>2, <3>3 DEF LeaseTypeOK, FreshOK
    <3>5. RunOK' /\ Lease!NotLeftWaiting'
      BY <2>2 DEF RunOK, Lease!NotLeftWaiting
    <3>6. QED
      BY <3>2, <3>4, <3>5 DEF LeaseInv
  <2>5. QED
    BY <2>3, <2>4
<1>5. QED
  BY <1>3, <1>4

(* Neither the lease nor what is under way changes.                        *)
LEMMA LeaseStays ==
  ASSUME LeaseInv, UNCHANGED <<inUse, lease, context, tasks>>
  PROVE  /\ lease' \in {Local, Unresolved, inUse'} /\ context' \in Contexts
         /\ FreshOK(context)' /\ tasks' \subseteq Works /\ WorksOK'
  BY DEF LeaseInv, LeaseTypeOK, FreshOK, WorksOK

(* The refresh goes on, or ends with something to show.                    *)
LEMMA RunGoes ==
  ASSUME LeaseInv, run # None, NEW place \in LeasePlaces, run' = [run EXCEPT !.at = place],
         inUse' = inUse, place = "absent" => run.account \notin tokens'
  PROVE  run' \in [account : Accounts, at : LeasePlaces] /\ RunOK' /\ run' # None
<1>1. run \in [account : Accounts, at : LeasePlaces] /\ run.account = inUse
  BY DEF LeaseInv, LeaseTypeOK, RunOK
<1>2. run' \in [account : Accounts, at : LeasePlaces] /\ run'.account = inUse /\ run'.at = place
  BY <1>1
<1>3. QED
  BY <1>1, <1>2, LeaseAssumption DEF RunOK

LEMMA LeavesKeeps ==
  ASSUME LeaseInv, run # None, Lease!LeavesWithError
  PROVE  LeaseInv'
<1>1. inUse' = inUse /\ run' = None /\ leaseError'
  BY DEF Lease!LeavesWithError, Lease!deviceVars
<1>2. UNCHANGED <<lease, context, mounted, tasks>> \/ Lease!Publish(Local)
  BY DEF Lease!LeavesWithError
<1>3. /\ lease' \in {Local, Unresolved, inUse'} /\ context' \in Contexts
      /\ FreshOK(context)' /\ tasks' \subseteq Works /\ WorksOK'
  BY <1>1, <1>2, LeaseStays, PublishKeeps
<1>4. QED
  BY <1>1, <1>3 DEF LeaseInv, LeaseTypeOK, RunOK, Lease!NotLeftWaiting

LEMMA LeaseActs ==
  ASSUME LeaseInv, listed \subseteq Accounts, Lease!Next
  PROVE  LeaseInv' /\ Lease!RemovesTheAbsent
<1>0. LeaseTypeOK /\ WorksOK /\ FreshOK(context) /\ Lease!NotLeftWaiting /\ RunOK
      /\ inUse \in Whose
  BY DEF LeaseInv, LeaseTypeOK
<1>1. CASE Lease!Again
  BY <1>0, <1>1, RefreshKeeps DEF Lease!Again, Lease!RemovesTheAbsent
<1>2. ASSUME NEW o \in Whose, Lease!Switch(o)
      PROVE  LeaseInv' /\ Lease!RemovesTheAbsent
  BY <1>2, RefreshKeeps DEF Lease!Switch, Lease!RemovesTheAbsent
<1>3. ASSUME NEW o \in Accounts, Lease!SignIn(o)
      PROVE  LeaseInv' /\ Lease!RemovesTheAbsent
  BY <1>3, RefreshKeeps DEF Lease!SignIn, Lease!RemovesTheAbsent, Whose
<1>4. ASSUME NEW o \in Accounts, Lease!Loses(o)
      PROVE  LeaseInv' /\ Lease!RemovesTheAbsent
  <2>1. UNCHANGED <<inUse, lease, context, tasks, mounted, leaseError, run, removing>>
        /\ tokens' \subseteq tokens
    BY <1>4 DEF Lease!Loses, Lease!published
  <2>2. QED
    BY <1>0, <2>1, LeaseStays
    DEF LeaseInv, LeaseTypeOK, RunOK, Lease!NotLeftWaiting, Lease!RemovesTheAbsent
<1>5. ASSUME NEW o \in Accounts, Lease!Removed(o)
      PROVE  LeaseInv' /\ Lease!RemovesTheAbsent
  BY <1>0, <1>5, RefreshKeeps DEF Lease!Removed, Lease!RemovesTheAbsent, Whose
<1>6. ASSUME NEW o \in Accounts, Lease!NotRemoved(o)
      PROVE  LeaseInv' /\ Lease!RemovesTheAbsent
  <2>1. inUse' = inUse /\ tokens' = tokens /\ removing' = removing \ {o}
    BY <1>6 DEF Lease!NotRemoved, Lease!deviceVars
  <2>2. CASE UNCHANGED <<lease, context, mounted, leaseError, run, tasks>>
    BY <1>0, <2>1, <2>2, LeaseStays
    DEF LeaseInv, LeaseTypeOK, RunOK, Lease!NotLeftWaiting, Lease!RemovesTheAbsent
  <2>3. CASE /\ UNCHANGED <<lease, context, mounted, tasks>> \/ Lease!Publish(Local)
             /\ leaseError' /\ run' = None
    <3>1. /\ lease' \in {Local, Unresolved, inUse'} /\ context' \in Contexts
          /\ FreshOK(context)' /\ tasks' \subseteq Works /\ WorksOK'
      BY <2>1, <2>3, LeaseStays, PublishKeeps
    <3>2. QED
      BY <1>0, <2>1, <2>3, <3>1
      DEF LeaseInv, LeaseTypeOK, RunOK, Lease!NotLeftWaiting, Lease!RemovesTheAbsent
  <2>4. QED
    BY <1>6, <2>2, <2>3 DEF Lease!NotRemoved, Lease!published
<1>7. CASE Lease!Stored
  <2>1. /\ run # None /\ run' = [run EXCEPT !.at = "session"]
        /\ inUse' = inUse /\ tokens' = tokens /\ removing' = removing
    BY <1>7 DEF Lease!Stored, Lease!At, Lease!Goes, Lease!deviceVars
  <2>2. run.account = inUse
    BY <1>0, <2>1 DEF RunOK
  <2>3. run' \in [account : Accounts, at : LeasePlaces] /\ RunOK' /\ run' # None
    BY <2>1, RunGoes DEF LeasePlaces
  <2>4. UNCHANGED <<lease, context, tasks>> \/ Lease!Publish(inUse)
    BY <1>7, <2>2 DEF Lease!Stored, Lease!published
  <2>5. /\ lease' \in {Local, Unresolved, inUse'} /\ context' \in Contexts
        /\ FreshOK(context)' /\ tasks' \subseteq Works /\ WorksOK'
    BY <2>1, <2>4, LeaseStays, PublishKeeps
  <2>6. QED
    BY <1>0, <2>1, <2>3, <2>5
    DEF LeaseInv, LeaseTypeOK, Lease!NotLeftWaiting, Lease!RemovesTheAbsent
<1>8. CASE Lease!Restored \/ Lease!Rejected
  <2>1. /\ run # None /\ run' = None
        /\ inUse' = inUse /\ tokens' = tokens /\ removing' = removing
    BY <1>8 DEF Lease!Restored, Lease!Rejected, Lease!At, Lease!deviceVars
  <2>2. Lease!Publish(inUse) \/ Lease!Publish(Local)
    BY <1>0, <1>8, <2>1 DEF Lease!Restored, Lease!Rejected, RunOK
  <2>3. /\ lease' \in {Local, Unresolved, inUse'} /\ context' \in Contexts
        /\ FreshOK(context)' /\ tasks' \subseteq Works /\ WorksOK' /\ mounted'
    BY <2>1, <2>2, PublishKeeps
  <2>4. QED
    BY <1>0, <2>1, <2>3
    DEF LeaseInv, LeaseTypeOK, RunOK, Lease!NotLeftWaiting, Lease!RemovesTheAbsent
<1>9. CASE Lease!NotRestored \/ Lease!Absent \/ Lease!Removes
  <2>1. /\ run # None /\ UNCHANGED <<inUse, tokens, lease, context, tasks>>
        /\ \E place \in {"confirm", "absent", "removing"} :
             /\ run' = [run EXCEPT !.at = place]
             /\ place = "absent" => run.account \notin tokens
    BY <1>9 DEF Lease!NotRestored, Lease!Absent, Lease!Removes, Lease!At, Lease!Goes,
                Lease!deviceVars, Lease!published
  <2>2. run' \in [account : Accounts, at : LeasePlaces] /\ RunOK' /\ run' # None
    BY <2>1, RunGoes DEF LeasePlaces
  <2>3. Lease!RemovesTheAbsent
    BY <1>0, <1>9 DEF Lease!NotRestored, Lease!Absent, Lease!Removes, Lease!At, RunOK,
                      Lease!RemovesTheAbsent
  <2>4. QED
    BY <1>0, <2>1, <2>2, <2>3, LeaseStays DEF LeaseInv, LeaseTypeOK, Lease!NotLeftWaiting
<1>10. CASE Lease!Kept \/ Lease!Fails
  BY <1>10, LeavesKeeps DEF Lease!Kept, Lease!Fails, Lease!At, Lease!LeavesWithError,
                            Lease!RemovesTheAbsent
<1>11. ASSUME NEW kind \in {"rows", "change"}, Lease!Opens(kind)
       PROVE  LeaseInv' /\ Lease!RemovesTheAbsent
  <2>1. UNCHANGED <<inUse, tokens, lease, context, mounted, leaseError, run, removing>>
    BY <1>11 DEF Lease!Opens, Lease!deviceVars, Lease!published
  <2>2. PICK place \in {"open", "begun"} :
          tasks' = tasks \cup {[kind |-> kind, context |-> context, moved |-> FALSE,
                                at |-> place]}
    BY <1>11 DEF Lease!Opens
  <2>3. tasks' \subseteq Works
    <3>1. [kind |-> kind, context |-> context, moved |-> FALSE, at |-> place] \in Works
      BY <1>0 DEF LeaseTypeOK, Works
    <3>2. QED
      BY <1>0, <2>2, <3>1 DEF LeaseTypeOK
  <2>4. WorksOK'
    BY <1>0, <2>1, <2>2 DEF WorksOK, FreshOK
  <2>5. QED
    BY <1>0, <2>1, <2>3, <2>4
    DEF LeaseInv, LeaseTypeOK, FreshOK, RunOK, Lease!NotLeftWaiting, Lease!RemovesTheAbsent
<1>12. ASSUME NEW t \in tasks, Lease!Advances(t) \/ Lease!Finishes(t)
       PROVE  LeaseInv' /\ Lease!RemovesTheAbsent
  <2>1. UNCHANGED <<inUse, tokens, lease, context, mounted, leaseError, run, removing>>
    BY <1>12 DEF Lease!Advances, Lease!Finishes, Lease!TaskGoes, Lease!deviceVars,
                 Lease!published
  <2>2. CASE tasks' \subseteq tasks
    BY <1>0, <2>1, <2>2
    DEF LeaseInv, LeaseTypeOK, FreshOK, WorksOK, RunOK, Lease!NotLeftWaiting,
        Lease!RemovesTheAbsent
  <2>3. CASE Lease!Advances(t)
    <3> DEFINE u == [t EXCEPT !.at = Lease!NextPlace[@]]
    <3>1. t \in Works /\ t.at \in {"open", "begun", "checked"} /\ Lease!IsCurrent(t.context)
      BY <1>0, <2>3 DEF LeaseTypeOK, Works, Lease!Advances
    <3>2. Lease!NextPlace[t.at] \in {"begun", "checked", "done"}
      BY <3>1 DEF Lease!NextPlace
    <3>3. u \in Works /\ u.context = t.context /\ u.moved = t.moved
      BY <3>1, <3>2 DEF Works
    <3>4. tasks' \subseteq tasks \cup {u}
      BY <2>3 DEF Lease!Advances, Lease!TaskGoes
    <3>5. ~t.moved
      BY <1>0, <3>1 DEF WorksOK, Lease!IsCurrent
    <3> HIDE DEF u
    <3>6. tasks' \subseteq Works /\ WorksOK'
      BY <1>0, <2>1, <3>3, <3>4, <3>5 DEF LeaseTypeOK, WorksOK, FreshOK
    <3>7. QED
      BY <1>0, <2>1, <3>6
      DEF LeaseInv, LeaseTypeOK, FreshOK, RunOK, Lease!NotLeftWaiting, Lease!RemovesTheAbsent
  <2>4. QED
    BY <1>12, <2>2, <2>3 DEF Lease!Finishes, Lease!TaskGoes
<1>13. QED
  BY <1>1, <1>2, <1>3, <1>4, <1>5, <1>6, <1>7, <1>8, <1>9, <1>10, <1>11, <1>12
  DEF Lease!Next, Whose

LEMMA ListedStays ==
  ASSUME listed \subseteq Accounts, Lease!Next
  PROVE  listed' \subseteq Accounts
  BY DEF Lease!Next, Lease!Again, Lease!Switch, Lease!SignIn, Lease!Loses, Lease!Removed,
         Lease!NotRemoved, Lease!Stored, Lease!Restored, Lease!NotRestored, Lease!Kept,
         Lease!Absent, Lease!Removes, Lease!Fails, Lease!Rejected, Lease!Opens,
         Lease!Advances, Lease!Finishes, Lease!TaskGoes, Lease!LeavesWithError,
         Lease!deviceVars

-----------------------------------------------------------------------------
(* AccountRecovery *)

Reviews == [todo : SUBSET Sources, source : Sources \cup {None},
            found : Targets \cup {None}, rows : BOOLEAN,
            match : Sources \cup {None},
            target : Targets \cup {Local}, last : BOOLEAN]

(* The rows of a source are its own, or those of the account they moved to. *)
DataOK ==
  /\ at \in [Sources -> Sources \cup Targets \cup {None}]
  /\ own \subseteq Targets
  /\ ledger \in [Sources -> Targets \cup {None}]
  /\ Recovery!RowsFollowLedger

(* A status is true of the rows, the one the program works with and the one *)
(* it would start with; and one that keeps the rows apart stays with them.  *)
TrueOf(status) ==
  \A s \in Sources : /\ status[s] = "migrated" => ledger[s] # None
                     /\ status[s] = "empty"    => at[s] # s
                     /\ status[s] = "separate" => ledger[s] = None
ArchiveOK ==
  /\ archived \in [Sources -> Statuses] /\ flushed \in [Sources -> Statuses]
  /\ TrueOf(archived) /\ TrueOf(flushed)
  /\ \A s \in Sources : flushed[s] = "separate" => archived[s] \in {"separate", "empty"}

(* Without an archive the phone works without an account.                  *)
ChoiceOK ==
  /\ unarchived \in BOOLEAN /\ chosen \in Targets \cup {Local}
  /\ unarchived => chosen = Local
  /\ ~unarchived => \A s \in Sources : archived[s] # "listed"

Committing(s) == decision # None /\ decision.at = "committed" /\ decision.source = s

(* What a review has seen holds still; one for an account has still to look *)
(* at every source whose move the status forgot.                            *)
ReviewOK(r) ==
  /\ r.source = None => r.rows
  /\ r.source # None => /\ r.source \in r.todo
                        /\ r.found # None => ledger[r.source] # None
                        /\ ~r.rows => at[r.source] # r.source
  /\ r.match # None => r.todo = {} /\ r.target \in Targets
  /\ r.target \in Targets =>
       /\ ~unarchived
       /\ \A s \in Sources : archived[s] = "pending" /\ ledger[s] # None =>
            s \in r.todo \/ Committing(s)
ReviewsOK == reviews \subseteq Reviews /\ \A r \in reviews : ReviewOK(r)

(* A match that is about to be offered is still undecided: what decides a   *)
(* source makes a review due.                                               *)
OffersOK ==
  \A r \in reviews :
    r.match # None /\ r.last /\ ~due => r.match \in Recovery!Pending

(* What is offered was not moved; but the dialog closes when a move ends.  *)
CandidateOK ==
  candidate # None =>
    /\ candidate.source \in Sources /\ candidate.target \in Targets
    /\ ledger[candidate.source] = None \/ \E s \in Sources : Committing(s)

(* What a decision has seen holds until its transaction.                   *)
DecisionOK ==
  decision = None \/ LET s == decision.source IN
    /\ decision \in Decisions
    /\ decision.at = "committed" <=> ledger[s] # None
    /\ decision.found # None => ledger[s] # None
    /\ decision.at \notin {"asked", "committed"} /\ decision.status # "separate" =>
         archived[s] # "separate"
    /\ decision.at \in {"counted", "sent"} => (decision.rows <=> at[s] = s)
    /\ decision.at = "sent" => decision.rows /\ decision.status = "pending"

RecoveryInv ==
  DataOK /\ ArchiveOK /\ ChoiceOK /\ ReviewsOK /\ CandidateOK /\ DecisionOK

LEMMA RowsOfSource ==
  ASSUME DataOK, NEW s \in Sources
  PROVE  Recovery!HasRows(s) <=> at[s] = s
<1>1. s \notin Targets /\ s # None
  BY RecoveryAssumption
<1>2. ASSUME NEW x \in Sources, at[x] = s PROVE x = s
  BY <1>1, <1>2 DEF DataOK, Recovery!RowsFollowLedger
<1>3. QED
  BY <1>1, <1>2 DEF DataOK, Recovery!HasRows

LEMMA RecoveryStarts == ASSUME Recovery!Init PROVE RecoveryInv /\ OffersOK
<1>1. DataOK
  BY DEF Recovery!Init, DataOK, Recovery!RowsFollowLedger
<1>2. ArchiveOK /\ ChoiceOK
  BY DEF Recovery!Init, ArchiveOK, ChoiceOK, TrueOf, Statuses
<1>3. ReviewsOK /\ CandidateOK /\ DecisionOK /\ OffersOK
  BY DEF Recovery!Init, ReviewsOK, CandidateOK, DecisionOK, OffersOK
<1>4. QED
  BY <1>1, <1>2, <1>3 DEF RecoveryInv

(* Every step but a restart leaves what a review relies on.                *)
Relied ==
  /\ \A s \in Sources : /\ ledger[s] # None => ledger'[s] # None
                        /\ at[s] # s => at'[s] # s
  /\ ~unarchived =>
       /\ ~unarchived'
       /\ \A s \in Sources :
            archived'[s] = "pending" /\ ledger'[s] # None /\ ~Committing(s)' =>
            archived[s] = "pending" /\ ledger[s] # None /\ ~Committing(s)

LEMMA ReviewStays ==
  ASSUME Relied, NEW r \in Reviews, ReviewOK(r)
  PROVE  ReviewOK(r)'
<1>1. r.source # None => r.source \in Sources
  BY DEF Reviews
<1>2. QED
  BY <1>1 DEF Relied, ReviewOK

(* finishRecoverySource, with a status that is true.                       *)
LEMMA FinishKeeps ==
  ASSUME RecoveryInv, NEW s \in Sources, NEW how \in {"migrated", "empty", "separate"},
         Recovery!Finish(s, how),
         how = "migrated" => ledger[s] # None,
         how = "empty"    => at[s] # s,
         how = "separate" => ledger[s] = None,
         UNCHANGED <<at, ledger, flushed, unarchived, chosen>>
  PROVE  /\ ArchiveOK' /\ ChoiceOK'
         /\ archived'[s] = how /\ \A x \in Sources \ {s} : archived'[x] = archived[x]
<1>1. archived \in [Sources -> Statuses]
  BY DEF RecoveryInv, ArchiveOK
<1>2. /\ archived' \in [Sources -> Statuses]
      /\ archived'[s] = how /\ \A x \in Sources \ {s} : archived'[x] = archived[x]
  BY <1>1 DEF Recovery!Finish, Statuses
<1>3. TrueOf(archived)' /\ TrueOf(flushed)'
  BY <1>2 DEF RecoveryInv, ArchiveOK, TrueOf
<1>4. \A x \in Sources : flushed'[x] = "separate" => archived'[x] \in {"separate", "empty"}
  BY <1>2 DEF RecoveryInv, ArchiveOK, TrueOf
<1>5. ChoiceOK'
  BY <1>2 DEF RecoveryInv, ChoiceOK
<1>6. ArchiveOK'
  BY <1>2, <1>3, <1>4 DEF RecoveryInv, ArchiveOK
<1>7. QED
  BY <1>2, <1>5, <1>6

LEMMA DataStays ==
  ASSUME RecoveryInv, UNCHANGED <<at, own, ledger>>
  PROVE  DataOK'
  BY DEF RecoveryInv, DataOK, Recovery!RowsFollowLedger

LEMMA ArchiveStays ==
  ASSUME RecoveryInv, UNCHANGED <<archived, flushed, at, ledger>>
  PROVE  ArchiveOK'
  BY DEF RecoveryInv, ArchiveOK, TrueOf

LEMMA DecisionStays ==
  ASSUME RecoveryInv, UNCHANGED <<decision, at, ledger>>,
         \A s \in Sources : archived'[s] = "separate" => archived[s] = "separate"
  PROVE  DecisionOK'
<1>1. decision # None => decision.source \in Sources
  BY DEF RecoveryInv, DecisionOK, Decisions
<1>2. QED
  BY <1>1 DEF RecoveryInv, DecisionOK

LEMMA CandidateStays ==
  ASSUME RecoveryInv, UNCHANGED <<candidate, decision, ledger>>
  PROVE  CandidateOK'
  BY DEF RecoveryInv, CandidateOK, Committing

LEMMA ReviewsStay ==
  ASSUME RecoveryInv, Relied, reviews' \subseteq reviews
  PROVE  ReviewsOK'
  BY ReviewStays DEF RecoveryInv, ReviewsOK

(* One review goes on as another, or ends.                                 *)
LEMMA ReviewGoes ==
  ASSUME RecoveryInv, Relied, NEW r \in reviews, NEW next \in SUBSET Reviews,
         Recovery!Goes(r, next), \A n \in next : ReviewOK(n)'
  PROVE  ReviewsOK'
  BY ReviewStays DEF RecoveryInv, ReviewsOK, Recovery!Goes

LEMMA NothingRelied ==
  ASSUME UNCHANGED <<archived, at, ledger, unarchived, decision>>
  PROVE  Relied
  BY DEF Relied, Committing

(* The device and the user: accounts, rows, the dialog.                    *)
LEMMA SurroundingsAct ==
  ASSUME RecoveryInv,
         \/ \E o \in Targets \cup {Local} : Recovery!Switch(o)
         \/ Recovery!Create \/ Recovery!Synchronise \/ Recovery!Flush
         \/ Recovery!Close \/ Recovery!ReviewAgain
  PROVE  RecoveryInv' /\ UNCHANGED ledger
<1> USE DEF Recovery!dataVars, Recovery!screenVars
<1>1. UNCHANGED <<archived, at, ledger, unarchived, decision, reviews>>
  BY DEF Recovery!Switch, Recovery!Create, Recovery!Synchronise, Recovery!Flush,
         Recovery!Close, Recovery!ReviewAgain
<1>2. DataOK'
  <2>1. own' \subseteq Targets
    BY DEF Recovery!Switch, Recovery!Create, Recovery!Synchronise, Recovery!Flush,
           Recovery!Close, Recovery!ReviewAgain, RecoveryInv, DataOK
  <2>2. QED
    BY <1>1, <2>1 DEF RecoveryInv, DataOK, Recovery!RowsFollowLedger
<1>3. ArchiveOK'
  <2>1. flushed' \in {flushed, archived}
    BY DEF Recovery!Switch, Recovery!Create, Recovery!Synchronise, Recovery!Flush,
           Recovery!Close, Recovery!ReviewAgain
  <2>2. QED
    BY <1>1, <2>1 DEF RecoveryInv, ArchiveOK, TrueOf
<1>4. ChoiceOK'
  <2>1. chosen' = chosen \/ (~unarchived /\ chosen' \in Targets \cup {Local})
    BY DEF Recovery!Switch, Recovery!Create, Recovery!Synchronise, Recovery!Flush,
           Recovery!Close, Recovery!ReviewAgain
  <2>2. QED
    BY <1>1, <2>1 DEF RecoveryInv, ChoiceOK
<1>5. CandidateOK'
  <2>1. candidate' \in {candidate, None}
    BY DEF Recovery!Switch, Recovery!Create, Recovery!Synchronise, Recovery!Flush,
           Recovery!Close, Recovery!ReviewAgain
  <2>2. QED
    BY <1>1, <2>1 DEF RecoveryInv, CandidateOK, Committing
<1>6. ReviewsOK' /\ DecisionOK'
  BY <1>1, NothingRelied, ReviewsStay, DecisionStays
<1>7. QED
  BY <1>1, <1>2, <1>3, <1>4, <1>5, <1>6 DEF RecoveryInv

(* The accounts are read, of what the storage has.                         *)
LEMMA QuarantineKeeps ==
  ASSUME RecoveryInv, NEW status \in {archived, flushed}, NEW o \in Targets \cup {Local},
         Recovery!Quarantine(status, o), UNCHANGED <<flushed, at, own, ledger>>
  PROVE  /\ DataOK' /\ ArchiveOK' /\ ChoiceOK'
         /\ \A s \in Sources : archived'[s] = "separate" => status[s] = "separate"
<1>1. /\ status \in [Sources -> Statuses] /\ TrueOf(status)
      /\ \A s \in Sources : flushed[s] = "separate" => status[s] \in {"separate", "empty"}
  BY DEF RecoveryInv, ArchiveOK
<1>2. /\ archived' \in [Sources -> Statuses]
      /\ \A s \in Sources : archived'[s] = status[s]
                            \/ (status[s] = "listed" /\ archived'[s] = "pending")
  BY <1>1 DEF Recovery!Quarantine, Statuses
<1>3. ArchiveOK'
  BY <1>1, <1>2 DEF RecoveryInv, ArchiveOK, TrueOf
<1>4. ChoiceOK'
  BY <1>1 DEF Recovery!Quarantine, ChoiceOK
<1>5. QED
  BY <1>2, <1>3, <1>4, DataStays

LEMMA StartsAct ==
  ASSUME RecoveryInv, Recovery!Hydrate \/ Recovery!Restart
  PROVE  RecoveryInv' /\ UNCHANGED ledger
<1>1. UNCHANGED <<flushed, at, own, ledger>>
  BY DEF Recovery!Hydrate, Recovery!Restart, Recovery!dataVars
<1>2. CASE Recovery!Hydrate
  <2>1. PICK o \in Targets \cup {Local} : Recovery!Quarantine(archived, o)
    BY <1>2 DEF Recovery!Hydrate
  <2>2. /\ DataOK' /\ ArchiveOK' /\ ChoiceOK'
        /\ \A s \in Sources : archived'[s] = "separate" => archived[s] = "separate"
    BY <1>1, <2>1, QuarantineKeeps
  <2>3. unarchived /\ UNCHANGED <<reviews, candidate, decision>>
    BY <1>2 DEF Recovery!Hydrate
  <2>4. Relied
    BY <1>1, <2>3 DEF Relied
  <2>5. ReviewsOK' /\ CandidateOK' /\ DecisionOK'
    BY <1>1, <2>2, <2>3, <2>4, ReviewsStay, CandidateStays, DecisionStays
  <2>6. QED
    BY <1>1, <2>2, <2>5 DEF RecoveryInv
<1>3. CASE Recovery!Restart
  <2>1. PICK o \in Targets \cup {Local} : Recovery!Quarantine(flushed, o)
    BY <1>3 DEF Recovery!Restart
  <2>2. DataOK' /\ ArchiveOK' /\ ChoiceOK'
    BY <1>1, <2>1, QuarantineKeeps
  <2>3. reviews' = {} /\ candidate' = None /\ decision' = None
    BY <1>3 DEF Recovery!Restart
  <2>4. ReviewsOK' /\ CandidateOK' /\ DecisionOK'
    BY <2>3 DEF ReviewsOK, CandidateOK, DecisionOK
  <2>5. QED
    BY <1>1, <2>2, <2>4 DEF RecoveryInv
<1>4. QED
  BY <1>2, <1>3

LEMMA ReviewAct ==
  ASSUME RecoveryInv, Recovery!Review
  PROVE  RecoveryInv' /\ UNCHANGED ledger
<1> DEFINE new == [todo |-> Recovery!Pending, source |-> None, found |-> None, rows |-> TRUE,
                   match |-> None, target |-> chosen, last |-> TRUE]
<1>1. UNCHANGED <<chosen, archived, flushed, unarchived, at, own, ledger, decision>>
      /\ candidate' = None
      /\ reviews' = {[r EXCEPT !.last = FALSE] : r \in reviews} \cup {new}
  BY DEF Recovery!Review, Recovery!dataVars
<1>2. new \in Reviews /\ new.source = None /\ new.match = None /\ new.todo = Recovery!Pending /\ new.target = chosen
  BY DEF RecoveryInv, ChoiceOK, Reviews, Recovery!Pending
<1>3. ReviewOK(new)
  <2>1. chosen \in Targets => ~unarchived
    BY RecoveryAssumption DEF RecoveryInv, ChoiceOK
  <2>2. new.rows /\ \A s \in Sources : archived[s] = "pending" => s \in new.todo
    BY <1>2 DEF Recovery!Pending
  <2> HIDE DEF new
  <2>3. QED
    BY <1>2, <2>1, <2>2 DEF ReviewOK
<1> HIDE DEF new
<1>4. Relied
  BY <1>1, NothingRelied
<1>5. ASSUME NEW r \in reviews
      PROVE  [r EXCEPT !.last = FALSE] \in Reviews /\ ReviewOK([r EXCEPT !.last = FALSE])
  <2>1. r \in Reviews /\ ReviewOK(r)
    BY DEF RecoveryInv, ReviewsOK
  <2> DEFINE u == [r EXCEPT !.last = FALSE]
  <2>2. u \in Reviews /\ u.todo = r.todo /\ u.source = r.source /\ u.found = r.found
        /\ u.rows = r.rows /\ u.match = r.match /\ u.target = r.target
    BY <2>1 DEF Reviews
  <2> HIDE DEF u
  <2>3. ReviewOK(u)
    BY <2>1, <2>2 DEF ReviewOK
  <2>4. QED
    BY <2>2, <2>3 DEF u
<1>6. \A u \in reviews' : u \in Reviews /\ ReviewOK(u)
  BY <1>1, <1>2, <1>3, <1>5
<1>7. ReviewsOK'
  BY <1>4, <1>6, ReviewStays DEF ReviewsOK
<1>8. ChoiceOK' /\ CandidateOK'
  BY <1>1 DEF RecoveryInv, ChoiceOK, CandidateOK
<1>9. QED
  BY <1>1, <1>7, <1>8, DataStays, ArchiveStays, DecisionStays DEF RecoveryInv

LEMMA ThroughIs ==
  ASSUME NEW r \in Reviews
  PROVE  /\ Recovery!Through(r) \in Reviews
         /\ Recovery!Through(r).todo = r.todo \ {r.source}
         /\ Recovery!Through(r).source = None /\ Recovery!Through(r).rows
         /\ Recovery!Through(r).match = r.match
         /\ Recovery!Through(r).target = r.target
  BY DEF Recovery!Through, Reviews

(* A review is through with its source, which needs nothing any more.      *)
LEMMA ThroughKeeps ==
  ASSUME RecoveryInv, Relied, NEW r \in reviews, r.source # None,
         Recovery!Goes(r, {Recovery!Through(r)}),
         archived'[r.source] # "pending" \/ ledger'[r.source] = None
  PROVE  ReviewsOK'
<1>1. r \in Reviews /\ ReviewOK(r)'
  BY ReviewStays DEF RecoveryInv, ReviewsOK
<1>2. ReviewOK(Recovery!Through(r))'
  BY <1>1, ThroughIs DEF ReviewOK
<1>3. QED
  BY <1>1, <1>2, ThroughIs, ReviewGoes

LEMMA ReviewsAct ==
  ASSUME RecoveryInv, OffersOK, NEW r \in reviews,
         \/ \E s \in Sources : Recovery!LooksUp(r, s)
         \/ Recovery!Heals(r) \/ Recovery!Counts(r) \/ Recovery!IsEmpty(r)
         \/ Recovery!Matches(r) \/ Recovery!Offers(r) \/ Recovery!Ends(r)
  PROVE  RecoveryInv' /\ UNCHANGED ledger
<1>1. UNCHANGED <<chosen, flushed, unarchived, at, own, ledger, decision>>
  BY DEF Recovery!Heals, Recovery!Counts, Recovery!IsEmpty, Recovery!Matches,
         Recovery!Offers, Recovery!Ends, Recovery!LooksUp, Recovery!dataVars
<1>2. r \in Reviews /\ ReviewOK(r) /\ (r.source # None => r.source \in Sources)
  BY DEF RecoveryInv, ReviewsOK, Reviews
<1>3. DataOK /\ DataOK'
  BY <1>1, DataStays DEF RecoveryInv
<1>4. ASSUME NEW how \in {"migrated", "empty"}, r.source # None,
             Recovery!Finish(r.source, how), Recovery!Goes(r, {Recovery!Through(r)}),
             how = "migrated" => ledger[r.source] # None,
             how = "empty" => at[r.source] # r.source, candidate' = candidate
      PROVE  RecoveryInv'
  <2>1. /\ ArchiveOK' /\ ChoiceOK' /\ archived'[r.source] = how
        /\ \A x \in Sources \ {r.source} : archived'[x] = archived[x]
    BY <1>1, <1>2, <1>4, FinishKeeps
  <2>2. Relied
    BY <1>1, <2>1 DEF Relied, Committing
  <2>3. ReviewsOK'
    BY <1>4, <2>1, <2>2, ThroughKeeps
  <2>4. CandidateOK' /\ DecisionOK'
    BY <1>1, <1>4, <2>1, CandidateStays, DecisionStays
  <2>5. QED
    BY <1>3, <2>1, <2>3, <2>4 DEF RecoveryInv
<1>5. ASSUME UNCHANGED archived, ReviewsOK', CandidateOK' PROVE RecoveryInv'
  <2>1. ArchiveOK' /\ ChoiceOK' /\ DecisionOK'
    BY <1>1, <1>5, ArchiveStays, DecisionStays DEF RecoveryInv, ChoiceOK
  <2>2. QED
    BY <1>3, <1>5, <2>1 DEF RecoveryInv
<1>6. UNCHANGED archived => Relied
  BY <1>1, NothingRelied
<1>7. CASE Recovery!Heals(r)
  <2>1. /\ r.source # None /\ ledger[r.source] # None /\ candidate' = candidate
        /\ Recovery!Finish(r.source, "migrated")
        /\ Recovery!Goes(r, {Recovery!Through(r)})
    BY <1>2, <1>7 DEF Recovery!Heals, ReviewOK
  <2>2. QED
    BY <1>1, <1>4, <2>1
<1>8. CASE Recovery!IsEmpty(r)
  <2>1. /\ r.source # None /\ at[r.source] # r.source /\ candidate' = candidate
        /\ Recovery!Finish(r.source, "empty")
        /\ Recovery!Goes(r, {Recovery!Through(r)})
    BY <1>2, <1>8 DEF Recovery!IsEmpty, ReviewOK
  <2>2. QED
    BY <1>1, <1>4, <2>1
<1>9. CASE Recovery!Counts(r)
  <2>1. UNCHANGED <<archived, candidate>> /\ r.source # None
    BY <1>9 DEF Recovery!Counts
  <2>2. Recovery!HasRows(r.source) <=> at[r.source] = r.source
    BY <1>2, <1>3, <2>1, RowsOfSource
  <2>3. ReviewsOK'
    <3>1. CASE Recovery!HasRows(r.source)
      <4>1. ledger[r.source] = None
        BY <1>2, <1>3, <2>1, <2>2, <3>1, RecoveryAssumption
        DEF DataOK, Recovery!RowsFollowLedger
      <4>2. QED
        BY <1>1, <1>6, <1>9, <2>1, <3>1, <4>1, ThroughKeeps DEF Recovery!Counts
    <3>2. CASE ~Recovery!HasRows(r.source)
      <4> DEFINE u == [r EXCEPT !.rows = FALSE]
      <4>1. u \in Reviews /\ u.todo = r.todo /\ u.source = r.source /\ u.found = r.found
            /\ u.target = r.target /\ u.match = r.match
        BY <1>2 DEF Reviews
      <4>2. Recovery!Goes(r, {u})
        BY <1>9, <3>2 DEF Recovery!Counts
      <4>3. ReviewOK(r)'
        BY <1>2, <1>6, <2>1, ReviewStays
      <4> HIDE DEF u
      <4>4. ReviewOK(u)'
        BY <1>1, <2>1, <2>2, <3>2, <4>1, <4>3 DEF ReviewOK
      <4>5. QED
        BY <1>6, <2>1, <4>1, <4>2, <4>4, ReviewGoes
    <3>3. QED
      BY <3>1, <3>2
  <2>4. QED
    BY <1>1, <1>5, <2>1, <2>3, CandidateStays
<1>10. ASSUME NEW s \in Sources, Recovery!LooksUp(r, s) PROVE RecoveryInv'
  <2>1. PICK f \in Targets \cup {None} : f = ledger[s]
    BY <1>3 DEF DataOK
  <2> DEFINE u == [r EXCEPT !.source = s, !.found = f]
  <2>2. UNCHANGED <<archived, candidate>> /\ Recovery!Goes(r, {u}) /\ s \in r.todo
        /\ r.source = None
    BY <1>10, <2>1 DEF Recovery!LooksUp
  <2>3. u \in Reviews /\ u.todo = r.todo /\ u.source = s /\ u.found = f
        /\ u.target = r.target /\ u.rows = r.rows /\ u.match = r.match
    BY <1>2 DEF Reviews
  <2>4. ReviewOK(r)'
    BY <1>2, <1>6, <2>2, ReviewStays
  <2>5. s # None
    BY RecoveryAssumption
  <2> HIDE DEF u
  <2>6. ReviewOK(u)'
    BY <1>1, <2>1, <2>2, <2>3, <2>4, <2>5 DEF ReviewOK
  <2>7. ReviewsOK'
    BY <1>6, <2>2, <2>3, <2>6, ReviewGoes
  <2>8. QED
    BY <1>1, <1>5, <2>2, <2>7, CandidateStays
<1>11. CASE Recovery!Ends(r)
  BY <1>1, <1>5, <1>6, <1>11, ReviewGoes, CandidateStays DEF Recovery!Ends
<1>12. CASE Recovery!Matches(r)
  <2>1. PICK s \in Recovery!Pending : Recovery!Goes(r, {[r EXCEPT !.match = s]})
    BY <1>12 DEF Recovery!Matches
  <2> DEFINE u == [r EXCEPT !.match = s]
  <2>2. /\ UNCHANGED <<archived, candidate>>
        /\ r.todo = {} /\ r.source = None /\ r.target \in Targets
    BY <1>12 DEF Recovery!Matches
  <2>3. u \in Reviews /\ u.todo = r.todo /\ u.source = r.source /\ u.rows = r.rows
        /\ u.found = r.found /\ u.target = r.target
    BY <1>2 DEF Reviews, Recovery!Pending
  <2>4. ReviewOK(r)'
    BY <1>2, <1>6, <2>2, ReviewStays
  <2> HIDE DEF u
  <2>5. ReviewOK(u)'
    BY <2>2, <2>3, <2>4 DEF ReviewOK
  <2>6. ReviewsOK'
    BY <1>6, <2>1, <2>2, <2>3, <2>5, ReviewGoes DEF u
  <2>7. QED
    BY <1>1, <1>5, <2>2, <2>6, CandidateStays
<1>13. CASE Recovery!Offers(r)
  <2>1. UNCHANGED archived /\ r.match # None /\ Recovery!Goes(r, {})
    BY <1>13 DEF Recovery!Offers
  <2>2. ReviewsOK'
    BY <1>6, <2>1, ReviewGoes
  <2>3. CandidateOK'
    <3>1. CASE candidate' = candidate
      BY <1>1, <3>1, CandidateStays
    <3>2. CASE candidate' # candidate
      <4>1. /\ r.last /\ ~due
            /\ candidate' = [source |-> r.match, target |-> r.target,
                              blocked |-> Recovery!HasRows(r.target)]
        BY <1>13, <3>2 DEF Recovery!Offers
      <4>2. candidate'.source = r.match /\ candidate'.target = r.target
        BY <4>1
      <4>3. r.todo = {} /\ r.target \in Targets
        BY <1>2, <2>1 DEF ReviewOK
      <4>4. r.match \in Sources /\ archived[r.match] = "pending"
        BY <2>1, <4>1 DEF OffersOK, Recovery!Pending
      <4>5. ledger[r.match] = None \/ Committing(r.match)
        BY <1>2, <4>3, <4>4 DEF ReviewOK
      <4>6. QED
        BY <1>1, <4>2, <4>3, <4>4, <4>5 DEF CandidateOK, Committing
    <3>3. QED
      BY <3>1, <3>2
  <2>4. QED
    BY <1>1, <1>5, <2>1, <2>2, <2>3
<1>14. QED
  BY <1>1, <1>7, <1>8, <1>9, <1>10, <1>11, <1>12, <1>13

(* The decision goes on, without a word to anybody, or is given up.        *)
LEMMA OnlyDecision ==
  ASSUME RecoveryInv, DecisionOK',
         UNCHANGED <<chosen, archived, flushed, unarchived, at, own, ledger, reviews>>,
         candidate' = candidate,
         \A s \in Sources : ~Committing(s) /\ ~Committing(s)'
  PROVE  RecoveryInv'
<1>1. Relied
  BY DEF Relied
<1>2. ReviewsOK' /\ DataOK' /\ ArchiveOK'
  BY <1>1, ReviewsStay, DataStays, ArchiveStays
<1>3. ChoiceOK' /\ CandidateOK'
  BY DEF RecoveryInv, ChoiceOK, CandidateOK
<1>4. QED
  BY <1>2, <1>3 DEF RecoveryInv

(* It ends with a status.                                                  *)
LEMMA DecisionFinishes ==
  ASSUME RecoveryInv, decision # None, NEW s \in Sources, s = decision.source,
         NEW how \in {"migrated", "empty", "separate"},
         Recovery!Finish(s, how), Recovery!DecisionEnds,
         how = "migrated" => ledger[s] # None,
         how = "empty"    => at[s] # s,
         how = "separate" => ledger[s] = None
  PROVE  RecoveryInv' /\ UNCHANGED ledger
<1>1. /\ UNCHANGED <<chosen, flushed, unarchived, at, own, ledger, reviews>>
      /\ decision' = None /\ candidate' = None
  BY DEF Recovery!DecisionEnds, Recovery!dataVars
<1>2. /\ ArchiveOK' /\ ChoiceOK' /\ archived'[s] = how
      /\ \A x \in Sources \ {s} : archived'[x] = archived[x]
  BY <1>1, FinishKeeps
<1>3. Relied
  BY <1>1, <1>2 DEF Relied, Committing
<1>4. ReviewsOK' /\ DataOK' /\ CandidateOK' /\ DecisionOK'
  BY <1>1, <1>3, ReviewsStay, DataStays DEF CandidateOK, DecisionOK
<1>5. QED
  BY <1>1, <1>2, <1>4 DEF RecoveryInv

LEMMA DecideAct ==
  ASSUME RecoveryInv, NEW move \in BOOLEAN, Recovery!Decide(move)
  PROVE  RecoveryInv' /\ UNCHANGED ledger
<1> DEFINE d == [source |-> candidate.source, target |-> candidate.target,
                 move |-> move, at |-> "asked", status |-> None, found |-> None,
                 rows |-> FALSE, taken |-> FALSE]
<1>1. UNCHANGED <<chosen, archived, flushed, unarchived, at, own, ledger, reviews, candidate>>
      /\ candidate # None /\ decision = None /\ decision' = d
  BY DEF Recovery!Decide, Recovery!dataVars
<1>2. /\ candidate.source \in Sources /\ candidate.target \in Targets
      /\ ledger[candidate.source] = None
  BY <1>1 DEF RecoveryInv, CandidateOK, Committing
<1>3. d \in Decisions
  BY <1>2 DEF Decisions
<1>4. d.source = candidate.source /\ d.at = "asked" /\ d.found = None
  OBVIOUS
<1> HIDE DEF d
<1>5. DecisionOK'
  BY <1>1, <1>2, <1>3, <1>4 DEF DecisionOK
<1>6. QED
  BY <1>1, <1>4, <1>5, OnlyDecision DEF Committing

(* A step of the decision that ends in itself: what it has seen is so.     *)
LEMMA StepsAct ==
  ASSUME RecoveryInv, decision # None, decision.at # "committed",
         NEW d \in Decisions \cup {None}, Recovery!DecisionGoes(d),
         d # None =>
           /\ d.source = decision.source /\ d.at # "committed"
           /\ d.found # None => ledger[decision.source] # None
           /\ d.at # "asked" /\ d.status # "separate" => archived[decision.source] # "separate"
           /\ d.at \in {"counted", "sent"} => (d.rows <=> at[d.source] = d.source)
           /\ d.at = "sent" => d.rows /\ d.status = "pending"
  PROVE  RecoveryInv' /\ UNCHANGED ledger
<1>1. /\ UNCHANGED <<chosen, archived, flushed, unarchived, at, own, ledger, reviews, candidate>>
      /\ decision' = d
  BY DEF Recovery!DecisionGoes, Recovery!dataVars
<1>2. ledger[decision.source] = None
  BY DEF RecoveryInv, DecisionOK
<1>3. DecisionOK'
  BY <1>1, <1>2 DEF DecisionOK
<1>4. \A s \in Sources : ~Committing(s) /\ ~Committing(s)'
  BY <1>1 DEF Committing
<1>5. QED
  BY <1>1, <1>3, <1>4, OnlyDecision

LEMMA DecisionActs ==
  ASSUME RecoveryInv,
         \/ Recovery!GivesUp \/ Recovery!Validates \/ Recovery!Looks
         \/ Recovery!CountsBoth \/ Recovery!Sends \/ Recovery!Records
  PROVE  RecoveryInv' /\ UNCHANGED ledger
<1>1. decision # None
  BY DEF Recovery!GivesUp, Recovery!Validates, Recovery!Looks, Recovery!CountsBoth,
         Recovery!Sends, Recovery!Records, Recovery!DecisionAt
<1>2. PICK d0 \in Decisions : d0 = decision
  BY <1>1 DEF RecoveryInv, DecisionOK
<1>3. PICK s \in Sources : s = decision.source
  BY <1>2 DEF Decisions
<1>4. /\ decision.at = "committed" <=> ledger[s] # None
      /\ decision.found # None => ledger[s] # None
      /\ decision.at \notin {"asked", "committed"} /\ decision.status # "separate" =>
           archived[s] # "separate"
      /\ decision.at \in {"counted", "sent"} => (decision.rows <=> at[s] = s)
      /\ decision.at = "sent" => decision.rows /\ decision.status = "pending"
  BY <1>1, <1>3 DEF RecoveryInv, DecisionOK
<1>5. DataOK /\ (Recovery!HasRows(s) <=> at[s] = s)
  BY RowsOfSource DEF RecoveryInv
<1>6. CASE Recovery!GivesUp
  BY <1>6, StepsAct DEF Recovery!GivesUp, Recovery!DecisionFails, Recovery!DecisionGoes
<1>7. CASE Recovery!Validates
  <2>1. CASE ~decision.move
    BY <1>1, <1>3, <1>4, <1>7, <2>1, DecisionFinishes
    DEF Recovery!Validates, Recovery!DecisionAt
  <2>2. CASE decision.move
    <3>1. PICK v \in Statuses : v = archived[s]
      BY DEF RecoveryInv, ArchiveOK
    <3> DEFINE d == [d0 EXCEPT !.at = "valid", !.status = v]
    <3>2. d \in Decisions /\ d.source = d0.source /\ d.at = "valid" /\ d.status = v
          /\ d.found = d0.found
      BY <1>2 DEF Decisions
    <3>3. Recovery!DecisionGoes(d) /\ decision.at = "asked"
      BY <1>2, <1>3, <1>7, <2>2, <3>1 DEF Recovery!Validates, Recovery!DecisionAt
    <3> HIDE DEF d
    <3>4. QED
      BY <1>1, <1>2, <1>3, <1>4, <3>1, <3>2, <3>3, StepsAct
  <2>3. QED
    BY <2>1, <2>2
<1>8. CASE Recovery!Looks
  <2>1. PICK f \in Targets \cup {None} : f = ledger[s]
    BY <1>5 DEF DataOK
  <2> DEFINE d == [d0 EXCEPT !.at = "looked", !.found = f]
  <2>2. d \in Decisions /\ d.source = d0.source /\ d.at = "looked" /\ d.status = d0.status
        /\ d.found = f
    BY <1>2 DEF Decisions
  <2>3. Recovery!DecisionGoes(d) /\ decision.at = "valid"
    BY <1>2, <1>3, <1>8, <2>1 DEF Recovery!Looks, Recovery!DecisionAt
  <2> HIDE DEF d
  <2>4. QED
    BY <1>1, <1>2, <1>3, <1>4, <2>1, <2>2, <2>3, StepsAct
<1>9. CASE Recovery!CountsBoth
  <2>1. decision.at = "looked" /\ decision.found = None
    BY <1>4, <1>9 DEF Recovery!CountsBoth, Recovery!DecisionAt
  <2>2. PICK w \in BOOLEAN, v \in BOOLEAN :
          /\ w = Recovery!HasRows(s) /\ v = Recovery!HasRows(decision.target)
    BY DEF Recovery!HasRows
  <2> DEFINE d == [d0 EXCEPT !.at = "counted", !.rows = w, !.taken = v]
  <2>3. d \in Decisions /\ d.source = d0.source /\ d.at = "counted" /\ d.status = d0.status
        /\ d.found = d0.found /\ d.rows = w
    BY <1>2 DEF Decisions
  <2>4. Recovery!DecisionGoes(d)
    BY <1>2, <1>3, <1>9, <2>1, <2>2 DEF Recovery!CountsBoth
  <2> HIDE DEF d
  <2>5. QED
    BY <1>1, <1>2, <1>3, <1>4, <1>5, <2>1, <2>2, <2>3, <2>4, StepsAct
<1>10. CASE Recovery!Sends
  <2>1. CASE ~decision.rows
    BY <1>1, <1>3, <1>4, <1>10, <2>1, DecisionFinishes DEF Recovery!Sends, Recovery!DecisionAt
  <2>2. CASE decision.rows
    <3> DEFINE d == [d0 EXCEPT !.at = "sent"]
    <3>1. d \in Decisions /\ d.source = d0.source /\ d.at = "sent" /\ d.status = d0.status
          /\ d.found = d0.found /\ d.rows = d0.rows
      BY <1>2 DEF Decisions
    <3>2. Recovery!DecisionGoes(d) /\ decision.at = "counted" /\ decision.status = "pending"
      BY <1>2, <1>10, <2>2 DEF Recovery!Sends, Recovery!DecisionAt
    <3> HIDE DEF d
    <3>3. QED
      BY <1>1, <1>2, <1>3, <1>4, <2>2, <3>1, <3>2, StepsAct
  <2>3. QED
    BY <2>1, <2>2
<1>11. CASE Recovery!Records
  BY <1>1, <1>3, <1>4, <1>11, DecisionFinishes DEF Recovery!Records, Recovery!DecisionAt
<1>12. QED
  BY <1>6, <1>7, <1>8, <1>9, <1>10, <1>11

(* The transaction: the only step that moves rows.                         *)
MovedOnce ==
  \A s \in Sources : ledger'[s] # ledger[s] =>
     ledger[s] = None /\ ~Recovery!HasRows(ledger'[s]) /\ archived[s] # "separate"

LEMMA CommitsAct ==
  ASSUME RecoveryInv, Recovery!Commits
  PROVE  RecoveryInv' /\ MovedOnce
<1>1. PICK d0 \in Decisions : d0 = decision /\ decision # None /\ decision.at = "sent"
  BY DEF RecoveryInv, DecisionOK, Recovery!Commits, Recovery!DecisionAt
<1>2. PICK s \in Sources, t \in Targets : s = decision.source /\ t = decision.target
  BY <1>1 DEF Decisions
<1> DEFINE d == [d0 EXCEPT !.at = "committed"]
<1>3. /\ UNCHANGED <<chosen, archived, flushed, unarchived, own, reviews, candidate>>
      /\ decision' = d
      /\ ledger[s] = None /\ ~Recovery!HasRows(t)
      /\ at' = [at EXCEPT ![s] = t] /\ ledger' = [ledger EXCEPT ![s] = t]
  BY <1>1, <1>2 DEF Recovery!Commits, Recovery!Moves
<1>4. d \in Decisions /\ d.source = s /\ d.at = "committed"
  BY <1>1, <1>2 DEF Decisions
<1> HIDE DEF d
<1>5. d # None /\ t # None /\ s # t
  BY <1>4, RecoveryAssumption
<1>6. /\ at \in [Sources -> Sources \cup Targets \cup {None}] /\ own \subseteq Targets
      /\ ledger \in [Sources -> Targets \cup {None}]
      /\ Recovery!RowsFollowLedger
  BY DEF RecoveryInv, DataOK
<1>7. /\ at' \in [Sources -> Sources \cup Targets \cup {None}]
      /\ ledger' \in [Sources -> Targets \cup {None}]
      /\ at'[s] = t /\ ledger'[s] = t
      /\ \A x \in Sources \ {s} : at'[x] = at[x] /\ ledger'[x] = ledger[x]
  BY <1>3, <1>6
<1>8. DataOK'
  BY <1>3, <1>5, <1>6, <1>7 DEF DataOK, Recovery!RowsFollowLedger
<1>9. archived[s] # "separate" /\ archived[s] # "empty" /\ at[s] = s
  BY <1>1, <1>2 DEF RecoveryInv, DecisionOK, ArchiveOK, TrueOf
<1>10. ArchiveOK'
  <2>1. flushed[s] # "separate"
    BY <1>9 DEF RecoveryInv, ArchiveOK
  <2>2. TrueOf(archived)' /\ TrueOf(flushed)'
    BY <1>3, <1>5, <1>7, <1>9, <2>1 DEF RecoveryInv, ArchiveOK, TrueOf
  <2>3. QED
    BY <1>3, <2>2 DEF RecoveryInv, ArchiveOK
<1>11. ChoiceOK'
  BY <1>3 DEF RecoveryInv, ChoiceOK
<1>12. \A x \in Sources : ~Committing(x) /\ (Committing(x)' <=> x = s)
  BY <1>1, <1>3, <1>4, <1>5 DEF Committing
<1>13. Relied
  BY <1>3, <1>5, <1>7, <1>12 DEF Relied
<1>14. ReviewsOK'
  BY <1>3, <1>13, ReviewsStay
<1>15. CandidateOK'
  BY <1>3, <1>12 DEF RecoveryInv, CandidateOK
<1>16. DecisionOK'
  <2>1. decision'.found = d0.found
    BY <1>1, <1>3 DEF d, Decisions
  <2>2. QED
    BY <1>3, <1>4, <1>5, <1>7 DEF DecisionOK
<1>17. MovedOnce
  BY <1>3, <1>7, <1>9 DEF MovedOnce
<1>18. QED
  BY <1>8, <1>10, <1>11, <1>14, <1>15, <1>16, <1>17 DEF RecoveryInv

(* What makes a match stale makes a review due.                            *)
LEMMA OffersStay ==
  ASSUME OffersOK,
         due' \/ \A n \in reviews' : n.match # None /\ n.last =>
                  n \in reviews /\ UNCHANGED <<archived, due>>
  PROVE  OffersOK'
  BY DEF OffersOK, Recovery!Pending

LEMMA OffersAct ==
  ASSUME RecoveryInv, OffersOK, Recovery!Next
  PROVE  OffersOK'
<1> USE DEF Recovery!screenVars, Recovery!dataVars
<1>1. CASE \/ Recovery!Hydrate \/ Recovery!Restart \/ Recovery!Flush
           \/ Recovery!Create \/ Recovery!Synchronise
           \/ Recovery!Close \/ Recovery!ReviewAgain
           \/ \E o \in Targets \cup {Local} : Recovery!Switch(o)
  BY <1>1, OffersStay
  DEF Recovery!Hydrate, Recovery!Restart, Recovery!Flush, Recovery!Create, Recovery!Synchronise,
      Recovery!Close, Recovery!ReviewAgain, Recovery!Switch
<1>2. CASE Recovery!Review
  <2> DEFINE new == [todo |-> Recovery!Pending, source |-> None, found |-> None,
                     rows |-> TRUE, match |-> None, target |-> chosen, last |-> TRUE]
  <2>1. /\ reviews' = {[r EXCEPT !.last = FALSE] : r \in reviews} \cup {new}
        /\ new.match = None
    BY <1>2 DEF Recovery!Review
  <2> HIDE DEF new
  <2>2. \A r \in reviews : ~[r EXCEPT !.last = FALSE].last
    BY DEF RecoveryInv, ReviewsOK, Reviews
  <2>3. QED
    BY <2>1, <2>2, OffersStay
<1>3. ASSUME NEW r \in reviews,
             \/ \E s \in Sources : Recovery!LooksUp(r, s)
             \/ Recovery!Heals(r) \/ Recovery!Counts(r) \/ Recovery!IsEmpty(r)
             \/ Recovery!Matches(r) \/ Recovery!Offers(r) \/ Recovery!Ends(r)
      PROVE  OffersOK'
  <2>1. r \in Reviews /\ ReviewOK(r)
    BY DEF RecoveryInv, ReviewsOK
  <2>2. CASE Recovery!Heals(r) \/ Recovery!IsEmpty(r)
    BY <2>2, OffersStay DEF Recovery!Heals, Recovery!IsEmpty, Recovery!Finish
  <2>3. CASE Recovery!Offers(r) \/ Recovery!Ends(r)
    BY <2>3, OffersStay DEF Recovery!Offers, Recovery!Ends, Recovery!Goes
  <2>4. ASSUME NEW n \in Reviews, Recovery!Goes(r, {n}), UNCHANGED <<archived, due>>,
               n.match = None \/ n.match \in Recovery!Pending
        PROVE  OffersOK'
    BY <2>4 DEF OffersOK, Recovery!Goes, Recovery!Pending
  <2>5. CASE Recovery!Counts(r)
    <3>1. r.match = None /\ UNCHANGED <<archived, due>>
      BY <2>1, <2>5 DEF Recovery!Counts, ReviewOK
    <3>2. /\ Recovery!Through(r) \in Reviews /\ Recovery!Through(r).match = None
          /\ [r EXCEPT !.rows = FALSE] \in Reviews
          /\ [r EXCEPT !.rows = FALSE].match = None
      BY <2>1, <3>1 DEF Recovery!Through, Reviews
    <3>3. \/ Recovery!Goes(r, {Recovery!Through(r)})
          \/ Recovery!Goes(r, {[r EXCEPT !.rows = FALSE]})
      BY <2>5 DEF Recovery!Counts
    <3>4. QED
      BY <2>4, <3>1, <3>2, <3>3
  <2>6. ASSUME NEW s \in Sources, Recovery!LooksUp(r, s) PROVE OffersOK'
    <3>1. PICK f \in Targets \cup {None} : f = ledger[s]
      BY DEF RecoveryInv, DataOK
    <3>2. r.match = None /\ UNCHANGED <<archived, due>>
          /\ Recovery!Goes(r, {[r EXCEPT !.source = s, !.found = f]})
      BY <2>1, <2>6, <3>1 DEF Recovery!LooksUp, ReviewOK
    <3>3. /\ [r EXCEPT !.source = s, !.found = f] \in Reviews
          /\ [r EXCEPT !.source = s, !.found = f].match = None
      BY <2>1, <3>2 DEF Reviews
    <3>4. QED
      BY <2>4, <3>2, <3>3
  <2>7. CASE Recovery!Matches(r)
    <3>1. PICK s \in Recovery!Pending : Recovery!Goes(r, {[r EXCEPT !.match = s]})
      BY <2>7 DEF Recovery!Matches
    <3>2. /\ [r EXCEPT !.match = s] \in Reviews /\ [r EXCEPT !.match = s].match = s
          /\ UNCHANGED <<archived, due>>
      BY <2>1, <2>7 DEF Reviews, Recovery!Pending, Recovery!Matches
    <3>3. QED
      BY <2>4, <3>1, <3>2
  <2>8. QED
    BY <1>3, <2>2, <2>3, <2>5, <2>6, <2>7
<1>4. ASSUME NEW move \in BOOLEAN, Recovery!Decide(move) PROVE OffersOK'
  BY <1>4, OffersStay DEF Recovery!Decide
<1>5. CASE \/ Recovery!GivesUp \/ Recovery!Validates \/ Recovery!Looks
           \/ Recovery!CountsBoth \/ Recovery!Sends \/ Recovery!Commits \/ Recovery!Records
  <2>1. reviews' = reviews /\ (due' \/ UNCHANGED <<archived, due>>)
    BY <1>5
    DEF Recovery!GivesUp, Recovery!Validates, Recovery!Looks, Recovery!CountsBoth,
        Recovery!Sends, Recovery!Commits, Recovery!Records, Recovery!Finish,
        Recovery!DecisionEnds, Recovery!DecisionFails, Recovery!DecisionGoes
  <2>2. QED
    BY <2>1, OffersStay
<1>6. QED
  BY <1>1, <1>2, <1>3, <1>4, <1>5 DEF Recovery!Next

LEMMA RecoveryActs ==
  ASSUME RecoveryInv, OffersOK, Recovery!Next
  PROVE  RecoveryInv' /\ MovedOnce
<1>1. CASE Recovery!Commits
  BY <1>1, CommitsAct
<1>2. ASSUME RecoveryInv', UNCHANGED ledger PROVE RecoveryInv' /\ MovedOnce
  BY <1>2 DEF MovedOnce
<1>3. CASE \/ \E o \in Targets \cup {Local} : Recovery!Switch(o)
           \/ Recovery!Create \/ Recovery!Synchronise \/ Recovery!Flush
           \/ Recovery!Close \/ Recovery!ReviewAgain
  BY <1>2, <1>3, SurroundingsAct
<1>4. CASE Recovery!Hydrate \/ Recovery!Restart
  BY <1>2, <1>4, StartsAct
<1>5. CASE Recovery!Review
  BY <1>2, <1>5, ReviewAct
<1>6. ASSUME NEW r \in reviews,
             \/ \E s \in Sources : Recovery!LooksUp(r, s)
             \/ Recovery!Heals(r) \/ Recovery!Counts(r) \/ Recovery!IsEmpty(r)
             \/ Recovery!Matches(r) \/ Recovery!Offers(r) \/ Recovery!Ends(r)
      PROVE  RecoveryInv' /\ MovedOnce
  BY <1>2, <1>6, ReviewsAct
<1>7. ASSUME NEW move \in BOOLEAN, Recovery!Decide(move) PROVE RecoveryInv' /\ MovedOnce
  BY <1>2, <1>7, DecideAct
<1>8. CASE \/ Recovery!GivesUp \/ Recovery!Validates \/ Recovery!Looks
           \/ Recovery!CountsBoth \/ Recovery!Sends \/ Recovery!Records
  BY <1>2, <1>8, DecisionActs
<1>9. QED
  BY <1>1, <1>3, <1>4, <1>5, <1>6, <1>7, <1>8 DEF Recovery!Next

-----------------------------------------------------------------------------
(* The client: a step is of one part, and leaves the others *)

LEMMA LeaseStutters ==
  ASSUME LeaseInv, listed \subseteq Accounts, UNCHANGED leaseState
  PROVE  LeaseInv' /\ listed' \subseteq Accounts /\ UNCHANGED Lease!vars
<1>1. UNCHANGED Lease!vars
  BY DEF leaseState, Lease!vars
<1>2. UNCHANGED <<listed, inUse, tokens, lease, context, mounted, leaseError, run, tasks>>
  BY DEF leaseState
<1>3. LeaseInv'
  BY <1>2, LeaseStays DEF LeaseInv, LeaseTypeOK, RunOK, Lease!NotLeftWaiting
<1>4. QED
  BY <1>1, <1>2, <1>3

LEMMA RecoveryStutters ==
  ASSUME RecoveryInv, OffersOK, UNCHANGED recoveryState
  PROVE  RecoveryInv' /\ OffersOK' /\ UNCHANGED Recovery!vars
<1>1. UNCHANGED Recovery!vars
  BY DEF recoveryState, Recovery!vars
<1>2. UNCHANGED <<chosen, archived, flushed, unarchived, at, own, ledger, reviews,
                  candidate, decision>>
  BY DEF recoveryState
<1>3. DataOK' /\ ArchiveOK' /\ CandidateOK' /\ DecisionOK'
  BY <1>2, DataStays, ArchiveStays, CandidateStays, DecisionStays
<1>4. ReviewsOK'
  BY <1>2, NothingRelied, ReviewsStay
<1>5. ChoiceOK'
  BY <1>2 DEF RecoveryInv, ChoiceOK
<1>6. OffersOK'
  BY OffersStay DEF recoveryState
<1>7. QED
  BY <1>1, <1>3, <1>4, <1>5, <1>6 DEF RecoveryInv

LEMMA OnePartActs ==
  ASSUME [ClientNext]_allVars
  PROVE  /\ [Next]_vars
         /\ Plans!Next \/ UNCHANGED plansState
         /\ Lease!Next \/ UNCHANGED leaseState
         /\ Recovery!Next \/ UNCHANGED recoveryState
<1>1. CASE ClientNext
  BY <1>1 DEF ClientNext
<1>2. CASE UNCHANGED allVars
  BY <1>2 DEF allVars
<1>3. QED
  BY <1>1, <1>2

(* AccountsSpec: a client implements AccountList.  Between any two awaits   *)
(* of any calls an account is listed by a sign-in only, and the one in use  *)
(* changes only as the user asks (saveStoredAuthState, addOrUpdateAccount,  *)
(* removeAccount and the handlers that write the list).                     *)
THEOREM AccountsImplementList == ClientSpec => AccountsSpec
<1>1. ClientInit => ListInv /\ List!Init
  BY ListStarts DEF ClientInit
<1>2. ListInv /\ [ClientNext]_allVars => ListInv' /\ [List!Next]_(List!vars)
  BY OnePartActs, StepIsPromised, ListStutters DEF Promised, List!vars
<1>3. QED
  BY <1>1, <1>2, PTL DEF ClientSpec, AccountsSpec, List!Spec

(* ProviderStays: an account of the new sign-in becomes one of the former   *)
(* again only where a removal writes back an old list, whatever refresh of  *)
(* the former sign-in answers late (refreshAccessTokenForAccount).          *)
THEOREM ProvidersStay == ClientSpec => ProviderStays
<1>1. ClientInit => ListInv
  BY ListStarts DEF ClientInit
<1>2. ListInv /\ [ClientNext]_allVars => ListInv' /\ [ProviderKept]_vars
  BY OnePartActs, StepIsPromised, ListStutters DEF Promised
<1>3. QED
  BY <1>1, <1>2, PTL DEF ClientSpec, ProviderStays, ProviderKept

(* CredentialsAreKept: whatever calls of sign-in, refresh, sign-out and     *)
(* removal are suspended, once none is about an account and none of its     *)
(* clean-ups failed, a token in the native store is of an account to be     *)
(* remembered, but where a refused sign-in or the emptied list left it; and *)
(* on the desktop it is the one the provider gave last (supabaseCloudAuth,  *)
(* cloudAuth, supabaseTokenStorage).                                        *)
THEOREM CredentialsStayKept == ClientSpec => []CredentialsAreKept
<1>1. ClientInit => ListInv /\ CredInv
  BY ListStarts, CredStarts DEF ClientInit
<1>2. ListInv /\ CredInv /\ [ClientNext]_allVars => ListInv' /\ CredInv'
  BY OnePartActs, StepIsPromised, ListStutters, CredKept DEF Promised
<1>3. CredInv => CredentialsAreKept
  BY CredFollows
<1>4. QED
  BY <1>1, <1>2, <1>3, PTL DEF ClientSpec

(* PlansAreCurrent: the phone shows Premium only while a licence signed for *)
(* that account is good, nothing is kept of an account this device learnt   *)
(* is deleted, and an answer that was overtaken changes nothing             *)
(* (loadEntitlements, forgetAccountEntitlements).                           *)
THEOREM PlansStayCurrent == ClientSpec => PlansAreCurrent
<1>1. ClientInit => PlansInv
  BY PlansStart DEF ClientInit
<1>2. PlansInv /\ [ClientNext]_allVars => PlansInv' /\ [NewestStays]_(Plans!vars)
  BY OnePartActs, PlansAct, PlansStutter
<1>3. PlansInv => Plans!PremiumIsLicensed /\ Plans!DeletedIsForgotten
  BY PremiumFollows DEF PlansInv
<1>4. QED
  BY <1>1, <1>2, <1>3, PTL
  DEF ClientSpec, PlansAreCurrent, Plans!NewestAnswerStays, NewestStays

(* DataFollowAccount: on the phone nothing is written or shown for a page   *)
(* opened before the account last changed, the phone recovers its data, an  *)
(* account is removed only while its token is gone (MobileAccountProvider); *)
(* and the rows of a former account are moved once, into an account without *)
(* rows, unless they were kept apart (mobileAccountRecovery.ts).            *)
THEOREM DataFollowAccounts == ClientSpec => DataFollowAccount
<1> DEFINE LeaseAll == LeaseInv /\ listed \subseteq Accounts
           LeaseStep == Lease!DoneUnderOneAccount' /\ Lease!NotLeftWaiting' /\ Lease!RemovesTheAbsent
           RecoveryStep == Recovery!RowsFollowLedger' /\ Recovery!StatusIsTrue' /\ MovedOnce
<1>1. ClientSpec => Lease!LeaseIsKept
  <2>1. ClientInit => LeaseAll
    BY LeaseStarts DEF ClientInit, Lease!Init
  <2>2. LeaseAll /\ [ClientNext]_allVars => LeaseAll' /\ [LeaseStep]_(Lease!vars)
    <3>1. LeaseInv' => Lease!DoneUnderOneAccount' /\ Lease!NotLeftWaiting'
      BY DEF LeaseInv, WorksOK, Lease!DoneUnderOneAccount
    <3>2. QED
      BY <3>1, OnePartActs, LeaseActs, ListedStays, LeaseStutters
  <2> HIDE DEF LeaseAll
  <2>3. QED
    BY <2>1, <2>2, PTL DEF ClientSpec, Lease!LeaseIsKept
<1>2. ClientSpec => Recovery!RecoveredOnce
  <2>1. ClientInit => RecoveryInv /\ OffersOK
    BY RecoveryStarts DEF ClientInit
  <2>2. RecoveryInv /\ OffersOK /\ [ClientNext]_allVars =>
          RecoveryInv' /\ OffersOK' /\ [RecoveryStep]_(Recovery!vars)
    <3>1. RecoveryInv' => Recovery!RowsFollowLedger' /\ Recovery!StatusIsTrue'
      BY DEF RecoveryInv, DataOK, ArchiveOK, TrueOf, Recovery!StatusIsTrue
    <3>2. QED
      BY <3>1, OnePartActs, RecoveryActs, OffersAct, RecoveryStutters
  <2>3. QED
    BY <2>1, <2>2, PTL DEF ClientSpec, Recovery!RecoveredOnce, MovedOnce
<1>3. QED
  BY <1>1, <1>2 DEF DataFollowAccount
=============================================================================
