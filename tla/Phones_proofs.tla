---------------------------- MODULE Phones_proofs ----------------------------
(***************************************************************************)
(* Proofs about what a phone keeps beside the rows it synchronises: a      *)
(* scheduled payment is charged once and its series goes on                *)
(* (PhonePlanning), and a tap on a tile opens its form once (QuickEntry),  *)
(* for any forms, rows, calls and taps, however the calls interleave and   *)
(* the program dies.                                                       *)
(***************************************************************************)
EXTENDS MCPhones, TLAPS

-----------------------------------------------------------------------------
(* PhonePlanning: its calendar *)

LEMMA DaysAre ==
  ASSUME NEW m \in Nat \ {0}
  PROVE  Planning!DaysIn(m) \in 28 .. 31
  BY DEF Planning!DaysIn

LEMMA MonthsOnIs ==
  ASSUME NEW due \in Planning!Dates, NEW n \in {1, 12}
  PROVE  LET next == Planning!MonthsOn(due, n)
         IN  /\ next \in Planning!Dates /\ next.month = due.month + n
             /\ next.day \in 1 .. Planning!DaysIn(next.month) /\ Planning!SameDay(due, next)
<1> DEFINE month == due.month + n
           days == Planning!DaysIn(month)
<1>1. due.month \in Nat \ {0} /\ due.day \in 1 .. 31
  BY DEF Planning!Dates
<1>2. month \in Nat \ {0} /\ days \in 28 .. 31
  BY <1>1, DaysAre
<1> HIDE DEF month, days
<1>3. Planning!Least(due.day, days) \in 1 .. days /\ Planning!Least(due.day, days) \in 1 .. 31
  BY <1>1, <1>2 DEF Planning!Least
<1>4. \A day \in 1 .. days : day <= due.day <=> day <= Planning!Least(due.day, days)
  BY <1>1, <1>2 DEF Planning!Least
<1>5. Planning!MonthsOn(due, n) = [month |-> month, day |-> Planning!Least(due.day, days)]
  BY DEF Planning!MonthsOn, month, days
<1>6. QED
  BY <1>2, <1>3, <1>4, <1>5 DEF Planning!Dates, Planning!SameDay, days, month

LEMMA WeekOnIs ==
  ASSUME NEW due \in Planning!Dates
  PROVE  LET next == Planning!WeekOn(due)
         IN  /\ next \in Planning!Dates /\ next.month \in {due.month, due.month + 1}
             /\ next.day \in 1 .. Planning!DaysIn(next.month) /\ Planning!Apart(due, next) = 7
<1> DEFINE next == Planning!WeekOn(due)
<1>1. /\ due.month \in Nat \ {0} /\ due.day \in 1 .. 31
      /\ due.day <= Planning!DaysIn(due.month) /\ due.month + 1 \in Nat \ {0}
      /\ due.month + 1 # due.month
  BY DEF Planning!Dates
<1>2. Planning!DaysIn(due.month) \in 28 .. 31 /\ Planning!DaysIn(due.month + 1) \in 28 .. 31
  BY <1>1, DaysAre
<1>3. CASE due.day + 7 <= Planning!DaysIn(due.month)
  <2>1. next = [month |-> due.month, day |-> due.day + 7]
    BY <1>3 DEF Planning!WeekOn, Planning!Dates
  <2>2. due.day + 7 \in 1 .. Planning!DaysIn(due.month) /\ due.day + 7 \in 1 .. 31
    BY <1>1, <1>2, <1>3
  <2> HIDE DEF next
  <2>3. Planning!Apart(due, next) = 7
    BY <1>1, <2>1 DEF Planning!Apart
  <2>4. next \in Planning!Dates
    BY <1>1, <2>1, <2>2 DEF Planning!Dates
  <2>5. QED
    BY <2>1, <2>2, <2>3, <2>4 DEF next
<1>4. CASE ~(due.day + 7 <= Planning!DaysIn(due.month))
  <2> DEFINE day == due.day + 7 - Planning!DaysIn(due.month)
  <2>1. next = [month |-> due.month + 1, day |-> day]
    BY <1>4 DEF Planning!WeekOn
  <2>2. /\ day \in 1 .. Planning!DaysIn(due.month + 1) /\ day \in 1 .. 31
        /\ Planning!DaysIn(due.month) - due.day + day = 7
    BY <1>1, <1>2, <1>4
  <2> HIDE DEF next, day
  <2>3. Planning!Apart(due, next) = 7
    BY <1>1, <2>1, <2>2 DEF Planning!Apart
  <2>4. next \in Planning!Dates
    BY <1>1, <2>1, <2>2 DEF Planning!Dates
  <2>5. QED
    BY <2>1, <2>2, <2>3, <2>4 DEF next
<1>5. QED
  BY <1>3, <1>4

(* The date that the statement computes is a real one, and comes in turn.  *)
LEMMA NextIsInTurn ==
  ASSUME NEW due \in Planning!Dates, NEW frequency \in Planning!Frequencies
  PROVE  /\ Planning!NextDue(due, frequency) \in Planning!Dates
         /\ Planning!InTurn(due, Planning!NextDue(due, frequency), frequency)
<1>1. CASE frequency = "semanal"
  BY <1>1, WeekOnIs DEF Planning!NextDue, Planning!InTurn
<1>2. CASE frequency = "mensual"
  BY <1>2, MonthsOnIs DEF Planning!NextDue, Planning!InTurn
<1>3. CASE frequency = "anual"
  BY <1>3, MonthsOnIs DEF Planning!NextDue, Planning!InTurn
<1>4. QED
  BY <1>1, <1>2, <1>3 DEF Planning!Frequencies

-----------------------------------------------------------------------------
(* PhonePlanning: its rows *)

PlanRows == [category : PlanCategories, what : {form.what : form \in Forms},
             due : Planning!Dates, frequency : Planning!Frequencies \cup {"none"},
             state : Planning!States, live : BOOLEAN, made : BOOLEAN]
Counts == [1 .. MaxRows -> Nat]

PlanningTypeOK ==
  /\ rows \in Seq(PlanRows) /\ Len(rows) <= MaxRows
  /\ registered \in Counts /\ reopened \in Counts
  /\ settled \subseteq DOMAIN rows
  /\ paying \in [Payers -> Nat]
  /\ saved \in BOOLEAN

(* A payment is paid as often as it was taken back, and once more while it  *)
(* is paid; none was taken back or charged before it was made.              *)
PaidOnce ==
  /\ \A i \in DOMAIN rows :
       registered[i] <= reopened[i] + IF rows[i].state = "pagado" THEN 1 ELSE 0
  /\ \A i \in 1 .. MaxRows : i > Len(rows) => registered[i] = 0

PlanningInv ==
  PlanningTypeOK /\ PaidOnce /\ Planning!SeriesGoOn /\ Planning!NoTwins /\ Planning!NothingHangs

LEMMA PlanningStarts == ASSUME Planning!Init PROVE PlanningInv
<1>1. rows = <<>> /\ rows \in Seq(PlanRows) /\ Len(rows) = 0 /\ DOMAIN rows = {} /\ Planning!Ids = {}
  BY DEF Planning!Init, Planning!Ids
<1>2. PlanningTypeOK
  <2>1. /\ registered = [i \in 1 .. MaxRows |-> 0] /\ reopened = [i \in 1 .. MaxRows |-> 0]
        /\ paying = [c \in Payers |-> 0] /\ saved \in BOOLEAN /\ settled = {}
    BY DEF Planning!Init
  <2>2. QED
    BY <1>1, <2>1, PartsAssumption DEF PlanningTypeOK, Counts
<1>3. PaidOnce
  BY <1>1 DEF Planning!Init, PaidOnce
<1>4. Planning!SeriesGoOn /\ Planning!NoTwins /\ Planning!NothingHangs
  BY <1>1 DEF Planning!Init, Planning!SeriesGoOn, Planning!NoTwins, Planning!NothingHangs
<1>5. QED
  BY <1>2, <1>3, <1>4 DEF PlanningInv

LEMMA IdsAreRows ==
  ASSUME PlanningTypeOK
  PROVE  /\ Planning!Ids = DOMAIN rows /\ Planning!Ids \subseteq 1 .. MaxRows
         /\ Len(rows) \in Nat /\ \A i \in Planning!Ids : rows[i] \in PlanRows
  BY PartsAssumption DEF PlanningTypeOK, Planning!Ids

LEMMA PlanningIsSound ==
  ASSUME PlanningInv
  PROVE  Planning!PlanningIsExact
<1>1. ASSUME NEW i \in Planning!Ids PROVE registered[i] <= reopened[i] + 1
  <2>1. registered[i] \in Nat /\ reopened[i] \in Nat /\ i \in DOMAIN rows
    BY IdsAreRows DEF PlanningInv, PlanningTypeOK, Counts
  <2>2. QED
    BY <2>1 DEF PlanningInv, PaidOnce
<1>2. QED
  BY <1>1 DEF PlanningInv, Planning!PlanningIsExact, Planning!ChargedOnce

(* Two rows of one place in a series, and a generated row that is due.      *)
Alike(new, old) ==
  /\ new.category = old.category /\ new.what = old.what /\ new.due = old.due
  /\ new.frequency = old.frequency
MadeAndDue(row) == row.made /\ row.live /\ row.state = "pendiente"

(* A step under which what was settled stays where it was, as does what     *)
(* follows it.                                                              *)
LEMMA SeriesKept ==
  ASSUME PlanningInv, NEW k \in settled,
         rows' \in Seq(PlanRows), DOMAIN rows \subseteq DOMAIN rows', Alike(rows'[k], rows[k]),
         \A j \in DOMAIN rows : Planning!Follows(j, k) => Alike(rows'[j], rows[j]),
         rows'[k].frequency # "none"
  PROVE  \E j \in Planning!Ids' : Planning!Follows(j, k)'
<1>1. PICK j \in DOMAIN rows : Planning!Follows(j, k)
  BY IdsAreRows DEF PlanningInv, Planning!SeriesGoOn, Alike
<1>2. j \in Planning!Ids'
  BY <1>1 DEF Planning!Ids
<1>3. Planning!Follows(j, k)'
  BY <1>1 DEF Planning!Follows, Alike
<1>4. QED
  BY <1>2, <1>3

(* A step that makes no generated payment due.                              *)
LEMMA TwinsKept ==
  ASSUME PlanningInv, rows' \in Seq(PlanRows),
         \A k \in DOMAIN rows' : MadeAndDue(rows'[k]) =>
            k \in DOMAIN rows /\ MadeAndDue(rows[k]) /\ Alike(rows'[k], rows[k])
  PROVE  Planning!NoTwins'
<1>1. Planning!Ids = DOMAIN rows /\ Planning!Ids' = DOMAIN rows'
  BY IdsAreRows DEF PlanningInv, Planning!Ids
<1>2. ASSUME NEW i \in DOMAIN rows', NEW j \in DOMAIN rows', i # j,
             MadeAndDue(rows'[i]), MadeAndDue(rows'[j])
      PROVE  \/ rows'[i].category # rows'[j].category
             \/ rows'[i].what # rows'[j].what
             \/ rows'[i].due # rows'[j].due
  BY <1>1, <1>2 DEF PlanningInv, Planning!NoTwins, MadeAndDue, Alike
<1>3. QED
  BY <1>1, <1>2 DEF Planning!NoTwins, MadeAndDue

(* One row changes in what does not place it in its series.                *)
LEMMA RowChanges ==
  ASSUME PlanningInv, NEW i \in DOMAIN rows, NEW row \in PlanRows,
         Alike(row, rows[i]), MadeAndDue(row) => MadeAndDue(rows[i]),
         rows' = [rows EXCEPT ![i] = row]
  PROVE  /\ rows' \in Seq(PlanRows) /\ Len(rows') = Len(rows) /\ DOMAIN rows' = DOMAIN rows
         /\ rows'[i] = row /\ \A k \in DOMAIN rows \ {i} : rows'[k] = rows[k]
         /\ \A k \in DOMAIN rows : Alike(rows'[k], rows[k])
         /\ Planning!NoTwins'
<1>1. /\ rows' \in Seq(PlanRows) /\ Len(rows') = Len(rows) /\ DOMAIN rows' = DOMAIN rows
      /\ rows'[i] = row /\ \A k \in DOMAIN rows \ {i} : rows'[k] = rows[k]
  BY DEF PlanningInv, PlanningTypeOK
<1>2. \A k \in DOMAIN rows : Alike(rows'[k], rows[k])
  BY <1>1 DEF Alike
<1>3. \A k \in DOMAIN rows' : MadeAndDue(rows'[k]) => MadeAndDue(rows[k])
  BY <1>1
<1>4. QED
  BY <1>1, <1>2, <1>3, TwinsKept

LEMMA Schedules ==
  ASSUME PlanningInv, NEW c \in PlanCategories, NEW form \in Forms,
         NEW state \in Planning!States, Planning!Schedule(c, form, state)
  PROVE  PlanningInv'
<1> DEFINE row == Planning!Row(c, form, state, FALSE)
           n == Len(rows) + 1
<1>1. row \in PlanRows /\ ~row.made /\ row.category = c
  BY PartsAssumption DEF Planning!Row, PlanRows
<1>2. /\ c \in categories /\ Len(rows) < MaxRows /\ rows' = Append(rows, row)
      /\ UNCHANGED <<categories, registered, charged, reopened, settled, paying, budgets, fixed,
                     goal, saved>>
  BY DEF Planning!Schedule, Planning!AddRow, Planning!paid, Planning!others
<1> HIDE DEF row
<1>3. rows \in Seq(PlanRows) /\ Len(rows) \in Nat /\ DOMAIN rows = 1 .. Len(rows)
  BY DEF PlanningInv, PlanningTypeOK
<1>4. /\ rows' \in Seq(PlanRows) /\ Len(rows') = n /\ Len(rows') <= MaxRows
      /\ DOMAIN rows' = DOMAIN rows \cup {n}
      /\ rows'[n] = row /\ \A k \in DOMAIN rows : rows'[k] = rows[k]
  BY <1>1, <1>2, <1>3, PartsAssumption
<1>5. PlanningTypeOK'
  BY <1>2, <1>4 DEF PlanningInv, PlanningTypeOK
<1>6. n \in 1 .. MaxRows
  BY <1>2, <1>3, PartsAssumption
<1> HIDE DEF n
<1>7. PaidOnce'
  <2>1. n > Len(rows)
    BY <1>3 DEF n
  <2>2. registered[n] = 0 /\ reopened[n] \in Nat
    BY <1>6, <2>1 DEF PlanningInv, PlanningTypeOK, PaidOnce, Counts
  <2>3. \A k \in 1 .. MaxRows : k > n => k > Len(rows)
    BY <1>3 DEF n
  <2>4. \A k \in DOMAIN rows : registered[k] <= reopened[k] + IF rows[k].state = "pagado" THEN 1 ELSE 0
    BY DEF PlanningInv, PaidOnce
  <2>5. 0 <= reopened[n] + IF rows'[n].state = "pagado" THEN 1 ELSE 0
    BY <2>2
  <2>6. QED
    BY <1>2, <1>4, <2>2, <2>3, <2>4, <2>5 DEF PlanningInv, PaidOnce
<1>8. Planning!SeriesGoOn'
  <2>1. settled \subseteq DOMAIN rows /\ \A k \in DOMAIN rows : Alike(rows'[k], rows[k])
    BY <1>4 DEF PlanningInv, PlanningTypeOK, Alike
  <2>2. ASSUME NEW k \in settled, rows'[k].frequency # "none"
        PROVE  \E j \in Planning!Ids' : Planning!Follows(j, k)'
    BY <1>4, <2>1, <2>2, SeriesKept
  <2>3. QED
    BY <1>2, <2>2 DEF Planning!SeriesGoOn
<1>9. Planning!NoTwins'
  <2>1. \A k \in DOMAIN rows' : MadeAndDue(rows'[k]) => k \in DOMAIN rows
    BY <1>1, <1>4 DEF MadeAndDue
  <2>2. QED
    BY <1>4, <2>1, TwinsKept DEF Alike
<1>10. Planning!NothingHangs'
  BY <1>1, <1>2, <1>4, <1>5, IdsAreRows DEF PlanningInv, Planning!NothingHangs, Planning!Ids
<1>11. QED
  BY <1>5, <1>7, <1>8, <1>9, <1>10 DEF PlanningInv

(* The count of one row, when it is rewritten.                             *)
LEMMA CountsKept ==
  ASSUME PlanningInv, NEW i \in DOMAIN rows, NEW row \in PlanRows,
         rows' \in Seq(PlanRows), Len(rows') = Len(rows), DOMAIN rows' = DOMAIN rows,
         rows'[i] = row, \A k \in DOMAIN rows \ {i} : rows'[k] = rows[k],
         row.live => row.category \in categories,
         UNCHANGED <<categories, budgets, fixed, goal, saved>>,
         registered' \in Counts, reopened' \in Counts, paying' \in [Payers -> Nat],
         settled' \subseteq DOMAIN rows,
         registered'[i] <= reopened'[i] + IF row.state = "pagado" THEN 1 ELSE 0,
         \A k \in (1 .. MaxRows) \ {i} : registered'[k] = registered[k] /\ reopened'[k] = reopened[k]
  PROVE  PlanningTypeOK' /\ PaidOnce' /\ Planning!NothingHangs'
<1>1. PlanningTypeOK'
  BY DEF PlanningInv, PlanningTypeOK
<1>2. DOMAIN rows = 1 .. Len(rows) /\ DOMAIN rows \subseteq 1 .. MaxRows
  BY IdsAreRows DEF PlanningInv, Planning!Ids
<1>3. PaidOnce'
  <2>1. ASSUME NEW k \in DOMAIN rows
        PROVE  registered'[k] <= reopened'[k] + IF rows'[k].state = "pagado" THEN 1 ELSE 0
    <3>1. CASE k = i
      BY <3>1
    <3>2. CASE k # i
      <4>1. /\ rows'[k] = rows[k] /\ registered'[k] = registered[k]
            /\ reopened'[k] = reopened[k]
        BY <1>2, <3>2
      <4>2. QED
        BY <4>1 DEF PlanningInv, PaidOnce
    <3>3. QED
      BY <3>1, <3>2
  <2>2. ASSUME NEW k \in 1 .. MaxRows, k > Len(rows') PROVE registered'[k] = 0
    <3>1. k # i
      BY <1>2, <2>2, IdsAreRows DEF PlanningInv
    <3>2. QED
      BY <2>2, <3>1 DEF PlanningInv, PaidOnce
  <2>3. QED
    BY <2>1, <2>2 DEF PaidOnce
<1>4. Planning!NothingHangs'
  BY <1>1, IdsAreRows DEF PlanningInv, Planning!NothingHangs, Planning!Ids
<1>5. QED
  BY <1>1, <1>3, <1>4

(* A row is rewritten where it is in its series, and its count with it.    *)
LEMMA RowIsRewritten ==
  ASSUME PlanningInv, NEW i \in DOMAIN rows, NEW row \in PlanRows,
         Alike(row, rows[i]), MadeAndDue(row) => MadeAndDue(rows[i]),
         rows' = [rows EXCEPT ![i] = row],
         row.live => row.category \in categories,
         UNCHANGED <<categories, budgets, fixed, goal, saved>>,
         registered' \in Counts, reopened' = reopened, paying' \in [Payers -> Nat],
         \/ settled' = settled
         \/ settled' = settled \cup {i} /\ \E j \in DOMAIN rows :
              row.frequency # "none" => Planning!Follows(j, i),
         registered'[i] <= reopened'[i] + IF row.state = "pagado" THEN 1 ELSE 0,
         \A k \in (1 .. MaxRows) \ {i} : registered'[k] = registered[k]
  PROVE  PlanningInv'
<1>1. /\ rows' \in Seq(PlanRows) /\ Len(rows') = Len(rows) /\ DOMAIN rows' = DOMAIN rows
      /\ rows'[i] = row /\ \A k \in DOMAIN rows \ {i} : rows'[k] = rows[k]
      /\ \A k \in DOMAIN rows : Alike(rows'[k], rows[k])
      /\ Planning!NoTwins'
  BY RowChanges
<1>2. settled \subseteq DOMAIN rows /\ settled' \subseteq DOMAIN rows /\ reopened' \in Counts
  BY DEF PlanningInv, PlanningTypeOK
<1>3. PlanningTypeOK' /\ PaidOnce' /\ Planning!NothingHangs'
  BY <1>1, <1>2, CountsKept
<1>4. ASSUME NEW k \in settled', rows'[k].frequency # "none"
      PROVE  \E j \in Planning!Ids' : Planning!Follows(j, k)'
  <2>1. CASE k \in settled
    BY <1>1, <1>2, <1>4, <2>1, SeriesKept
  <2>2. CASE k \notin settled
    <3>1. PICK j \in DOMAIN rows : k = i /\ Planning!Follows(j, i)
      BY <1>1, <1>4, <2>2
    <3>2. j \in Planning!Ids' /\ Planning!Follows(j, k)'
      BY <1>1, <3>1 DEF Planning!Ids, Planning!Follows, Alike
    <3>3. QED
      BY <3>2
  <2>3. QED
    BY <2>1, <2>2
<1>5. Planning!SeriesGoOn'
  BY <1>4 DEF Planning!SeriesGoOn
<1>6. QED
  BY <1>1, <1>3, <1>5 DEF PlanningInv

LEMMA Reschedules ==
  ASSUME PlanningInv, NEW i \in Planning!Ids, NEW c \in PlanCategories, NEW form \in Forms,
         NEW state \in Planning!States, Planning!Reschedule(i, c, form, state)
  PROVE  PlanningInv'
<1>1. /\ i \in DOMAIN rows /\ i \in 1 .. MaxRows /\ rows[i] \in PlanRows
      /\ rows \in Seq(PlanRows)
  BY IdsAreRows DEF PlanningInv, PlanningTypeOK
<1> DEFINE row == Planning!Row(c, form, state, FALSE)
<1>2. row \in PlanRows /\ ~row.made /\ row.category = c /\ row.state = state
  BY PartsAssumption DEF Planning!Row, PlanRows
<1> HIDE DEF row
<1>3. /\ rows' \in Seq(PlanRows) /\ Len(rows') = Len(rows) /\ DOMAIN rows' = DOMAIN rows
      /\ rows'[i] = row /\ \A k \in DOMAIN rows \ {i} : rows'[k] = rows[k]
  <2>1. rows' = [rows EXCEPT ![i] = row]
    BY DEF Planning!Reschedule, row
  <2>2. QED
    BY <1>1, <1>2, <2>1
<1>4. /\ c \in categories
      /\ UNCHANGED <<categories, registered, charged, paying, budgets, fixed, goal, saved>>
      /\ reopened' = IF rows[i].state = "pagado" /\ state # "pagado"
                     THEN [reopened EXCEPT ![i] = @ + 1] ELSE reopened
      /\ settled' = {k \in settled : k # i /\ ~Planning!Follows(i, k)}
  BY DEF Planning!Reschedule, Planning!others
<1>5. /\ reopened' \in Counts /\ registered' \in Counts /\ paying' \in [Payers -> Nat]
      /\ \A k \in (1 .. MaxRows) \ {i} : reopened'[k] = reopened[k]
      /\ reopened'[i] = reopened[i] + IF rows[i].state = "pagado" /\ state # "pagado" THEN 1 ELSE 0
      /\ reopened[i] \in Nat /\ registered[i] \in Nat
  BY <1>1, <1>4 DEF PlanningInv, PlanningTypeOK, Counts
<1>6. registered[i] <= reopened[i] + IF rows[i].state = "pagado" THEN 1 ELSE 0
  BY <1>1 DEF PlanningInv, PaidOnce
<1>7. registered'[i] <= reopened'[i] + IF row.state = "pagado" THEN 1 ELSE 0
  BY <1>2, <1>4, <1>5, <1>6
<1>8. settled \subseteq DOMAIN rows /\ settled' \subseteq DOMAIN rows
  BY <1>4 DEF PlanningInv, PlanningTypeOK
<1>9. PlanningTypeOK' /\ PaidOnce' /\ Planning!NothingHangs'
  BY <1>1, <1>2, <1>3, <1>4, <1>5, <1>7, <1>8, CountsKept
<1>10. Planning!SeriesGoOn'
  <2>1. ASSUME NEW k \in settled', rows'[k].frequency # "none"
        PROVE  \E j \in Planning!Ids' : Planning!Follows(j, k)'
    <3>1. k \in settled /\ k # i /\ ~Planning!Follows(i, k) /\ k \in DOMAIN rows
      BY <1>4, <1>8, <2>1
    <3>2. \A j \in DOMAIN rows : j # i => Alike(rows'[j], rows[j])
      BY <1>3 DEF Alike
    <3>3. QED
      BY <1>3, <2>1, <3>1, <3>2, SeriesKept
  <2>2. QED
    BY <2>1 DEF Planning!SeriesGoOn
<1>11. Planning!NoTwins'
  <2>1. \A k \in DOMAIN rows' : MadeAndDue(rows'[k]) => k # i
    BY <1>2, <1>3 DEF MadeAndDue
  <2>2. QED
    BY <1>3, <2>1, TwinsKept DEF Alike
<1>12. QED
  BY <1>9, <1>10, <1>11 DEF PlanningInv

LEMMA Unschedules ==
  ASSUME PlanningInv, NEW i \in Planning!Ids, Planning!Unschedule(i)
  PROVE  PlanningInv'
<1>1. /\ i \in DOMAIN rows /\ i \in 1 .. MaxRows /\ rows[i] \in PlanRows
      /\ rows \in Seq(PlanRows)
  BY IdsAreRows DEF PlanningInv, PlanningTypeOK
<1>2. PICK r \in PlanRows : r = [rows[i] EXCEPT !.live = FALSE]
  BY <1>1 DEF PlanRows
<1>3. Alike(r, rows[i]) /\ r.state = rows[i].state /\ ~r.live /\ ~MadeAndDue(r)
  BY <1>1, <1>2 DEF PlanRows, Alike, MadeAndDue
<1>4. /\ rows' = [rows EXCEPT ![i] = r]
      /\ UNCHANGED <<categories, registered, reopened, settled, charged, paying, budgets, fixed,
                     goal, saved>>
  BY <1>1, <1>2 DEF Planning!Unschedule, Planning!paid, Planning!others
<1>5. registered' \in Counts /\ paying' \in [Payers -> Nat]
  BY <1>4 DEF PlanningInv, PlanningTypeOK
<1>6. registered'[i] <= reopened'[i] + IF r.state = "pagado" THEN 1 ELSE 0
  BY <1>1, <1>3, <1>4 DEF PlanningInv, PaidOnce
<1>7. QED
  BY <1>1, <1>3, <1>4, <1>5, <1>6, RowIsRewritten

(* A date that the statement computed from a row follows that row.         *)
LEMMA NextFollows ==
  ASSUME PlanningInv, NEW i \in DOMAIN rows, rows[i].frequency # "none"
  PROVE  LET due == Planning!NextDue(rows[i].due, rows[i].frequency)
         IN  due \in Planning!Dates /\ Planning!InTurn(rows[i].due, due, rows[i].frequency)
<1>1. rows[i] \in PlanRows
  BY DEF PlanningInv, PlanningTypeOK
<1>2. rows[i].due \in Planning!Dates /\ rows[i].frequency \in Planning!Frequencies
  BY <1>1 DEF PlanRows
<1>3. QED
  BY <1>2, NextIsInTurn

LEMMA PaymentActs ==
  ASSUME PlanningInv, NEW c \in Payers, Planning!Pays(c)
  PROVE  PlanningInv'
<1>1. PICK i \in Nat : i = paying[c] /\ i # 0
  BY DEF PlanningInv, PlanningTypeOK, Planning!Pays
<1>2. /\ paying' = [paying EXCEPT ![c] = 0] /\ paying' \in [Payers -> Nat]
      /\ UNCHANGED <<categories, reopened, budgets, fixed, goal, saved>>
  BY DEF PlanningInv, PlanningTypeOK, Planning!Pays, Planning!others
<1>3. CASE ~Planning!Owed(i)
  <2>1. UNCHANGED <<rows, registered, settled>>
    BY <1>1, <1>3 DEF Planning!Pays
  <2>2. QED
    BY <1>2, <2>1 DEF PlanningInv, PlanningTypeOK, PaidOnce, Planning!SeriesGoOn, Planning!Follows,
       Planning!NoTwins, Planning!NothingHangs, Planning!Ids
<1>4. CASE Planning!Owed(i)
  <2>1. /\ i \in DOMAIN rows /\ i \in 1 .. MaxRows /\ rows[i] \in PlanRows
        /\ rows \in Seq(PlanRows) /\ rows[i].state # "pagado" /\ rows[i].live
        /\ rows[i].category \in categories
    BY <1>4, IdsAreRows DEF PlanningInv, PlanningTypeOK, Planning!Owed, Planning!Available
  <2>2. PICK r \in PlanRows : r = [rows[i] EXCEPT !.state = "pagado"]
    BY <2>1 DEF PlanRows, Planning!States
  <2>3. /\ Alike(r, rows[i]) /\ r.state = "pagado" /\ ~MadeAndDue(r)
        /\ r.category = rows[i].category /\ r.live = rows[i].live
    BY <2>1, <2>2 DEF PlanRows, Alike, MadeAndDue
  <2>4. PICK paidRows : /\ paidRows \in Seq(PlanRows)
                        /\ paidRows = [rows EXCEPT ![i] = r]
    <3>1. [rows EXCEPT ![i] = r] \in Seq(PlanRows)
      BY <2>1
    <3>2. QED
      BY <3>1
  <2>5. /\ paidRows = [rows EXCEPT ![i].state = "pagado"]
        /\ registered' = [registered EXCEPT ![i] = @ + 1]
        /\ settled' = settled \cup {i}
    BY <1>1, <1>4, <2>1, <2>2, <2>4 DEF Planning!Pays
  <2>6. /\ registered' \in Counts /\ registered'[i] = registered[i] + 1
        /\ \A k \in (1 .. MaxRows) \ {i} : registered'[k] = registered[k]
        /\ reopened' \in Counts
        /\ registered[i] <= reopened[i]
        /\ registered[i] \in Nat /\ reopened[i] \in Nat
    BY <1>2, <2>1, <2>5 DEF PlanningInv, PlanningTypeOK, PaidOnce, Counts
  <2>7. registered'[i] <= reopened'[i] + IF r.state = "pagado" THEN 1 ELSE 0
    BY <1>2, <2>3, <2>6
  <2>8. CASE rows[i].frequency = "none" \/ Planning!HasNext(i)
    <3>1. rows' = paidRows
      BY <1>1, <1>4, <2>5, <2>8 DEF Planning!Pays
    <3>2. \E j \in DOMAIN rows : r.frequency # "none" => Planning!Follows(j, i)
      <4>1. CASE rows[i].frequency = "none"
        BY <2>1, <2>3, <4>1 DEF Alike
      <4>2. CASE rows[i].frequency # "none"
        <5>1. PICK j \in DOMAIN rows :
                 /\ rows[j].category = rows[i].category /\ rows[j].what = rows[i].what
                 /\ rows[j].due = Planning!NextDue(rows[i].due, rows[i].frequency)
          BY <2>8, <4>2, IdsAreRows DEF PlanningInv, Planning!HasNext
        <5>2. QED
          BY <2>1, <4>2, <5>1, NextFollows DEF Planning!Follows
      <4>3. QED
        BY <4>1, <4>2
    <3>3. QED
      BY <1>2, <2>1, <2>3, <2>4, <2>5, <2>6, <2>7, <3>1, <3>2, RowIsRewritten
  <2>9. CASE rows[i].frequency # "none" /\ ~Planning!HasNext(i)
    <3> DEFINE due == Planning!NextDue(rows[i].due, rows[i].frequency)
               new == [rows[i] EXCEPT !.due = due, !.state = "pendiente", !.made = TRUE]
               n == Len(rows) + 1
    <3>1. Len(rows) < MaxRows /\ rows' = Append(paidRows, new)
      BY <1>1, <1>4, <2>5, <2>9 DEF Planning!Pays
    <3>2. due \in Planning!Dates /\ Planning!InTurn(rows[i].due, due, rows[i].frequency)
      BY <2>1, <2>9, NextFollows
    <3>3. PICK d \in Planning!Dates : d = due
      BY <3>2
    <3>4. PICK row \in PlanRows : row = new
      <4> HIDE DEF due
      <4>1. new \in PlanRows
        BY <2>1, <3>2 DEF PlanRows, Planning!States
      <4>2. QED
        BY <4>1
    <3>5. /\ row.due = d /\ row.category = rows[i].category /\ row.what = rows[i].what
          /\ row.state = "pendiente"
      <4> HIDE DEF due
      <4>1. QED
        BY <2>1, <3>3, <3>4 DEF PlanRows
    <3> HIDE DEF new
    <3>6. Len(rows) \in Nat /\ DOMAIN rows = 1 .. Len(rows) /\ n \in 1 .. MaxRows
      BY <2>1, <3>1, PartsAssumption
    <3>7. /\ Len(paidRows) = Len(rows) /\ DOMAIN paidRows = DOMAIN rows
          /\ paidRows[i] = r /\ \A k \in DOMAIN rows \ {i} : paidRows[k] = rows[k]
      BY <2>1, <2>4
    <3>8. /\ rows' \in Seq(PlanRows) /\ Len(rows') = n /\ Len(rows') <= MaxRows
          /\ DOMAIN rows' = DOMAIN rows \cup {n}
          /\ rows'[n] = row /\ \A k \in DOMAIN rows : rows'[k] = paidRows[k]
      <4>1. rows' = Append(paidRows, row)
        BY <3>1, <3>4
      <4>2. QED
        BY <2>4, <3>1, <3>6, <3>7, <4>1, PartsAssumption
    <3> HIDE DEF due
    <3>9. PlanningTypeOK'
      <4>1. settled' \subseteq DOMAIN rows'
        BY <2>1, <2>5, <3>8 DEF PlanningInv, PlanningTypeOK
      <4>2. QED
        BY <1>2, <2>6, <3>8, <4>1 DEF PlanningInv, PlanningTypeOK
    <3>10. n > Len(rows) /\ n # i /\ n \notin DOMAIN rows
      BY <2>1, <3>6
    <3> HIDE DEF n
    <3>11. registered'[n] = 0 /\ reopened'[n] \in Nat
      BY <1>2, <2>6, <3>6, <3>10 DEF PlanningInv, PlanningTypeOK, PaidOnce, Counts
    <3>12. PaidOnce'
      <4>1. ASSUME NEW k \in DOMAIN rows'
            PROVE  registered'[k] <= reopened'[k] + IF rows'[k].state = "pagado" THEN 1 ELSE 0
        <5>1. CASE k = i
          BY <2>1, <2>3, <2>7, <3>7, <3>8, <5>1
        <5>2. CASE k = n
          BY <3>5, <3>8, <3>11, <5>2
        <5>3. CASE k \in DOMAIN rows \ {i}
          <6>1. /\ rows'[k] = rows[k] /\ registered'[k] = registered[k]
                /\ reopened'[k] = reopened[k]
            <7>1. k \in (1 .. MaxRows) \ {i}
              BY <3>1, <3>6, <5>3, PartsAssumption
            <7>2. QED
              BY <1>2, <2>6, <3>7, <3>8, <5>3, <7>1
          <6>2. QED
            BY <5>3, <6>1 DEF PlanningInv, PaidOnce
        <5>4. QED
          BY <3>8, <4>1, <5>1, <5>2, <5>3
      <4>2. ASSUME NEW k \in 1 .. MaxRows, k > Len(rows') PROVE registered'[k] = 0
        <5>1. k > Len(rows) /\ k # i
          BY <2>1, <3>6, <3>8, <4>2 DEF n
        <5>2. QED
          BY <2>6, <5>1 DEF PlanningInv, PaidOnce
      <4>3. QED
        BY <4>1, <4>2 DEF PaidOnce
    <3>13. \A k \in DOMAIN rows : Alike(rows'[k], rows[k])
      <4>1. \A k \in DOMAIN rows \ {i} : rows'[k] = rows[k]
        BY <3>7, <3>8
      <4>2. rows'[i] = r
        BY <2>1, <3>7, <3>8
      <4>3. QED
        BY <2>3, <4>1, <4>2 DEF Alike
    <3>14. Planning!SeriesGoOn'
      <4>1. ASSUME NEW k \in settled', rows'[k].frequency # "none"
            PROVE  \E j \in Planning!Ids' : Planning!Follows(j, k)'
        <5>1. CASE k \in settled
          <6>1. k \in DOMAIN rows
            BY <5>1 DEF PlanningInv, PlanningTypeOK
          <6>2. QED
            BY <3>8, <3>13, <4>1, <5>1, <6>1, SeriesKept
        <5>2. CASE k = i
          <6>1. n \in Planning!Ids'
            BY <3>6, <3>8 DEF Planning!Ids
          <6>2. Alike(rows'[i], rows[i])
            BY <2>1, <3>13
          <6>3. rows'[n].category = rows'[i].category /\ rows'[n].what = rows'[i].what
            BY <3>5, <3>8, <6>2 DEF Alike
          <6>4. Planning!InTurn(rows'[i].due, rows'[n].due, rows'[i].frequency)
            BY <3>2, <3>3, <3>5, <3>8, <6>2 DEF Alike
          <6>5. QED
            BY <5>2, <6>1, <6>3, <6>4 DEF Planning!Follows
        <5>3. QED
          BY <2>5, <4>1, <5>1, <5>2
      <4>2. QED
        BY <4>1 DEF Planning!SeriesGoOn
    <3>15. Planning!NoTwins'
      <4>1. Planning!Ids' = DOMAIN rows \cup {n} /\ Planning!Ids = DOMAIN rows
        BY <3>6, <3>8 DEF Planning!Ids
      <4>2. ASSUME NEW k \in DOMAIN rows, MadeAndDue(rows'[k])
            PROVE  rows'[k] = rows[k] /\ MadeAndDue(rows[k])
        <5>1. k # i
          BY <2>3, <3>7, <3>8, <4>2
        <5>2. QED
          BY <3>7, <3>8, <4>2, <5>1
      <4>3. ASSUME NEW k \in DOMAIN rows, MadeAndDue(rows'[k])
            PROVE  \/ row.category # rows'[k].category
                   \/ row.what # rows'[k].what
                   \/ row.due # rows'[k].due
        BY <2>9, <3>3, <3>5, <4>1, <4>2, <4>3 DEF Planning!HasNext, MadeAndDue, due
      <4>4. ASSUME NEW j \in Planning!Ids', NEW k \in Planning!Ids', j # k,
                   MadeAndDue(rows'[j]), MadeAndDue(rows'[k])
            PROVE  \/ rows'[j].category # rows'[k].category
                   \/ rows'[j].what # rows'[k].what
                   \/ rows'[j].due # rows'[k].due
        <5>1. CASE j = n
          BY <3>8, <4>1, <4>3, <4>4, <5>1
        <5>2. CASE k = n
          BY <3>8, <4>1, <4>3, <4>4, <5>2
        <5>3. CASE j # n /\ k # n
          <6>1. /\ j \in DOMAIN rows /\ k \in DOMAIN rows
                /\ rows'[j] = rows[j] /\ rows'[k] = rows[k]
                /\ MadeAndDue(rows[j]) /\ MadeAndDue(rows[k])
            BY <4>1, <4>2, <4>4, <5>3
          <6>2. QED
            BY <4>1, <4>4, <6>1 DEF PlanningInv, Planning!NoTwins, MadeAndDue
        <5>4. QED
          BY <5>1, <5>2, <5>3
      <4>5. QED
        BY <4>4 DEF Planning!NoTwins, MadeAndDue
    <3>16. Planning!NothingHangs'
      <4>1. Planning!Ids' = DOMAIN rows \cup {n} /\ Planning!Ids = DOMAIN rows
        BY <3>6, <3>8 DEF Planning!Ids
      <4>2. ASSUME NEW k \in Planning!Ids', rows'[k].live PROVE rows'[k].category \in categories
        <5>1. CASE k = i \/ k = n
          BY <2>1, <2>3, <3>5, <3>7, <3>8, <5>1
        <5>2. CASE k \in DOMAIN rows \ {i}
          BY <3>7, <3>8, <4>1, <4>2, <5>2 DEF PlanningInv, Planning!NothingHangs
        <5>3. QED
          BY <4>1, <5>1, <5>2
      <4>3. QED
        BY <1>2, <4>2 DEF PlanningInv, Planning!NothingHangs
    <3>17. QED
      BY <3>9, <3>12, <3>14, <3>15, <3>16 DEF PlanningInv
  <2>10. QED
    BY <2>8, <2>9
<1>5. QED
  BY <1>3, <1>4

LEMMA CategoryEnds ==
  ASSUME PlanningInv, NEW c \in PlanCategories, Planning!EndCategory(c)
  PROVE  PlanningInv'
<1> DEFINE new(i) == IF rows[i].category = c THEN [rows[i] EXCEPT !.live = FALSE] ELSE rows[i]
<1>1. /\ rows' = [i \in 1 .. Len(rows) |-> new(i)]
      /\ categories' = categories \ {c} /\ fixed' = fixed \ {c}
      /\ budgets' = {b \in budgets : b[1] # c}
      /\ UNCHANGED <<registered, charged, reopened, settled, paying, goal, saved>>
  BY DEF Planning!EndCategory, Planning!paid, Planning!Ids
<1>2. rows \in Seq(PlanRows) /\ Len(rows) \in Nat /\ DOMAIN rows = 1 .. Len(rows)
  BY DEF PlanningInv, PlanningTypeOK
<1>3. ASSUME NEW i \in 1 .. Len(rows)
      PROVE  /\ new(i) \in PlanRows /\ Alike(new(i), rows[i]) /\ new(i).made = rows[i].made
             /\ new(i).state = rows[i].state /\ new(i).category = rows[i].category
             /\ new(i).live => rows[i].live /\ rows[i].category # c
  <2>1. rows[i] \in PlanRows
    BY <1>2
  <2>2. QED
    BY <2>1 DEF PlanRows, Alike
<1>4. \A i \in 1 .. Len(rows) : rows'[i] = new(i)
  BY <1>1
<1>5. rows' \in Seq(PlanRows) /\ Len(rows') = Len(rows) /\ DOMAIN rows' = DOMAIN rows
  <2>1. rows' \in [1 .. Len(rows) -> PlanRows]
    BY <1>1, <1>3
  <2>2. QED
    BY <1>2, <2>1
<1> HIDE DEF new
<1>6. PlanningTypeOK'
  BY <1>1, <1>5 DEF PlanningInv, PlanningTypeOK
<1>7. PaidOnce'
  BY <1>1, <1>2, <1>3, <1>4, <1>5 DEF PlanningInv, PaidOnce
<1>8. \A k \in DOMAIN rows :
         Alike(rows'[k], rows[k]) /\ (MadeAndDue(rows'[k]) => MadeAndDue(rows[k]))
  BY <1>2, <1>3, <1>4 DEF MadeAndDue
<1>9. Planning!SeriesGoOn'
  <2>1. ASSUME NEW k \in settled, rows'[k].frequency # "none"
        PROVE  \E j \in Planning!Ids' : Planning!Follows(j, k)'
    <3>1. k \in DOMAIN rows
      BY DEF PlanningInv, PlanningTypeOK
    <3>2. QED
      BY <1>5, <1>8, <2>1, <3>1, SeriesKept
  <2>2. QED
    BY <1>1, <2>1 DEF Planning!SeriesGoOn
<1>10. Planning!NoTwins'
  BY <1>5, <1>8, TwinsKept
<1>11. Planning!NothingHangs'
  BY <1>1, <1>2, <1>3, <1>4, <1>5 DEF PlanningInv, Planning!NothingHangs, Planning!Ids
<1>12. QED
  BY <1>6, <1>7, <1>9, <1>10, <1>11 DEF PlanningInv

LEMMA PlanningActs ==
  ASSUME PlanningInv, Planning!Next
  PROVE  PlanningInv'
<1>1. ASSUME UNCHANGED <<categories, rows, registered, reopened, settled, budgets, fixed, goal, saved>>,
             paying' \in [Payers -> Nat]
      PROVE  PlanningInv'
  BY <1>1 DEF PlanningInv, PlanningTypeOK, PaidOnce, Planning!SeriesGoOn, Planning!Follows,
     Planning!NoTwins, Planning!NothingHangs, Planning!Ids
<1>2. ASSUME NEW c \in Payers, NEW i \in Planning!Ids, Planning!Reads(c, i) PROVE PlanningInv'
  <2>1. i \in Nat
    BY IdsAreRows DEF PlanningInv, Planning!Ids
  <2>2. QED
    BY <1>1, <1>2, <2>1 DEF Planning!Reads, Planning!paid, Planning!others, PlanningInv, PlanningTypeOK
<1>3. ASSUME NEW c \in Payers, Planning!NotPaid(c) PROVE PlanningInv'
  BY <1>1, <1>3 DEF Planning!NotPaid, Planning!paid, Planning!others, PlanningInv, PlanningTypeOK
<1>4. ASSUME NEW m \in charged, Planning!Uncharge(m) PROVE PlanningInv'
  BY <1>1, <1>4 DEF Planning!Uncharge, Planning!others, PlanningInv, PlanningTypeOK
<1>5. CASE Planning!PaymentNext
  BY <1>2, <1>3, <1>4, <1>5, Schedules, Reschedules, Unschedules, PaymentActs DEF Planning!PaymentNext
<1>6. CASE Planning!PlanNext
  <2>1. /\ UNCHANGED <<categories, rows, registered, reopened, settled, paying>>
        /\ saved' \in BOOLEAN
    BY <1>6 DEF Planning!PlanNext, Planning!Fix, Planning!Unfix, Planning!Budget, Planning!EndBudget,
       Planning!NewGoal, Planning!Save, Planning!EndGoal, Planning!paid, PlanningInv, PlanningTypeOK
  <2>2. /\ \A b \in budgets' : b[1] \in categories
        /\ fixed' \subseteq categories
        /\ saved' => goal' = "active"
    <3>1. /\ \A b \in budgets : b[1] \in categories
          /\ fixed \subseteq categories
          /\ saved => goal = "active"
      BY DEF PlanningInv, Planning!NothingHangs
    <3>2. ASSUME NEW c \in PlanCategories, NEW m \in Months, Planning!Budget(c, m)
          PROVE  \A b \in budgets' : b[1] \in categories
      BY <3>1, <3>2 DEF Planning!Budget
    <3>3. \A b \in budgets' : b[1] \in categories
      BY <1>6, <3>1, <3>2 DEF Planning!PlanNext, Planning!Fix, Planning!Unfix,
         Planning!EndBudget, Planning!NewGoal, Planning!Save, Planning!EndGoal
    <3>4. fixed' \subseteq categories
      BY <1>6, <3>1 DEF Planning!PlanNext, Planning!Fix, Planning!Unfix, Planning!Budget,
         Planning!EndBudget, Planning!NewGoal, Planning!Save, Planning!EndGoal
    <3>5. saved' => goal' = "active"
      BY <1>6, <3>1 DEF Planning!PlanNext, Planning!Fix, Planning!Unfix, Planning!Budget,
         Planning!EndBudget, Planning!NewGoal, Planning!Save, Planning!EndGoal
    <3>6. QED
      BY <3>3, <3>4, <3>5
  <2>3. QED
    BY <2>1, <2>2 DEF PlanningInv, PlanningTypeOK, PaidOnce, Planning!SeriesGoOn,
       Planning!Follows, Planning!NoTwins, Planning!NothingHangs, Planning!Ids
<1>7. QED
  BY <1>5, <1>6, CategoryEnds DEF Planning!Next

-----------------------------------------------------------------------------
(* QuickEntry *)

Waits == [entry : Entries!Entries, how : {"current", "former", "left"}]

EntriesTypeOK ==
  /\ issued \in 0 .. MaxEntries /\ queue \in 0 .. MaxEntries
  /\ events \in Seq(Entries!Entries)
  /\ answer \in 0 .. MaxEntries /\ pending \in 0 .. MaxEntries
  /\ consuming \in [Entries!Entries -> {"no", "asked", "yes"}]
  /\ waits \subseteq Waits
  /\ opened \in [Entries!Entries -> Nat]

(* What is in the native queue was not given away; what was given away and *)
(* is not finished has not opened a form.                                  *)
GivenOnce ==
  /\ queue # 0 => queue \notin consumed
  /\ \A e \in Entries!Entries :
       consuming[e] = "yes" => e \in consumed /\ opened[e] = 0

EntriesInv == EntriesTypeOK /\ GivenOnce /\ Entries!TapOpensOnce

LEMMA EntriesStart == ASSUME Entries!Init PROVE EntriesInv
  BY PartsAssumption
  DEF Entries!Init, EntriesInv, EntriesTypeOK, GivenOnce, Entries!TapOpensOnce,
      Entries!OpensOnce, Entries!OnlyPendingIsConsumed, Entries!Entries, Entries!None, Waits

(* A step that gives nothing away and opens nothing: each call of consume  *)
(* stays as it is, or is new or forgotten, and only for the pending entry. *)
LEMMA NothingIsGiven ==
  ASSUME EntriesInv, EntriesTypeOK', UNCHANGED <<consumed, opened>>,
         queue' # 0 => queue' \notin consumed,
         \A e \in Entries!Entries :
            /\ consuming'[e] = "yes" => consuming[e] = "yes"
            /\ consuming'[e] # "no" => e = pending'
  PROVE  EntriesInv'
  BY DEF EntriesInv, GivenOnce, Entries!TapOpensOnce, Entries!OpensOnce,
         Entries!OnlyPendingIsConsumed

LEMMA AcceptIs ==
  ASSUME EntriesInv, NEW e \in 0 .. MaxEntries, Entries!Accept(e)
  PROVE  /\ pending' \in 0 .. MaxEntries
         /\ consuming' \in [Entries!Entries -> {"no", "asked", "yes"}]
         /\ \A n \in Entries!Entries :
              /\ consuming'[n] = "yes" => consuming[n] = "yes"
              /\ consuming'[n] # "no" => n = pending'
  BY DEF Entries!Accept, Entries!entryVars, EntriesInv, EntriesTypeOK, Entries!TapOpensOnce,
         Entries!OnlyPendingIsConsumed

LEMMA FinishIs ==
  ASSUME EntriesInv, NEW e \in Entries!Entries, Entries!Finish(e)
  PROVE  /\ pending' \in 0 .. MaxEntries
         /\ consuming' \in [Entries!Entries -> {"no", "asked", "yes"}]
         /\ \A n \in Entries!Entries :
              /\ consuming'[n] = "yes" => consuming[n] = "yes" /\ n # e
              /\ consuming'[n] # "no" => n = pending'
  BY PartsAssumption
  DEF Entries!Finish, EntriesInv, EntriesTypeOK, Entries!TapOpensOnce,
      Entries!OnlyPendingIsConsumed, Entries!None

LEMMA ReceiveIs ==
  ASSUME EntriesInv, NEW e \in Entries!Entries, Entries!Receive(e), issued' \in 0 .. MaxEntries
  PROVE  EntriesInv'
<1>1. EntriesTypeOK'
  <2>1. e \in 0 .. MaxEntries
    BY PartsAssumption DEF Entries!Entries
  <2>2. queue' \in 0 .. MaxEntries /\ events' \in Seq(Entries!Entries)
    <3>1. \/ queue' = e /\ (events' = events \/ events' = Append(events, e))
          \/ UNCHANGED <<queue, events>>
      BY DEF Entries!Receive
    <3>2. queue \in 0 .. MaxEntries /\ events \in Seq(Entries!Entries)
      BY DEF EntriesInv, EntriesTypeOK
    <3>3. Append(events, e) \in Seq(Entries!Entries)
      BY <3>2
    <3>4. QED
      BY <2>1, <3>1, <3>2, <3>3
  <2>3. UNCHANGED <<answer, pending, consuming, waits, opened>>
    BY DEF Entries!Receive, Entries!entryVars, Entries!pageVars
  <2>4. QED
    BY <2>2, <2>3 DEF EntriesInv, EntriesTypeOK
<1>2. queue' # 0 => queue' \notin consumed
  BY DEF Entries!Receive, EntriesInv, GivenOnce
<1>3. UNCHANGED <<consumed, opened, pending, consuming>>
  BY DEF Entries!Receive, Entries!entryVars, Entries!pageVars
<1>4. QED
  BY <1>1, <1>2, <1>3, NothingIsGiven
  DEF EntriesInv, Entries!TapOpensOnce, Entries!OnlyPendingIsConsumed

(* The step of a window that leaves the entries alone. *)
LEMMA EntriesStay ==
  ASSUME EntriesInv, EntriesTypeOK', UNCHANGED <<queue, consumed, pending, consuming, opened>>
  PROVE  EntriesInv'
  BY NothingIsGiven
  DEF EntriesInv, GivenOnce, Entries!TapOpensOnce, Entries!OnlyPendingIsConsumed

LEMMA LeftIs ==
  ASSUME EntriesInv, NEW how \in {"former", "left"}
  PROVE  Entries!Left(how) \subseteq Waits
  BY DEF Entries!Left, Entries!Wait, Waits, EntriesInv, EntriesTypeOK

LEMMA PageActs ==
  ASSUME EntriesInv,
         \/ Entries!TimePasses \/ Entries!Listens \/ Entries!Peeks \/ Entries!Changes
         \/ Entries!Leaves \/ Entries!Opens \/ Entries!Closes
  PROVE  EntriesInv'
<1>1. UNCHANGED <<issued, queue, consumed, pending, consuming, opened>> /\ events' = events
  BY DEF Entries!TimePasses, Entries!Listens, Entries!Peeks, Entries!Changes, Entries!Leaves,
         Entries!Opens, Entries!Closes, Entries!nativeVars, Entries!bridgeVars,
         Entries!entryVars, Entries!pageVars
<1>2. answer' \in 0 .. MaxEntries
  BY PartsAssumption
  DEF Entries!TimePasses, Entries!Listens, Entries!Peeks, Entries!Changes, Entries!Leaves,
      Entries!Opens, Entries!Closes, Entries!nativeVars, Entries!bridgeVars,
      Entries!entryVars, Entries!pageVars, Entries!Queued, Entries!None, EntriesInv, EntriesTypeOK
<1>3. waits' = waits \/ waits' = Entries!Left("former") \/ waits' = Entries!Left("left")
  BY DEF Entries!TimePasses, Entries!Listens, Entries!Peeks, Entries!Changes, Entries!Leaves,
         Entries!Opens, Entries!Closes, Entries!nativeVars, Entries!bridgeVars,
         Entries!entryVars, Entries!pageVars
<1>4. waits' \subseteq Waits
  BY <1>3, LeftIs DEF EntriesInv, EntriesTypeOK
<1>5. EntriesTypeOK'
  BY <1>1, <1>2, <1>4 DEF EntriesInv, EntriesTypeOK
<1>6. QED
  BY <1>1, <1>5, EntriesStay

LEMMA EntriesAct ==
  ASSUME EntriesInv, Entries!Next
  PROVE  EntriesInv'
<1>1. CASE Entries!Tap
  <2>1. issued' \in Entries!Entries /\ issued' \in 0 .. MaxEntries
    BY <1>1, PartsAssumption DEF Entries!Tap, Entries!Entries, EntriesInv, EntriesTypeOK
  <2>2. PICK e \in Entries!Entries : e = issued'
    BY <2>1
  <2>3. Entries!Receive(e)
    BY <1>1, <2>2 DEF Entries!Tap
  <2>4. QED
    BY <2>1, <2>3, ReceiveIs
<1>2. CASE Entries!Expires
  <2>1. pending \in Entries!Entries
    BY <1>2, PartsAssumption DEF Entries!Expires, Entries!None, Entries!Entries, EntriesInv,
       EntriesTypeOK
  <2>2. PICK e \in Entries!Entries : e = pending
    BY <2>1
  <2>3. Entries!Finish(e)
    BY <1>2, <2>2 DEF Entries!Expires
  <2>4. UNCHANGED <<issued, queue, consumed, events, answer, waits, opened>>
    BY <1>2 DEF Entries!Expires, Entries!nativeVars, Entries!bridgeVars, Entries!pageVars
  <2>5. EntriesTypeOK'
    BY <2>3, <2>4, FinishIs DEF EntriesInv, EntriesTypeOK
  <2>6. QED
    BY <2>3, <2>4, <2>5, FinishIs, NothingIsGiven DEF EntriesInv, GivenOnce
<1>3. CASE Entries!EventArrives
  <2>1. Head(events) \in 0 .. MaxEntries /\ Tail(events) \in Seq(Entries!Entries)
    BY <1>3, PartsAssumption DEF Entries!EventArrives, EntriesInv, EntriesTypeOK, Entries!Entries
  <2>2. PICK e \in 0 .. MaxEntries : e = Head(events)
    BY <2>1
  <2>3. Entries!Accept(e)
    BY <1>3, <2>2 DEF Entries!EventArrives
  <2>4. UNCHANGED <<issued, queue, consumed, answer, waits, opened>> /\ events' = Tail(events)
    BY <1>3 DEF Entries!EventArrives, Entries!nativeVars, Entries!pageVars
  <2>5. EntriesTypeOK'
    BY <2>1, <2>3, <2>4, AcceptIs DEF EntriesInv, EntriesTypeOK
  <2>6. QED
    BY <2>3, <2>4, <2>5, AcceptIs, NothingIsGiven DEF EntriesInv, GivenOnce
<1>4. CASE Entries!PeekAnswered
  <2>1. PICK e \in 0 .. MaxEntries : e = answer
    BY DEF EntriesInv, EntriesTypeOK
  <2>2. UNCHANGED <<issued, queue, consumed, events, waits, opened>> /\ answer' = 0
    BY <1>4 DEF Entries!PeekAnswered, Entries!nativeVars, Entries!pageVars, Entries!None
  <2>3. 0 \in 0 .. MaxEntries
    BY PartsAssumption
  <2>4. CASE moved
    <3>1. UNCHANGED <<pending, consuming>>
      BY <1>4, <2>4 DEF Entries!PeekAnswered, Entries!entryVars
    <3>2. EntriesTypeOK'
      BY <2>2, <2>3, <3>1 DEF EntriesInv, EntriesTypeOK
    <3>3. QED
      BY <2>2, <3>1, <3>2, EntriesStay
  <2>5. CASE ~moved
    <3>1. Entries!Accept(e)
      BY <1>4, <2>1, <2>5 DEF Entries!PeekAnswered
    <3>2. EntriesTypeOK'
      BY <2>2, <2>3, <3>1, AcceptIs DEF EntriesInv, EntriesTypeOK
    <3>3. QED
      BY <2>2, <3>1, <3>2, AcceptIs, NothingIsGiven DEF EntriesInv, GivenOnce
  <2>6. QED
    BY <2>4, <2>5
<1>5. CASE Entries!Consumes
  <2>1. /\ pending \in Entries!Entries
        /\ UNCHANGED <<issued, queue, consumed, events, answer, pending, opened>>
        /\ waits' = waits \cup {[entry |-> pending, how |-> "current"]}
        /\ consuming' = [consuming EXCEPT ![pending] = IF @ = "no" THEN "asked" ELSE @]
    BY <1>5, PartsAssumption
    DEF Entries!Consumes, Entries!Wait, Entries!None, Entries!Entries, Entries!nativeVars,
        Entries!bridgeVars, EntriesInv, EntriesTypeOK
  <2>2. EntriesTypeOK'
    BY <2>1 DEF EntriesInv, EntriesTypeOK, Waits
  <2>3. \A e \in Entries!Entries : /\ consuming'[e] = "yes" => consuming[e] = "yes"
                                   /\ consuming'[e] # "no" => e = pending'
    BY <2>1 DEF EntriesInv, EntriesTypeOK, Entries!TapOpensOnce, Entries!OnlyPendingIsConsumed
  <2>4. QED
    BY <2>1, <2>2, <2>3, NothingIsGiven DEF EntriesInv, GivenOnce
<1>6. ASSUME NEW e \in Entries!Entries, Entries!NativeConsumes(e) PROVE EntriesInv'
  <2>1. /\ UNCHANGED <<issued, events, answer, pending, opened>> /\ consuming[e] = "asked"
        /\ waits' \subseteq waits
    BY <1>6 DEF Entries!NativeConsumes, Entries!bridgeVars
  <2>2. CASE /\ queue = e
             /\ queue' = 0 /\ consumed' = consumed \cup {e}
             /\ consuming' = [consuming EXCEPT ![e] = "yes"]
    <3>1. e \notin consumed /\ e # 0
      BY <2>2 DEF EntriesInv, GivenOnce, Entries!Entries
    <3>2. opened[e] = 0
      BY <3>1 DEF EntriesInv, EntriesTypeOK, Entries!TapOpensOnce, Entries!OpensOnce
    <3>3. EntriesTypeOK'
      BY <2>1, <2>2, PartsAssumption DEF EntriesInv, EntriesTypeOK
    <3>4. GivenOnce'
      BY <2>1, <2>2, <3>2 DEF EntriesInv, EntriesTypeOK, GivenOnce
    <3>5. Entries!TapOpensOnce'
      BY <2>1, <2>2, <3>2
      DEF EntriesInv, EntriesTypeOK, Entries!TapOpensOnce, Entries!OpensOnce,
          Entries!OnlyPendingIsConsumed
    <3>6. QED
      BY <3>3, <3>4, <3>5 DEF EntriesInv
  <2>3. CASE UNCHANGED <<queue, consumed>> /\ consuming' = [consuming EXCEPT ![e] = "no"]
    <3>1. EntriesTypeOK'
      BY <2>1, <2>3 DEF EntriesInv, EntriesTypeOK
    <3>2. \A n \in Entries!Entries : /\ consuming'[n] = "yes" => consuming[n] = "yes"
                                     /\ consuming'[n] # "no" => n = pending'
      BY <2>1, <2>3 DEF EntriesInv, EntriesTypeOK, Entries!TapOpensOnce,
         Entries!OnlyPendingIsConsumed
    <3>3. QED
      BY <2>1, <2>3, <3>1, <3>2, NothingIsGiven DEF EntriesInv, GivenOnce
  <2>4. QED
    BY <1>6, <2>2, <2>3 DEF Entries!NativeConsumes, Entries!Queued, Entries!None, Entries!Entries
<1>7. ASSUME NEW w \in waits, Entries!Resumes(w) PROVE EntriesInv'
  <2>1. /\ w.entry \in Entries!Entries /\ consuming[w.entry] = "yes"
        /\ UNCHANGED <<issued, queue, consumed, events, answer>>
        /\ waits' = waits \ {w}
    BY <1>7 DEF Entries!Resumes, Entries!nativeVars, Entries!bridgeVars, EntriesInv,
       EntriesTypeOK, Waits
  <2>2. /\ w.entry \in consumed /\ opened[w.entry] = 0
        /\ w.entry = pending
    BY <2>1 DEF EntriesInv, GivenOnce, Entries!TapOpensOnce, Entries!OnlyPendingIsConsumed
  <2>3. CASE UNCHANGED <<pending, consuming, opened>>
    <3>1. EntriesTypeOK'
      BY <2>1, <2>3 DEF EntriesInv, EntriesTypeOK
    <3>2. QED
      BY <2>1, <2>3, <3>1, EntriesStay
  <2>4. CASE Entries!Finish(w.entry) /\ UNCHANGED opened
    <3>1. EntriesTypeOK'
      BY <2>1, <2>4, FinishIs DEF EntriesInv, EntriesTypeOK
    <3>2. QED
      BY <2>1, <2>4, <3>1, FinishIs, NothingIsGiven DEF EntriesInv, GivenOnce
  <2>5. CASE Entries!Finish(w.entry) /\ opened' = [opened EXCEPT ![w.entry] = @ + 1]
    <3>1. EntriesTypeOK'
      BY <2>1, <2>5, FinishIs DEF EntriesInv, EntriesTypeOK
    <3>2. /\ opened'[w.entry] = 1
          /\ \A e \in Entries!Entries \ {w.entry} : opened'[e] = opened[e]
      BY <2>1, <2>2, <2>5 DEF EntriesInv, EntriesTypeOK
    <3>3. GivenOnce'
      BY <2>1, <2>5, <3>2, FinishIs DEF EntriesInv, GivenOnce
    <3>4. Entries!TapOpensOnce'
      BY <2>1, <2>2, <2>5, <3>2, FinishIs
      DEF EntriesInv, Entries!TapOpensOnce, Entries!OpensOnce, Entries!OnlyPendingIsConsumed
    <3>5. QED
      BY <3>1, <3>3, <3>4 DEF EntriesInv
  <2>6. QED
    BY <1>7, <2>2, <2>3, <2>4, <2>5 DEF Entries!Resumes, Entries!entryVars
<1>8. ASSUME NEW w \in waits, Entries!Misses(w) PROVE EntriesInv'
  <2>1. /\ UNCHANGED <<issued, queue, consumed, events, answer, pending, consuming, opened>>
        /\ waits' = waits \ {w}
    BY <1>8 DEF Entries!Misses, Entries!nativeVars, Entries!bridgeVars, Entries!entryVars
  <2>2. EntriesTypeOK'
    BY <2>1 DEF EntriesInv, EntriesTypeOK
  <2>3. QED
    BY <2>1, <2>2, EntriesStay
<1>9. CASE Entries!Restart
  <2>1. /\ queue' \in 0 .. issued /\ (queue' # 0 => queue' \notin consumed)
        /\ UNCHANGED <<issued, consumed, opened>>
        /\ events' = <<>> /\ answer' = 0 /\ pending' = 0 /\ waits' = {}
        /\ consuming' = [e \in Entries!Entries |-> "no"]
    BY <1>9 DEF Entries!Restart, Entries!None, EntriesInv, EntriesTypeOK
  <2>2. EntriesTypeOK'
    BY <2>1, PartsAssumption DEF EntriesInv, EntriesTypeOK
  <2>3. QED
    BY <2>1, <2>2, NothingIsGiven
<1>10. QED
  BY <1>1, <1>2, <1>3, <1>4, <1>5, <1>6, <1>7, <1>8, <1>9, PageActs DEF Entries!Next

-----------------------------------------------------------------------------
(* The phone: a step is of one part, and leaves the others *)

LEMMA PlanningStays ==
  ASSUME PlanningInv, UNCHANGED planningState
  PROVE  PlanningInv'
<1>1. UNCHANGED <<categories, rows, registered, charged, reopened, settled, paying, budgets,
                  fixed, goal, saved>>
  BY DEF planningState
<1>2. PlanningTypeOK'
  BY <1>1 DEF PlanningInv, PlanningTypeOK
<1>3. PaidOnce' /\ Planning!SeriesGoOn' /\ Planning!NoTwins'
  BY <1>1 DEF PlanningInv, PaidOnce, Planning!SeriesGoOn, Planning!NoTwins, Planning!Follows,
     Planning!Ids
<1>4. Planning!NothingHangs'
  BY <1>1 DEF PlanningInv, Planning!NothingHangs, Planning!Ids
<1>5. QED
  BY <1>2, <1>3, <1>4 DEF PlanningInv

LEMMA EntriesAreKept ==
  ASSUME EntriesInv, UNCHANGED entriesState
  PROVE  EntriesInv'
<1>1. UNCHANGED <<issued, queue, consumed, events, answer, pending, consuming, waits, opened>>
  BY DEF entriesState
<1>2. EntriesTypeOK'
  BY <1>1 DEF EntriesInv, EntriesTypeOK
<1>3. QED
  BY <1>1, <1>2, EntriesStay

(* OneCallOneEffect: however the pages' calls of markGastoProgramadoPaid    *)
(* interleave with edits of every field, deletions and one another, a       *)
(* payment is charged once, a series goes on with a next payment that is    *)
(* due in turn, no two generated payments that are pending are the same,    *)
(* and nothing hangs from what was deleted (mobileSchedulingRepository.ts); *)
(* and whatever the system delivers again, a tap opens its form once, when  *)
(* the native queue gave it away, and only the pending entry is asked for   *)
(* (mobileQuickEntry.ts).                                                   *)
THEOREM OneEffect == SceneSpec => []OneCallOneEffect
<1> DEFINE Inv == PlanningInv /\ EntriesInv
<1>1. SceneInit => Inv
  BY PlanningStarts, EntriesStart DEF SceneInit
<1>2. Inv /\ [SceneNext]_sceneVars => Inv'
  <2>1. SUFFICES ASSUME PlanningInv, EntriesInv, [SceneNext]_sceneVars
                 PROVE  PlanningInv' /\ EntriesInv'
    OBVIOUS
  <2>2. Planning!Next \/ UNCHANGED planningState
    BY <2>1 DEF SceneNext, sceneVars
  <2>3. Entries!Next \/ UNCHANGED entriesState
    BY <2>1 DEF SceneNext, sceneVars
  <2>4. QED
    BY <2>1, <2>2, <2>3, PlanningActs, PlanningStays, EntriesAct, EntriesAreKept
<1>3. Inv => OneCallOneEffect
  BY PlanningIsSound DEF EntriesInv, OneCallOneEffect
<1> HIDE DEF Inv
<1>4. QED
  BY <1>1, <1>2, <1>3, PTL DEF SceneSpec
=============================================================================
