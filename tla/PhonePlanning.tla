---------------------------- MODULE PhonePlanning ----------------------------
(***************************************************************************)
(* The planning of the phone, kept in its SQLite only: scheduled payments  *)
(* (mobileSchedulingRepository.ts), budgets, fixed expenses and goals      *)
(* (mobilePlanningRepository.ts), with the categories and movements they   *)
(* refer to (mobileFinanceRepository.ts) and the triggers that delete what *)
(* hangs from a deleted category or goal.                                  *)
(*                                                                         *)
(* Every write is one statement that checks again what it needs, but the   *)
(* payment: it reads, then sends one transaction of three statements, and  *)
(* the same payment may be asked for from two pages at once.               *)
(*                                                                         *)
(* A behaviour is about the payments or about the other plans (page): they *)
(* share the categories only, and no statement reads both.                 *)
(***************************************************************************)
EXTENDS Naturals, Sequences

CONSTANTS
  Categories, Months,
  Forms,       \* what the user may fill in: what is paid, when, how often
  MaxRows,     \* scheduled payments ever created (bound)
  MaxReopens,  \* payments set back to another state (bound)
  Calls        \* calls of markGastoProgramadoPaid that may be under way

VARIABLES
  page,        \* "payments" or "plans"
  categories,  \* the categories that are not deleted
  rows,        \* gastos_programados
  registered,  \* history: movements made by paying each of them
  charged,     \* <<row, category>> of those movements that are not deleted
  reopened,    \* history: how often each was set back from "pagado"
  settled,     \* history: those paid, they and what follows them not edited since
  paying,      \* the calls: the row read and awaiting the transaction, or 0
  budgets,     \* <<category, month>> of presupuestos
  fixed,       \* the categories with a fixed expense
  goal,        \* a goal: "absent", "active", "deleted"
  saved        \* a movement is assigned to it

vars == <<page, categories, rows, registered, charged, reopened, settled, paying, budgets,
          fixed, goal, saved>>
others == <<budgets, fixed, goal, saved>>
paid == <<registered, charged, reopened, settled>>

States == {"pendiente", "pagado", "cancelado"}
Frequencies == {"semanal", "mensual", "anual"}   \* of what comes back; else "none"

(* Dates.  Months are numbered on from January of a leap year, over as     *)
(* many years as there are; every fourth year is a leap year.              *)
DaysIn(month) ==
  LET m == ((month - 1) % 12) + 1
  IN IF m # 2 THEN IF m \in {4, 6, 9, 11} THEN 30 ELSE 31
     ELSE IF ((month - 1) \div 12) % 4 = 0 THEN 29 ELSE 28

Dates == {d \in [month : Nat \ {0}, day : 1 .. 31] : d.day <= DaysIn(d.month)}

Least(a, b) == IF a < b THEN a ELSE b

\* The same day of a later month, or its last: the later ones follow from that.
MonthsOn(due, n) == [month |-> due.month + n, day |-> Least(due.day, DaysIn(due.month + n))]

WeekOn(due) ==
  IF due.day + 7 <= DaysIn(due.month) THEN [due EXCEPT !.day = @ + 7]
  ELSE [month |-> due.month + 1, day |-> due.day + 7 - DaysIn(due.month)]

\* The next due date of a payment that comes back.
NextDue(due, frequency) ==
  CASE frequency = "semanal" -> WeekOn(due)
    [] frequency = "mensual" -> MonthsOn(due, 1)
    [] frequency = "anual" -> MonthsOn(due, 12)

Ids == 1 .. Len(rows)

\* A row and its category are not deleted (active, activeCategory).
Available(i) == i \in Ids /\ rows[i].live /\ rows[i].category \in categories

(* What comes next in a series, said without NextDue: for as much and in   *)
(* that category, a week later, or in the month that is one or twelve on,  *)
(* on the latest of its days that is not after the day of the former.      *)
Apart(from, to) ==
  IF from.month = to.month THEN to.day - from.day ELSE DaysIn(from.month) - from.day + to.day
SameDay(from, to) == \A day \in 1 .. DaysIn(to.month) : day <= from.day <=> day <= to.day
InTurn(from, to, frequency) ==
  /\ to.day \in 1 .. DaysIn(to.month)
  /\ \/ /\ frequency = "semanal" /\ to.month \in {from.month, from.month + 1}
        /\ Apart(from, to) = 7
     \/ frequency = "mensual" /\ to.month = from.month + 1 /\ SameDay(from, to)
     \/ frequency = "anual" /\ to.month = from.month + 12 /\ SameDay(from, to)
Follows(j, i) ==
  /\ rows[j].category = rows[i].category /\ rows[j].what = rows[i].what
  /\ InTurn(rows[i].due, rows[j].due, rows[i].frequency)

-----------------------------------------------------------------------------
(* Scheduled payments. *)

\* A row: made says that a payment generated it and the user left it so.
Row(c, form, state, made) ==
  [category |-> c, what |-> form.what, due |-> form.due, frequency |-> form.frequency,
   state |-> state, live |-> TRUE, made |-> made]

AddRow(row) ==
  /\ Len(rows) < MaxRows
  /\ rows' = Append(rows, row)

Schedule(c, form, state) ==
  /\ c \in categories
  /\ AddRow(Row(c, form, state, FALSE))
  /\ UNCHANGED <<categories, paid, paying, others>>

\* updateGastoProgramado sets every field anew.
Reschedule(i, c, form, state) ==
  /\ i \in Ids /\ rows[i].live /\ c \in categories
  /\ rows[i].state = "pagado" /\ state # "pagado" => reopened[i] < MaxReopens
  /\ rows' = [rows EXCEPT ![i] = Row(c, form, state, FALSE)]
  /\ reopened' = IF rows[i].state = "pagado" /\ state # "pagado"
                 THEN [reopened EXCEPT ![i] = @ + 1] ELSE reopened
  /\ settled' = {k \in settled : k # i /\ ~Follows(i, k)}
  /\ UNCHANGED <<categories, registered, charged, paying, others>>

Unschedule(i) ==
  /\ i \in Ids /\ rows[i].live
  /\ rows' = [rows EXCEPT ![i].live = FALSE]
  /\ UNCHANGED <<categories, paid, paying, others>>

\* markGastoProgramadoPaid reads the row: a paid one, or one that is not
\* available, ends the call.
Reads(c, i) ==
  /\ paying[c] = 0
  /\ Available(i) /\ rows[i].state # "pagado"
  /\ paying' = [paying EXCEPT ![c] = i]
  /\ UNCHANGED <<categories, rows, paid, others>>

\* Variant: the transaction relies on what was read.
Owed_AsRead(i) == TRUE

\* What every statement of the transaction checks again.
Owed(i) == Available(i) /\ rows[i].state # "pagado"

\* The statement that makes the next payment: none if its like is pending.
HasNext(i) ==
  \E j \in Ids : /\ rows[j].live /\ rows[j].state = "pendiente"
                 /\ rows[j].category = rows[i].category /\ rows[j].what = rows[i].what
                 /\ rows[j].due = NextDue(rows[i].due, rows[i].frequency)

\* The transaction: the movement, the next payment, the state.
Pays(c) ==
  LET i == paying[c]
      paidRows == [rows EXCEPT ![i].state = "pagado"]
      next == [rows[i] EXCEPT !.due = NextDue(rows[i].due, rows[i].frequency),
                              !.state = "pendiente", !.made = TRUE]
  IN /\ i # 0
     /\ paying' = [paying EXCEPT ![c] = 0]
     /\ IF ~Owed(i)
        THEN UNCHANGED <<rows, registered, charged, settled>>
        ELSE /\ registered' = [registered EXCEPT ![i] = @ + 1]
             /\ charged' = charged \cup {<<i, rows[i].category>>}
             /\ settled' = settled \cup {i}
             /\ IF rows[i].frequency # "none" /\ ~HasNext(i)
                THEN Len(rows) < MaxRows /\ rows' = Append(paidRows, next)
                ELSE rows' = paidRows
     /\ UNCHANGED <<categories, reopened, others>>

\* A call that fails changes nothing.
NotPaid(c) ==
  /\ paying[c] # 0
  /\ paying' = [paying EXCEPT ![c] = 0]
  /\ UNCHANGED <<categories, rows, paid, others>>

-----------------------------------------------------------------------------
(* Budgets, fixed expenses and goals. *)

\* createPresupuesto: inserted, or the one of that category and month, deleted
\* or not, set anew.  updatePresupuesto keeps both.
Budget(c, m) ==
  /\ c \in categories
  /\ budgets' = budgets \cup {<<c, m>>}
  /\ UNCHANGED <<categories, rows, paid, paying, fixed, goal, saved>>

EndBudget(c, m) ==
  /\ <<c, m>> \in budgets
  /\ budgets' = budgets \ {<<c, m>>}
  /\ UNCHANGED <<categories, rows, paid, paying, fixed, goal, saved>>

\* createGastoFijo, and updateGastoFijo from category d.
Fix(c) ==
  /\ c \in categories
  /\ \E d \in fixed \cup {c} : fixed' = (fixed \ {d}) \cup {c}
  /\ UNCHANGED <<categories, rows, paid, paying, budgets, goal, saved>>

Unfix(c) ==
  /\ c \in fixed
  /\ fixed' = fixed \ {c}
  /\ UNCHANGED <<categories, rows, paid, paying, budgets, goal, saved>>

NewGoal ==
  /\ goal = "absent"
  /\ goal' = "active"
  /\ UNCHANGED <<categories, rows, paid, paying, budgets, fixed, saved>>

\* A movement is assigned to a goal: the statement checks that it is there.
Save ==
  /\ goal = "active" /\ categories # {}
  /\ saved' = TRUE
  /\ UNCHANGED <<categories, rows, paid, paying, budgets, fixed, goal>>

\* deleteMeta and metas_soft_delete_unlink.
EndGoal ==
  /\ goal = "active"
  /\ goal' = "deleted" /\ saved' = FALSE
  /\ UNCHANGED <<categories, rows, paid, paying, budgets, fixed>>

-----------------------------------------------------------------------------
(* Movements and categories. *)

\* The movements of a payment, in one category, are deleted.
Uncharge(m) ==
  /\ m \in charged
  /\ charged' = charged \ {m}
  /\ UNCHANGED <<categories, rows, registered, reopened, settled, paying, others>>

\* deleteCategoria, refused while movements refer to it, with its triggers
\* categorias_soft_delete_planning and categorias_soft_delete_scheduling.
EndCategory(c) ==
  /\ c \in categories
  /\ \A m \in charged : m[2] # c
  /\ categories' = categories \ {c}
  /\ rows' = [i \in Ids |-> IF rows[i].category = c THEN [rows[i] EXCEPT !.live = FALSE] ELSE rows[i]]
  /\ budgets' = {b \in budgets : b[1] # c}
  /\ fixed' = fixed \ {c}
  /\ UNCHANGED <<paid, paying, goal, saved>>

-----------------------------------------------------------------------------
Init ==
  /\ page \in {"payments", "plans"}
  /\ categories = Categories
  /\ rows = <<>>
  /\ registered = [i \in 1 .. MaxRows |-> 0] /\ charged = {}
  /\ reopened = [i \in 1 .. MaxRows |-> 0] /\ settled = {}
  /\ paying = [c \in Calls |-> 0]
  /\ budgets = {} /\ fixed = {} /\ goal = "absent" /\ saved = FALSE

PaymentNext ==
  \/ \E c \in Categories, form \in Forms, state \in States :
       Schedule(c, form, state) \/ \E i \in Ids : Reschedule(i, c, form, state)
  \/ \E i \in Ids : Unschedule(i) \/ \E c \in Calls : Reads(c, i)
  \/ \E c \in Calls : Pays(c) \/ NotPaid(c)
  \/ \E m \in charged : Uncharge(m)

PlanNext ==
  \/ \E c \in Categories : Fix(c) \/ Unfix(c)
  \/ \E c \in Categories, m \in Months : Budget(c, m) \/ EndBudget(c, m)
  \/ NewGoal \/ Save \/ EndGoal

Next ==
  /\ UNCHANGED page
  /\ \/ page = "payments" /\ PaymentNext
     \/ page = "plans" /\ PlanNext
     \/ \E c \in Categories : EndCategory(c)

Spec == Init /\ [][Next]_vars

-----------------------------------------------------------------------------
(* Properties. *)

\* A payment is charged once, and once more only after the user took it back.
ChargedOnce == \A i \in Ids : registered[i] <= reopened[i] + 1

\* A series goes on: what was paid and comes back has, or had, a next payment,
\* due in turn, unless the user has edited either of them since.
SeriesGoOn == \A i \in settled : rows[i].frequency # "none" => \E j \in Ids : Follows(j, i)

\* However often a payment is taken back and made again, no two generated
\* payments that are pending are the same.
NoTwins ==
  \A i, j \in Ids :
    i # j /\ (\A k \in {i, j} : rows[k].made /\ rows[k].live /\ rows[k].state = "pendiente")
      => \/ rows[i].category # rows[j].category
         \/ rows[i].what # rows[j].what
         \/ rows[i].due # rows[j].due

\* Nothing that is not deleted hangs from a deleted category or goal.
NothingHangs ==
  /\ \A i \in Ids : rows[i].live => rows[i].category \in categories
  /\ \A b \in budgets : b[1] \in categories
  /\ fixed \subseteq categories
  /\ saved => goal = "active"

\* mobileSchedulingRepository.ts, "no stale values from the preliminary read are
\* used to create financial data".
PlanningIsExact == ChargedOnce /\ SeriesGoOn /\ NoTwins /\ NothingHangs
=============================================================================
