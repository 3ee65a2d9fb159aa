------------------------------ MODULE QuickEntry ------------------------------
(***************************************************************************)
(* The quick entries of Android (mobileQuickEntry.ts): a tile of the       *)
(* system starts the program and asks it to open the form of a movement.   *)
(* The native queue keeps the latest entry for two minutes, tells the      *)
(* window of it by an event, and again when it is asked (peek), and gives  *)
(* it away once (consume); it remembers what it gave away also when the    *)
(* program dies.  The window opens the form only when the data of the      *)
(* account are loaded and no dialog is in the way (MobileApp.tsx), and the *)
(* effect that does so is run again by every change of these conditions,   *)
(* while its call of consume may still be under way.                       *)
(***************************************************************************)
EXTENDS Naturals, Sequences

CONSTANT MaxEntries   \* taps on the tiles (bound)

None == 0             \* no entry

VARIABLES
  issued,     \* the taps so far; entries are numbered in their order
  expired,    \* the first of them that are older than two minutes
  queue,      \* QuickEntryQueue: its pending entry
  consumed,   \* the entries it gave away, kept in the preferences
  events,     \* "pending" events on the way
  bridge,     \* startQuickEntryBridge: "off", "listening", "peeking" or "on"
  answer,     \* what peek found
  moved,      \* an event came since peek was called (revision # observed)
  pending,    \* the window's pending entry
  completed,  \* entries it is done with
  consuming,  \* consume_pending: of each entry "no", "asked", or "yes"
  waits,      \* effects of the page that wait for a call of consume
  ready,      \* the page can take an entry
  dialog,     \* a dialog is open: "none", "editor" or "other"
  opened      \* history: how often an entry opened the form

vars == <<issued, expired, queue, consumed, events, bridge, answer, moved,
          pending, completed, consuming, waits, ready, dialog, opened>>
nativeVars == <<issued, expired, queue, consumed>>
bridgeVars == <<events, bridge, answer, moved>>
entryVars == <<pending, completed, consuming>>
pageVars == <<waits, ready, dialog, opened>>

Entries == 1 .. MaxEntries

-----------------------------------------------------------------------------
(* Android. *)

Queued == IF queue > expired THEN queue ELSE None

\* receive: an intent with the entry e.  The system may deliver an old one
\* again when it starts the program.
Receive(e) ==
  /\ IF e > expired /\ e \notin consumed /\ e # queue /\ e > Queued
     THEN /\ queue' = e
          /\ events' = IF bridge = "off" THEN events ELSE Append(events, e)
     ELSE UNCHANGED <<queue, events>>
  /\ UNCHANGED <<expired, consumed, bridge, answer, moved, entryVars, pageVars>>

Tap ==
  /\ issued < MaxEntries
  /\ issued' = issued + 1
  /\ Receive(issued')

TimePasses ==
  /\ expired < issued
  /\ expired' = expired + 1
  /\ UNCHANGED <<issued, queue, consumed, bridgeVars, entryVars, pageVars>>

-----------------------------------------------------------------------------
(* The pending entry of the window. *)

\* finishQuickEntry
Finish(e) ==
  /\ consuming' = [consuming EXCEPT ![e] = "no"]
  /\ IF pending = e
     THEN completed' = completed \cup {e} /\ pending' = None
     ELSE UNCHANGED <<completed, pending>>

\* accept: a newer entry replaces the pending one, what was asked for it included.
Accept(e) ==
  IF e = None \/ e \in completed \/ e = pending THEN UNCHANGED entryVars
  ELSE /\ consuming' = [n \in Entries |-> IF n = pending THEN "no" ELSE consuming[n]]
       /\ pending' = e
       /\ UNCHANGED completed

\* Its timer, which begins with what was left of the two minutes.
Expires ==
  /\ pending # None /\ pending <= expired
  /\ Finish(pending)
  /\ UNCHANGED <<nativeVars, bridgeVars, pageVars>>

-----------------------------------------------------------------------------
(* The bridge. *)

\* It listens before it asks.
Listens ==
  /\ bridge = "off"
  /\ bridge' = "listening"
  /\ UNCHANGED <<nativeVars, events, answer, moved, entryVars, pageVars>>

EventArrives ==
  /\ events # <<>>
  /\ events' = Tail(events)
  /\ moved' = TRUE
  /\ Accept(Head(events))
  /\ UNCHANGED <<nativeVars, bridge, answer, pageVars>>

Peeks ==
  /\ bridge = "listening"
  /\ bridge' = "peeking"
  /\ answer' = Queued
  /\ moved' = FALSE
  /\ UNCHANGED <<nativeVars, events, entryVars, pageVars>>

\* A late answer does not replace what an event told meanwhile.
PeekAnswered ==
  /\ bridge = "peeking"
  /\ bridge' = "on"
  /\ IF moved THEN UNCHANGED entryVars ELSE Accept(answer)
  /\ answer' = None /\ moved' = FALSE
  /\ UNCHANGED <<nativeVars, events, pageVars>>

-----------------------------------------------------------------------------
(* The page. *)

Wait(e, how) == [entry |-> e, how |-> how]

\* The effects before the current one do nothing more, but those of a page that
\* was left with its account end the entry.
Left(how) == {IF w.how = "current" THEN Wait(w.entry, how) ELSE w : w \in waits}

\* The conditions of the effect change: it is run again.
Changes ==
  /\ ready' = ~ready
  /\ waits' = Left("former")
  /\ UNCHANGED <<nativeVars, bridgeVars, entryVars, dialog, opened>>

\* The account changes: another page.
Leaves ==
  /\ ready' = FALSE
  /\ waits' = Left("left")
  /\ dialog' = "none"
  /\ UNCHANGED <<nativeVars, bridgeVars, entryVars, opened>>

Opens == dialog = "none" /\ dialog' = "other" /\ UNCHANGED <<nativeVars, bridgeVars, entryVars, waits, ready, opened>>

\* A dialog is closed: its event runs the effect again.
Closes ==
  /\ dialog # "none" /\ dialog' = "none"
  /\ waits' = Left("former")
  /\ UNCHANGED <<nativeVars, bridgeVars, entryVars, ready, opened>>

\* consumeQuickEntry: one call for an entry, whose success is kept.
Consumes ==
  /\ pending # None /\ pending > expired
  /\ ready /\ dialog = "none"
  /\ \A w \in waits : w.how # "current"
  /\ waits' = waits \cup {Wait(pending, "current")}
  /\ consuming' = [consuming EXCEPT ![pending] = IF @ = "no" THEN "asked" ELSE @]
  /\ UNCHANGED <<nativeVars, bridgeVars, pending, completed, ready, dialog, opened>>

\* QuickEntryQueue.consume; the preferences may not be written.  The waits for
\* a refused call end.
NativeConsumes(e) ==
  /\ consuming[e] = "asked"
  /\ \/ /\ Queued = e
        /\ queue' = None /\ consumed' = consumed \cup {e}
        /\ consuming' = [consuming EXCEPT ![e] = "yes"]
        /\ UNCHANGED waits
     \/ /\ UNCHANGED <<queue, consumed>>
        /\ consuming' = [consuming EXCEPT ![e] = "no"]
        /\ waits' = {w \in waits : w.entry # e}
  /\ UNCHANGED <<issued, expired, bridgeVars, pending, completed, ready, dialog, opened>>

\* The call answered that the entry was given away.
Resumes(w) ==
  /\ w \in waits /\ consuming[w.entry] = "yes"
  /\ waits' = waits \ {w}
  /\ CASE w.how = "left" -> Finish(w.entry) /\ UNCHANGED <<dialog, opened>>
       [] w.how = "former" -> UNCHANGED <<entryVars, dialog, opened>>
       [] w.how = "current" /\ dialog # "none" -> UNCHANGED <<entryVars, dialog, opened>>
       [] OTHER -> /\ IF pending = w.entry
                      THEN /\ dialog' = "editor"
                           /\ opened' = [opened EXCEPT ![w.entry] = @ + 1]
                      ELSE UNCHANGED <<dialog, opened>>
                   /\ Finish(w.entry)
  /\ UNCHANGED <<nativeVars, bridgeVars, ready>>

\* The entry was replaced or ended while the call was under way: the answer
\* finds another pending entry.
Misses(w) ==
  /\ w \in waits /\ consuming[w.entry] = "no"
  /\ waits' = waits \ {w}
  /\ UNCHANGED <<nativeVars, bridgeVars, entryVars, ready, dialog, opened>>

\* The process dies and is started again, perhaps with an intent of before.
Restart ==
  /\ events' = <<>> /\ bridge' = "off" /\ answer' = None /\ moved' = FALSE
  /\ pending' = None /\ completed' = {} /\ consuming' = [e \in Entries |-> "no"]
  /\ waits' = {} /\ ready' = FALSE /\ dialog' = "none"
  /\ \E e \in 0 .. issued :
       queue' = IF e > expired /\ e \notin consumed THEN e ELSE None
  /\ UNCHANGED <<issued, expired, consumed, opened>>

-----------------------------------------------------------------------------
Init ==
  /\ issued = 0 /\ expired = 0 /\ queue = None /\ consumed = {}
  /\ events = <<>> /\ bridge = "off" /\ answer = None /\ moved = FALSE
  /\ pending = None /\ completed = {} /\ consuming = [e \in Entries |-> "no"]
  /\ waits = {} /\ ready = FALSE /\ dialog = "none"
  /\ opened = [e \in Entries |-> 0]

Next ==
  \/ Tap \/ TimePasses \/ Expires
  \/ Listens \/ EventArrives \/ Peeks \/ PeekAnswered
  \/ Changes \/ Leaves \/ Opens \/ Closes \/ Consumes
  \/ \E e \in Entries : NativeConsumes(e)
  \/ \E w \in waits : Resumes(w) \/ Misses(w)
  \/ Restart

Spec == Init /\ [][Next]_vars

-----------------------------------------------------------------------------
(* Properties. *)

\* A tap opens the form once at most, whatever is delivered again, run again or
\* started again, and only when the native queue gave it away.
OpensOnce == \A e \in Entries : opened[e] <= (IF e \in consumed THEN 1 ELSE 0)

\* Only the pending entry is being consumed: an entry given away is not kept
\* back by a later one.
OnlyPendingIsConsumed == \A e \in Entries : consuming[e] # "no" => e = pending

\* mobileQuickEntry.ts: "Never acknowledge the same ID twice".
TapOpensOnce == OpensOnce /\ OnlyPendingIsConsumed
=============================================================================
