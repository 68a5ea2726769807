------------------------------- MODULE GuiApp -------------------------------
(***************************************************************************)
(* The desktop application (gui src-tauri main.rs) with the wizard that    *)
(* drives it (gui src main.ts): commands from the window, one thread per   *)
(* scan, and what they share: the store behind its mutex, busy and stop.   *)
(*                                                                         *)
(* A scan is one press of a scan button.  The commands that touch no store *)
(* run on the window's thread one after another; those that do hold the    *)
(* mutex throughout, so each is one step, and does nothing but report an   *)
(* error once the mutex is poisoned.                                       *)
(***************************************************************************)
EXTENDS ResultsStore, TLC

CONSTANTS
  Scans,          \* the presses of a scan button
  Modes,          \* which buttons: "wizard", "deep", "filesystems", "carve"
  MaxFound,       \* bound: files one phase of a scan finds
  MaxSynthetic,   \* bound: presses of the button that adds synthetic rows
  MaxRestarts     \* bound: times the application is killed

ASSUME GuiAssumption ==
  /\ Scans \subseteq Nat \ {0} /\ IsFiniteSet(Scans)
  /\ Modes \subseteq {"wizard", "deep", "filesystems", "carve"}
  /\ MaxFound \in Nat /\ MaxSynthetic \in Nat /\ MaxRestarts \in Nat

VARIABLES
  busy, stop,     \* App
  pc,             \* what each scan does next
  mode,           \* the button pressed for it
  found,          \* rows its thread holds
  ok,             \* what it reports
  scanning,       \* the window's state.scanning
  done_events,    \* scan-done events on their way to the window
  poisoned,       \* a thread panicked with the store's mutex in hand
  synthetics, restarts,
  all_found,      \* history: every row a scan has found
  gone            \* history: rows cleared, and rows of a failed add

scan_vars == <<pc, mode, found, ok>>
history   == <<all_found, gone>>
rest      == <<poisoned, synthetics, restarts>>
vars == <<store, busy, stop, scan_vars, scanning, done_events, rest, history>>

Wizard(s)  == mode[s] \in {"wizard", "deep"}
Working    == {"fs", "partial", "carve", "add", "unbusy"}
RowOf(s, k, n) == [scan |-> s, kind |-> k, n |-> n]
Listed     == {rows[id] : id \in Ids}

Init ==
  /\ StoreInit
  /\ busy = FALSE /\ stop = FALSE
  /\ pc = [s \in Scans |-> "none"] /\ mode = [s \in Scans |-> "none"]
  /\ found = [s \in Scans |-> <<>>] /\ ok = [s \in Scans |-> FALSE]
  /\ scanning = FALSE /\ done_events = 0
  /\ poisoned = FALSE /\ synthetics = 0 /\ restarts = 0
  /\ all_found = {} /\ gone = {}

-----------------------------------------------------------------------------
(* The window                                                              *)

\* startScan, up to its first await; or a button of the advanced view.  Neither
\* is out of reach while a scan runs.
Press(s, m) ==
  /\ pc[s] = "none" /\ \A r \in Scans : r < s => pc[r] # "none"
  /\ mode' = [mode EXCEPT ![s] = m]
  /\ IF m \in {"wizard", "deep"}
       THEN pc' = [pc EXCEPT ![s] = "clear"] /\ scanning' = TRUE
       ELSE pc' = [pc EXCEPT ![s] = "start"] /\ UNCHANGED scanning
  /\ UNCHANGED <<store, busy, stop, found, ok, done_events, rest, history>>

\* The source cannot be read, or clearing fails: the wizard shows why and starts
\* nothing.
Refused(s) ==
  /\ pc[s] = "clear"
  /\ pc' = [pc EXCEPT ![s] = "refused"]
  /\ scanning' = FALSE
  /\ UNCHANGED <<store, busy, stop, mode, found, ok, done_events, rest, history>>

\* "Each scan in the simple view shows its own results only."
ClearFirst(s) ==
  /\ pc[s] = "clear"
  /\ ~poisoned
  /\ Clear
  /\ gone' = gone \cup Listed
  /\ pc' = [pc EXCEPT ![s] = "start"]
  /\ UNCHANGED <<busy, stop, mode, found, ok, scanning, done_events, rest, all_found>>

\* The first thing a scan's thread does.
FirstPhase(s) == IF mode[s] = "carve" THEN "carve" ELSE "fs"

\* Mutant: stop is cleared before busy is looked at.
StartClearing(s) ==
  /\ pc[s] = "start"
  /\ stop' = FALSE
  /\ IF busy
       THEN pc' = [pc EXCEPT ![s] = "refused"] /\ UNCHANGED busy
       ELSE pc' = [pc EXCEPT ![s] = FirstPhase(s)] /\ busy' = TRUE
  /\ scanning' = (scanning /\ ~(busy /\ Wizard(s)))
  /\ UNCHANGED <<store, mode, found, ok, done_events, rest, history>>

\* run_scan.  A press of Stop before this is forgotten.
Start(s) ==
  /\ pc[s] = "start"
  /\ IF busy
       THEN pc' = [pc EXCEPT ![s] = "refused"] /\ UNCHANGED <<busy, stop>>
       ELSE pc' = [pc EXCEPT ![s] = FirstPhase(s)] /\ busy' = TRUE /\ stop' = FALSE
  /\ scanning' = (scanning /\ ~(busy /\ Wizard(s)))
  /\ UNCHANGED <<store, mode, found, ok, done_events, rest, history>>

\* Stop, in the wizard or in the advanced view.
PressStop ==
  /\ ~stop
  /\ stop' = TRUE
  /\ UNCHANGED <<store, busy, scan_vars, scanning, done_events, rest, history>>

\* Back calls stop only when the window believes that a scan is running.
PressBack ==
  /\ scanning
  /\ stop' = TRUE /\ scanning' = FALSE
  /\ UNCHANGED <<store, busy, scan_vars, done_events, rest, history>>

ScanDone ==
  /\ done_events > 0
  /\ done_events' = done_events - 1
  /\ scanning' = FALSE
  /\ UNCHANGED <<store, busy, stop, scan_vars, rest, history>>

\* A grid asks for a view.
Filtered(f) ==
  /\ ~poisoned
  /\ SetView(f)
  /\ UNCHANGED <<busy, stop, scan_vars, scanning, done_events, rest, history>>

\* Clear, and synthetic rows, in the advanced view.
PressClear ==
  /\ ~poisoned
  /\ Clear
  /\ gone' = gone \cup Listed
  /\ UNCHANGED <<busy, stop, scan_vars, scanning, done_events, rest, all_found>>

Synthetic ==
  /\ ~poisoned /\ synthetics < MaxSynthetic
  /\ synthetics' = synthetics + 1
  /\ Add(<<RowOf(0, "synthetic", synthetics')>>)
  /\ UNCHANGED <<busy, stop, scan_vars, scanning, done_events, poisoned, restarts, history>>

\* A picture, a view or a restore panics with the mutex in hand: the window is told
\* of an error, and so is everybody who locks the store from now on.
CommandPanics ==
  /\ ~poisoned
  /\ poisoned' = TRUE
  /\ UNCHANGED <<store, busy, stop, scan_vars, scanning, done_events, synthetics, restarts, history>>

-----------------------------------------------------------------------------
(* The scan's thread                                                       *)

\* One more file: the stop flag is looked at before each.
Find(s) ==
  LET kind == IF pc[s] = "fs" THEN "deleted" ELSE "carved" IN
  /\ pc[s] \in {"fs", "carve"}
  /\ ~stop
  /\ \E n \in 1 .. MaxFound :
       LET row == RowOf(s, kind, n) IN
       /\ row \notin all_found
       /\ \A m \in 1 .. n - 1 : RowOf(s, kind, m) \in all_found
       /\ found' = [found EXCEPT ![s] = Append(@, row)]
       /\ all_found' = all_found \cup {row}
  /\ UNCHANGED <<store, busy, stop, pc, mode, ok, scanning, done_events, rest, gone>>

\* The file systems are read, or the scan was stopped while they were.
FsEnd(s) ==
  /\ pc[s] = "fs"
  /\ pc' = [pc EXCEPT ![s] = IF mode[s] = "deep" /\ ~stop THEN "partial" ELSE "add"]
  /\ UNCHANGED <<store, busy, stop, mode, found, ok, scanning, done_events, rest, history>>

\* Mutant: the rows are added, and kept to be added again.
PartialKeeping(s) ==
  /\ pc[s] = "partial"
  /\ ~poisoned
  /\ Add(found[s])
  /\ pc' = [pc EXCEPT ![s] = "carve"]
  /\ UNCHANGED <<busy, stop, mode, found, ok, scanning, done_events, rest, history>>

\* The file system's rows are there to look at while the deep scan runs.
Partial(s) ==
  /\ pc[s] = "partial"
  /\ ~poisoned
  /\ Add(found[s])
  /\ found' = [found EXCEPT ![s] = <<>>]
  /\ pc' = [pc EXCEPT ![s] = "carve"]
  /\ UNCHANGED <<busy, stop, mode, ok, scanning, done_events, rest, history>>

\* That add fails: nobody hears of it, and the rows are dropped.
PartialFails(s) ==
  /\ pc[s] = "partial"
  /\ ~poisoned
  /\ found' = [found EXCEPT ![s] = <<>>]
  /\ gone' = gone \cup {found[s][i] : i \in DOMAIN found[s]}
  /\ pc' = [pc EXCEPT ![s] = "carve"]
  /\ UNCHANGED <<store, busy, stop, mode, ok, scanning, done_events, rest, all_found>>

\* What carving found is handed over for the add.
CarveEnd(s) ==
  /\ pc[s] = "carve"
  /\ pc' = [pc EXCEPT ![s] = "add"]
  /\ UNCHANGED <<store, busy, stop, mode, found, ok, scanning, done_events, rest, history>>

\* Mutant: after an error the thread reports, and leaves busy as it is.
FailsKeepingBusy(s) ==
  /\ pc[s] \in {"fs", "carve"} \/ (pc[s] = "add" /\ ~poisoned)
  /\ found' = [found EXCEPT ![s] = <<>>]
  /\ pc' = [pc EXCEPT ![s] = "emit"]
  /\ UNCHANGED <<store, busy, stop, mode, ok, scanning, done_events, rest, history>>

\* An error in either phase, or in the last add: reported, with what the thread
\* still holds thrown away.
Fails(s) ==
  /\ pc[s] \in {"fs", "carve"} \/ (pc[s] = "add" /\ ~poisoned)
  /\ found' = [found EXCEPT ![s] = <<>>]
  /\ pc' = [pc EXCEPT ![s] = "unbusy"]
  /\ UNCHANGED <<store, busy, stop, mode, ok, scanning, done_events, rest, history>>

AddFound(s) ==
  /\ pc[s] = "add"
  /\ ~poisoned
  /\ Add(found[s])
  /\ found' = [found EXCEPT ![s] = <<>>]
  /\ ok' = [ok EXCEPT ![s] = TRUE]
  /\ pc' = [pc EXCEPT ![s] = "unbusy"]
  /\ UNCHANGED <<busy, stop, mode, scanning, done_events, rest, history>>

Unbusy(s) ==
  /\ pc[s] = "unbusy"
  /\ busy' = FALSE
  /\ pc' = [pc EXCEPT ![s] = "emit"]
  /\ UNCHANGED <<store, stop, mode, found, ok, scanning, done_events, rest, history>>

Emit(s) ==
  /\ pc[s] = "emit"
  /\ done_events' = done_events + 1
  /\ pc' = [pc EXCEPT ![s] = "done"]
  /\ UNCHANGED <<store, busy, stop, mode, found, ok, scanning, rest, history>>

\* A panic in the work ends the thread, with busy set.
Panic(s) ==
  /\ pc[s] \in {"fs", "carve"}
  /\ pc' = [pc EXCEPT ![s] = "panicked"]
  /\ found' = [found EXCEPT ![s] = <<>>]
  /\ UNCHANGED <<store, busy, stop, mode, ok, scanning, done_events, rest, history>>

\* So does one where it adds: of the add, or because another has left the mutex
\* poisoned.
LockPanics(s) ==
  /\ pc[s] \in {"partial", "add"}
  /\ pc' = [pc EXCEPT ![s] = "panicked"]
  /\ found' = [found EXCEPT ![s] = <<>>]
  /\ poisoned' = TRUE
  /\ UNCHANGED <<store, busy, stop, mode, ok, scanning, done_events, synthetics, restarts, history>>

Thread(s) ==
  \/ Find(s) \/ FsEnd(s) \/ Partial(s) \/ PartialFails(s) \/ CarveEnd(s)
  \/ Fails(s) \/ AddFound(s) \/ Unbusy(s) \/ Emit(s)
  \/ Panic(s) \/ LockPanics(s)

\* The application is killed and started again: only the database is left.
Restart ==
  /\ restarts < MaxRestarts
  /\ restarts' = restarts + 1
  /\ Open
  /\ busy' = FALSE /\ stop' = FALSE /\ scanning' = FALSE /\ done_events' = 0
  /\ poisoned' = FALSE
  /\ pc' = [s \in Scans |-> IF pc[s] \in {"none", "refused", "done"} THEN pc[s] ELSE "dead"]
  /\ found' = [s \in Scans |-> <<>>]
  /\ UNCHANGED <<mode, ok, synthetics, history>>

Next ==
  \/ \E s \in Scans :
       \/ \E m \in Modes : Press(s, m)
       \/ Refused(s) \/ ClearFirst(s) \/ Start(s)
       \/ Thread(s)
  \/ PressStop \/ PressBack \/ ScanDone
  \/ \E f \in Filters : Filtered(f)
  \/ PressClear \/ Synthetic \/ CommandPanics \/ Restart

Spec == Init /\ [][Next]_vars

-----------------------------------------------------------------------------
(* Properties                                                              *)

Kinds == {"deleted", "carved", "synthetic"}
Running(s) == pc[s] \in Working

TypeOK ==
  /\ \A id \in Ids : id \in Nat \ {0} /\ rows[id].kind \in Kinds
  /\ view.n \in Nat /\ \A i \in DOMAIN view.ids : view.ids[i] \in Nat \ {0}
  /\ busy \in BOOLEAN /\ stop \in BOOLEAN /\ scanning \in BOOLEAN /\ poisoned \in BOOLEAN
  /\ \A s \in Scans :
       /\ pc[s] \in {"none", "clear", "start", "refused", "emit", "done", "panicked", "dead"}
                  \cup Working
       /\ mode[s] \in Modes \cup {"none"} /\ ok[s] \in BOOLEAN
       /\ \A i \in DOMAIN found[s] : found[s][i].scan = s
  /\ done_events \in 0 .. Cardinality(Scans)

\* "Ids are dense from 1, so position i is id i+1": however scans, synthetic
\* rows, clears and restarts are mixed, the view of every row is every row, and
\* a filtered view never names a row that is not there, so every page that rows
\* hands out is full.
ViewIsDense ==
  /\ view.all => view.n = Total
  /\ \A start \in 0 .. view.n - 1 : \A count \in 1 .. view.n - start :
       /\ Len(Page(start, count)) = count
       /\ IsInjective(Page(start, count))

\* A scan that reports success has listed every row it found exactly once,
\* those added early included, unless they were cleared since or an early add
\* failed.
FoundIsListedOnce ==
  /\ \A i, j \in Ids : rows[i] = rows[j] => i = j
  /\ \A s \in Scans : ok[s] =>
       \A row \in all_found : row.scan = s => row \in Listed \cup gone

\* Nothing takes back a stop from the scan it was meant for, another press of a
\* scan button included.
StopSticks == [][busy /\ stop /\ busy' => stop']_vars

\* The scan busy was set for.
Owns(s) == Running(s) \/ pc[s] = "panicked"

\* busy says whether a scan runs, and no two run at once, however scans are
\* pressed, fail and are killed; the exception is a scan whose thread panicked,
\* which leaves busy set and every later scan refused until a restart.  It need
\* not be its own fault: a command that poisoned the store's mutex is enough.
BusyIsItsScans ==
  /\ busy <=> \E s \in Scans : Owns(s)
  /\ \A r, s \in Scans : Owns(r) /\ Owns(s) => r = s

\* "Each scan in the simple view shows its own results only" (main.ts).
OwnResultsOnly ==
  \A s \in Scans : Running(s) /\ Wizard(s) => \A row \in Listed : row.scan = s
=============================================================================
