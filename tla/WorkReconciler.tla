--------------------------- MODULE WorkReconciler ---------------------------
(***************************************************************************)
(* The reconciler of the work queue as a process: its start and stop, the  *)
(* wake-ups and the anti-entropy timer that ask for scans, the one scan    *)
(* they share, and the cursor by which scans page through the rows of a    *)
(* lane.  What a scan does with a row is the subject of module WorkQueue.  *)
(*                                                                         *)
(* Rows are ordered by creation; one whose transaction commits late enters *)
(* below the cursor.                                                       *)
(***************************************************************************)
EXTENDS Naturals, FiniteSets, FiniteSetsExt

CONSTANTS
  MaxRow,      \* rows are 1..MaxRow in order of creation
  PageSize,    \* reconciliationBatchSize
  MaxChanges   \* rows that enter or leave

VARIABLES
  rows,        \* candidates in the repository
  after,       \* cursor of the lane, 0 for none
  through,     \* ceiling of the cycle, 0 for none
  due,         \* rows present since the cycle began, of those up to its ceiling
  seen,        \* rows the cycle has read
  started,
  starting,    \* start(): "no", "subscribing" or "scanning"
  stopping,    \* stop() has been called and has not returned
  stopped,     \* the last call to return was stop()
  overlapped,  \* stop() was called during a start()
  subscribed,  \* the listener is registered with the signal service
  timer,       \* antiEntropyTimer
  rearm,       \* the scan was asked for by the timer, which is set again after it
  scan,        \* scanPromise: "none", "ceiling" or "page"
  changes

rowVars == <<rows, due, changes>>
laneVars == <<after, through, seen>>
lifeVars == <<started, starting, stopping, stopped, overlapped, subscribed, timer, rearm>>
vars == <<rowVars, laneVars, lifeVars, scan>>

Rows == 1..MaxRow

TypeOK ==
  /\ rows \subseteq Rows /\ due \subseteq Rows /\ seen \subseteq Rows
  /\ {after, through} \subseteq 0..MaxRow
  /\ {started, stopping, stopped, overlapped, subscribed, timer, rearm} \subseteq BOOLEAN
  /\ starting \in {"no", "subscribing", "scanning"}
  /\ scan \in {"none", "ceiling", "page"}
  /\ changes \in 0..MaxChanges

Init ==
  /\ rows \in SUBSET Rows
  /\ due = {} /\ seen = {} /\ after = 0 /\ through = 0
  /\ started = FALSE /\ starting = "no"
  /\ stopping = FALSE /\ stopped = FALSE /\ overlapped = FALSE
  /\ subscribed = FALSE /\ timer = FALSE /\ rearm = FALSE
  /\ scan = "none" /\ changes = 0

(***************************************************************************)
(* Rows come and go                                                        *)
(***************************************************************************)
Enter ==
  /\ changes < MaxChanges /\ changes' = changes + 1
  /\ \E r \in Rows \ rows : rows' = rows \cup {r}
  /\ UNCHANGED <<due, laneVars, lifeVars, scan>>

Exit ==
  /\ changes < MaxChanges /\ changes' = changes + 1
  /\ \E r \in rows : rows' = rows \ {r} /\ due' = due \ {r}
  /\ UNCHANGED <<laneVars, lifeVars, scan>>

(***************************************************************************)
(* One scan                                                                *)
(***************************************************************************)
(* Whoever asks joins the scan that is under way.                          *)
RequestScan == scan' = IF scan = "none" THEN "ceiling" ELSE scan

scheduleAntiEntropy(again) == timer' = (timer \/ (started /\ again))

(* A cycle begins by fixing how far it goes.                               *)
Ceiling ==
  /\ scan = "ceiling" /\ through = 0 /\ rows # {}
  /\ through' = Max(rows)
  /\ due' = rows
  /\ after' = 0 /\ seen' = {}
  /\ scan' = "page"
  /\ UNCHANGED <<rows, changes, lifeVars>>

CeilingKnown ==
  /\ scan = "ceiling" /\ through # 0
  /\ scan' = "page"
  /\ UNCHANGED <<rowVars, laneVars, lifeVars>>

Page ==
  LET open == {r \in rows : after < r /\ r <= through}
  IN {r \in open : Cardinality({q \in open : q < r}) < PageSize}

(* The scan settles: a start goes on, the timer that asked is set again.   *)
Settle ==
  /\ scan' = "none"
  /\ starting' = IF starting = "scanning" THEN "no" ELSE starting
  /\ scheduleAntiEntropy(rearm \/ starting = "scanning")
  /\ rearm' = FALSE
  /\ UNCHANGED <<started, stopping, stopped, overlapped, subscribed>>

(* Mutant: the cycle ends one row before its ceiling.                      *)
CycleEndsEarly(page) ==
  page = {} \/ Cardinality(page) < PageSize \/ Max(page) + 1 >= through

CycleEnds(page) == page = {} \/ Cardinality(page) < PageSize \/ Max(page) = through

(* A page: the cycle ends with a short one or at its ceiling, else the     *)
(* cursor moves to its last row.  The waiting lane has a cursor of its     *)
(* own that moves alike.                                                   *)
ReadPage ==
  /\ scan = "page"
  /\ seen' = seen \cup Page
  /\ IF CycleEnds(Page)
     THEN after' = 0 /\ through' = 0
     ELSE after' = Max(Page) /\ UNCHANGED through
  /\ Settle
  /\ UNCHANGED rowVars

NothingThere ==
  /\ scan = "ceiling" /\ through = 0 /\ rows = {}
  /\ Settle
  /\ UNCHANGED <<rowVars, laneVars>>

(* A scan that fails is reported; the lane keeps its cursor.  A start that *)
(* was waiting for it undoes itself.                                       *)
ScanFails ==
  /\ scan # "none"
  /\ scan' = "none"
  /\ rearm' = FALSE
  /\ IF starting = "scanning"
     THEN starting' = "no" /\ started' = FALSE /\ subscribed' = FALSE /\ timer' = FALSE
     ELSE scheduleAntiEntropy(rearm) /\ UNCHANGED <<starting, started, subscribed>>
  /\ UNCHANGED <<rowVars, laneVars, stopping, stopped, overlapped>>

(***************************************************************************)
(* Who asks for scans                                                      *)
(***************************************************************************)
Wakeup ==
  /\ subscribed /\ scan = "none"
  /\ RequestScan
  /\ UNCHANGED <<rowVars, laneVars, lifeVars>>

TimerFires ==
  /\ timer
  /\ timer' = FALSE /\ rearm' = TRUE
  /\ RequestScan
  /\ UNCHANGED <<rowVars, laneVars, started, starting, stopping, stopped, overlapped, subscribed>>

(***************************************************************************)
(* start and stop                                                          *)
(***************************************************************************)
start ==
  /\ ~started /\ starting = "no" /\ ~stopping
  /\ started' = TRUE /\ starting' = "subscribing"
  /\ stopped' = FALSE
  /\ UNCHANGED <<rowVars, laneVars, scan, stopping, overlapped, subscribed, timer, rearm>>

Subscribed ==
  /\ starting = "subscribing"
  /\ subscribed' = TRUE
  /\ starting' = "scanning"
  /\ RequestScan
  /\ UNCHANGED <<rowVars, laneVars, started, stopping, stopped, overlapped, timer, rearm>>

SubscribeFails ==
  /\ starting = "subscribing"
  /\ starting' = "no" /\ started' = FALSE
  /\ timer' = FALSE
  /\ UNCHANGED <<rowVars, laneVars, scan, stopping, stopped, overlapped, subscribed, rearm>>

(* The product stops a reconciler whose start has returned; a start that   *)
(* is still subscribing would come back to a live subscription.            *)
stop ==
  /\ ~stopping
  /\ stopping' = TRUE
  /\ overlapped' = (overlapped \/ starting # "no")
  /\ started' = FALSE /\ timer' = FALSE /\ subscribed' = FALSE
  /\ UNCHANGED <<rowVars, laneVars, scan, starting, stopped, rearm>>

(* The scan under way has settled and the lanes are reset.                 *)
StopReturns ==
  /\ stopping /\ scan = "none"
  /\ stopping' = FALSE /\ stopped' = TRUE
  /\ after' = 0 /\ through' = 0
  /\ UNCHANGED <<rowVars, seen, scan, started, starting, overlapped, subscribed, timer, rearm>>

Next ==
  \/ Enter \/ Exit
  \/ Ceiling \/ CeilingKnown \/ ReadPage \/ NothingThere \/ ScanFails
  \/ Wakeup \/ TimerFires
  \/ start \/ Subscribed \/ SubscribeFails \/ stop \/ StopReturns

Spec == Init /\ [][Next]_vars

(***************************************************************************)
(* Properties                                                              *)
(***************************************************************************)
(* A row that stays from the beginning of a cycle to its end is read in    *)
(* it, whatever enters and leaves meanwhile: a lane that pages starves     *)
(* nobody.                                                                 *)
CycleReaches == through # 0 /\ through' = 0 /\ ~stopping => due' \subseteq seen'
CycleReachesAll == [][CycleReaches]_vars

(* While the reconciler is started somebody will ask for the next scan,    *)
(* even if the one under way fails and every hint is lost.                 *)
KeepsScanning == started => starting # "no" \/ timer \/ rearm

(* Once stop() has returned no subscription, timer or scan is left, unless *)
(* it was called while a start() was under way.                            *)
StoppedIsQuiet ==
  stopped /\ ~overlapped => ~subscribed /\ ~timer /\ scan = "none"

(* A started reconciler reads every row; a stopped one does nothing.         *)
ScansEverything == [](TypeOK /\ KeepsScanning /\ StoppedIsQuiet) /\ CycleReachesAll

(***************************************************************************)
(* The inductive invariant                                                 *)
(***************************************************************************)
(* A cycle owes nothing behind its cursor.                                 *)
LaneOK ==
  /\ due \subseteq rows
  /\ through # 0 => \A r \in due : r <= through /\ (r <= after => r \in seen)

(* A stop undoes a start that has returned, and nothing comes back.        *)
StopOK ==
  (stopping \/ stopped) /\ ~overlapped => starting = "no" /\ ~started /\ ~subscribed /\ ~timer

Inv == TypeOK /\ LaneOK /\ StopOK /\ KeepsScanning /\ StoppedIsQuiet
=============================================================================
