----------------------------- MODULE DockStatus -----------------------------
(***************************************************************************)
(* What the coordinator promises about the dock status entities see: it    *)
(* follows the status the robot reports, but only once that report has     *)
(* gone uncontradicted for a whole debounce period.                        *)
(***************************************************************************)
EXTENDS Integers

CONSTANTS Statuses,   \* what visible may be, "never reported" included
          Debounce    \* the debounce period, in ticks

VARIABLES visible,    \* the status entities show
          latest,     \* the status last reported
          stable      \* ticks for which latest has been the latest report

vars == <<visible, latest, stable>>

Init ==
  /\ visible \in Statuses
  /\ latest = visible
  /\ stable = Debounce

\* A report that repeats latest changes nothing: it does not restart the wait.
Report(s) ==
  /\ s # latest
  /\ latest' = s
  /\ stable' = 0
  /\ UNCHANGED visible

Tick ==
  /\ stable < Debounce
  /\ stable' = stable + 1
  /\ UNCHANGED <<visible, latest>>

Show ==
  /\ stable = Debounce
  /\ visible' = latest
  /\ UNCHANGED <<latest, stable>>

\* Unloading the entry abandons the wait for a status not shown yet.
Abandon ==
  /\ stable' = 0
  /\ UNCHANGED <<visible, latest>>

Next ==
  \/ \E s \in Statuses : Report(s)
  \/ Tick
  \/ Show
  \/ Abandon

Spec == Init /\ [][Next]_vars
=============================================================================
