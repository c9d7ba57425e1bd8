----------------------------- MODULE TaskService -----------------------------
(***************************************************************************)
(* What ThreadPool promises its owner, said without a mutex, a condition   *)
(* variable or threads: tasks start in the order in which they were        *)
(* submitted, each one is started once and finished once, at most Width at *)
(* a time, and the pool is gone only when all of them are finished.        *)
(***************************************************************************)
EXTENDS Naturals, FiniteSets

CONSTANT Width   \* how many tasks can run at the same time

VARIABLES
  submitted,  \* tasks 1..submitted have been handed over
  started,    \* tasks 1..started have been started
  finished,   \* the tasks that have ended
  gone        \* the pool has been destroyed

serviceVars == <<submitted, started, finished, gone>>

Running == (1..started) \ finished

Init == submitted = 0 /\ started = 0 /\ finished = {} /\ gone = FALSE

Submit ==
  /\ ~gone
  /\ submitted' = submitted + 1
  /\ UNCHANGED <<started, finished, gone>>

Start ==
  /\ started < submitted
  /\ Cardinality(Running) < Width
  /\ started' = started + 1
  /\ UNCHANGED <<submitted, finished, gone>>

Finish ==
  /\ \E t \in Running : finished' = finished \cup {t}
  /\ UNCHANGED <<submitted, started, gone>>

Destroy ==
  /\ ~gone
  /\ finished = 1..submitted
  /\ gone' = TRUE
  /\ UNCHANGED <<submitted, started, finished>>

Next == Submit \/ Start \/ Finish \/ Destroy

Spec == Init /\ [][Next]_serviceVars
==============================================================================
