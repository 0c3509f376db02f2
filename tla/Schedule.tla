------------------------------ MODULE Schedule ------------------------------
(***************************************************************************)
(* What the solver promises to whoever builds a schedule, and what the     *)
(* builder owes it (ThreadSched and POConstraint): a growing set of order  *)
(* constraints over events, asked once whether an order of the events      *)
(* satisfies them all.                                                     *)
(***************************************************************************)
EXTENDS FiniteSetsExt

CONSTANT Event

VARIABLES
  events,  \* the events of the schedule
  order,   \* pairs <<a, b>>: a happens before b
  either,  \* sets of such pairs, one of each set must hold
  verdict

vars == <<events, order, either, verdict>>

Init ==
  /\ events = {}
  /\ order = {}
  /\ either = {}
  /\ verdict = "none"

Mentioned == UNION { {p[1], p[2]} : p \in order \cup UNION either }

(* Events come, and go as long as no constraint is about them; a           *)
(* constraint stays, and is about events that are there.                   *)
Build ==
  /\ verdict = "none"
  /\ events' \subseteq Event
  /\ order \subseteq order'
  /\ either \subseteq either'
  /\ Mentioned' \subseteq events'
  /\ UNCHANGED verdict

GiveUp ==
  /\ verdict = "none"
  /\ events' \subseteq Event
  /\ Mentioned \subseteq events'
  /\ verdict' = "infeasible"
  /\ UNCHANGED <<order, either>>

(* The constraints can be met if, for some choice among the alternatives,  *)
(* every set of events has a first one.                                    *)
HasFirst(S, R) == \E b \in S : \A a \in S : <<a, b>> \notin R
Solvable ==
  \E chosen \in Choices(either) :
    \A S \in SUBSET Mentioned : S # {} => HasFirst(S, order \cup chosen)

Decide ==
  /\ verdict = "none"
  /\ verdict' = IF Solvable THEN "feasible" ELSE "infeasible"
  /\ UNCHANGED <<events, order, either>>

Next == Build \/ GiveUp \/ Decide

Spec == Init /\ [][Next]_vars
=============================================================================
