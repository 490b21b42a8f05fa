--------------------------- MODULE ReviewLifecycle ---------------------------
(***************************************************************************)
(* What a human-in-the-loop review promises: the state machine that         *)
(* domain.ReviewRequest.CanTransitionTo describes (internal/domain/review.go)*)
(* and that no code outside the tests calls.  A review is created PENDING   *)
(* and moves along the allowed transitions, one review at a time except     *)
(* for the sweep, which expires several reviews with one UPDATE.            *)
(***************************************************************************)
CONSTANT Reviews

VARIABLE status

Statuses == {"absent", "PENDING", "APPROVED", "REJECTED", "EXPIRED", "EXECUTED"}

CanTransitionTo(from, to) ==
  CASE from = "PENDING" -> to \in {"APPROVED", "REJECTED", "EXPIRED"}
    [] from = "APPROVED" -> to = "EXECUTED"
    [] OTHER -> FALSE

Init == status = [v \in Reviews |-> "absent"]

Create(v) ==
  /\ status[v] = "absent"
  /\ status' = [status EXCEPT ![v] = "PENDING"]

Transition(v, to) ==
  /\ CanTransitionTo(status[v], to)
  /\ status' = [status EXCEPT ![v] = to]

Expire(V) ==
  /\ \A v \in V : CanTransitionTo(status[v], "EXPIRED")
  /\ status' = [v \in Reviews |-> IF v \in V THEN "EXPIRED" ELSE status[v]]

Next ==
  \/ \E v \in Reviews : Create(v) \/ \E to \in Statuses : Transition(v, to)
  \/ \E V \in SUBSET Reviews : Expire(V)

Spec == Init /\ [][Next]_status
==============================================================================
