-------------------------- MODULE MutationDelivery --------------------------
(***************************************************************************)
(* What the mapper transport promises about a mutation, free of sockets,   *)
(* timers and sessions: its bytes are handed over at most once, and an     *)
(* error says truthfully whether they were.  MapperConnection implements   *)
(* it; the order workflow relies on it.                                    *)
(***************************************************************************)
CONSTANT Mutation

VARIABLE stage   \* of each mutation

\* "refused" is the error with deliveryState notSent, "unknown" the one with
\* sent, "over" an end without a transport error: closed or answered.
Stage == {"unused", "queued", "handed", "refused", "unknown", "over"}

\* The stages one step may take a mutation to: a handler may send it and fail
\* it at once, and move several mutations together.
Successors(x) ==
  CASE x = "unused" -> Stage
    [] x = "queued" -> Stage \ {"unused"}
    [] x = "handed" -> {"handed", "unknown", "over"}
    [] OTHER        -> {x}

Init == stage = [m \in Mutation |-> "unused"]

Next ==
  /\ stage' \in [Mutation -> Stage]
  /\ \A m \in Mutation : stage'[m] \in Successors(stage[m])

Spec == Init /\ [][Next]_stage
=============================================================================
