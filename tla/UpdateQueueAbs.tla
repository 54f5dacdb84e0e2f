--------------------------- MODULE UpdateQueueAbs ---------------------------
(***************************************************************************)
(* What the pending_updates queue promises about one Telegram update: it   *)
(* is accepted once, at most one execution of process_update works on it   *)
(* at a time, it is given up only after MAX_ATTEMPTS executions, and once  *)
(* done or failed it is never touched again.  An update that a crash or a  *)
(* lost answer leaves in 'processing' is stuck: nothing takes it up again. *)
(***************************************************************************)
EXTENDS Naturals

CONSTANTS Updates,       \* Telegram updates, one row each
          MAX_ATTEMPTS   \* executions after which an update is given up

VARIABLES state,   \* the stage of each update
          runs     \* executions of process_update begun for each update

vars == <<state, runs>>

Stages == {"new", "queued", "held", "stuck", "done", "failed"}

Init == /\ state = [u \in Updates |-> "new"]
        /\ runs = [u \in Updates |-> 0]

\* One step of one update's life: its stage goes from `from' to `to'.
Moves(u, from, to) == state[u] = from /\ state'[u] = to

Accept(u)   == Moves(u, "new", "queued") /\ runs'[u] = runs[u]
Take(u)     == Moves(u, "queued", "held") /\ runs'[u] = runs[u] + 1
Complete(u) == Moves(u, "held", "done") /\ runs'[u] = runs[u]
GiveBack(u) == Moves(u, "held", "queued") /\ runs'[u] = runs[u]
GiveUp(u)   == /\ runs[u] >= MAX_ATTEMPTS
               /\ Moves(u, "held", "failed")
               /\ runs'[u] = runs[u]
Strand(u)   == /\ Moves(u, "queued", "stuck") \/ Moves(u, "held", "stuck")
               /\ runs'[u] = runs[u]
Rest(u)     == state'[u] = state[u] /\ runs'[u] = runs[u]

\* A claim takes several updates at once and a crash strands several, so a
\* step lets every update move, each along its own life.
Next == /\ state' \in [Updates -> Stages]
        /\ runs' \in [Updates -> Nat]
        /\ \A u \in Updates : \/ Accept(u) \/ Take(u) \/ Complete(u) \/ GiveBack(u)
                              \/ GiveUp(u) \/ Strand(u) \/ Rest(u)

Spec == Init /\ [][Next]_vars
=============================================================================
