------------------------------ MODULE RunBoard ------------------------------
(***************************************************************************)
(* What the master promises about every run it accepts, and nothing about  *)
(* how: a run is born once, may wait in the queue, is placed on at most    *)
(* one DOM, one that fits its request, and once ended never comes back.    *)
(* RunLifecycle is shown to implement this specification.                  *)
(***************************************************************************)
CONSTANTS
    Runs,           \* execution ids
    Doms,           \* DOMs (DataModels) that may connect
    Requests,       \* what a client may submit
    Fits(_, _),     \* Fits(q, d): request q may run on DOM d
    None            \* no value yet

VARIABLES
    request,        \* request[r]: what run r asked for, None before submission
    phase,          \* phase[r]: where r stands
    place           \* place[r]: the DOM r was dispatched to, None before

vars == <<request, phase, place>>

Phases == {"unborn", "queued", "running", "ended"}

\* Where a run may go from each phase; every phase may also be kept.
Legal(p, q) ==
    \/ p = q
    \/ p = "unborn"
    \/ p = "queued" /\ q \in {"running", "ended"}
    \/ p = "running" /\ q = "ended"

\* The promise, for one run: a legal move; the request is fixed at birth; the
\* DOM is chosen exactly when the run starts to run, and fits.
Moves(r) ==
    /\ Legal(phase[r], phase'[r])
    /\ phase[r] # "unborn" => request'[r] = request[r]
    /\ IF phase[r] # "running" /\ phase'[r] = "running"
       THEN place'[r] \in Doms /\ Fits(request'[r], place'[r])
       ELSE place'[r] = place[r]

Init ==
    /\ request = [r \in Runs |-> None]
    /\ phase = [r \in Runs |-> "unborn"]
    /\ place = [r \in Runs |-> None]

Next ==
    /\ request' \in [Runs -> Requests \cup {None}]
    /\ phase' \in [Runs -> Phases]
    /\ place' \in [Runs -> Doms \cup {None}]
    /\ \A r \in Runs : Moves(r)

Spec == Init /\ [][Next]_vars
=============================================================================
