--------------------------- MODULE MCRunLifecycle ---------------------------
(***************************************************************************)
(* RunLifecycle on small instances: one launched Studio (session g) with   *)
(* an edit DOM e and the server DOM s of a play session in mode "run", and *)
(* for the runs with two backends a hand-opened Studio's edit DOM h.       *)
(***************************************************************************)
EXTENDS RunLifecycle

CONSTANTS e, s, h, b1, b2, g, sidG, sidH

MCHome == [d \in Doms |-> IF d = h THEN b2 ELSE b1]
MCKind == [d \in Doms |-> IF d = s THEN "server" ELSE "edit"]
MCMode == [d \in Doms |-> IF d = s THEN "run" ELSE "edit"]
MCGuid == [d \in Doms |-> IF d = h THEN None ELSE g]
MCStudioId == [d \in Doms |-> IF d = h THEN sidH ELSE sidG]

AnyDom == [dom |-> None, session |-> None, kind |-> None, mode |-> None, profile |-> FALSE]
EditRun == [AnyDom EXCEPT !.kind = "edit", !.mode = "edit"]
ServerRun == [AnyDom EXCEPT !.kind = "server", !.mode = "run", !.session = g]
PinnedRun == [AnyDom EXCEPT !.dom = s]
\* A profiled run pinned to the edit DOM, which is dropped with it.
ProfiledRun == [AnyDom EXCEPT !.dom = e, !.profile = TRUE]
StudioRun == [EditRun EXCEPT !.session = sidG]

\* Between them: any DOM, every filter, a pin.
RoutingRequests == {AnyDom, ServerRun, PinnedRun}
MixedRequests == {StudioRun, ProfiledRun}
EditRequests == {EditRun}
\* A run for a play session of the launched Studio that never starts.
ServerRequests == {ServerRun}

\* Every disturbance, in the combinations that share a hazard.
FaultScenarios ==
    {{"lose", "die"}, {"lose", "kill"}, {"die", "kill", "close"}, {"crash", "kill"},
     {"rewire", "kill"}, {"drop", "reject"}}
FairScenarios ==
    {{"kill", "drop", "tick"}, {"kill", "drop", "rewire"}, {"kill", "drop", "crash"},
     {"kill", "drop", "die"}, {"kill", "lose"}, {"drop", "lose"}, {"crash", "reject"}}
\* A bound: while sockets are lost, only the plain run is asked for.
PlainWhileLost == "lose" \in env => \A r \in Runs : request[r] # ProfiledRun
LoseScenario == {{"lose"}}
RewireScenario == {{"rewire", "kill"}}
CrashScenario == {{"crash"}}
=============================================================================
