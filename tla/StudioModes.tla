----------------------------- MODULE StudioModes -----------------------------
(***************************************************************************)
(* How a Studio gets into the mode a queued run asks for.  The master      *)
(* derives a target mode from its queue (MasterState::                     *)
(* derive_and_push_targets) and pushes it to the Studio's DOMs; the mode   *)
(* driver of each plugin (rodeo-plugin/src/library/mode_driver.luau) calls *)
(* the engine until its own mode matches: the edit DOM starts play         *)
(* sessions, the server DOM ends them.  The sessions' DOMs connect, report *)
(* their mode, and the snapshots that list them release the queued runs.   *)
(*                                                                         *)
(* One Studio, launched by rodeo, so it goes by a session guid and by a    *)
(* studio id.  The engine (StudioTestService) is modelled as the driver's  *)
(* comments describe it.                                                   *)
(***************************************************************************)
EXTENDS Naturals, Sequences, FiniteSets, Route

CONSTANTS
    Runs,           \* runs, numbered as they are submitted
    Asks,           \* Asks[r]: the routes r may ask for
    SoloKinds,      \* kinds a session of ExecutePlayModeAsync may turn out to be
    SetModes,       \* the modes a client may set
    Scenarios,      \* sets of the environment's moves; each behaviour has one
    MaxSessions,    \* bound: play sessions started
    MaxSnap,        \* bound: snapshots in flight
    MaxMoves        \* bound: modes set, sockets lost and buttons pressed

ASSUME RunsAssumption == Runs \subseteq Nat /\ IsFiniteSet(Runs)
ASSUME AsksAssumption == \A r \in Runs : Asks[r] \subseteq {q \in Specs : Valid(Resolve(q))}
ASSUME SoloAssumption == SoloKinds \subseteq {"test", "play"} /\ SetModes \subseteq Modes
ASSUME NoneAssumption == None \notin Specs \cup Modes \cup Kinds \cup Contexts
ASSUME BoundsAssumption == MaxSessions \in Nat /\ MaxSnap \in Nat /\ MaxMoves \in Nat

EditDom == [kind |-> "edit", n |-> 0]
PlayDoms == [kind : {"server", "client"}, n : 1..MaxSessions]
Doms == {EditDom} \cup PlayDoms

\* A target of "" leaves the Studio as it is.
Targets == Modes \cup {""}
Kinds3 == {"run", "test", "play"}
\* The names a Studio goes by, the keys of target_modes.
Idents == {"guid", "studio"}
Target == [mode : Targets, doms : SUBSET Doms]
ASSUME NoTargetAssumption == None \notin Target
\* The modes of the DOMs a snapshot lists.
IsView(v) == DOMAIN v \subseteq Doms /\ v \in [DOMAIN v -> Modes]

VARIABLES
    \* --- master ---
    asked,          \* asked[r]: the route of r, None before it is submitted
    queue,          \* pending_runs
    landed,         \* landed[r]: the DOM r was dispatched to
    view,           \* view[d]: mode of d in the last snapshot; its domain is the DOMs listed
    targets,        \* target_modes: the mode and the DOM set last pushed to, or None
    \* --- channels ---
    snaps,          \* snapshots on their way to the master
    inbox,          \* inbox[d]: targets on their way to d
    \* --- plugins ---
    up,             \* DOMs whose plugin is connected
    goal,           \* goal[d]: currentTarget of d's driver
    busy,           \* busy[d]: inFlight
    \* --- engine ---
    session,        \* the Studio's play session: number, kind, phase
    told,           \* the session's server knows whether it is a test
    waiting,        \* some start call has not returned
    \* --- history ---
    kindOf,         \* kindOf[n]: what session n was
    moves,          \* modes set, sockets lost and buttons pressed
    env             \* what may disturb this behaviour, fixed at its start

masterVars == <<asked, queue, landed, view, targets>>
pluginVars == <<goal, busy>>
engineVars == <<session, told, waiting, kindOf>>
envVars == <<moves, env>>
vars == <<masterVars, snaps, inbox, up, pluginVars, engineVars, envVars>>

\* The environment makes one of its bounded moves.
Move(kind) ==
    /\ kind \in env /\ moves < MaxMoves
    /\ moves' = moves + 1
    /\ UNCHANGED env

-----------------------------------------------------------------------------
(* The master *)

\* (Mutant: the mode is not compared.)
FitsByKind(q, d, V) == q = EmptySpec \/ d.kind = Resolve(q).kind
\* find_match_for_run: an empty route takes any DOM, an edit DOM is matched by
\* its kind alone, a server or client DOM by the mode it reports too.
Fits(q, d, V) ==
    \/ q = EmptySpec
    \/ /\ d.kind = Resolve(q).kind
       /\ d.kind = "edit" \/ V[d] = Resolve(q).mode
Matches(r, V) == {d \in DOMAIN V : Fits(asked'[r], d, V)}

\* A queued run that drives a transition.
Drives(r) == asked'[r] # EmptySpec /\ Resolve(asked'[r]).mode \in Kinds3
Oldest(Q) == {r \in Q : Drives(r) /\ \A t \in Q : Drives(t) => r <= t}
\* The target of the Studio: the mode of the oldest such run, or "".
Wanted(Q) ==
    LET modes == {Resolve(asked'[r]).mode : r \in Oldest(Q)}
    IN IF modes = {} THEN "" ELSE CHOOSE mode \in modes : TRUE

\* A message to each DOM of the view.  A session's DOM that has gone does not
\* come back, and what is sent to it is dropped on the way.
Pushed(V, target) ==
    [d \in Doms |-> IF d \in DOMAIN V \cap (up \cup {EditDom})
                    THEN Append(inbox[d], target) ELSE inbox[d]]

\* (Mutants: a target is pushed when it changes and not when the DOMs do; an
\* empty target is not pushed.)
ChangedTarget(want, V) ==
    IF targets["studio"] = None THEN want # "" ELSE targets["studio"].mode # want
ChangedToSome(want, V) ==
    want # "" /\ targets["studio"] # [mode |-> want, doms |-> DOMAIN V]
Changed(want, V) ==
    IF targets["studio"] = None
    THEN want # ""
    ELSE targets["studio"] # [mode |-> want, doms |-> DOMAIN V]

\* derive_and_push_targets.  The map is rebuilt under the DOMs' studio id, so an
\* entry under the guid is forgotten.
Derive(Q, V) ==
    IF DOMAIN V = {}
    THEN /\ targets' = [i \in Idents |-> None]
         /\ UNCHANGED inbox
    ELSE LET want == Wanted(Q)
         IN /\ targets' = [i \in Idents |->
                              IF i = "studio" THEN [mode |-> want, doms |-> DOMAIN V] ELSE None]
            /\ inbox' = IF Changed(want, V) THEN Pushed(V, want) ELSE inbox

\* reconcile: dispatch what fits, then derive the target from what is left.
Reconcile(Q, V) ==
    LET fit == {r \in Q : Matches(r, V) # {}}
    IN /\ \E place \in [fit -> DOMAIN V] :
             /\ \A r \in fit : place[r] \in Matches(r, V)
             /\ landed' = [r \in Runs |-> IF r \in fit THEN place[r] ELSE landed[r]]
       /\ queue' = Q \ fit
       /\ Derive(Q \ fit, V)

\* run: dispatch at once, or queue and reconcile.
Submit(r) ==
    /\ asked[r] = None /\ \A t \in Runs : t < r => asked[t] # None
    /\ \E q \in Asks[r] : asked' = [asked EXCEPT ![r] = q]
    /\ \/ /\ \E d \in Matches(r, view) : landed' = [landed EXCEPT ![r] = d]
          /\ UNCHANGED <<queue, targets, inbox>>
       \/ /\ Matches(r, view) = {}
          /\ Reconcile(queue \cup {r}, view)
    /\ UNCHANGED <<view, snaps, up, pluginVars, engineVars, envVars>>

\* disconnect_run: the client of a queued run has gone; nothing is reconciled.
Leave(r) ==
    /\ "leave" \in env /\ r \in queue
    /\ queue' = queue \ {r}
    /\ UNCHANGED <<asked, landed, view, targets, snaps, inbox, up, pluginVars, engineVars, envVars>>

HandleSnapshot ==
    /\ snaps # <<>>
    /\ snaps' = Tail(snaps)
    /\ view' = Head(snaps)
    /\ UNCHANGED <<asked, up, pluginVars, engineVars, envVars>>
    /\ Reconcile(queue, Head(snaps))

\* Any other handler that reconciles: a DOM connected or left, a run ended.
Nudge ==
    /\ UNCHANGED <<asked, view, snaps, up, pluginVars, engineVars, envVars>>
    /\ Reconcile(queue, view)

\* set_target_mode (SetStudioMode): record the mode under the session guid and
\* push it to the session's DOMs, whatever the queue wants.
SetTargetMode(mode) ==
    /\ Move("mode") /\ DOMAIN view # {}
    /\ targets' = [targets EXCEPT !["guid"] = [mode |-> mode, doms |-> DOMAIN view]]
    /\ inbox' = Pushed(view, mode)
    /\ UNCHANGED <<asked, queue, landed, view, snaps, up, pluginVars, engineVars>>

-----------------------------------------------------------------------------
(* The backend *)

\* (Mutant: a server reports no mode before it knows it.)
ReportedLate(d) ==
    CASE d.kind = "edit" -> "edit"
      [] d.kind = "client" -> kindOf[d.n]
      [] OTHER -> IF kindOf[d.n] = "run" \/ told THEN kindOf[d.n] ELSE ""
\* The mode a DOM reports: the server of a test says "play" until its client
\* has told it otherwise.
Reported(d) ==
    CASE d.kind = "edit" -> "edit"
      [] d.kind = "client" -> kindOf[d.n]
      [] OTHER -> IF kindOf[d.n] = "run" THEN "run" ELSE IF told THEN kindOf[d.n] ELSE "play"
Report == [d \in up |-> Reported(d)]

TakeSnapshot ==
    /\ Len(snaps) < MaxSnap
    /\ (IF snaps = <<>> THEN view ELSE snaps[Len(snaps)]) # Report
    /\ snaps' = Append(snaps, Report)
    /\ UNCHANGED <<masterVars, inbox, up, pluginVars, engineVars, envVars>>

\* A plugin loses its connection, and what was on it, and dials again.
Lose ==
    /\ Move("lose") /\ EditDom \in up
    /\ up' = up \ {EditDom}
    /\ \E k \in 0..Len(inbox[EditDom]) :
          inbox' = [inbox EXCEPT ![EditDom] = SubSeq(@, k + 1, Len(@))]
    /\ UNCHANGED <<masterVars, snaps, pluginVars, engineVars>>

\* Connections: the edit DOM's plugin at any time, a session's as its DataModels
\* come up, the client's after the server's.
Connect(d) ==
    /\ d \notin up
    /\ \/ d.kind = "edit"
       \/ /\ session.phase = "live" /\ d.n = session.n
          /\ d.kind = "client" => session.kind # "run" /\ [d EXCEPT !.kind = "server"] \in up
    /\ up' = up \cup {d}
    /\ UNCHANGED <<masterVars, snaps, inbox, pluginVars, engineVars, envVars>>

-----------------------------------------------------------------------------
(* The mode driver of a plugin *)

\* test and play satisfy each other.
ModeMatches(own, target) ==
    own = target \/ (own \in {"test", "play"} /\ target \in {"test", "play"})

\* (Mutant: only the edit DOM drives.)
NeedsActionEdit(d, target) == target \notin {None, ""} /\ d.kind = "edit" /\ target # "edit"
\* needsAction: an edit DOM has work unless the target is edit, a server DOM
\* until its own mode matches, a client DOM never.
NeedsAction(d, target) ==
    /\ target \notin {None, ""}
    /\ \/ d.kind = "edit" /\ target # "edit"
       \/ d.kind = "server" /\ ~ ModeMatches(Reported(d), target)

\* setTarget: the new target supersedes the running loop and frees the guard.
\* The loop runs for as long as its target needs action: what changes a DOM's
\* own mode is the end of its session.
SetTarget(d, target) ==
    /\ goal' = [goal EXCEPT ![d] = target]
    /\ busy' = [busy EXCEPT ![d] = FALSE]

\* The backend hands a target to a connected DOM's plugin and drops any other.
Receive(d) ==
    /\ inbox[d] # <<>>
    /\ inbox' = [inbox EXCEPT ![d] = Tail(@)]
    /\ IF d \in up THEN SetTarget(d, Head(inbox[d])) ELSE UNCHANGED pluginVars
    /\ UNCHANGED <<masterVars, snaps, up, engineVars, envVars>>

\* A session of some kind begins; its server knows nothing of a test yet.
Begins(kinds) ==
    \E k \in kinds :
        /\ session.phase = "idle" /\ session.n < MaxSessions
        /\ session' = [n |-> session.n + 1, kind |-> k, phase |-> "live"]
        /\ kindOf' = [kindOf EXCEPT ![session.n + 1] = k]
        /\ told' = FALSE

\* ExecuteRunModeAsync, ExecutePlayModeAsync: on an idle Studio the call starts
\* a session and returns when it ends; while one is live it blocks until then
\* and starts nothing; in the instant of a teardown it never returns.  Neither
\* the settling wait nor a retry is taken to hit that instant, unless the
\* scenario says so.
Start ==
    /\ NeedsAction(EditDom, goal[EditDom]) /\ ~ busy[EditDom]
    /\ busy' = [busy EXCEPT ![EditDom] = TRUE]
    /\ \/ /\ Begins(IF goal[EditDom] = "run" THEN {"run"} ELSE SoloKinds)
          /\ waiting' = TRUE
       \/ /\ session.phase = "live"
          /\ waiting' = TRUE /\ UNCHANGED <<session, told, kindOf>>
       \/ /\ session.phase = "ending" /\ "unsettled" \in env
          /\ UNCHANGED engineVars
    /\ UNCHANGED <<masterVars, snaps, inbox, up, goal, envVars>>

\* The session's DataModels go, with their plugins.
Ends ==
    LET dead == {d \in Doms : d.n = session.n /\ d.n # 0}
    IN /\ session' = [session EXCEPT !.phase = "ending"]
       /\ up' = up \ dead
       /\ inbox' = [d \in Doms |-> IF d \in dead THEN <<>> ELSE inbox[d]]
       /\ goal' = [d \in Doms |-> IF d \in dead THEN None ELSE goal[d]]
       /\ busy' = [d \in Doms |-> IF d \in dead THEN FALSE ELSE busy[d]]

\* EndTest, from the server DOM.
EndTest(d) ==
    /\ d.kind = "server" /\ NeedsAction(d, goal[d])
    /\ session.phase = "live"
    /\ Ends
    /\ UNCHANGED <<masterVars, snaps, told, waiting, kindOf, envVars>>

\* The teardown is over: every start call that was waiting returns.
TornDown ==
    /\ session.phase = "ending"
    /\ session' = [session EXCEPT !.phase = "idle"]
    /\ waiting' = FALSE
    /\ busy' = IF waiting THEN [busy EXCEPT ![EditDom] = FALSE] ELSE busy
    /\ UNCHANGED <<masterVars, snaps, inbox, up, goal, told, kindOf, envVars>>

\* The client's CanLeaveTest verdict reaches the server.
Tell ==
    /\ session.phase = "live" /\ ~ told
    /\ [kind |-> "client", n |-> session.n] \in up
    /\ told' = TRUE
    /\ UNCHANGED <<masterVars, snaps, inbox, up, pluginVars, session, waiting, kindOf, envVars>>

\* The user's own buttons.
UserStart ==
    /\ Move("user")
    /\ Begins(Kinds3)
    /\ UNCHANGED <<masterVars, snaps, inbox, up, pluginVars, waiting>>
UserStop ==
    /\ Move("user") /\ session.phase = "live"
    /\ Ends
    /\ UNCHANGED <<masterVars, snaps, told, waiting, kindOf>>

-----------------------------------------------------------------------------

Init ==
    /\ asked = [r \in Runs |-> None]
    /\ queue = {}
    /\ landed = [r \in Runs |-> None]
    /\ view = [d \in {} |-> ""]
    /\ targets = [i \in Idents |-> None]
    /\ snaps = <<>>
    /\ inbox = [d \in Doms |-> <<>>]
    /\ up = {}
    /\ goal = [d \in Doms |-> None]
    /\ busy = [d \in Doms |-> FALSE]
    /\ session = [n |-> 0, kind |-> "run", phase |-> "idle"]
    /\ told = FALSE
    /\ waiting = FALSE
    /\ kindOf = [n \in 1..MaxSessions |-> None]
    /\ moves = 0
    /\ env \in Scenarios

RunStep(r) == Submit(r) \/ Leave(r)
DomStep(d) == Connect(d) \/ Receive(d) \/ EndTest(d)
Studio == Start \/ TornDown \/ Tell \/ UserStart \/ UserStop

Next ==
    \/ \E r \in Runs : RunStep(r)
    \/ \E mode \in SetModes : SetTargetMode(mode)
    \/ HandleSnapshot \/ Nudge \/ TakeSnapshot \/ Lose
    \/ \E d \in Doms : DomStep(d)
    \/ Studio

Spec == Init /\ [][Next]_vars

\* The backend, the master, the drivers and the engine: as long as one of them
\* can act, one does.
System ==
    \/ HandleSnapshot \/ TakeSnapshot \/ Start \/ TornDown \/ Tell
    \/ \E d \in Doms : DomStep(d)

Fairness == WF_vars(System)

FairSpec == Spec /\ Fairness

-----------------------------------------------------------------------------
(* Properties *)

TypeOK ==
    /\ asked \in [Runs -> Specs \cup {None}]
    /\ queue \subseteq Runs
    /\ landed \in [Runs -> Doms \cup {None}]
    /\ IsView(view) /\ \A i \in DOMAIN snaps : IsView(snaps[i])
    /\ targets \in [Idents -> Target \cup {None}]
    /\ inbox \in [Doms -> Seq(Targets)]
    /\ up \subseteq Doms
    /\ goal \in [Doms -> Targets \cup {None}]
    /\ busy \in [Doms -> BOOLEAN]
    /\ session \in [n : 0..MaxSessions, kind : Kinds3, phase : {"idle", "live", "ending"}]
    /\ told \in BOOLEAN /\ waiting \in BOOLEAN
    /\ kindOf \in [1..MaxSessions -> Kinds3 \cup {None}]
    /\ moves \in 0..MaxMoves /\ env \in Scenarios

\* While nobody sets a mode explicitly and no socket is lost, a plugin with
\* nothing on its way to it follows the target the master has for its Studio:
\* no change of the queue or of the DOMs leaves a driver behind.
DriverFollows ==
    env \cap {"mode", "lose"} = {} =>
        \A d \in DOMAIN view \cap up :
            inbox[d] = <<>> /\ targets["studio"] # None =>
                \/ goal[d] = targets["studio"].mode
                \/ goal[d] = None /\ targets["studio"].mode = ""

\* A run lands on a DOM of the kind its route resolves to, in a session of the
\* mode it asked for.  (A test may be taken for a play session.)
LandsAsAsked ==
    \A r \in Runs : landed[r] # None /\ asked[r] # EmptySpec =>
        LET route == Resolve(asked[r])
            dom == landed[r]
        IN /\ dom.kind = route.kind
           /\ Honours(asked[r], route)
           /\ dom.kind # "edit" =>
                 \/ kindOf[dom.n] = route.mode
                 \/ kindOf[dom.n] = "test" /\ route.mode = "play"

\* The Studio is in a test while a run waits for a play session, or the reverse.
Confused ==
    session.phase = "live" /\ \E r \in queue : {session.kind, Resolve(asked[r]).mode} = {"test", "play"}
\* The bound on sessions stops the driver.
Exhausted == session.n = MaxSessions /\ session.phase = "idle"

\* However the queue and the DOMs change, every run that waits for a mode gets it
\* in the end, unless the Studio is in the other of test and play, and the edit
\* DOM's driver then stops: it does not go on starting sessions.
Settles ==
    env \cap {"mode", "lose", "unsettled"} = {}
        ~> Exhausted \/ Confused \/ (queue = {} /\ ~ NeedsAction(EditDom, goal[EditDom]))

\* A test and a play session satisfy each other's target, so the runs that wait
\* for either land.
EitherWillDo ==
    \A r \in Runs : r \in queue /\ env = {} ~> r \notin queue \/ Exhausted
=============================================================================
