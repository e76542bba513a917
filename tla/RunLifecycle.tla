---------------------------- MODULE RunLifecycle ----------------------------
(***************************************************************************)
(* The life of a run across rodeo's processes.  A run client submits to    *)
(* the master (rodeo-cli/src/master), which queues it or dispatches it     *)
(* through the control stream of a studio backend (rodeo-cli/src/          *)
(* studio_backend) to the plugin of a DOM (rodeo-plugin), which executes   *)
(* it and reports back the same way.                                       *)
(*                                                                         *)
(*   client <-events- MASTER -down-> BACKEND -inbox-> PLUGIN               *)
(*                      ^--out--  <-relay-/                                *)
(*                                                                         *)
(* Every handler of the master runs under one mutex and is one action.  A  *)
(* chunked script is one "run" message: its pieces are sent under one lock *)
(* over FIFO channels.  Script content, output and RPC traffic are left    *)
(* out: they change no state kept here.                                    *)
(***************************************************************************)
EXTENDS Naturals, Sequences, FiniteSets, SequencesExt

CONSTANTS
    Runs,           \* execution ids, numbered in the order they are minted
    Doms,           \* domIds of the DOMs that may connect
    Backends,       \* studio backends
    Guids,          \* session guids of launched Studios
    Home,           \* Home[d]: the backend whose port DOM d dials
    Kind,           \* Kind[d]: dom kind the plugin of d reports (edit, server, client)
    Mode,           \* Mode[d]: studio mode the plugin of d reports
    Guid,           \* Guid[d]: launch session of d, or None
    StudioId,       \* StudioId[d]: canonical studio id of d
    Requests,       \* submissions with a valid route
    None,           \* absent value
    Scenarios,      \* sets of the environment's moves; each behaviour has one
    MaxConn,        \* bound: connections a plugin makes
    MaxSnap,        \* bound: snapshots in flight per backend
    MaxKill         \* bound: kills asked per run

Disturbances ==
    {"kill", "drop", "reject", "lose", "die", "close", "crash", "rewire", "tick"}

ASSUME RunsAssumption == Runs \subseteq Nat /\ IsFiniteSet(Runs)
ASSUME DomsAssumption ==
    /\ IsFiniteSet(Doms) /\ None \notin Doms
    /\ Home \in [Doms -> Backends]
    /\ None \notin Guids /\ \A d \in Doms : Guid[d] \in Guids \cup {None}
ASSUME RequestsAssumption ==
    /\ None \notin Requests
    /\ \A q \in Requests : q.dom \in Doms \cup {None} /\ q.profile \in BOOLEAN
ASSUME BoundsAssumption ==
    MaxConn \in Nat /\ MaxSnap \in Nat /\ MaxKill \in Nat
\* An entry of active_runs: the DOM the run is on, and its process state.
ActiveRun == [dom : Doms, state : {"running", "done", "error", "killed"}]
ASSUME NoneAssumption == None \notin ActiveRun /\ None \notin {"done", "failed"}
ASSUME ScenariosAssumption == Scenarios \subseteq SUBSET Disturbances

VARIABLES
    \* --- master ---
    request,        \* request[r]: what r asked for, None until minted
    pending,        \* pending_runs
    active,         \* active_runs: [dom, state], or None
    backends,       \* registered backends
    snap,           \* snap[b]: DOMs in the last StateSnapshot of b
    reader,         \* runs whose client-message reader task is alive
    \* --- channels ---
    events,         \* events[r]: master to run client
    down,           \* down[b]: master to backend
    relay,          \* relay[b]: the backend's relay_tx lane
    out,            \* out[b]: the backend's outgoing lane and the stream
    inbox,          \* inbox[d]: backend to plugin, on d's current socket
    \* --- backend ---
    alive,          \* backend processes still running
    doms,           \* doms[d]: connection the backend's entry for d serves, 0 if none
    loops,          \* loops[d]: connections whose socket loop has not ended
    scanning,       \* <<backend, run>> registered with the profile scanner
    flushing,       \* <<backend, run>> unregistered, FilesComplete not sent
    closing,        \* launch sessions a CloseStudio has reached
    \* --- plugin ---
    sock,           \* sock[d]: the plugin's open connection, 0 if none
    dials,          \* dials[d]: connections made so far
    scripts,        \* scripts[d]: executing scripts, with the connection they report on
    tracked,        \* tracked[d]: activeProcesses of the current message handler
    gone,           \* DOMs whose DataModel is gone
    \* --- run client ---
    code,           \* code[r]: exit_code so far, 0 or 1
    exit,           \* exit[r]: how the client ended
    kills,          \* kills[r]: kills asked for r
    \* --- history ---
    placed,         \* placed[r]: DOM r was dispatched to
    begun,          \* runs whose script a plugin has started
    outcome,        \* outcome[r]: what r's script really returned
    env             \* what may disturb this behaviour, fixed at its start

\* The parts of the state, by the process that owns them; env, which no step
\* changes, rides with the backends'.
masterVars  == <<request, pending, active, backends, snap, placed>>
chanVars    == <<events, down, relay, out, inbox>>
backendVars == <<alive, doms, loops, scanning, flushing, closing, env>>
pluginVars  == <<sock, dials, scripts, tracked, gone, begun, outcome>>
clientVars  == <<reader, code, exit, kills>>
vars == <<masterVars, chanVars, backendVars, pluginVars, clientVars>>

-----------------------------------------------------------------------------
(* Messages *)

DownMsg ==
    [type : {"run", "kill"}, run : Runs, dom : Doms]
        \cup [type : {"completed"}, run : Runs]
        \cup [type : {"close"}, guid : Guids]
UpMsg ==
    [type : {"connect", "disconnect"}, dom : Doms]
        \cup [type : {"exited"}, guid : Guids \cup {None}]
        \cup [type : {"snapshot"}, doms : SUBSET Doms]
        \cup [type : {"done", "failed", "killed", "files"}, run : Runs]
InboxMsg == [type : {"run", "kill"}, run : Runs]
Events == {"created", "done", "failed", "killed", "disconnect", "complete"}

\* The message at the head of backend b's stream to the master is a t.
Arrived(b, t) == b \in backends /\ out[b] # <<>> /\ Head(out[b]).type = t

\* The sequence that lists each run of S once, the newest first.
NewestFirst(S) ==
    {f \in SetToSeqs(S) : \A i, j \in 1..Cardinality(S) : i < j => f[i] > f[j]}

-----------------------------------------------------------------------------
(* Routing *)

\* The DOMs the master sees: the union of the registered backends' snapshots.
View(bs, sn) == UNION {sn[b] : b \in bs}

\* find_match_for_run's filters: a pin to a DOM is all there is to check; else
\* the session filter, then the route (an empty one takes any DOM, and an edit
\* DOM is matched by kind alone).
InSession(s, d) == s \in {Guid[d], StudioId[d]}
Fits(q, d) ==
    IF q.dom # None
    THEN q.dom = d
    ELSE /\ q.session = None \/ InSession(q.session, d)
         /\ \/ q.kind = None
            \/ q.kind = Kind[d] /\ (q.kind = "edit" \/ q.mode = Mode[d])

\* (Mutant: after a forward removal the indexes shift, and a run goes to the
\* DOM that was found for another.)
PlacementsShifted(rq, P, V) == [{r \in P : \E d \in V : Fits(rq[r], d)} -> V]
\* Every way to place the runs of P that fit some DOM of V.  Every snapshot
\* reports zero active runs for every DOM, so which of the fitting DOMs wins
\* is the iteration order of a hash map: any.
Placements(rq, P, V) ==
    LET fit == {r \in P : \E d \in V : Fits(rq[r], d)}
    IN {f \in [fit -> V] : \A r \in fit : Fits(rq[r], f[r])}

\* Runs whose session filter no DOM of V answers to (drain_dead_sessions).
DeadSession(rq, P, V) ==
    {r \in P : /\ rq[r].session # None
               /\ ~ \E d \in V : InSession(rq[r].session, d)}

\* (Mutant: the dispatched runs are not removed from the queue.)
UnroutedForgotten(P, place) == P
\* What process_pending leaves queued once place is dispatched.
Unrouted(P, place) == P \ DOMAIN place

\* A client that has gone receives nothing: the send fails and is ignored.
Told(r, ev) == IF exit[r] = "open" THEN events[r] \o ev ELSE events[r]

\* For each backend, the order in which it is sent the runs placed on its DOMs.
Batches(place) ==
    {batch \in [Backends -> UNION {NewestFirst(S) : S \in SUBSET DOMAIN place}] :
        \A b \in Backends :
            batch[b] \in NewestFirst({r \in DOMAIN place : Home[place[r]] = b})}

\* reconcile: dispatch every queued run that fits a DOM in view, newest first
\* (process_pending), then kill the queued runs of dead sessions.  P, A and V
\* are the queue, the active runs and the view the handler leaves; note[r] and
\* extra[b] are what the handler itself tells client r and backend b before.
Dispatch(P, A, V, note, extra, place, batch) ==
    LET kept == Unrouted(P, place)
        dead == DeadSession(request', kept, V)
    IN /\ pending' = kept \ dead
       /\ active' = [r \in Runs |->
                        IF r \in DOMAIN place
                        THEN [dom |-> place[r], state |-> "running"] ELSE A[r]]
       /\ placed' = [r \in Runs |->
                        IF r \in DOMAIN place THEN place[r] ELSE placed[r]]
       /\ events' = [r \in Runs |->
                        Told(r, note[r] \o IF r \in dead
                                           THEN <<"killed", "complete">> ELSE <<>>)]
       /\ down' = [b \in Backends |->
                      down[b] \o extra[b] \o
                      [i \in 1..Len(batch[b]) |->
                          [type |-> "run", run |-> batch[b][i],
                           dom |-> place[batch[b][i]]]]]
Reconcile(P, A, V, note, extra) ==
    \E place \in Placements(request', P, V) : \E batch \in Batches(place) :
        Dispatch(P, A, V, note, extra, place, batch)

Silent == [r \in Runs |-> <<>>]
NoExtra == [b \in Backends |-> <<>>]

\* send_to_dom: through the backend whose snapshot has the DOM, else dropped.
SendToDom(d, type, r) ==
    down' = IF d \in View(backends, snap)
            THEN [down EXCEPT ![Home[d]] =
                     Append(@, [type |-> type, run |-> r, dom |-> d])]
            ELSE down

-----------------------------------------------------------------------------
(* The run client and its stream *)

Init ==
    /\ request = [r \in Runs |-> None]
    /\ pending = {}
    /\ active = [r \in Runs |-> None]
    /\ backends = Backends
    /\ snap = [b \in Backends |-> {}]
    /\ reader = {}
    /\ events = [r \in Runs |-> <<>>]
    /\ down = [b \in Backends |-> <<>>]
    /\ relay = [b \in Backends |-> <<>>]
    /\ out = [b \in Backends |-> <<>>]
    /\ inbox = [d \in Doms |-> <<>>]
    /\ alive = Backends
    /\ doms = [d \in Doms |-> 0]
    /\ loops = [d \in Doms |-> {}]
    /\ scanning = {}
    /\ flushing = {}
    /\ closing = {}
    /\ sock = [d \in Doms |-> 0]
    /\ dials = [d \in Doms |-> 0]
    /\ scripts = [d \in Doms |-> {}]
    /\ tracked = [d \in Doms |-> {}]
    /\ gone = {}
    /\ code = [r \in Runs |-> 0]
    /\ exit = [r \in Runs |-> "open"]
    /\ kills = [r \in Runs |-> 0]
    /\ placed = [r \in Runs |-> None]
    /\ begun = {}
    /\ outcome = [r \in Runs |-> None]
    /\ env \in Scenarios

\* (Mutant: an id is minted without looking whether it is in use.)
NextIdReused(r) == \A t \in Runs : t < r => request[t] # None
\* Ids are minted in order; the next submission is r.
NextId(r) == request[r] = None /\ \A t \in Runs : t < r => request[t] # None

\* run: mint the id, send Created, then route or queue.  Queueing reconciles;
\* a direct route does not, which Reconcile of a queue with nothing else to
\* dispatch or drain would be, so the two are kept apart.
Submit(r) ==
    /\ NextId(r)
    /\ \E q \in Requests : request' = [request EXCEPT ![r] = q]
    /\ LET V == View(backends, snap)
           created == [Silent EXCEPT ![r] = <<"created">>]
       IN \/ /\ \E d \in V : Fits(request'[r], d) /\
                   /\ active' = [active EXCEPT ![r] = [dom |-> d, state |-> "running"]]
                   /\ placed' = [placed EXCEPT ![r] = d]
                   /\ SendToDom(d, "run", r)
             /\ events' = [events EXCEPT ![r] = Told(r, <<"created">>)]
             /\ UNCHANGED pending
          \/ /\ ~ \E d \in V : Fits(request'[r], d)
             /\ Reconcile(pending \cup {r}, active, V, created, NoExtra)
    /\ reader' = reader \cup {r}
    /\ UNCHANGED <<backends, snap, relay, out, inbox, code, exit, kills>>
    /\ UNCHANGED <<backendVars, pluginVars>>

\* run, refused: another build, or an invalid route.  No reader is spawned.
Reject(r) ==
    /\ "reject" \in env
    /\ NextId(r)
    /\ \E q \in Requests : request' = [request EXCEPT ![r] = q]
    /\ events' = [events EXCEPT ![r] = <<"created", "disconnect">>]
    /\ UNCHANGED <<pending, active, backends, snap, placed, down, relay, out, inbox>>
    /\ UNCHANGED <<backendVars, pluginVars, clientVars>>

\* The client hangs up or is interrupted: its end of the run is over.
Leave(r, how) ==
    /\ exit' = [exit EXCEPT ![r] = how]
    /\ events' = [events EXCEPT ![r] = <<>>]

\* message_loop: the client reads the next event of its run.
ClientReceive(r) ==
    /\ exit[r] = "open" /\ events[r] # <<>>
    /\ LET ev == Head(events[r])
       IN \/ /\ ev \in {"created", "done"}
             /\ events' = [events EXCEPT ![r] = Tail(@)]
             /\ UNCHANGED <<code, exit>>
          \/ /\ ev \in {"failed", "killed"}
             /\ code' = [code EXCEPT ![r] = 1]
             /\ events' = [events EXCEPT ![r] = Tail(@)]
             /\ UNCHANGED exit
          \/ /\ ev = "disconnect" /\ Leave(r, "lost") /\ UNCHANGED code
          \/ /\ ev = "complete" /\ UNCHANGED code
             /\ Leave(r, IF code[r] = 0 THEN "ok" ELSE "fail")
    /\ UNCHANGED <<masterVars, down, relay, out, inbox, reader, kills>>
    /\ UNCHANGED <<backendVars, pluginVars>>

\* The event stream ends when the master keeps no sender for the run.
ClientStreamEnd(r) ==
    /\ request[r] # None /\ exit[r] = "open" /\ events[r] = <<>>
    /\ r \notin pending /\ active[r] = None
    /\ Leave(r, "lost")
    /\ UNCHANGED <<masterVars, down, relay, out, inbox, reader, code, kills>>
    /\ UNCHANGED <<backendVars, pluginVars>>

\* The consumer of the run stream goes away; the client drops the stream.
ClientDrop(r) ==
    /\ "drop" \in env
    /\ request[r] # None /\ exit[r] = "open"
    /\ Leave(r, "dropped")
    /\ UNCHANGED <<masterVars, down, relay, out, inbox, reader, code, kills>>
    /\ UNCHANGED <<backendVars, pluginVars>>

\* (Mutant: the queue is cleaned but a running script is left alone.)
ReaderEndNoKill(r) ==
    /\ r \in reader /\ exit[r] # "open"
    /\ reader' = reader \ {r}
    /\ pending' = pending \ {r}
    /\ UNCHANGED <<request, active, backends, snap, placed, chanVars, code, exit, kills>>
    /\ UNCHANGED <<backendVars, pluginVars>>

\* disconnect_run: the reader task sees the client's half close.
ReaderEnd(r) ==
    /\ r \in reader /\ exit[r] # "open"
    /\ reader' = reader \ {r}
    /\ pending' = pending \ {r}
    /\ IF active[r] # None THEN SendToDom(active[r].dom, "kill", r) ELSE UNCHANGED down
    /\ UNCHANGED <<request, active, backends, snap, placed>>
    /\ UNCHANGED <<events, relay, out, inbox, code, exit, kills>>
    /\ UNCHANGED <<backendVars, pluginVars>>

\* kill_process, and the client's own Kill message (`rodeo kill`, Ctrl-C).
Kill(r) ==
    /\ "kill" \in env /\ kills[r] < MaxKill
    /\ active[r] # None
    /\ kills' = [kills EXCEPT ![r] = @ + 1]
    /\ SendToDom(active[r].dom, "kill", r)
    /\ UNCHANGED <<masterVars, events, relay, out, inbox, reader, code, exit>>
    /\ UNCHANGED <<backendVars, pluginVars>>

\* close_studio: the command goes to any studio backend, whoever owns g.
Close(g) ==
    /\ "close" \in env /\ g \notin closing
    /\ \A b \in Backends : \A i \in DOMAIN down[b] : down[b][i] # [type |-> "close", guid |-> g]
    /\ \E b \in backends :
          down' = [down EXCEPT ![b] = Append(@, [type |-> "close", guid |-> g])]
    /\ UNCHANGED <<masterVars, events, relay, out, inbox>>
    /\ UNCHANGED <<backendVars, pluginVars, clientVars>>

-----------------------------------------------------------------------------
(* The master's handlers of a backend's stream (handle_backend_msg) *)

Consume(b) == out' = [out EXCEPT ![b] = Tail(@)]
HandlerFrame == UNCHANGED <<request, relay, inbox, clientVars, backendVars, pluginVars>>

\* complete_run on each run of S that is active: a profiled run stays, in its
\* final state, until its files are drained; any other is removed and told.
Finished(S) == {r \in S : active[r] # None}
Profiled(S) == {r \in Finished(S) : request[r].profile}
Completed(S, state) ==
    [r \in Runs |-> IF r \notin Finished(S) THEN active[r]
                    ELSE IF r \in Profiled(S) THEN [active[r] EXCEPT !.state = state]
                    ELSE None]
\* (Mutant: a bare Complete, which leaves the client's exit code at 0.)
CompleteOnly(S, ev) ==
    [r \in Runs |-> IF r \in Finished(S) \ Profiled(S) THEN <<"complete">> ELSE <<>>]
\* What the client of each of them hears: ev, then Complete if it is removed.
CompletionNote(S, ev) ==
    [r \in Runs |-> IF r \notin Finished(S) THEN <<>>
                    ELSE IF r \in Profiled(S) THEN <<ev>> ELSE <<ev, "complete">>]
\* (Mutant: no backend is told to unregister the scanner.)
NoticesForgotten(bs, order) == NoExtra
\* RunCompleted for each profiled one goes to every backend in bs.
Notices(bs, order) ==
    [b \in Backends |-> IF b \in bs
                        THEN [i \in 1..Len(order) |-> [type |-> "completed", run |-> order[i]]]
                        ELSE <<>>]

CompleteRuns(S, state, ev, bs, P, V) ==
    \E order \in SetToSeqs(Profiled(S)) :
        Reconcile(P, Completed(S, state), V, CompletionNote(S, ev), Notices(bs, order))

\* DomConnect and SessionExited change nothing themselves; they reconcile.
HandleNudge(b) ==
    /\ Arrived(b, "connect") \/ Arrived(b, "exited")
    /\ HandlerFrame
    /\ Consume(b)
    /\ Reconcile(pending, active, View(backends, snap), Silent, NoExtra)
    /\ UNCHANGED <<backends, snap>>

\* DomDisconnect: sweep the runs of the DOM as killed, telling their clients
\* Disconnect, and drop the queued runs pinned to it without a word.  Each
\* sweep reconciles before the drop, so a dead session is drained first.
HandleDomDisconnect(b) ==
    /\ Arrived(b, "disconnect")
    /\ HandlerFrame
    /\ Consume(b)
    /\ LET d == Head(out[b]).dom
           V == View(backends, snap)
           swept == {r \in Runs : active[r] # None /\ active[r].dom = d}
           drained == IF swept = {} THEN {} ELSE DeadSession(request, pending, V)
           waiting == {r \in pending \ drained : request[r].dom = d}
       IN CompleteRuns(swept, "killed", "disconnect", backends, pending \ waiting, V)
    /\ UNCHANGED <<backends, snap>>

\* (Mutant: the report's own word is stored as the process state.)
FinalStateRaw(report) == report
FinalState(report) == IF report = "failed" THEN "error" ELSE report

\* Done and Killed from the plugin: forward, then complete.
HandleFinished(b) ==
    /\ b \in backends /\ out[b] # <<>>
    /\ LET m == Head(out[b])
       IN /\ m.type \in {"done", "failed", "killed"}
          /\ HandlerFrame
          /\ CompleteRuns({m.run}, FinalState(m.type), m.type,
                          backends, pending, View(backends, snap))
    /\ Consume(b)
    /\ UNCHANGED <<backends, snap>>

\* (Mutant: the snapshot is stored and the queue not looked at.)
SnapshotStoredOnly(b) ==
    /\ Arrived(b, "snapshot")
    /\ HandlerFrame
    /\ snap' = [snap EXCEPT ![b] = Head(out[b]).doms]
    /\ Consume(b)
    /\ UNCHANGED <<pending, active, placed, backends, events, down>>

HandleSnapshot(b) ==
    /\ Arrived(b, "snapshot")
    /\ HandlerFrame
    /\ snap' = [snap EXCEPT ![b] = Head(out[b]).doms]
    /\ Consume(b)
    /\ Reconcile(pending, active, View(backends, snap'), Silent, NoExtra)
    /\ UNCHANGED backends

\* handle_files_complete: the profiled run is over; nothing is reconciled.
HandleFiles(b) ==
    /\ Arrived(b, "files")
    /\ LET r == Head(out[b]).run
       IN /\ active' = [active EXCEPT ![r] = None]
          /\ events' = [events EXCEPT ![r] =
                           IF active[r] # None THEN Told(r, <<"complete">>) ELSE @]
    /\ Consume(b)
    /\ UNCHANGED <<request, pending, backends, snap, placed, down, relay, inbox>>
    /\ UNCHANGED <<clientVars, backendVars, pluginVars>>

\* (Mutant: the backend is forgotten and its runs are left as they are.)
BackendLostUnswept(b) ==
    /\ b \in backends /\ b \notin alive
    /\ HandlerFrame
    /\ backends' = backends \ {b}
    /\ out' = [out EXCEPT ![b] = <<>>]
    /\ UNCHANGED <<pending, active, placed, snap, events, down>>

\* The control stream of a dead backend ends, whatever of it was still unread:
\* complete the runs whose DOM no registered backend reports any more.  With
\* none of those, nothing is reconciled.
BackendLost(b) ==
    /\ b \in backends /\ b \notin alive
    /\ HandlerFrame
    /\ backends' = backends \ {b}
    /\ out' = [out EXCEPT ![b] = <<>>]
    /\ LET V == View(backends', snap)
           orphaned == {r \in Runs : active[r] # None /\ active[r].dom \notin V}
       IN IF orphaned = {}
          THEN UNCHANGED <<pending, active, placed, events, down>>
          ELSE CompleteRuns(orphaned, "killed", "disconnect", backends', pending, V)
    /\ UNCHANGED snap

-----------------------------------------------------------------------------
(* The studio backend *)

Entries(b) == {d \in Doms : Home[d] = b /\ doms[d] # 0}

\* The forwarder task moves relayed messages to the outgoing lane.
Forward(b) ==
    /\ b \in alive /\ relay[b] # <<>>
    /\ out' = [out EXCEPT ![b] = Append(@, Head(relay[b]))]
    /\ relay' = [relay EXCEPT ![b] = Tail(@)]
    /\ UNCHANGED <<masterVars, events, down, inbox>>
    /\ UNCHANGED <<backendVars, pluginVars, clientVars>>

\* The snapshots of b on their way; whether one taken now says something new.
Taken(b) == {i \in DOMAIN out[b] : out[b][i].type = "snapshot"}
News(b) ==
    IF Taken(b) = {}
    THEN snap[b] # Entries(b)
    ELSE \E i \in Taken(b) : (\A j \in Taken(b) : j <= i) /\ out[b][i].doms # Entries(b)

\* build_state_snapshot, on each trigger and (with "tick") every two seconds
\* whether or not anything changed: it enters the outgoing lane directly and
\* may overtake what is still being relayed.
TakeSnapshot(b) ==
    /\ b \in alive
    /\ Cardinality(Taken(b)) < MaxSnap
    /\ News(b) \/ "tick" \in env
    /\ out' = [out EXCEPT ![b] = Append(@, [type |-> "snapshot", doms |-> Entries(b)])]
    /\ UNCHANGED <<masterVars, events, down, relay, inbox>>
    /\ UNCHANGED <<backendVars, pluginVars, clientVars>>

\* handle_master_msg.  A message for a DOM without an entry is dropped, but a
\* profiled run is registered with the scanner first, entry or not.
BackendReceive(b) ==
    /\ b \in alive /\ down[b] # <<>>
    /\ down' = [down EXCEPT ![b] = Tail(@)]
    /\ LET m == Head(down[b])
       IN \/ /\ m.type \in {"run", "kill"}
             /\ inbox' = IF doms[m.dom] # 0 /\ doms[m.dom] = sock[m.dom]
                         THEN [inbox EXCEPT ![m.dom] =
                                  Append(@, [type |-> m.type, run |-> m.run])]
                         ELSE inbox
             /\ scanning' = IF m.type = "run" /\ request[m.run].profile
                            THEN scanning \cup {<<b, m.run>>} ELSE scanning
             /\ UNCHANGED <<doms, relay, flushing, closing>>
          \/ /\ m.type = "completed"
             /\ scanning' = scanning \ {<<b, m.run>>}
             /\ flushing' = flushing \cup (scanning \cap {<<b, m.run>>})
             /\ UNCHANGED <<doms, inbox, relay, closing>>
          \/ /\ m.type = "close"
             /\ LET dying == {d \in Entries(b) : Guid[d] = m.guid}
                IN /\ doms' = [d \in Doms |-> IF d \in dying THEN 0 ELSE doms[d]]
                   /\ \E order \in SetToSeqs(dying) :
                         relay' = [relay EXCEPT ![b] = @ \o
                             [i \in 1..Len(order) |-> [type |-> "disconnect", dom |-> order[i]]]]
             /\ closing' = closing \cup {m.guid}
             /\ UNCHANGED <<inbox, scanning, flushing>>
    /\ UNCHANGED <<masterVars, events, out, alive, loops, env>>
    /\ UNCHANGED <<pluginVars, clientVars>>

\* The dump receiver closes once the unregistered run's dumps are all sent.
FilesDone(b, r) ==
    /\ b \in alive /\ <<b, r>> \in flushing
    /\ flushing' = flushing \ {<<b, r>>}
    /\ out' = [out EXCEPT ![b] = Append(@, [type |-> "files", run |-> r])]
    /\ UNCHANGED <<masterVars, events, down, relay, inbox>>
    /\ UNCHANGED <<alive, doms, loops, scanning, closing, env, pluginVars, clientVars>>

\* (Mutant: the entry is removed and the master not told.)
LoopEndSilent(d, c) ==
    /\ c \in loops[d] /\ c # sock[d]
    /\ loops' = [loops EXCEPT ![d] = @ \ {c}]
    /\ doms' = [doms EXCEPT ![d] = 0]
    /\ UNCHANGED <<masterVars, chanVars, clientVars, pluginVars>>
    /\ UNCHANGED <<alive, scanning, flushing, closing, env>>

\* The loop of a connection whose socket is dead ends: it relays the
\* disconnect and removes the DOM's entry, whichever connection that serves.
LoopEnd(d, c) ==
    /\ c \in loops[d] /\ c # sock[d]
    /\ loops' = [loops EXCEPT ![d] = @ \ {c}]
    /\ doms' = [doms EXCEPT ![d] = 0]
    /\ relay' = [relay EXCEPT ![Home[d]] =
                    Append(@, [type |-> "disconnect", dom |-> d])]
    /\ UNCHANGED <<masterVars, events, down, out, inbox>>
    /\ UNCHANGED <<alive, scanning, flushing, closing, env, pluginVars, clientVars>>

\* The backend process dies: its lanes, entries and sockets go with it; what
\* it had put on the stream may still be read.
BackendCrash(b) ==
    /\ "crash" \in env /\ b \in alive
    /\ alive' = alive \ {b}
    /\ LET mine(d) == Home[d] = b
       IN /\ doms' = [d \in Doms |-> IF mine(d) THEN 0 ELSE doms[d]]
          /\ loops' = [d \in Doms |-> IF mine(d) THEN {} ELSE loops[d]]
          /\ sock' = [d \in Doms |-> IF mine(d) THEN 0 ELSE sock[d]]
          /\ inbox' = [d \in Doms |-> IF mine(d) THEN <<>> ELSE inbox[d]]
          /\ tracked' = [d \in Doms |-> IF mine(d) THEN {} ELSE tracked[d]]
    /\ relay' = [relay EXCEPT ![b] = <<>>]
    /\ down' = [down EXCEPT ![b] = <<>>]
    /\ scanning' = {p \in scanning : p[1] # b}
    /\ flushing' = {p \in flushing : p[1] # b}
    /\ UNCHANGED <<masterVars, events, out, closing, env>>
    /\ UNCHANGED <<dials, scripts, gone, begun, outcome, clientVars>>

-----------------------------------------------------------------------------
(* The plugin of a DOM *)

\* The plugin dials its backend, whose handle_studio_client replaces the DOM's
\* entry and relays the connect; the earlier connection's loop lives on.
Dial(d) ==
    /\ d \notin gone /\ sock[d] = 0 /\ dials[d] < MaxConn
    /\ Home[d] \in alive
    /\ dials' = [dials EXCEPT ![d] = @ + 1]
    /\ sock' = [sock EXCEPT ![d] = dials[d] + 1]
    /\ doms' = [doms EXCEPT ![d] = dials[d] + 1]
    /\ loops' = [loops EXCEPT ![d] = @ \cup {dials[d] + 1}]
    /\ relay' = [relay EXCEPT ![Home[d]] =
                    Append(@, [type |-> "connect", dom |-> d])]
    /\ UNCHANGED <<masterVars, events, down, out, inbox>>
    /\ UNCHANGED <<alive, scanning, flushing, closing, env>>
    /\ UNCHANGED <<scripts, tracked, gone, begun, outcome, clientVars>>

\* The socket is lost: the handler goes with its client, the scripts it started
\* keep executing and report to a socket that is closed.
Lose(d) ==
    /\ "lose" \in env /\ sock[d] # 0
    /\ sock' = [sock EXCEPT ![d] = 0]
    /\ inbox' = [inbox EXCEPT ![d] = <<>>]
    /\ tracked' = [tracked EXCEPT ![d] = {}]
    /\ UNCHANGED <<masterVars, events, down, relay, out>>
    /\ UNCHANGED <<backendVars, dials, scripts, gone, begun, outcome, clientVars>>

\* The DataModel goes: Studio exits (by itself or because it was closed) or the
\* play session ends.  The exit of a launched Studio process is reported at once.
Die(d) ==
    /\ d \notin gone
    /\ "die" \in env \/ Guid[d] \in closing
    /\ gone' = gone \cup {d}
    /\ sock' = [sock EXCEPT ![d] = 0]
    /\ inbox' = [inbox EXCEPT ![d] = <<>>]
    /\ tracked' = [tracked EXCEPT ![d] = {}]
    /\ scripts' = [scripts EXCEPT ![d] = {}]
    /\ \/ UNCHANGED out
       \/ /\ Home[d] \in alive /\ Guid[d] # None
          /\ out' = [out EXCEPT ![Home[d]] = Append(@, [type |-> "exited", guid |-> Guid[d]])]
    /\ UNCHANGED <<masterVars, events, down, relay>>
    /\ UNCHANGED <<backendVars, dials, begun, outcome, clientVars>>

\* Toggling "verbose" in the widget makes a new handler on the same client: it
\* tracks nothing, and the scripts of the old one still report.
Rewire(d) ==
    /\ "rewire" \in env /\ sock[d] # 0 /\ tracked[d] # {}
    /\ tracked' = [tracked EXCEPT ![d] = {}]
    /\ UNCHANGED <<masterVars, chanVars, backendVars, clientVars>>
    /\ UNCHANGED <<sock, dials, scripts, gone, begun, outcome>>

\* (Mutants: the acknowledged script is not stopped; an unknown run is not
\* acknowledged.)
SurvivorsAll(d, r) == scripts[d]
KillAckKnownOnly(d, r) ==
    IF r \in tracked[d] THEN <<[type |-> "killed", run |-> r]>> ELSE <<>>
\* A kill stops the script only if this handler tracks it, and is acknowledged
\* either way.
Survivors(d, r) ==
    IF r \in tracked[d] THEN {t \in scripts[d] : t.run # r} ELSE scripts[d]
KillAck(d, r) == <<[type |-> "killed", run |-> r]>>

\* The message handler: run, or kill.
PluginReceive(d) ==
    /\ sock[d] # 0 /\ inbox[d] # <<>>
    /\ inbox' = [inbox EXCEPT ![d] = Tail(@)]
    /\ LET m == Head(inbox[d])
           r == m.run
       IN \/ /\ m.type = "run"
             /\ scripts' = [scripts EXCEPT ![d] = @ \cup {[run |-> r, conn |-> sock[d]]}]
             /\ tracked' = [tracked EXCEPT ![d] = @ \cup {r}]
             /\ begun' = begun \cup {r}
             /\ UNCHANGED relay
          \/ /\ m.type = "kill"
             /\ scripts' = [scripts EXCEPT ![d] = Survivors(d, r)]
             /\ tracked' = [tracked EXCEPT ![d] = @ \ {r}]
             /\ relay' = [relay EXCEPT ![Home[d]] = @ \o KillAck(d, r)]
             /\ UNCHANGED begun
    /\ UNCHANGED <<masterVars, events, down, out>>
    /\ UNCHANGED <<backendVars, sock, dials, gone, outcome, clientVars>>

\* A script returns or errors; its report goes out on the connection it was
\* started from, if that is still the open one.
ScriptEnd(d, t, how) ==
    /\ t \in scripts[d]
    /\ scripts' = [scripts EXCEPT ![d] = @ \ {t}]
    /\ tracked' = [tracked EXCEPT ![d] = @ \ {t.run}]
    /\ outcome' = [outcome EXCEPT ![t.run] = how]
    /\ relay' = IF t.conn = sock[d]
                THEN [relay EXCEPT ![Home[d]] = Append(@, [type |-> how, run |-> t.run])]
                ELSE relay
    /\ UNCHANGED <<masterVars, events, down, out, inbox>>
    /\ UNCHANGED <<backendVars, sock, dials, gone, begun, clientVars>>

-----------------------------------------------------------------------------

MasterStep(b) ==
    \/ HandleNudge(b) \/ HandleDomDisconnect(b) \/ HandleFinished(b)
    \/ HandleSnapshot(b) \/ HandleFiles(b)
BackendStep(b) ==
    \/ Forward(b) \/ BackendReceive(b) \/ \E r \in Runs : FilesDone(b, r)
ClientStep(r) == ClientReceive(r) \/ ClientStreamEnd(r)

RunStep(r) ==
    \/ Submit(r) \/ Reject(r) \/ ClientStep(r) \/ ClientDrop(r) \/ ReaderEnd(r) \/ Kill(r)
DomStep(d) ==
    \/ Dial(d) \/ Lose(d) \/ Die(d) \/ Rewire(d) \/ PluginReceive(d)
    \/ \E c \in loops[d] : LoopEnd(d, c)
    \/ \E t \in scripts[d], how \in {"done", "failed"} : ScriptEnd(d, t, how)

Next ==
    \/ \E r \in Runs : RunStep(r)
    \/ \E g \in Guids : Close(g)
    \/ \E b \in Backends : \/ MasterStep(b) \/ BackendLost(b) \/ BackendStep(b)
                          \/ TakeSnapshot(b) \/ BackendCrash(b)
    \/ \E d \in Doms : DomStep(d)

Spec == Init /\ [][Next]_vars

-----------------------------------------------------------------------------
(* Fairness: the tasks that drain a channel, notice a closed socket or tick *)
(* are always scheduled.  Nothing makes a client submit, a script end, a    *)
(* fault happen or a plugin dial.                                           *)

Fairness ==
    /\ \A r \in Runs : WF_vars(ClientStep(r)) /\ WF_vars(ReaderEnd(r))
    /\ \A b \in Backends :
          /\ WF_vars(MasterStep(b)) /\ WF_vars(BackendLost(b))
          /\ WF_vars(Forward(b)) /\ WF_vars(BackendReceive(b)) /\ WF_vars(TakeSnapshot(b))
          /\ \A r \in Runs : WF_vars(FilesDone(b, r))
    /\ \A d \in Doms :
          /\ WF_vars(PluginReceive(d))
          /\ \A c \in 1..MaxConn : WF_vars(LoopEnd(d, c))

FairSpec == Spec /\ Fairness

-----------------------------------------------------------------------------
(* Type invariant *)

Script == [run : Runs, conn : 1..MaxConn]

MasterType ==
    /\ request \in [Runs -> Requests \cup {None}]
    /\ pending \subseteq Runs
    /\ active \in [Runs -> ActiveRun \cup {None}]
    /\ backends \subseteq Backends
    /\ snap \in [Backends -> SUBSET Doms]
    /\ placed \in [Runs -> Doms \cup {None}]
ChanType ==
    /\ events \in [Runs -> Seq(Events)]
    /\ down \in [Backends -> Seq(DownMsg)]
    /\ relay \in [Backends -> Seq(UpMsg)]
    /\ out \in [Backends -> Seq(UpMsg)]
    /\ inbox \in [Doms -> Seq(InboxMsg)]
BackendType ==
    /\ alive \subseteq Backends
    /\ doms \in [Doms -> 0..MaxConn]
    /\ loops \in [Doms -> SUBSET (1..MaxConn)]
    /\ scanning \subseteq Backends \X Runs
    /\ flushing \subseteq Backends \X Runs
    /\ closing \subseteq Guids
    /\ env \in Scenarios
PluginType ==
    /\ sock \in [Doms -> 0..MaxConn]
    /\ dials \in [Doms -> 0..MaxConn]
    /\ scripts \in [Doms -> SUBSET Script]
    /\ tracked \in [Doms -> SUBSET Runs]
    /\ gone \subseteq Doms
    /\ begun \subseteq Runs
    /\ outcome \in [Runs -> {None, "done", "failed"}]
ClientType ==
    /\ reader \subseteq Runs
    /\ code \in [Runs -> {0, 1}]
    /\ exit \in [Runs -> {"open", "ok", "fail", "lost", "dropped"}]
    /\ kills \in [Runs -> 0..MaxKill]

TypeOK == MasterType /\ ChanType /\ BackendType /\ PluginType /\ ClientType

-----------------------------------------------------------------------------
(* Safety *)

\* Where the master has run r, as the promise of RunBoard tells it.
Phase(r) ==
    IF request[r] = None THEN "unborn"
    ELSE IF r \in pending THEN "queued"
    ELSE IF active[r] # None THEN "running"
    ELSE "ended"

\* Where run r's script is: waiting, on its way to DOM d, or executing there.
Sent(r, d) ==
    \/ Contains(down[Home[d]], [type |-> "run", run |-> r, dom |-> d])
    \/ Contains(inbox[d], [type |-> "run", run |-> r])
Executing(r, d) == \E t \in scripts[d] : t.run = r

\* The master never keeps a run waiting while it sees a DOM that fits: whatever
\* handler last ran, what it leaves queued nothing in view can take.
QueueServed ==
    \A r \in pending : ~ \E d \in View(backends, snap) : Fits(request[r], d)

\* A run's script exists once: it is queued, or on its way to one DOM, or
\* executing on one DOM; never two of these, never two messages for it.
OneCopy ==
    \A r \in Runs :
        /\ \A d \in Doms : Sent(r, d) \/ Executing(r, d) =>
              /\ r \notin pending
              /\ \A e \in Doms : Sent(r, e) \/ Executing(r, e) => e = d
              /\ ~ (Sent(r, d) /\ Executing(r, d))
        /\ \A b \in Backends : \A i, j \in DOMAIN down[b] :
              down[b][i].type = "run" /\ down[b][i] = down[b][j] => i = j
        /\ r \in begun => r \notin pending /\ \A d \in Doms : ~ Sent(r, d)

\* A script only ever reaches a DOM its request fits, the one the master chose
\* and still names for it.
RightDom ==
    \A r \in Runs, d \in Doms :
        Sent(r, d) \/ Executing(r, d) =>
            /\ placed[r] = d /\ Fits(request[r], d)
            /\ active[r] # None => active[r].dom = d

\* A Killed acknowledgement on its way to the master is the truth: no copy of
\* the script is left anywhere that could start or go on.  (The plugin says so
\* of a run it does not know either: "already completed, or lost to a plugin
\* reload".)
KilledIsStopped ==
    \A r \in Runs, b \in Backends :
        LET ack == [type |-> "killed", run |-> r]
        IN Contains(relay[b], ack) \/ Contains(out[b], ack) =>
              \A d \in Doms : ~ Sent(r, d) /\ ~ Executing(r, d)

\* A client that exits 0 submitted a script that ran to a successful end: no
\* kill, disconnect, crash or drain is reported as success.
SuccessIsReal == \A r \in Runs : exit[r] = "ok" => outcome[r] = "done"

\* Something in the system will yet end run r: its script still has a
\* connection to report on, its report is on its way, or the loss of its DOM's
\* connection or of its backend will be noticed.
HasFuture(r) ==
    LET d == active[r].dom
        b == Home[d]
        lane(m) == Contains(relay[b], m) \/ Contains(out[b], m)
    IN \/ Sent(r, d)
       \/ \E t \in scripts[d] : t.run = r /\ t.conn = sock[d]
       \/ \E t \in {"done", "failed", "killed"} : lane([type |-> t, run |-> r])
       \/ lane([type |-> "disconnect", dom |-> d])
       \/ loops[d] \ {sock[d]} # {}
       \/ loops[d] # {} /\ Guid[d] \in closing
       \/ b \notin alive

\* A run whose script has started is never forgotten: as long as the master
\* has it as running, something will end it.
StartedRunHasFuture ==
    \A r \in begun : active[r] # None /\ active[r].state = "running" => HasFuture(r)

\* The same of every run the master has as running: what listProcesses
\* reports as "running" can still finish.
RunningRunHasFuture ==
    \A r \in Runs : active[r] # None /\ active[r].state = "running" => HasFuture(r)

\* The same, in behaviours where no handler and no socket is replaced under a
\* script that executes.
KillAckTruthful == env \cap {"lose", "rewire"} = {} => KilledIsStopped

\* While no backend has died, a drained profiled run has someone left to send
\* the FilesComplete it waits for.
DrainHasFuture ==
    \A r \in Runs :
        alive = Backends /\ active[r] # None /\ active[r].state # "running" =>
            \E b \in Backends :
                \/ b \in alive /\ <<b, r>> \in flushing
                \/ b \in alive /\ Contains(down[b], [type |-> "completed", run |-> r])
                \/ b \in backends /\ Contains(out[b], [type |-> "files", run |-> r])

-----------------------------------------------------------------------------
(* Liveness *)

\* Messages in the lane of a dead backend go nowhere.
OnTheWay(r, d) == Sent(r, d) /\ Home[d] \in alive

\* A kill of run r, asked for by a client or by the end of r's stream, is on its
\* way to the plugin of DOM d.
KillOnTheWay(r, d) ==
    /\ Home[d] \in alive
    /\ \/ Contains(down[Home[d]], [type |-> "kill", run |-> r, dom |-> d])
       \/ Contains(inbox[d], [type |-> "kill", run |-> r])

\* Run r is active and nothing is left to end it: its script was dropped before
\* it reached a plugin (dispatched to a DOM that has gone, or to a backend that
\* has ended), or it was profiled, its notice has been handled, and the backend
\* that collects its files has died.
Stranded(r) ==
    /\ active[r] # None
    /\ \/ r \notin begun /\ ~ OnTheWay(r, active[r].dom)
       \/ active[r].state # "running" /\ Home[active[r].dom] \notin alive

\* `rodeo kill` works: a run the kill of which is on its way leaves the process
\* list, unless it is stranded there.  (kill_process answers killed: true of
\* every active run, and sends nothing while the run's DOM is in no snapshot.)
KillEnds ==
    \A r \in Runs, d \in Doms : KillOnTheWay(r, d) ~> active[r] = None \/ Stranded(r)

\* No kill need reach r's script on DOM d: the handler that tracked it has been
\* replaced, or the plugin had to connect again, and then the master may have
\* ended the run when it heard of the earlier loss, or have had no snapshot with
\* d when the kill was due.
OutOfReach(r, d) == r \notin tracked[d] \/ dials[d] > 1

\* When the consumer of a run goes away its script does not run on: it leaves
\* the queue, the wire and the DOM, unless it is out of reach there.
AbandonedRunStops ==
    \A r \in Runs :
        exit[r] = "dropped" ~>
            /\ r \notin pending
            /\ \A d \in Doms : ~ OnTheWay(r, d) /\ (Executing(r, d) => OutOfReach(r, d))

\* A client whose script has ended, or whose run the master has dropped, exits.
EndedRunExits ==
    \A r \in Runs : outcome[r] # None \/ Phase(r) = "ended" ~> exit[r] # "open"

\* A run queued for a session without a live DOM does not wait forever: it is
\* routed or its client exits.
DeadSessionEnds ==
    \A r \in Runs :
        r \in DeadSession(request, pending, View(backends, snap)) ~> r \notin pending

-----------------------------------------------------------------------------
(* Refinement *)

Board == INSTANCE RunBoard WITH phase <- [r \in Runs |-> Phase(r)], place <- placed

\* The master's promise about every run: born once, dispatched at most once, to
\* a DOM that fits, and never back from the end.
BoardSpec == Board!Spec
=============================================================================
