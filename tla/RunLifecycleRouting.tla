------------------------- MODULE RunLifecycleRouting --------------------------
(*****************************************************************************)
(* What holds of the run lifecycle for any number of runs, DOMs and          *)
(* backends.  Every variable keeps its type: TypeOK is inductive as it       *)
(* stands, with one lemma per handler.  And what the master promises about   *)
(* routing: the queue is served, the system implements RunBoard, and a       *)
(* script only reaches the DOM that was chosen for it.                       *)
(*****************************************************************************)
EXTENDS RunLifecycle, SequenceTheorems, FiniteSetTheorems, TLAPS

-----------------------------------------------------------------------------
(* Every variable keeps its type *)

\* Any order of a set of runs is a sequence of its runs.
LEMMA OrderingType ==
    ASSUME NEW S \in SUBSET Runs, NEW f \in SetToSeqs(S)
    PROVE  f \in Seq(S)
<1>1. IsFiniteSet(S)
  BY FS_Subset, RunsAssumption
<1>2. Cardinality(S) \in Nat
  BY <1>1, FS_CardinalityType
<1>3. f \in [1..Cardinality(S) -> S]
  BY DEF SetToSeqs
<1> QED
  BY <1>2, <1>3, SeqDef

\* What complete_run tells clients is made of run events.
LEMMA CompletionNoteType ==
    ASSUME NEW S \in SUBSET Runs, NEW ev \in Events
    PROVE  CompletionNote(S, ev) \in [Runs -> Seq(Events)]
<1>1. <<>> \in Seq(Events) /\ <<ev>> \in Seq(Events) /\ <<ev, "complete">> \in Seq(Events)
  BY DEF Events
<1> QED
  BY <1>1 DEF CompletionNote

\* The RunCompleted notices are messages a backend can be sent.
LEMMA NoticesType ==
    ASSUME NEW bs, NEW order \in Seq(Runs)
    PROVE  Notices(bs, order) \in [Backends -> Seq(DownMsg)]
<1>1. [i \in 1..Len(order) |-> [type |-> "completed", run |-> order[i]]] \in Seq(DownMsg)
  <2>1. Len(order) \in Nat /\ \A i \in 1..Len(order) : order[i] \in Runs
    BY LenProperties, ElementOfSeq
  <2>2. \A i \in 1..Len(order) : [type |-> "completed", run |-> order[i]] \in DownMsg
    BY <2>1 DEF DownMsg
  <2> QED
    BY <2>1, <2>2, SeqDef
<1>2. <<>> \in Seq(DownMsg)
  OBVIOUS
<1> QED
  BY <1>1, <1>2 DEF Notices

\* An event stream stays one, whether its client still listens or not.
LEMMA ToldType ==
    ASSUME ChanType, NEW r \in Runs, NEW ev \in Seq(Events)
    PROVE  Told(r, ev) \in Seq(Events)
<1>1. events[r] \in Seq(Events)
  BY DEF ChanType
<1>2. events[r] \o ev \in Seq(Events)
  BY <1>1, ConcatProperties
<1> QED
  BY <1>1, <1>2 DEF Told

\* What reconcile leaves in the queue, the process list and the channels has
\* its type, given that the handler's own part has.
LEMMA ReconcileType ==
    ASSUME MasterType, ChanType,
           NEW P \in SUBSET Runs, NEW A \in [Runs -> ActiveRun \cup {None}],
           NEW V \in SUBSET Doms, NEW note \in [Runs -> Seq(Events)],
           NEW extra \in [Backends -> Seq(DownMsg)],
           Reconcile(P, A, V, note, extra)
    PROVE  /\ pending' \in SUBSET Runs
           /\ active' \in [Runs -> ActiveRun \cup {None}]
           /\ placed' \in [Runs -> Doms \cup {None}]
           /\ events' \in [Runs -> Seq(Events)]
           /\ down' \in [Backends -> Seq(DownMsg)]
<1>0. PICK place \in Placements(request', P, V) :
         \E batch \in Batches(place) : Dispatch(P, A, V, note, extra, place, batch)
  BY DEF Reconcile
<1>1. PICK batch \in Batches(place) : Dispatch(P, A, V, note, extra, place, batch)
  BY <1>0
<1> DEFINE dead == DeadSession(request', Unrouted(P, place), V)
           share(b) == {r \in DOMAIN place : Home[place[r]] = b}
           sent(b) == [i \in 1..Len(batch[b]) |->
                          [type |-> "run", run |-> batch[b][i], dom |-> place[batch[b][i]]]]
<1>2. DOMAIN place \subseteq P /\ \A r \in DOMAIN place : place[r] \in V
  BY DEF Placements
<1>3. /\ pending' = Unrouted(P, place) \ dead
      /\ active' = [r \in Runs |->
                        IF r \in DOMAIN place
                        THEN [dom |-> place[r], state |-> "running"] ELSE A[r]]
      /\ placed' = [r \in Runs |->
                        IF r \in DOMAIN place THEN place[r] ELSE placed[r]]
      /\ events' = [r \in Runs |->
                        Told(r, note[r] \o IF r \in dead
                                           THEN <<"killed", "complete">> ELSE <<>>)]
      /\ down' = [b \in Backends |-> down[b] \o extra[b] \o sent(b)]
  BY <1>1 DEF Dispatch
<1>4. pending' \in SUBSET Runs
  BY <1>3 DEF Unrouted
<1>5. active' \in [Runs -> ActiveRun \cup {None}]
  BY <1>2, <1>3 DEF ActiveRun
<1>6. placed' \in [Runs -> Doms \cup {None}]
  BY <1>2, <1>3 DEF MasterType
<1>7. events' \in [Runs -> Seq(Events)]
  <2> SUFFICES ASSUME NEW r \in Runs
               PROVE  Told(r, note[r] \o IF r \in dead
                                         THEN <<"killed", "complete">> ELSE <<>>) \in Seq(Events)
    BY <1>3
  <2>1. <<"killed", "complete">> \in Seq(Events) /\ <<>> \in Seq(Events)
    BY DEF Events
  <2>2. note[r] \o (IF r \in dead THEN <<"killed", "complete">> ELSE <<>>) \in Seq(Events)
    BY <2>1, ConcatProperties
  <2> QED
    BY <2>2, ToldType
<1>8. down' \in [Backends -> Seq(DownMsg)]
  <2> SUFFICES ASSUME NEW b \in Backends
               PROVE  down[b] \o extra[b] \o sent(b) \in Seq(DownMsg)
    BY <1>3
  <2>1. share(b) \in SUBSET Runs /\ batch[b] \in SetToSeqs(share(b))
    BY <1>2 DEF NewestFirst, Batches
  <2>2. batch[b] \in Seq(share(b))
    BY <2>1, OrderingType
  <2>3. Len(batch[b]) \in Nat /\ \A i \in 1..Len(batch[b]) : batch[b][i] \in share(b)
    BY <2>2, LenProperties, ElementOfSeq
  <2>4. \A i \in 1..Len(batch[b]) :
           [type |-> "run", run |-> batch[b][i], dom |-> place[batch[b][i]]] \in DownMsg
    BY <1>2, <2>1, <2>3 DEF DownMsg
  <2>5. sent(b) \in Seq(DownMsg)
    BY <2>3, <2>4, SeqDef
  <2>6. down[b] \o extra[b] \in Seq(DownMsg)
    BY ConcatProperties DEF ChanType
  <2> QED
    BY <2>5, <2>6, ConcatProperties
<1> QED
  BY <1>4, <1>5, <1>6, <1>7, <1>8

\* The same for the handlers that complete runs before they reconcile.
LEMMA CompleteRunsType ==
    ASSUME MasterType, ChanType, NEW S \in SUBSET Runs,
           NEW state \in {"done", "error", "killed"}, NEW ev \in Events,
           NEW bs, NEW P \in SUBSET Runs, NEW V \in SUBSET Doms,
           CompleteRuns(S, state, ev, bs, P, V)
    PROVE  /\ pending' \in SUBSET Runs
           /\ active' \in [Runs -> ActiveRun \cup {None}]
           /\ placed' \in [Runs -> Doms \cup {None}]
           /\ events' \in [Runs -> Seq(Events)]
           /\ down' \in [Backends -> Seq(DownMsg)]
<1>1. PICK order \in SetToSeqs(Profiled(S)) :
        Reconcile(P, Completed(S, state), V, CompletionNote(S, ev), Notices(bs, order))
  BY DEF CompleteRuns
<1>2. Profiled(S) \subseteq Runs
  BY DEF Profiled, Finished
<1>3. order \in Seq(Runs)
  <2>1. order \in Seq(Profiled(S))
    BY <1>2, OrderingType
  <2> QED
    BY <1>2, <2>1, SeqDef
<1>4. Completed(S, state) \in [Runs -> ActiveRun \cup {None}]
  <2> SUFFICES ASSUME NEW r \in Profiled(S)
               PROVE  [active[r] EXCEPT !.state = state] \in ActiveRun
    BY DEF Completed, MasterType
  <2>1. active[r] \in ActiveRun
    BY <1>2 DEF Profiled, Finished, MasterType
  <2> QED
    BY <2>1 DEF ActiveRun
<1>5. CompletionNote(S, ev) \in [Runs -> Seq(Events)]
  BY CompletionNoteType
<1>6. Notices(bs, order) \in [Backends -> Seq(DownMsg)]
  BY <1>3, NoticesType
<1> HIDE DEF Reconcile
<1> QED
  BY <1>1, <1>4, <1>5, <1>6, ReconcileType

\* A channel stays a channel when a message is sent on it.
LEMMA AppendQueue ==
    ASSUME NEW I, NEW M, NEW q \in [I -> Seq(M)], NEW i \in I, NEW m \in M
    PROVE  [q EXCEPT ![i] = Append(@, m)] \in [I -> Seq(M)]
<1>1. Append(q[i], m) \in Seq(M)
  BY AppendProperties
<1> QED
  BY <1>1

\* A channel stays a channel when its first message is taken.
LEMMA TailQueue ==
    ASSUME NEW I, NEW M, NEW q \in [I -> Seq(M)], NEW i \in I, q[i] # <<>>
    PROVE  /\ Head(q[i]) \in M
           /\ [q EXCEPT ![i] = Tail(@)] \in [I -> Seq(M)]
<1>1. Head(q[i]) \in M /\ Tail(q[i]) \in Seq(M)
  BY HeadTailProperties
<1> QED
  BY <1>1

\* A command sent, or dropped, leaves the lanes to the backends lanes.
LEMMA SendToDomType ==
    ASSUME ChanType, NEW d \in Doms, NEW type \in {"run", "kill"}, NEW r \in Runs,
           SendToDom(d, type, r)
    PROVE  down' \in [Backends -> Seq(DownMsg)]
<1>1. [type |-> type, run |-> r, dom |-> d] \in DownMsg
  BY DEF DownMsg
<1>2. Home[d] \in Backends
  BY DomsAssumption
<1> QED
  BY <1>1, <1>2, AppendQueue DEF SendToDom, ChanType

\* The master sees DOMs.
LEMMA ViewType ==
    ASSUME MasterType
    PROVE  View(backends, snap) \in SUBSET Doms
  BY DEF View, MasterType

\* The initial state is well typed.
LEMMA TypeInit == Init => TypeOK
<1> SUFFICES ASSUME Init PROVE TypeOK
  OBVIOUS
<1>1. MasterType
  BY DEF Init, MasterType
<1>2. ChanType
  BY DEF Init, ChanType
<1>3. BackendType
  BY BoundsAssumption DEF Init, BackendType
<1>4. PluginType
  BY BoundsAssumption DEF Init, PluginType
<1>5. ClientType
  BY BoundsAssumption DEF Init, ClientType
<1> QED
  BY <1>1, <1>2, <1>3, <1>4, <1>5 DEF TypeOK

\* The five variables a reconciling handler sets have their types again.
Reconciled ==
    /\ pending \in SUBSET Runs
    /\ active \in [Runs -> ActiveRun \cup {None}]
    /\ placed \in [Runs -> Doms \cup {None}]
    /\ events \in [Runs -> Seq(Events)]
    /\ down \in [Backends -> Seq(DownMsg)]

\* A handler of the master is well typed if what it reconciles is: it leaves the
\* backends, the plugins and the clients alone.
LEMMA FrameType ==
    ASSUME TypeOK, HandlerFrame, Reconciled', backends' \subseteq Backends,
           snap' \in [Backends -> SUBSET Doms], out' \in [Backends -> Seq(UpMsg)]
    PROVE  TypeOK'
<1>1. MasterType'
  BY DEF TypeOK, HandlerFrame, Reconciled, MasterType
<1>2. ChanType'
  BY DEF TypeOK, HandlerFrame, Reconciled, ChanType
<1>3. BackendType' /\ PluginType' /\ ClientType'
  BY DEF TypeOK, HandlerFrame, BackendType, PluginType, ClientType,
         backendVars, pluginVars, clientVars
<1> QED
  BY <1>1, <1>2, <1>3 DEF TypeOK

\* Taking a message off a backend's stream leaves a stream.
LEMMA ConsumeType ==
    ASSUME TypeOK, NEW b \in backends, out[b] # <<>>
    PROVE  /\ Head(out[b]) \in UpMsg
           /\ Consume(b) => out' \in [Backends -> Seq(UpMsg)]
<1>1. b \in Backends /\ out \in [Backends -> Seq(UpMsg)]
  BY DEF TypeOK, MasterType, ChanType
<1>2. /\ Head(out[b]) \in UpMsg
      /\ [out EXCEPT ![b] = Tail(@)] \in [Backends -> Seq(UpMsg)]
  BY <1>1, TailQueue
<1> QED
  BY <1>2 DEF Consume

\* A DOM connecting, or a Studio exiting, keeps the types.
LEMMA HandleNudgeType ==
    ASSUME TypeOK, NEW b \in Backends, HandleNudge(b)
    PROVE  TypeOK'
<1>1. Reconcile(pending, active, View(backends, snap), Silent, NoExtra)
  BY DEF HandleNudge
<1>2. Silent \in [Runs -> Seq(Events)] /\ NoExtra \in [Backends -> Seq(DownMsg)]
  BY DEF Silent, NoExtra
<1>3. Reconciled'
  BY <1>1, <1>2, ViewType, ReconcileType DEF Reconciled, TypeOK, MasterType
<1>4. out' \in [Backends -> Seq(UpMsg)]
  BY ConsumeType DEF HandleNudge, Arrived
<1> QED
  BY <1>3, <1>4, FrameType DEF HandleNudge, TypeOK, MasterType

\* A state snapshot keeps the types.
LEMMA HandleSnapshotType ==
    ASSUME TypeOK, NEW b \in Backends, HandleSnapshot(b)
    PROVE  TypeOK'
<1>1. Reconcile(pending, active, View(backends, snap'), Silent, NoExtra)
  BY DEF HandleSnapshot
<1>2. Silent \in [Runs -> Seq(Events)] /\ NoExtra \in [Backends -> Seq(DownMsg)]
  BY DEF Silent, NoExtra
<1>3. Head(out[b]).doms \in SUBSET Doms
  BY ConsumeType DEF HandleSnapshot, Arrived, UpMsg
<1>4. snap' \in [Backends -> SUBSET Doms]
  BY <1>3 DEF HandleSnapshot, TypeOK, MasterType
<1>5. View(backends, snap') \in SUBSET Doms
  BY <1>4 DEF View, TypeOK, MasterType
<1>6. Reconciled'
  BY <1>1, <1>2, <1>5, ReconcileType DEF Reconciled, TypeOK, MasterType
<1>7. out' \in [Backends -> Seq(UpMsg)]
  BY ConsumeType DEF HandleSnapshot, Arrived
<1> QED
  BY <1>4, <1>6, <1>7, FrameType DEF HandleSnapshot, TypeOK, MasterType

\* The sweep of a disconnected DOM's runs keeps the types.
LEMMA HandleDomDisconnectType ==
    ASSUME TypeOK, NEW b \in Backends, HandleDomDisconnect(b)
    PROVE  TypeOK'
<1> DEFINE d == Head(out[b]).dom
           V == View(backends, snap)
           swept == {r \in Runs : active[r] # None /\ active[r].dom = d}
           drained == IF swept = {} THEN {} ELSE DeadSession(request, pending, V)
           waiting == {r \in pending \ drained : request[r].dom = d}
<1>1. CompleteRuns(swept, "killed", "disconnect", backends, pending \ waiting, V)
  BY DEF HandleDomDisconnect
<1>2. /\ swept \in SUBSET Runs /\ pending \ waiting \in SUBSET Runs
      /\ V \in SUBSET Doms /\ "disconnect" \in Events
  BY ViewType DEF TypeOK, MasterType, Events
<1> HIDE DEF swept, waiting, V
<1>3. Reconciled'
  BY <1>1, <1>2, CompleteRunsType DEF Reconciled, TypeOK
<1>4. out' \in [Backends -> Seq(UpMsg)]
  BY ConsumeType DEF HandleDomDisconnect, Arrived
<1> QED
  BY <1>3, <1>4, FrameType DEF HandleDomDisconnect, TypeOK, MasterType

\* Completing a run on its plugin's report keeps the types.
LEMMA HandleFinishedType ==
    ASSUME TypeOK, NEW b \in Backends, HandleFinished(b)
    PROVE  TypeOK'
<1> DEFINE m == Head(out[b])
<1>1. /\ m.type \in {"done", "failed", "killed"} /\ HandlerFrame
      /\ CompleteRuns({m.run}, FinalState(m.type), m.type,
                      backends, pending, View(backends, snap))
  BY DEF HandleFinished
<1>2. m \in UpMsg /\ out' \in [Backends -> Seq(UpMsg)]
  BY ConsumeType DEF HandleFinished
<1>3. m.run \in Runs
  BY <1>1, <1>2 DEF UpMsg
<1>4. FinalState(m.type) \in {"done", "error", "killed"} /\ m.type \in Events
  BY <1>1 DEF FinalState, Events
<1> HIDE DEF m
<1>5. Reconciled'
  BY <1>1, <1>3, <1>4, ViewType, CompleteRunsType DEF Reconciled, TypeOK, MasterType
<1> QED
  BY <1>1, <1>2, <1>5, FrameType DEF HandleFinished, TypeOK, MasterType

\* The sweep after a lost control stream keeps the types.
LEMMA BackendLostType ==
    ASSUME TypeOK, NEW b \in Backends, BackendLost(b)
    PROVE  TypeOK'
<1> DEFINE V == View(backends', snap)
           orphaned == {r \in Runs : active[r] # None /\ active[r].dom \notin V}
<1>1. /\ HandlerFrame /\ snap' = snap /\ backends' \subseteq Backends
      /\ out' \in [Backends -> Seq(UpMsg)]
  BY DEF BackendLost, TypeOK, MasterType, ChanType
<1>2. /\ orphaned \in SUBSET Runs /\ V \in SUBSET Doms /\ "disconnect" \in Events
  BY <1>1 DEF View, TypeOK, MasterType, Events
<1>3. \/ UNCHANGED <<pending, active, placed, events, down>>
      \/ CompleteRuns(orphaned, "killed", "disconnect", backends', pending, V)
  BY DEF BackendLost
<1> HIDE DEF V, orphaned
<1>4. Reconciled'
  <2>1. CASE UNCHANGED <<pending, active, placed, events, down>>
    BY <2>1 DEF Reconciled, TypeOK, MasterType, ChanType
  <2>2. CASE CompleteRuns(orphaned, "killed", "disconnect", backends', pending, V)
    BY <1>2, <2>2, CompleteRunsType DEF Reconciled, TypeOK, MasterType
  <2> QED
    BY <1>3, <2>1, <2>2
<1> QED
  BY <1>1, <1>4, FrameType DEF TypeOK, MasterType

\* The end of a profiled run's drain keeps the types.
LEMMA HandleFilesType ==
    ASSUME TypeOK, NEW b \in Backends, HandleFiles(b)
    PROVE  TypeOK'
<1> DEFINE r == Head(out[b]).run
<1>1. Head(out[b]) \in UpMsg /\ out' \in [Backends -> Seq(UpMsg)]
  BY ConsumeType DEF HandleFiles, Arrived
<1>2. r \in Runs
  BY <1>1 DEF HandleFiles, Arrived, UpMsg
<1>3. Told(r, <<"complete">>) \in Seq(Events)
  <2>1. <<"complete">> \in Seq(Events)
    BY DEF Events
  <2> QED
    BY <1>2, <2>1, ToldType DEF TypeOK
<1>4. MasterType'
  BY DEF HandleFiles, TypeOK, MasterType
<1>5. ChanType'
  BY <1>1, <1>3 DEF HandleFiles, TypeOK, ChanType
<1>6. BackendType' /\ PluginType' /\ ClientType'
  BY DEF HandleFiles, TypeOK, BackendType, PluginType, ClientType,
         backendVars, pluginVars, clientVars
<1> QED
  BY <1>4, <1>5, <1>6 DEF TypeOK

\* A submission keeps the types, routed or queued.
LEMMA SubmitType ==
    ASSUME TypeOK, NEW r \in Runs, Submit(r)
    PROVE  TypeOK'
<1> DEFINE V == View(backends, snap)
           created == [Silent EXCEPT ![r] = <<"created">>]
<1>1. /\ request' \in [Runs -> Requests \cup {None}]
      /\ reader' = reader \cup {r}
      /\ UNCHANGED <<backends, snap, relay, out, inbox, code, exit, kills>>
      /\ UNCHANGED <<backendVars, pluginVars>>
  BY DEF Submit, TypeOK, MasterType
<1>2. <<"created">> \in Seq(Events) /\ <<>> \in Seq(Events)
  BY DEF Events
<1>3. V \in SUBSET Doms
  BY ViewType DEF TypeOK
<1>4. Reconciled'
  <2>1. CASE /\ \E d \in V : Fits(request'[r], d) /\
                   /\ active' = [active EXCEPT ![r] = [dom |-> d, state |-> "running"]]
                   /\ placed' = [placed EXCEPT ![r] = d]
                   /\ SendToDom(d, "run", r)
             /\ events' = [events EXCEPT ![r] = Told(r, <<"created">>)]
             /\ UNCHANGED pending
    <3>1. PICK d \in V :
             /\ active' = [active EXCEPT ![r] = [dom |-> d, state |-> "running"]]
             /\ placed' = [placed EXCEPT ![r] = d]
             /\ SendToDom(d, "run", r)
      BY <2>1
    <3>2. d \in Doms /\ [dom |-> d, state |-> "running"] \in ActiveRun
      BY <1>3 DEF ActiveRun
    <3>3. down' \in [Backends -> Seq(DownMsg)]
      BY <3>1, <3>2, SendToDomType DEF TypeOK
    <3>4. Told(r, <<"created">>) \in Seq(Events)
      BY <1>2, ToldType DEF TypeOK
    <3> QED
      BY <2>1, <3>1, <3>2, <3>3, <3>4 DEF Reconciled, TypeOK, MasterType, ChanType
  <2>2. CASE Reconcile(pending \cup {r}, active, V, created, NoExtra)
    <3>0. Silent \in [Runs -> Seq(Events)] /\ NoExtra \in [Backends -> Seq(DownMsg)]
      BY DEF Silent, NoExtra
    <3>1. created \in [Runs -> Seq(Events)] /\ NoExtra \in [Backends -> Seq(DownMsg)]
      BY <1>2, <3>0
    <3>2. pending \cup {r} \in SUBSET Runs /\ active \in [Runs -> ActiveRun \cup {None}]
      BY DEF TypeOK, MasterType
    <3> HIDE DEF V, created
    <3> QED
      BY <1>3, <2>2, <3>1, <3>2, ReconcileType DEF Reconciled, TypeOK
  <2> QED
    BY <2>1, <2>2 DEF Submit
<1>5. MasterType'
  BY <1>1, <1>4 DEF Reconciled, TypeOK, MasterType
<1>6. ChanType'
  BY <1>1, <1>4 DEF Reconciled, TypeOK, ChanType
<1>7. BackendType' /\ PluginType' /\ ClientType'
  BY <1>1 DEF TypeOK, BackendType, PluginType, ClientType, backendVars, pluginVars
<1> QED
  BY <1>5, <1>6, <1>7 DEF TypeOK

\* The client's own steps and what a client asks of the master.
LEMMA ClientStepType ==
    ASSUME TypeOK, NEW r \in Runs,
           \/ ClientReceive(r) \/ ClientStreamEnd(r) \/ ClientDrop(r) \/ Reject(r)
    PROVE  TypeOK'
<1>1. events \in [Runs -> Seq(Events)] /\ <<>> \in Seq(Events)
  BY DEF TypeOK, ChanType
<1>2. CASE ClientReceive(r)
  <2>1. [events EXCEPT ![r] = Tail(@)] \in [Runs -> Seq(Events)]
    BY <1>1, <1>2, TailQueue DEF ClientReceive
  <2>2. events' \in [Runs -> Seq(Events)]
    BY <1>1, <1>2, <2>1 DEF ClientReceive, Leave
  <2>3. ClientType'
    BY <1>2 DEF ClientReceive, Leave, TypeOK, ClientType
  <2>4. ChanType'
    BY <1>2, <2>2 DEF ClientReceive, TypeOK, ChanType
  <2>5. MasterType' /\ BackendType' /\ PluginType'
    BY <1>2 DEF ClientReceive, TypeOK, MasterType, BackendType, PluginType,
                masterVars, backendVars, pluginVars
  <2> QED
    BY <2>3, <2>4, <2>5 DEF TypeOK
<1>3. CASE ClientStreamEnd(r) \/ ClientDrop(r)
  <2>1. ClientType'
    BY <1>3 DEF ClientStreamEnd, ClientDrop, Leave, TypeOK, ClientType
  <2>2. ChanType'
    BY <1>1, <1>3 DEF ClientStreamEnd, ClientDrop, Leave, TypeOK, ChanType
  <2>3. MasterType' /\ BackendType' /\ PluginType'
    BY <1>3 DEF ClientStreamEnd, ClientDrop, TypeOK, MasterType, BackendType, PluginType,
                masterVars, backendVars, pluginVars
  <2> QED
    BY <2>1, <2>2, <2>3 DEF TypeOK
<1>4. CASE Reject(r)
  <2>1. <<"created", "disconnect">> \in Seq(Events)
    BY DEF Events
  <2>2. MasterType'
    BY <1>4 DEF Reject, TypeOK, MasterType
  <2>3. ChanType'
    BY <1>4, <2>1 DEF Reject, TypeOK, ChanType
  <2>4. BackendType' /\ PluginType' /\ ClientType'
    BY <1>4 DEF Reject, TypeOK, BackendType, PluginType, ClientType,
                backendVars, pluginVars, clientVars
  <2> QED
    BY <2>2, <2>3, <2>4 DEF TypeOK
<1> QED
  BY <1>2, <1>3, <1>4

\* kill_process keeps the types.
LEMMA KillType ==
    ASSUME TypeOK, NEW r \in Runs, Kill(r) \/ ReaderEnd(r)
    PROVE  TypeOK'
<1>1. down' \in [Backends -> Seq(DownMsg)]
  <2>1. active[r] # None => active[r].dom \in Doms
    BY DEF TypeOK, MasterType, ActiveRun
  <2>2. \/ active[r] # None /\ SendToDom(active[r].dom, "kill", r)
        \/ UNCHANGED down
    BY DEF Kill, ReaderEnd
  <2> QED
    BY <2>1, <2>2, SendToDomType DEF TypeOK, ChanType
<1>2. MasterType'
  BY DEF Kill, ReaderEnd, TypeOK, MasterType, masterVars
<1>3. ChanType'
  BY <1>1 DEF Kill, ReaderEnd, TypeOK, ChanType
<1>4. ClientType'
  BY BoundsAssumption DEF Kill, ReaderEnd, TypeOK, ClientType
<1>5. BackendType' /\ PluginType'
  BY DEF Kill, ReaderEnd, TypeOK, BackendType, PluginType, backendVars, pluginVars
<1> QED
  BY <1>2, <1>3, <1>4, <1>5 DEF TypeOK

\* close_studio keeps the types.
LEMMA CloseType ==
    ASSUME TypeOK, NEW g \in Guids, Close(g)
    PROVE  TypeOK'
<1>1. [type |-> "close", guid |-> g] \in DownMsg
  BY DEF DownMsg
<1>2. down \in [Backends -> Seq(DownMsg)] /\ backends \subseteq Backends
  BY DEF TypeOK, MasterType, ChanType
<1>3. down' \in [Backends -> Seq(DownMsg)]
  BY <1>1, <1>2, AppendQueue DEF Close
<1>4. ChanType'
  BY <1>3 DEF Close, TypeOK, ChanType
<1>5. MasterType' /\ BackendType' /\ PluginType' /\ ClientType'
  BY DEF Close, TypeOK, MasterType, BackendType, PluginType, ClientType,
         masterVars, backendVars, pluginVars, clientVars
<1> QED
  BY <1>4, <1>5 DEF TypeOK

\* Moving a relayed message to the stream keeps the types.
LEMMA ForwardType ==
    ASSUME TypeOK, NEW b \in Backends, Forward(b)
    PROVE  TypeOK'
<1>1. relay \in [Backends -> Seq(UpMsg)] /\ out \in [Backends -> Seq(UpMsg)]
  BY DEF TypeOK, ChanType
<1>2. Head(relay[b]) \in UpMsg /\ relay' \in [Backends -> Seq(UpMsg)]
  BY <1>1, TailQueue DEF Forward
<1>3. out' \in [Backends -> Seq(UpMsg)]
  BY <1>1, <1>2, AppendQueue DEF Forward
<1>4. ChanType'
  BY <1>2, <1>3 DEF Forward, TypeOK, ChanType
<1>5. MasterType' /\ BackendType' /\ PluginType' /\ ClientType'
  BY DEF Forward, TypeOK, MasterType, BackendType, PluginType, ClientType,
         masterVars, backendVars, pluginVars, clientVars
<1> QED
  BY <1>4, <1>5 DEF TypeOK

\* A snapshot taken keeps the types.
LEMMA TakeSnapshotType ==
    ASSUME TypeOK, NEW b \in Backends, TakeSnapshot(b)
    PROVE  TypeOK'
<1>1. [type |-> "snapshot", doms |-> Entries(b)] \in UpMsg
  BY DEF Entries, UpMsg
<1>2. out \in [Backends -> Seq(UpMsg)]
  BY DEF TypeOK, ChanType
<1>3. out' \in [Backends -> Seq(UpMsg)]
  BY <1>1, <1>2, AppendQueue DEF TakeSnapshot
<1>4. ChanType'
  BY <1>3 DEF TakeSnapshot, TypeOK, ChanType
<1>5. MasterType' /\ BackendType' /\ PluginType' /\ ClientType'
  BY DEF TakeSnapshot, TypeOK, MasterType, BackendType, PluginType, ClientType,
         masterVars, backendVars, pluginVars, clientVars
<1> QED
  BY <1>4, <1>5 DEF TypeOK

\* The end of a run's dump stream keeps the types.
LEMMA FilesDoneType ==
    ASSUME TypeOK, NEW b \in Backends, NEW r \in Runs, FilesDone(b, r)
    PROVE  TypeOK'
<1>1. [type |-> "files", run |-> r] \in UpMsg
  BY DEF UpMsg
<1>2. out \in [Backends -> Seq(UpMsg)]
  BY DEF TypeOK, ChanType
<1>3. out' \in [Backends -> Seq(UpMsg)]
  BY <1>1, <1>2, AppendQueue DEF FilesDone
<1>4. ChanType'
  BY <1>3 DEF FilesDone, TypeOK, ChanType
<1>5. BackendType'
  BY DEF FilesDone, TypeOK, BackendType
<1>6. MasterType' /\ PluginType' /\ ClientType'
  BY DEF FilesDone, TypeOK, MasterType, PluginType, ClientType,
         masterVars, pluginVars, clientVars
<1> QED
  BY <1>4, <1>5, <1>6 DEF TypeOK

\* A backend handling what the master sent keeps the types.
LEMMA BackendReceiveType ==
    ASSUME TypeOK, NEW b \in Backends, BackendReceive(b)
    PROVE  TypeOK'
<1> DEFINE m == Head(down[b])
<1>1. /\ down \in [Backends -> Seq(DownMsg)] /\ relay \in [Backends -> Seq(UpMsg)]
      /\ inbox \in [Doms -> Seq(InboxMsg)]
  BY DEF TypeOK, ChanType
<1>2. m \in DownMsg /\ down' \in [Backends -> Seq(DownMsg)]
  BY <1>1, TailQueue DEF BackendReceive
<1>3. MasterType' /\ PluginType' /\ ClientType'
  BY DEF BackendReceive, TypeOK, MasterType, PluginType, ClientType,
         masterVars, pluginVars, clientVars
<1>4. UNCHANGED <<events, out, alive, loops, env>>
  BY DEF BackendReceive
<1>5. CASE m.type \in {"run", "kill"}
  <2>1. m.run \in Runs /\ m.dom \in Doms /\ [type |-> m.type, run |-> m.run] \in InboxMsg
    BY <1>2, <1>5 DEF DownMsg, InboxMsg
  <2>2. inbox' \in [Doms -> Seq(InboxMsg)]
    <3>1. \/ inbox' = [inbox EXCEPT ![m.dom] = Append(@, [type |-> m.type, run |-> m.run])]
          \/ inbox' = inbox
      BY <1>5 DEF BackendReceive
    <3> HIDE DEF m
    <3>2. [inbox EXCEPT ![m.dom] = Append(@, [type |-> m.type, run |-> m.run])]
             \in [Doms -> Seq(InboxMsg)]
      BY <1>1, <2>1, AppendQueue
    <3> QED
      BY <1>1, <3>1, <3>2
  <2>3. ChanType'
    BY <1>2, <1>4, <1>5, <2>2 DEF BackendReceive, TypeOK, ChanType
  <2>4. BackendType'
    <3>1. /\ UNCHANGED <<doms, flushing, closing>>
          /\ scanning' = scanning \/ scanning' = scanning \cup {<<b, m.run>>}
      BY <1>5 DEF BackendReceive
    <3> HIDE DEF m
    <3> QED
      BY <1>4, <2>1, <3>1 DEF TypeOK, BackendType
  <2> QED
    BY <1>3, <2>3, <2>4 DEF TypeOK
<1>6. CASE m.type = "completed"
  <2>1. ChanType'
    BY <1>2, <1>4, <1>6 DEF BackendReceive, TypeOK, ChanType
  <2>2. BackendType'
    BY <1>4, <1>6 DEF BackendReceive, TypeOK, BackendType
  <2> QED
    BY <1>3, <2>1, <2>2 DEF TypeOK
<1>7. CASE m.type = "close"
  <2> DEFINE dying == {d \in Entries(b) : Guid[d] = m.guid}
             told(order) == [i \in 1..Len(order) |->
                                [type |-> "disconnect", dom |-> order[i]]]
  <2>1. PICK order \in SetToSeqs(dying) :
            relay' = [relay EXCEPT ![b] = @ \o told(order)]
    BY <1>7 DEF BackendReceive
  <2>2. order \in Seq(Doms)
    <3>1. IsFiniteSet(dying) /\ dying \subseteq Doms
      BY FS_Subset, DomsAssumption DEF Entries
    <3>2. Cardinality(dying) \in Nat
      BY <3>1, FS_CardinalityType
    <3> QED
      BY <3>1, <3>2, SeqDef DEF SetToSeqs
  <2>3. told(order) \in Seq(UpMsg)
    <3>1. Len(order) \in Nat /\ \A i \in 1..Len(order) : order[i] \in Doms
      BY <2>2, LenProperties, ElementOfSeq
    <3>2. \A i \in 1..Len(order) : [type |-> "disconnect", dom |-> order[i]] \in UpMsg
      BY <3>1 DEF UpMsg
    <3> QED
      BY <3>1, <3>2, SeqDef
  <2>4. relay[b] \o told(order) \in Seq(UpMsg)
    BY <1>1, <2>3, ConcatProperties
  <2> HIDE DEF told
  <2>5. relay' \in [Backends -> Seq(UpMsg)]
    BY <1>1, <2>1, <2>4
  <2>6. ChanType'
    BY <1>2, <1>4, <1>7, <2>5 DEF BackendReceive, TypeOK, ChanType
  <2>7. m.guid \in Guids
    BY <1>2, <1>7 DEF DownMsg
  <2>8. doms' \in [Doms -> 0..MaxConn]
    <3>1. doms' = [d \in Doms |-> IF d \in dying THEN 0 ELSE doms[d]]
      BY <1>7 DEF BackendReceive
    <3>2. doms \in [Doms -> 0..MaxConn] /\ 0 \in 0..MaxConn
      BY BoundsAssumption DEF TypeOK, BackendType
    <3> HIDE DEF dying
    <3> QED
      BY <3>1, <3>2
  <2>9. BackendType'
    BY <1>4, <1>7, <2>7, <2>8 DEF BackendReceive, TypeOK, BackendType
  <2> QED
    BY <1>3, <2>6, <2>9 DEF TypeOK
<1> QED
  BY <1>5, <1>6, <1>7 DEF BackendReceive

\* A socket loop that ends keeps the types.
LEMMA LoopEndType ==
    ASSUME TypeOK, NEW d \in Doms, NEW c, LoopEnd(d, c)
    PROVE  TypeOK'
<1>1. [type |-> "disconnect", dom |-> d] \in UpMsg /\ Home[d] \in Backends
  BY DomsAssumption DEF UpMsg
<1>2. relay \in [Backends -> Seq(UpMsg)]
  BY DEF TypeOK, ChanType
<1>3. relay' \in [Backends -> Seq(UpMsg)]
  BY <1>1, <1>2, AppendQueue DEF LoopEnd
<1>4. ChanType'
  BY <1>3 DEF LoopEnd, TypeOK, ChanType
<1>5. BackendType'
  BY BoundsAssumption DEF LoopEnd, TypeOK, BackendType
<1>6. MasterType' /\ PluginType' /\ ClientType'
  BY DEF LoopEnd, TypeOK, MasterType, PluginType, ClientType,
         masterVars, pluginVars, clientVars
<1> QED
  BY <1>4, <1>5, <1>6 DEF TypeOK

\* The death of a backend process keeps the types.
LEMMA BackendCrashType ==
    ASSUME TypeOK, NEW b \in Backends, BackendCrash(b)
    PROVE  TypeOK'
<1>1. MasterType' /\ ClientType'
  BY DEF BackendCrash, TypeOK, MasterType, ClientType, masterVars, clientVars
<1>2. ChanType'
  <2>1. /\ UNCHANGED <<events, out>>
        /\ relay' = [relay EXCEPT ![b] = <<>>] /\ down' = [down EXCEPT ![b] = <<>>]
        /\ inbox' = [d \in Doms |-> IF Home[d] = b THEN <<>> ELSE inbox[d]]
    BY DEF BackendCrash
  <2> QED
    BY <2>1 DEF TypeOK, ChanType
<1>3. BackendType'
  <2>1. /\ UNCHANGED <<closing, env>> /\ alive' = alive \ {b}
        /\ doms' = [d \in Doms |-> IF Home[d] = b THEN 0 ELSE doms[d]]
        /\ loops' = [d \in Doms |-> IF Home[d] = b THEN {} ELSE loops[d]]
        /\ scanning' = {p \in scanning : p[1] # b}
        /\ flushing' = {p \in flushing : p[1] # b}
    BY DEF BackendCrash
  <2> QED
    BY <2>1, BoundsAssumption DEF TypeOK, BackendType
<1>4. PluginType'
  <2>1. /\ UNCHANGED <<dials, scripts, gone, begun, outcome>>
        /\ sock' = [d \in Doms |-> IF Home[d] = b THEN 0 ELSE sock[d]]
        /\ tracked' = [d \in Doms |-> IF Home[d] = b THEN {} ELSE tracked[d]]
    BY DEF BackendCrash
  <2> QED
    BY <2>1, BoundsAssumption DEF TypeOK, PluginType
<1> QED
  BY <1>1, <1>2, <1>3, <1>4 DEF TypeOK

\* A plugin connecting keeps the types.
LEMMA DialType ==
    ASSUME TypeOK, NEW d \in Doms, Dial(d)
    PROVE  TypeOK'
<1>1. [type |-> "connect", dom |-> d] \in UpMsg /\ Home[d] \in Backends
  BY DomsAssumption DEF UpMsg
<1>2. relay \in [Backends -> Seq(UpMsg)]
  BY DEF TypeOK, ChanType
<1>3. relay' \in [Backends -> Seq(UpMsg)]
  BY <1>1, <1>2, AppendQueue DEF Dial
<1>4. dials[d] + 1 \in 1..MaxConn /\ dials[d] + 1 \in 0..MaxConn
  BY BoundsAssumption DEF Dial, TypeOK, PluginType
<1>5. ChanType'
  BY <1>3 DEF Dial, TypeOK, ChanType
<1>6. BackendType'
  BY <1>4 DEF Dial, TypeOK, BackendType
<1>7. PluginType'
  BY <1>4 DEF Dial, TypeOK, PluginType
<1>8. MasterType' /\ ClientType'
  BY DEF Dial, TypeOK, MasterType, ClientType, masterVars, clientVars
<1> QED
  BY <1>5, <1>6, <1>7, <1>8 DEF TypeOK

\* What may happen to a plugin: its socket is lost, it dies, it is rewired.
LEMMA PluginFaultType ==
    ASSUME TypeOK, NEW d \in Doms, Lose(d) \/ Die(d) \/ Rewire(d)
    PROVE  TypeOK'
<1>1. CASE Lose(d)
  <2>1. ChanType'
    BY <1>1 DEF Lose, TypeOK, ChanType
  <2>2. PluginType'
    BY <1>1, BoundsAssumption DEF Lose, TypeOK, PluginType
  <2>3. MasterType' /\ BackendType' /\ ClientType'
    BY <1>1 DEF Lose, TypeOK, MasterType, BackendType, ClientType,
                masterVars, backendVars, clientVars
  <2> QED
    BY <2>1, <2>2, <2>3 DEF TypeOK
<1>2. CASE Die(d)
  <2>1. [type |-> "exited", guid |-> Guid[d]] \in UpMsg /\ Home[d] \in Backends
    BY DomsAssumption DEF UpMsg
  <2>2. out \in [Backends -> Seq(UpMsg)]
    BY DEF TypeOK, ChanType
  <2>3. out' \in [Backends -> Seq(UpMsg)]
    <3>1. \/ out' = out
          \/ out' = [out EXCEPT ![Home[d]] = Append(@, [type |-> "exited", guid |-> Guid[d]])]
      BY <1>2 DEF Die
    <3>2. [out EXCEPT ![Home[d]] = Append(@, [type |-> "exited", guid |-> Guid[d]])]
             \in [Backends -> Seq(UpMsg)]
      BY <2>1, <2>2, AppendQueue
    <3> QED
      BY <2>2, <3>1, <3>2
  <2>4. ChanType'
    BY <1>2, <2>3 DEF Die, TypeOK, ChanType
  <2>5. PluginType'
    BY <1>2, BoundsAssumption DEF Die, TypeOK, PluginType
  <2>6. MasterType' /\ BackendType' /\ ClientType'
    BY <1>2 DEF Die, TypeOK, MasterType, BackendType, ClientType,
                masterVars, backendVars, clientVars
  <2> QED
    BY <2>4, <2>5, <2>6 DEF TypeOK
<1>3. CASE Rewire(d)
  <2>1. PluginType'
    BY <1>3 DEF Rewire, TypeOK, PluginType
  <2>2. MasterType' /\ ChanType' /\ BackendType' /\ ClientType'
    BY <1>3 DEF Rewire, TypeOK, MasterType, ChanType, BackendType, ClientType,
                masterVars, chanVars, backendVars, clientVars
  <2> QED
    BY <2>1, <2>2 DEF TypeOK
<1> QED
  BY <1>1, <1>2, <1>3

\* The plugin's handling of a run or a kill keeps the types.
LEMMA PluginReceiveType ==
    ASSUME TypeOK, NEW d \in Doms, PluginReceive(d)
    PROVE  TypeOK'
<1> DEFINE m == Head(inbox[d])
<1>1. /\ relay \in [Backends -> Seq(UpMsg)] /\ inbox \in [Doms -> Seq(InboxMsg)]
      /\ Home[d] \in Backends
  BY DomsAssumption DEF TypeOK, ChanType
<1>2. m \in InboxMsg /\ inbox' \in [Doms -> Seq(InboxMsg)]
  BY <1>1, TailQueue DEF PluginReceive
<1>3. m.run \in Runs
  BY <1>2 DEF InboxMsg
<1>4. relay' \in [Backends -> Seq(UpMsg)]
  <2>1. \/ relay' = relay
        \/ relay' = [relay EXCEPT ![Home[d]] = @ \o KillAck(d, m.run)]
    BY DEF PluginReceive
  <2>2. KillAck(d, m.run) \in Seq(UpMsg)
    <3>1. [type |-> "killed", run |-> m.run] \in UpMsg
      BY <1>3 DEF UpMsg
    <3> QED
      BY <3>1 DEF KillAck
  <2>3. relay[Home[d]] \o KillAck(d, m.run) \in Seq(UpMsg)
    BY <1>1, <2>2, ConcatProperties
  <2> HIDE DEF m
  <2> QED
    BY <1>1, <2>1, <2>3
<1>5. ChanType'
  BY <1>2, <1>4 DEF PluginReceive, TypeOK, ChanType
<1>6. PluginType'
  <2>1. /\ UNCHANGED <<sock, dials, gone, outcome>>
        /\ \/ /\ scripts' = [scripts EXCEPT ![d] = @ \cup {[run |-> m.run, conn |-> sock[d]]}]
              /\ begun' = begun \cup {m.run}
              /\ tracked' = [tracked EXCEPT ![d] = @ \cup {m.run}]
           \/ /\ scripts' = [scripts EXCEPT ![d] = Survivors(d, m.run)]
              /\ tracked' = [tracked EXCEPT ![d] = @ \ {m.run}]
              /\ begun' = begun
    BY DEF PluginReceive
  <2>2. [run |-> m.run, conn |-> sock[d]] \in Script
    BY <1>3 DEF PluginReceive, TypeOK, PluginType, Script
  <2>3. Survivors(d, m.run) \in SUBSET Script
    BY DEF Survivors, TypeOK, PluginType
  <2> HIDE DEF m
  <2> QED
    BY <1>3, <2>1, <2>2, <2>3 DEF TypeOK, PluginType
<1>7. MasterType' /\ BackendType' /\ ClientType'
  BY DEF PluginReceive, TypeOK, MasterType, BackendType, ClientType,
         masterVars, backendVars, clientVars
<1> QED
  BY <1>5, <1>6, <1>7 DEF TypeOK

\* A script ending keeps the types.
LEMMA ScriptEndType ==
    ASSUME TypeOK, NEW d \in Doms, NEW t, NEW how \in {"done", "failed"},
           ScriptEnd(d, t, how)
    PROVE  TypeOK'
<1>1. t.run \in Runs
  BY DEF ScriptEnd, TypeOK, PluginType, Script
<1>2. [type |-> how, run |-> t.run] \in UpMsg /\ Home[d] \in Backends
  BY <1>1, DomsAssumption DEF UpMsg
<1>3. relay \in [Backends -> Seq(UpMsg)]
  BY DEF TypeOK, ChanType
<1>4. relay' \in [Backends -> Seq(UpMsg)]
  BY <1>2, <1>3, AppendQueue DEF ScriptEnd
<1>5. ChanType'
  BY <1>4 DEF ScriptEnd, TypeOK, ChanType
<1>6. PluginType'
  BY <1>1 DEF ScriptEnd, TypeOK, PluginType
<1>7. MasterType' /\ BackendType' /\ ClientType'
  BY DEF ScriptEnd, TypeOK, MasterType, BackendType, ClientType,
         masterVars, backendVars, clientVars
<1> QED
  BY <1>5, <1>6, <1>7 DEF TypeOK

\* Every step keeps the types.
LEMMA TypeStep == TypeOK /\ [Next]_vars => TypeOK'
<1> SUFFICES ASSUME TypeOK, [Next]_vars PROVE TypeOK'
  OBVIOUS
<1>1. ASSUME NEW r \in Runs, RunStep(r) PROVE TypeOK'
  BY <1>1, SubmitType, ClientStepType, KillType DEF RunStep, ClientStep
<1>2. ASSUME NEW g \in Guids, Close(g) PROVE TypeOK'
  BY <1>2, CloseType
<1>3. ASSUME NEW b \in Backends,
             \/ MasterStep(b) \/ BackendLost(b) \/ BackendStep(b)
             \/ TakeSnapshot(b) \/ BackendCrash(b)
      PROVE  TypeOK'
  BY <1>3, HandleNudgeType, HandleDomDisconnectType, HandleFinishedType, HandleSnapshotType,
     HandleFilesType, BackendLostType, ForwardType, BackendReceiveType, FilesDoneType,
     TakeSnapshotType, BackendCrashType DEF MasterStep, BackendStep
<1>4. ASSUME NEW d \in Doms, DomStep(d) PROVE TypeOK'
  BY <1>4, DialType, PluginFaultType, PluginReceiveType, LoopEndType, ScriptEndType
     DEF DomStep
<1>5. CASE UNCHANGED vars
  BY <1>5 DEF TypeOK, MasterType, ChanType, BackendType, PluginType, ClientType,
              vars, masterVars, chanVars, backendVars, pluginVars, clientVars
<1> QED
  BY <1>1, <1>2, <1>3, <1>4, <1>5 DEF Next

\* Every variable keeps its type, whatever handler, task or plugin moves.
THEOREM TypeCorrect == Spec => []TypeOK
<1> QED
  BY TypeInit, TypeStep, PTL DEF Spec

-----------------------------------------------------------------------------
(* Every queued run that something in view could take has been dispatched *)

\* A queued run has been minted.
Minted == \A r \in pending : request[r] # None
QueueInv == QueueServed /\ Minted

\* What reconcile leaves queued, nothing in the view it was given can take.
LEMMA ReconcileServes ==
    ASSUME NEW P, NEW A, NEW V, NEW note, NEW extra, Reconcile(P, A, V, note, extra)
    PROVE  /\ pending' \subseteq P
           /\ \A r \in pending' : ~ \E d \in V : Fits(request'[r], d)
<1>1. PICK place \in Placements(request', P, V) :
         pending' = Unrouted(P, place) \ DeadSession(request', Unrouted(P, place), V)
  BY DEF Reconcile, Dispatch
<1>2. DOMAIN place = {r \in P : \E d \in V : Fits(request'[r], d)}
  BY DEF Placements
<1>3. Unrouted(P, place) = P \ {r \in P : \E d \in V : Fits(request'[r], d)}
  BY <1>2 DEF Unrouted
<1> QED
  BY <1>1, <1>3

\* The same for the handlers that complete runs before they reconcile.
LEMMA CompleteRunsServes ==
    ASSUME NEW S, NEW state, NEW ev, NEW bs, NEW P, NEW V,
           CompleteRuns(S, state, ev, bs, P, V)
    PROVE  /\ pending' \subseteq P
           /\ \A r \in pending' : ~ \E d \in V : Fits(request'[r], d)
<1>1. PICK order :
        Reconcile(P, Completed(S, state), V, CompletionNote(S, ev), Notices(bs, order))
  BY DEF CompleteRuns
<1> QED
  BY <1>1, ReconcileServes

\* A step that keeps the requests and neither queues a run nor adds to the view.
LEMMA QueueShrinks ==
    ASSUME QueueInv, request' = request, pending' \subseteq pending,
           View(backends, snap)' \subseteq View(backends, snap)
    PROVE  QueueInv'
  BY DEF QueueInv, QueueServed, Minted

\* Every step leaves served what it leaves queued: a handler that enlarges the
\* view or the queue reconciles, and the others only shrink them.
LEMMA QueueStep == TypeOK /\ QueueInv /\ [Next]_vars => QueueInv'
<1> SUFFICES ASSUME TypeOK, QueueInv, [Next]_vars PROVE QueueInv'
  OBVIOUS
<1> DEFINE V == View(backends, snap)
<1>1. ASSUME NEW r \in Runs, Submit(r) PROVE QueueInv'
  <2>1. V' = V
    BY <1>1 DEF Submit, View
  <2>2. PICK q \in Requests : request' = [request EXCEPT ![r] = q]
    BY <1>1 DEF Submit
  <2>3. r \notin pending /\ request \in [Runs -> Requests \cup {None}] /\ q # None
    BY <1>1, RequestsAssumption DEF Submit, NextId, QueueInv, Minted, TypeOK, MasterType
  <2>4. request'[r] = q /\ \A t \in pending : request'[t] = request[t]
    BY <2>2, <2>3
  <2>5. CASE pending' = pending
    BY <2>1, <2>4, <2>5 DEF QueueInv, QueueServed, Minted
  <2>6. CASE Reconcile(pending \cup {r}, active, V,
                       [Silent EXCEPT ![r] = <<"created">>], NoExtra)
    <3>1. /\ pending' \subseteq pending \cup {r}
          /\ \A t \in pending' : ~ \E d \in V : Fits(request'[t], d)
      BY <2>6, ReconcileServes
    <3>2. QueueServed'
      BY <2>1, <3>1 DEF QueueServed
    <3>3. Minted'
      BY <2>3, <2>4, <3>1 DEF QueueInv, Minted
    <3> QED
      BY <3>2, <3>3 DEF QueueInv
  <2> QED
    BY <1>1, <2>5, <2>6 DEF Submit
<1>2. ASSUME NEW r \in Runs, Reject(r) PROVE QueueInv'
  <2>1. PICK q : request' = [request EXCEPT ![r] = q]
    BY <1>2 DEF Reject
  <2>2. r \notin pending /\ V' = V /\ pending' = pending
    BY <1>2 DEF Reject, NextId, QueueInv, Minted, View
  <2>3. \A t \in pending : request'[t] = request[t]
    BY <2>1, <2>2 DEF TypeOK, MasterType
  <2> QED
    BY <2>2, <2>3 DEF QueueInv, QueueServed, Minted
<1>3. ASSUME NEW r \in Runs, ClientStep(r) \/ ClientDrop(r) \/ ReaderEnd(r) \/ Kill(r)
      PROVE  QueueInv'
  <2>1. request' = request /\ pending' \subseteq pending /\ V' = V
    BY <1>3 DEF ClientStep, ClientReceive, ClientStreamEnd, ClientDrop, ReaderEnd, Kill,
                masterVars, View
  <2> QED
    BY <2>1, QueueShrinks
<1>4. ASSUME NEW b \in Backends, MasterStep(b) \/ BackendLost(b) PROVE QueueInv'
  <2>1. request' = request
    BY <1>4 DEF MasterStep, HandleNudge, HandleDomDisconnect, HandleFinished, HandleSnapshot,
                HandleFiles, BackendLost, HandlerFrame
  <2>2. CASE HandleFiles(b) \/ (BackendLost(b) /\ pending' = pending)
    <3>1. pending' = pending /\ V' \subseteq V
      BY <2>2 DEF HandleFiles, BackendLost, View
    <3> QED
      BY <2>1, <3>1, QueueShrinks
  <2>3. CASE /\ pending' \subseteq pending
             /\ \A r \in pending' : ~ \E d \in V' : Fits(request'[r], d)
    BY <2>1, <2>3 DEF QueueInv, QueueServed, Minted
  <2>4. CASE HandleNudge(b)
    <3>1. Reconcile(pending, active, V, Silent, NoExtra) /\ V' = V
      BY <2>4 DEF HandleNudge, View
    <3> QED
      BY <2>3, <3>1, ReconcileServes
  <2>5. CASE HandleSnapshot(b)
    <3>1. Reconcile(pending, active, View(backends, snap'), Silent, NoExtra)
      BY <2>5 DEF HandleSnapshot
    <3>2. V' = View(backends, snap')
      BY <2>5 DEF HandleSnapshot, View
    <3> QED
      BY <2>3, <3>1, <3>2, ReconcileServes
  <2>6. CASE HandleDomDisconnect(b)
    <3>1. PICK S, waiting :
             CompleteRuns(S, "killed", "disconnect", backends, pending \ waiting, V)
      BY <2>6 DEF HandleDomDisconnect
    <3>2. V' = V
      BY <2>6 DEF HandleDomDisconnect, View
    <3> QED
      BY <2>3, <3>1, <3>2, CompleteRunsServes
  <2>7. CASE HandleFinished(b)
    <3>1. PICK S, state, ev : CompleteRuns(S, state, ev, backends, pending, V)
      BY <2>7 DEF HandleFinished
    <3>2. V' = V
      BY <2>7 DEF HandleFinished, View
    <3> QED
      BY <2>3, <3>1, <3>2, CompleteRunsServes
  <2>8. CASE BackendLost(b) /\ pending' # pending
    <3>1. PICK S : CompleteRuns(S, "killed", "disconnect", backends', pending,
                                View(backends', snap))
      BY <2>8 DEF BackendLost
    <3>2. V' = View(backends', snap)
      BY <2>8 DEF BackendLost, View
    <3> QED
      BY <2>3, <3>1, <3>2, CompleteRunsServes
  <2>9. \/ HandleNudge(b) \/ HandleDomDisconnect(b) \/ HandleFinished(b)
        \/ HandleSnapshot(b) \/ HandleFiles(b) \/ BackendLost(b)
    BY <1>4 DEF MasterStep
  <2> QED
    BY <2>2, <2>4, <2>5, <2>6, <2>7, <2>8, <2>9
<1>5. ASSUME UNCHANGED masterVars PROVE QueueInv'
  BY <1>5 DEF masterVars, QueueInv, QueueServed, Minted, View
<1> QED
  BY <1>1, <1>2, <1>3, <1>4, <1>5, ZenonT(60)
     DEF Next, RunStep, DomStep, BackendStep, Close, TakeSnapshot, BackendCrash, Forward,
         BackendReceive, FilesDone, Dial, Lose, Die, Rewire, PluginReceive, LoopEnd,
         ScriptEnd, vars

\* The master never keeps a run waiting while a DOM in its view could take it:
\* reconcile's postcondition is an invariant, though only some handlers call it.
THEOREM QueueIsServed == Spec => []QueueServed
<1>1. Init => QueueInv
  BY DEF Init, QueueInv, QueueServed, Minted
<1>2. QueueInv => QueueServed
  BY DEF QueueInv
<1> QED
  BY <1>1, <1>2, QueueStep, TypeCorrect, PTL DEF Spec

-----------------------------------------------------------------------------
(* A run is dispatched once, to a DOM that fits, and its script goes there *)

\* A placed run is no longer queued and its DOM fits; an active run is placed.
ChosenOnce ==
    /\ \A r \in Runs : placed[r] # None =>
          request[r] # None /\ r \notin pending /\ Fits(request[r], placed[r])
    /\ \A r \in Runs : active[r] # None => active[r].dom = placed[r]
    /\ Minted

\* The messages that may be on their way: a run goes to the DOM it is placed on.
RightDown == {m \in DownMsg : m.type = "run" => placed[m.run] = m.dom}
RightInbox(d) == {m \in InboxMsg : m.type = "run" => placed[m.run] = d}

WireRight ==
    /\ down \in [Backends -> Seq(RightDown)]
    /\ \A d \in Doms : inbox[d] \in Seq(RightInbox(d))
    /\ \A d \in Doms : \A t \in scripts[d] : placed[t.run] = d

RouteInv == ChosenOnce /\ WireRight

\* A step keeps the choice made for a run.
Kept == \A r \in Runs : placed[r] # None => placed'[r] = placed[r]

\* A sequence over a set is one over any larger set.
LEMMA SeqMonotone ==
    ASSUME NEW S, NEW T, S \subseteq T, NEW s \in Seq(S)
    PROVE  s \in Seq(T)
  BY SeqDef

\* While the choices are kept, a message that is right stays right.
LEMMA KeptWire ==
    ASSUME TypeOK, Kept
    PROVE  /\ RightDown \subseteq (RightDown)'
           /\ \A d \in Doms : RightInbox(d) \subseteq RightInbox(d)'
           /\ \A d \in Doms : \A t \in Script : placed[t.run] = d => placed'[t.run] = d
<1>1. \A d \in Doms, r \in Runs : placed[r] = d => placed'[r] = d
  BY DomsAssumption DEF Kept
<1>2. ASSUME NEW m \in RightDown PROVE m \in (RightDown)'
  <2>1. m.type = "run" => m.run \in Runs /\ m.dom \in Doms
    BY <1>2 DEF RightDown, DownMsg
  <2> QED
    BY <1>1, <1>2, <2>1 DEF RightDown
<1>3. ASSUME NEW d \in Doms, NEW m \in RightInbox(d) PROVE m \in RightInbox(d)'
  <2>1. m.run \in Runs
    BY <1>3 DEF RightInbox, InboxMsg
  <2> QED
    BY <1>1, <1>3, <2>1 DEF RightInbox
<1>4. \A d \in Doms : \A t \in Script : placed[t.run] = d => placed'[t.run] = d
  BY <1>1 DEF Script
<1> QED
  BY <1>2, <1>3, <1>4

\* The board's view of a reconciling handler: every run makes a legal move.
LEMMA ReconcileRoutes ==
    ASSUME TypeOK, ChosenOnce,
           request' \in [Runs -> Requests \cup {None}],
           \A r \in Runs : request[r] # None => request'[r] = request[r],
           NEW P \in SUBSET Runs,
           \A r \in P : request'[r] # None /\ (r \in pending \/ request[r] = None),
           NEW A \in [Runs -> ActiveRun \cup {None}],
           \A r \in Runs : A[r] # None => active[r] # None /\ A[r].dom = active[r].dom,
           NEW V \in SUBSET Doms, NEW note, NEW extra,
           Reconcile(P, A, V, note, extra)
    PROVE  ChosenOnce' /\ Kept /\ \A r \in Runs : Board!Moves(r)
<1>0. PICK place \in Placements(request', P, V) :
         \E batch \in Batches(place) : Dispatch(P, A, V, note, extra, place, batch)
  BY DEF Reconcile
<1>1. /\ DOMAIN place \subseteq P
      /\ \A r \in DOMAIN place : place[r] \in Doms /\ Fits(request'[r], place[r])
  BY DEF Placements
<1>2. /\ pending' \subseteq P \ DOMAIN place
      /\ active' = [r \in Runs |->
                        IF r \in DOMAIN place
                        THEN [dom |-> place[r], state |-> "running"] ELSE A[r]]
      /\ placed' = [r \in Runs |->
                        IF r \in DOMAIN place THEN place[r] ELSE placed[r]]
  BY <1>0 DEF Dispatch, Unrouted
<1>3. \A r \in Runs : active[r] # None => placed[r] # None
  BY DomsAssumption DEF ChosenOnce, TypeOK, MasterType, ActiveRun
<1>4. \A r \in Runs : placed[r] # None => request[r] # None /\ r \notin pending
  BY DEF ChosenOnce
<1>5. \A r \in P : placed[r] = None /\ active[r] = None
  BY <1>3, <1>4
<1>6. Kept
  BY <1>1, <1>2, <1>5 DEF Kept
<1>7. ChosenOnce'
  <2> SUFFICES ASSUME NEW r \in Runs
               PROVE  /\ placed'[r] # None =>
                           /\ request'[r] # None /\ r \notin pending'
                           /\ Fits(request'[r], placed'[r])
                      /\ active'[r] # None => active'[r].dom = placed'[r]
                      /\ r \in pending' => request'[r] # None
    BY <1>2 DEF ChosenOnce, Minted
  <2>1. CASE r \in DOMAIN place
    BY <1>1, <1>2, <2>1
  <2>2. CASE r \notin DOMAIN place
    <3>1. placed'[r] = placed[r] /\ active'[r] = A[r]
      BY <1>2, <2>2
    <3> QED
      BY <1>2, <1>4, <1>5, <3>1 DEF ChosenOnce
  <2> QED
    BY <2>1, <2>2
<1>8. ASSUME NEW r \in Runs PROVE Board!Moves(r)
  <2>1. CASE r \in DOMAIN place
    <3>1. /\ placed'[r] = place[r] /\ r \notin pending' /\ active'[r] # None
          /\ request'[r] # None
      BY <1>1, <1>2, <2>1, NoneAssumption DEF ActiveRun
    <3>2. /\ Phase(r) \in {"unborn", "queued"} /\ Phase(r)' = "running"
          /\ Phase(r) # "unborn" => request'[r] = request[r]
      BY <1>1, <2>1, <3>1 DEF Phase
    <3>3. placed'[r] \in Doms /\ Fits(request'[r], placed'[r])
      BY <1>1, <2>1, <3>1
    <3> QED
      BY <3>2, <3>3 DEF Board!Moves, Board!Legal
  <2>2. CASE r \notin DOMAIN place
    <3>1. placed'[r] = placed[r] /\ active'[r] = A[r]
      BY <1>2, <2>2
    <3>2. CASE request[r] = None
      <4>1. Phase(r) = "unborn" /\ active'[r] = None
        BY <1>3, <1>4, <3>1, <3>2 DEF Phase
      <4>2. Phase(r)' # "running"
        BY <4>1 DEF Phase
      <4> QED
        BY <3>1, <4>1, <4>2 DEF Board!Moves, Board!Legal
    <3>3. CASE request[r] # None /\ r \in pending
      <4>1. Phase(r) = "queued" /\ active'[r] = None /\ request'[r] = request[r]
        BY <1>3, <1>4, <3>1, <3>3 DEF Phase
      <4>2. Phase(r)' \in {"queued", "ended"}
        BY <3>3, <4>1 DEF Phase
      <4> QED
        BY <3>1, <4>1, <4>2 DEF Board!Moves, Board!Legal
    <3>4. CASE request[r] # None /\ r \notin pending
      <4>1. request'[r] = request[r] /\ r \notin pending'
        BY <1>2, <3>4
      <4>2. \/ Phase(r) = "running" /\ Phase(r)' \in {"running", "ended"}
            \/ Phase(r) = "ended" /\ Phase(r)' = "ended"
        BY <3>1, <3>4, <4>1 DEF Phase
      <4> QED
        BY <3>1, <4>1, <4>2 DEF Board!Moves, Board!Legal
    <3> QED
      BY <3>2, <3>3, <3>4
  <2> QED
    BY <2>1, <2>2
<1> QED
  BY <1>6, <1>7, <1>8

\* The same for the handlers that complete runs before they reconcile.
LEMMA CompleteRunsRoutes ==
    ASSUME TypeOK, ChosenOnce, request' = request,
           NEW S \in SUBSET Runs, NEW state \in {"done", "error", "killed"},
           NEW ev, NEW bs, NEW P \in SUBSET pending, NEW V \in SUBSET Doms,
           CompleteRuns(S, state, ev, bs, P, V)
    PROVE  ChosenOnce' /\ Kept /\ \A r \in Runs : Board!Moves(r)
<1> DEFINE A == Completed(S, state)
<1>1. PICK order : Reconcile(P, A, V, CompletionNote(S, ev), Notices(bs, order))
  BY DEF CompleteRuns
<1>2. /\ A \in [Runs -> ActiveRun \cup {None}]
      /\ \A r \in Runs : A[r] # None => active[r] # None /\ A[r].dom = active[r].dom
  <2> SUFFICES ASSUME NEW r \in Runs
               PROVE  /\ A[r] \in ActiveRun \cup {None}
                      /\ A[r] # None => active[r] # None /\ A[r].dom = active[r].dom
    BY DEF Completed
  <2>1. active[r] \in ActiveRun \cup {None}
    BY DEF TypeOK, MasterType
  <2>2. \/ A[r] = active[r] \/ A[r] = None
        \/ r \in Profiled(S) /\ A[r] = [active[r] EXCEPT !.state = state]
    BY DEF Completed
  <2>3. r \in Profiled(S) => active[r] # None
    BY DEF Profiled, Finished
  <2> HIDE DEF A
  <2> QED
    BY <2>1, <2>2, <2>3 DEF ActiveRun
<1>3. /\ request' \in [Runs -> Requests \cup {None}]
      /\ P \in SUBSET Runs /\ \A r \in P : request'[r] # None /\ r \in pending
  BY DEF TypeOK, MasterType, ChosenOnce, Minted
<1> HIDE DEF A
<1> QED
  BY <1>1, <1>2, <1>3, ReconcileRoutes

\* What is left alone keeps every choice.
LEMMA ChoiceStutter ==
    ASSUME ChosenOnce, UNCHANGED masterVars
    PROVE  ChosenOnce' /\ Kept /\ \A r \in Runs : Board!Moves(r)
<1>1. ChosenOnce' /\ Kept
  BY DEF masterVars, ChosenOnce, Minted, Kept
<1>2. \A r \in Runs : Phase(r)' = Phase(r)
  BY DEF masterVars, Phase
<1> QED
  BY <1>1, <1>2 DEF masterVars, Board!Moves, Board!Legal

\* A submission is born, and then queued, placed or killed with its session.
LEMMA SubmitRoutes ==
    ASSUME TypeOK, ChosenOnce, NEW r \in Runs, Submit(r)
    PROVE  ChosenOnce' /\ Kept /\ \A t \in Runs : Board!Moves(t)
<1> DEFINE V == View(backends, snap)
<1>1. PICK q \in Requests : request' = [request EXCEPT ![r] = q]
  BY DEF Submit
<1>2. request[r] = None /\ q # None /\ request \in [Runs -> Requests \cup {None}]
  BY RequestsAssumption DEF Submit, NextId, TypeOK, MasterType
<1>3. /\ r \notin pending /\ placed[r] = None /\ active[r] = None
  BY <1>2, DomsAssumption DEF ChosenOnce, Minted, TypeOK, MasterType, ActiveRun
<1>4. CASE \E d \in V : Fits(request'[r], d) /\
             /\ active' = [active EXCEPT ![r] = [dom |-> d, state |-> "running"]]
             /\ placed' = [placed EXCEPT ![r] = d]
             /\ pending' = pending
  <2>1. PICK d \in V : /\ Fits(request'[r], d)
                       /\ active' = [active EXCEPT ![r] = [dom |-> d, state |-> "running"]]
                       /\ placed' = [placed EXCEPT ![r] = d]
                       /\ pending' = pending
    BY <1>4
  <2>2. d \in Doms /\ d # None /\ [dom |-> d, state |-> "running"] # None
    BY ViewType, DomsAssumption, NoneAssumption DEF TypeOK, ActiveRun
  <2>3. /\ request'[r] = q /\ placed'[r] = d
        /\ active'[r] = [dom |-> d, state |-> "running"]
        /\ \A t \in Runs \ {r} : /\ request'[t] = request[t] /\ placed'[t] = placed[t]
                                 /\ active'[t] = active[t]
    BY <1>1, <1>2, <2>1 DEF TypeOK, MasterType
  <2>4. ChosenOnce'
    <3> SUFFICES ASSUME NEW t \in Runs
                 PROVE  /\ placed'[t] # None =>
                             /\ request'[t] # None /\ t \notin pending'
                             /\ Fits(request'[t], placed'[t])
                        /\ active'[t] # None => active'[t].dom = placed'[t]
                        /\ t \in pending' => request'[t] # None
      BY <2>1 DEF ChosenOnce, Minted, TypeOK, MasterType
    <3>1. CASE t = r
      BY <1>2, <1>3, <2>1, <2>3, <3>1
    <3>2. CASE t # r
      BY <2>1, <2>3, <3>2 DEF ChosenOnce, Minted
    <3> QED
      BY <3>1, <3>2
  <2>5. Kept
    BY <1>3, <2>3 DEF Kept
  <2>6. ASSUME NEW t \in Runs PROVE Board!Moves(t)
    <3>1. CASE t = r
      <4>1. Phase(r) = "unborn"
        BY <1>2 DEF Phase
      <4>2. Phase(r)' = "running"
        BY <1>2, <1>3, <2>1, <2>2, <2>3 DEF Phase
      <4> QED
        BY <2>1, <2>2, <2>3, <3>1, <4>1, <4>2 DEF Board!Moves, Board!Legal
    <3>2. CASE t # r
      <4>1. Phase(t)' = Phase(t) /\ request'[t] = request[t] /\ placed'[t] = placed[t]
        BY <2>1, <2>3, <3>2 DEF Phase
      <4> QED
        BY <4>1 DEF Board!Moves, Board!Legal
    <3> QED
      BY <3>1, <3>2
  <2> QED
    BY <2>4, <2>5, <2>6
<1>5. CASE Reconcile(pending \cup {r}, active, V,
                     [Silent EXCEPT ![r] = <<"created">>], NoExtra)
  <2>1. /\ request' \in [Runs -> Requests \cup {None}]
        /\ \A t \in Runs : request[t] # None => request'[t] = request[t]
        /\ \A t \in pending \cup {r} :
              request'[t] # None /\ (t \in pending \/ request[t] = None)
    BY <1>1, <1>2 DEF ChosenOnce, Minted, TypeOK, MasterType
  <2>2. /\ pending \cup {r} \in SUBSET Runs /\ V \in SUBSET Doms
        /\ active \in [Runs -> ActiveRun \cup {None}]
    BY ViewType DEF TypeOK, MasterType
  <2> HIDE DEF V
  <2> QED
    BY <1>5, <2>1, <2>2, ReconcileRoutes
<1> QED
  BY <1>4, <1>5 DEF Submit

\* A step that only takes runs out of the queue or off the active list.
LEMMA OnlyEnds ==
    ASSUME TypeOK, ChosenOnce, request' = request, placed' = placed,
           pending' \subseteq pending,
           \A r \in Runs : active'[r] \in {active[r], None}
    PROVE  ChosenOnce' /\ Kept /\ \A r \in Runs : Board!Moves(r)
<1>1. ChosenOnce' /\ Kept
  BY DEF ChosenOnce, Minted, Kept
<1>2. ASSUME NEW r \in Runs PROVE Board!Moves(r)
  <2>1. r \in pending => active[r] = None
    BY DomsAssumption DEF ChosenOnce, TypeOK, MasterType, ActiveRun
  <2>2. Phase(r)' = Phase(r) \/ (Phase(r) \in {"queued", "running"} /\ Phase(r)' = "ended")
    BY <2>1 DEF Phase
  <2> QED
    BY <2>2 DEF Board!Moves, Board!Legal
<1> QED
  BY <1>1, <1>2

\* Every step is legal on the board: the choice of a DOM is made once.
LEMMA ChoiceStep ==
    ASSUME TypeOK, ChosenOnce, [Next]_vars
    PROVE  ChosenOnce' /\ Kept /\ \A r \in Runs : Board!Moves(r)
<1> DEFINE Goal == ChosenOnce' /\ Kept /\ \A r \in Runs : Board!Moves(r)
<1> HIDE DEF Goal
<1>1. ASSUME NEW r \in Runs, Submit(r) PROVE Goal
  BY <1>1, SubmitRoutes DEF Goal
<1>2. ASSUME NEW r \in Runs, Reject(r) PROVE Goal
  <2>1. PICK q \in Requests : request' = [request EXCEPT ![r] = q]
    BY <1>2 DEF Reject
  <2>2. /\ UNCHANGED <<pending, active, placed>> /\ request[r] = None
        /\ request'[r] = q /\ q # None /\ \A t \in Runs \ {r} : request'[t] = request[t]
    BY <1>2, <2>1, RequestsAssumption DEF Reject, NextId, TypeOK, MasterType
  <2>3. r \notin pending /\ placed[r] = None /\ active[r] = None
    BY <2>2, DomsAssumption DEF ChosenOnce, Minted, TypeOK, MasterType, ActiveRun
  <2>4. ChosenOnce' /\ Kept
    <3>1. \A t \in pending : t \in Runs /\ request'[t] = request[t]
      BY <2>2, <2>3 DEF TypeOK, MasterType
    <3>2. Minted'
      BY <2>2, <3>1 DEF ChosenOnce, Minted
    <3> QED
      BY <2>2, <2>3, <3>2 DEF ChosenOnce, Kept
  <2>5. ASSUME NEW t \in Runs PROVE Board!Moves(t)
    <3>1. CASE t = r
      <4>1. Phase(r) = "unborn" /\ Phase(r)' = "ended"
        BY <2>2, <2>3 DEF Phase
      <4> QED
        BY <2>2, <3>1, <4>1 DEF Board!Moves, Board!Legal
    <3>2. CASE t # r
      <4>1. Phase(t)' = Phase(t)
        BY <2>2, <3>2 DEF Phase
      <4> QED
        BY <2>2, <3>2, <4>1 DEF Board!Moves, Board!Legal
    <3> QED
      BY <3>1, <3>2
  <2> QED
    BY <2>4, <2>5 DEF Goal
<1>3. ASSUME NEW r \in Runs, ReaderEnd(r) PROVE Goal
  <2>1. UNCHANGED <<request, placed, active>> /\ pending' \subseteq pending
    BY <1>3 DEF ReaderEnd
  <2> QED
    BY <2>1, OnlyEnds DEF Goal
<1>4. ASSUME NEW b \in Backends, MasterStep(b) \/ BackendLost(b) PROVE Goal
  <2> DEFINE V == View(backends, snap)
  <2>1. request' = request
    BY <1>4 DEF MasterStep, HandleNudge, HandleDomDisconnect, HandleFinished, HandleSnapshot,
                HandleFiles, BackendLost, HandlerFrame
  <2>2. /\ request \in [Runs -> Requests \cup {None}]
        /\ pending \in SUBSET Runs /\ \A r \in pending : request[r] # None
        /\ active \in [Runs -> ActiveRun \cup {None}] /\ V \in SUBSET Doms
    BY ViewType DEF ChosenOnce, Minted, TypeOK, MasterType
  <2>3. CASE HandleNudge(b)
    <3>1. Reconcile(pending, active, V, Silent, NoExtra)
      BY <2>3 DEF HandleNudge
    <3> HIDE DEF V
    <3> QED
      BY <2>1, <2>2, <3>1, ReconcileRoutes DEF Goal
  <2>4. CASE HandleSnapshot(b)
    <3>1. Reconcile(pending, active, View(backends, snap'), Silent, NoExtra)
      BY <2>4 DEF HandleSnapshot
    <3>2. Head(out[b]).doms \in SUBSET Doms
      BY <2>4, ConsumeType DEF HandleSnapshot, Arrived, UpMsg
    <3>3. snap' \in [Backends -> SUBSET Doms]
      BY <2>4, <3>2 DEF HandleSnapshot, TypeOK, MasterType
    <3>4. View(backends, snap') \in SUBSET Doms
      BY <3>3 DEF View, TypeOK, MasterType
    <3> QED
      BY <2>1, <2>2, <3>1, <3>4, ReconcileRoutes DEF Goal
  <2>5. CASE HandleDomDisconnect(b)
    <3> DEFINE d == Head(out[b]).dom
               swept == {r \in Runs : active[r] # None /\ active[r].dom = d}
               drained == IF swept = {} THEN {} ELSE DeadSession(request, pending, V)
               waiting == {r \in pending \ drained : request[r].dom = d}
    <3>1. CompleteRuns(swept, "killed", "disconnect", backends, pending \ waiting, V)
      BY <2>5 DEF HandleDomDisconnect
    <3>2. swept \in SUBSET Runs /\ pending \ waiting \in SUBSET pending
      OBVIOUS
    <3> HIDE DEF swept, waiting, V
    <3> QED
      BY <2>1, <2>2, <3>1, <3>2, CompleteRunsRoutes DEF Goal
  <2>6. CASE HandleFinished(b)
    <3> DEFINE m == Head(out[b])
    <3>1. /\ m.type \in {"done", "failed", "killed"}
          /\ CompleteRuns({m.run}, FinalState(m.type), m.type, backends, pending, V)
      BY <2>6 DEF HandleFinished
    <3>2. m.run \in Runs /\ FinalState(m.type) \in {"done", "error", "killed"}
      BY <2>6, <3>1, ConsumeType DEF HandleFinished, UpMsg, FinalState
    <3> HIDE DEF m, V
    <3> QED
      BY <2>1, <2>2, <3>1, <3>2, CompleteRunsRoutes DEF Goal
  <2>7. CASE HandleFiles(b)
    <3>1. /\ UNCHANGED <<request, placed, pending>>
          /\ \A r \in Runs : active'[r] \in {active[r], None}
      BY <2>2, <2>7 DEF HandleFiles
    <3> QED
      BY <3>1, OnlyEnds DEF Goal
  <2>8. CASE BackendLost(b)
    <3> DEFINE W == View(backends', snap)
               orphaned == {r \in Runs : active[r] # None /\ active[r].dom \notin W}
    <3>1. \/ UNCHANGED <<pending, active, placed>>
          \/ CompleteRuns(orphaned, "killed", "disconnect", backends', pending, W)
      BY <2>8 DEF BackendLost
    <3>2. W \in SUBSET Doms /\ orphaned \in SUBSET Runs
      BY <2>8 DEF BackendLost, View, TypeOK, MasterType
    <3> HIDE DEF W, orphaned
    <3>3. CASE UNCHANGED <<pending, active, placed>>
      BY <2>1, <3>3, OnlyEnds DEF Goal
    <3>4. CASE CompleteRuns(orphaned, "killed", "disconnect", backends', pending, W)
      BY <2>1, <3>2, <3>4, CompleteRunsRoutes DEF Goal
    <3> QED
      BY <3>1, <3>3, <3>4
  <2> QED
    BY <1>4, <2>3, <2>4, <2>5, <2>6, <2>7, <2>8 DEF MasterStep
<1>5. ASSUME UNCHANGED masterVars PROVE Goal
  BY <1>5, ChoiceStutter DEF Goal
<1>6. Goal
  BY <1>1, <1>2, <1>3, <1>4, <1>5, ZenonT(60)
     DEF Next, RunStep, ClientStep, ClientReceive, ClientStreamEnd, ClientDrop, Kill,
         DomStep, BackendStep, Close, TakeSnapshot, BackendCrash, Forward,
         BackendReceive, FilesDone, Dial, Lose, Die, Rewire, PluginReceive, LoopEnd,
         ScriptEnd, vars
<1> QED
  BY <1>6 DEF Goal

\* The master keeps its promise: every behaviour of the distributed system is
\* one of the board, where a run is born once, dispatched at most once, to a DOM
\* that fits, and never comes back from its end.
THEOREM ImplementsBoard == Spec => BoardSpec
<1>1. Init => TypeOK /\ ChosenOnce /\ Board!Init
  <2> SUFFICES ASSUME Init PROVE TypeOK /\ ChosenOnce /\ Board!Init
    OBVIOUS
  <2>1. TypeOK
    BY TypeInit
  <2>2. ChosenOnce
    BY DEF Init, ChosenOnce, Minted
  <2>3. \A r \in Runs : Phase(r) = "unborn"
    BY DEF Init, Phase
  <2>4. Board!Init
    BY <2>3 DEF Init, Board!Init
  <2> QED
    BY <2>1, <2>2, <2>4
<1>2. TypeOK /\ ChosenOnce /\ [Next]_vars => TypeOK' /\ ChosenOnce' /\ [Board!Next]_(Board!vars)
  <2> SUFFICES ASSUME TypeOK, ChosenOnce, [Next]_vars
               PROVE  TypeOK' /\ ChosenOnce' /\ Board!Next
    OBVIOUS
  <2>1. TypeOK' /\ ChosenOnce' /\ \A r \in Runs : Board!Moves(r)
    BY TypeStep, ChoiceStep
  <2>2. [r \in Runs |-> Phase(r)]' \in [Runs -> Board!Phases]
    BY DEF Phase, Board!Phases
  <2> QED
    BY <2>1, <2>2 DEF Board!Next, TypeOK, MasterType
<1> QED
  BY <1>1, <1>2, PTL DEF Spec, BoardSpec, Board!Spec

-----------------------------------------------------------------------------
(* Where a script is *)

\* Messages to a backend that start no script.
PlainDown == {m \in DownMsg : m.type # "run"}

\* What a reconciling handler adds to the lanes goes where it says.
LEMMA ReconcileWire ==
    ASSUME TypeOK, Kept, down \in [Backends -> Seq(RightDown)],
           NEW P \in SUBSET Runs, NEW A, NEW V \in SUBSET Doms, NEW note,
           NEW extra \in [Backends -> Seq(PlainDown)],
           Reconcile(P, A, V, note, extra)
    PROVE  down' \in [Backends -> Seq(RightDown)']
<1>0. PICK place \in Placements(request', P, V) :
         \E batch \in Batches(place) : Dispatch(P, A, V, note, extra, place, batch)
  BY DEF Reconcile
<1>1. PICK batch \in Batches(place) : Dispatch(P, A, V, note, extra, place, batch)
  BY <1>0
<1> DEFINE share(b) == {r \in DOMAIN place : Home[place[r]] = b}
           sent(b) == [i \in 1..Len(batch[b]) |->
                          [type |-> "run", run |-> batch[b][i], dom |-> place[batch[b][i]]]]
<1>2. /\ DOMAIN place \subseteq Runs
      /\ \A r \in DOMAIN place : place[r] \in Doms
  BY DEF Placements
<1>3. /\ down' = [b \in Backends |-> down[b] \o extra[b] \o sent(b)]
      /\ placed' = [r \in Runs |-> IF r \in DOMAIN place THEN place[r] ELSE placed[r]]
  BY <1>1 DEF Dispatch
<1> SUFFICES ASSUME NEW b \in Backends
             PROVE  down[b] \o extra[b] \o sent(b) \in Seq((RightDown)')
  BY <1>3
<1>4. down[b] \in Seq((RightDown)')
  BY KeptWire, SeqMonotone
<1>5. extra[b] \in Seq((RightDown)')
  <2>1. PlainDown \subseteq (RightDown)'
    BY DEF PlainDown, RightDown, DownMsg
  <2> QED
    BY <2>1, SeqMonotone
<1>6. sent(b) \in Seq((RightDown)')
  <2>1. share(b) \in SUBSET Runs /\ batch[b] \in SetToSeqs(share(b))
    BY <1>2 DEF NewestFirst, Batches
  <2>2. batch[b] \in Seq(share(b))
    BY <2>1, OrderingType
  <2>3. Len(batch[b]) \in Nat /\ \A i \in 1..Len(batch[b]) : batch[b][i] \in share(b)
    BY <2>2, LenProperties, ElementOfSeq
  <2>4. \A r \in share(b) : [type |-> "run", run |-> r, dom |-> place[r]] \in (RightDown)'
    <3> SUFFICES ASSUME NEW r \in share(b)
                 PROVE  [type |-> "run", run |-> r, dom |-> place[r]] \in (RightDown)'
      OBVIOUS
    <3>1. r \in Runs /\ placed'[r] = place[r] /\ place[r] \in Doms
      BY <1>2, <1>3
    <3>2. [type |-> "run", run |-> r, dom |-> place[r]] \in DownMsg
      BY <3>1 DEF DownMsg
    <3> QED
      BY <3>1, <3>2 DEF RightDown
  <2> QED
    BY <2>3, <2>4, SeqDef
<1>7. down[b] \o extra[b] \in Seq((RightDown)')
  BY <1>4, <1>5, ConcatProperties
<1> QED
  BY <1>6, <1>7, ConcatProperties

\* The same for the handlers that complete runs before they reconcile.
LEMMA CompleteRunsWire ==
    ASSUME TypeOK, Kept, down \in [Backends -> Seq(RightDown)],
           NEW S \in SUBSET Runs, NEW state, NEW ev, NEW bs,
           NEW P \in SUBSET Runs, NEW V \in SUBSET Doms,
           CompleteRuns(S, state, ev, bs, P, V)
    PROVE  down' \in [Backends -> Seq(RightDown)']
<1>1. PICK order \in SetToSeqs(Profiled(S)) :
        Reconcile(P, Completed(S, state), V, CompletionNote(S, ev), Notices(bs, order))
  BY DEF CompleteRuns
<1>2. order \in Seq(Profiled(S)) /\ Profiled(S) \subseteq Runs
  BY OrderingType DEF Profiled, Finished
<1>3. Len(order) \in Nat /\ \A i \in 1..Len(order) : order[i] \in Runs
  BY <1>2, LenProperties, ElementOfSeq
<1>4. \A i \in 1..Len(order) : [type |-> "completed", run |-> order[i]] \in PlainDown
  BY <1>3 DEF PlainDown, DownMsg
<1>5. /\ [i \in 1..Len(order) |-> [type |-> "completed", run |-> order[i]]] \in Seq(PlainDown)
      /\ <<>> \in Seq(PlainDown)
  BY <1>3, <1>4, SeqDef
<1>6. Notices(bs, order) \in [Backends -> Seq(PlainDown)]
  BY <1>5 DEF Notices
<1> HIDE DEF Reconcile
<1> QED
  BY <1>1, <1>6, ReconcileWire

\* Commands the master gives a backend outside reconciling.
LEMMA SendWire ==
    ASSUME TypeOK, Kept, down \in [Backends -> Seq(RightDown)],
           NEW d \in Doms, NEW type \in {"run", "kill"}, NEW r \in Runs,
           type = "run" => placed'[r] = d, SendToDom(d, type, r)
    PROVE  down' \in [Backends -> Seq(RightDown)']
<1>1. \A b \in Backends : down[b] \in Seq((RightDown)')
  BY KeptWire, SeqMonotone
<1>2. down \in [Backends -> Seq((RightDown)')] /\ Home[d] \in Backends
  BY <1>1, DomsAssumption
<1>3. [type |-> type, run |-> r, dom |-> d] \in (RightDown)'
  BY DEF RightDown, DownMsg
<1>4. [down EXCEPT ![Home[d]] = Append(@, [type |-> type, run |-> r, dom |-> d])]
         \in [Backends -> Seq((RightDown)')]
  BY <1>2, <1>3, AppendQueue
<1> QED
  BY <1>2, <1>4 DEF SendToDom

\* What is not added to stays right.
LEMMA WireStutter ==
    ASSUME TypeOK, Kept, WireRight
    PROVE  /\ down' = down => down' \in [Backends -> Seq(RightDown)']
           /\ UNCHANGED inbox => \A d \in Doms : inbox'[d] \in Seq(RightInbox(d)')
           /\ UNCHANGED scripts => \A d \in Doms : \A t \in scripts'[d] : placed'[t.run] = d
<1>1. \A b \in Backends : down[b] \in Seq((RightDown)')
  BY KeptWire, SeqMonotone DEF WireRight
<1>2. \A d \in Doms : inbox[d] \in Seq(RightInbox(d)')
  BY KeptWire, SeqMonotone DEF WireRight
<1>3. \A d \in Doms : \A t \in scripts[d] : placed'[t.run] = d
  BY KeptWire DEF WireRight, TypeOK, PluginType
<1> QED
  BY <1>1, <1>2, <1>3 DEF WireRight

\* What the master sends: no handler of its own touches an inbox or a script.
LEMMA MasterWire ==
    ASSUME TypeOK, ChosenOnce, Kept, WireRight, NEW b \in Backends,
           MasterStep(b) \/ BackendLost(b)
    PROVE  down' \in [Backends -> Seq(RightDown)']
<1> DEFINE V == View(backends, snap)
           Goal == down' \in [Backends -> Seq(RightDown)']
<1>1. /\ down \in [Backends -> Seq(RightDown)] /\ V \in SUBSET Doms /\ pending \in SUBSET Runs
      /\ NoExtra \in [Backends -> Seq(PlainDown)]
  BY ViewType DEF WireRight, TypeOK, MasterType, NoExtra
<1>2. down' = down => Goal
  BY WireStutter
<1> HIDE DEF Goal
<1>3. CASE HandleNudge(b)
  <2>1. Reconcile(pending, active, V, Silent, NoExtra)
    BY <1>3 DEF HandleNudge
  <2> HIDE DEF V
  <2> QED
    BY <1>1, <2>1, ReconcileWire DEF Goal
<1>4. CASE HandleSnapshot(b)
  <2>1. Reconcile(pending, active, View(backends, snap'), Silent, NoExtra)
    BY <1>4 DEF HandleSnapshot
  <2>2. Head(out[b]).doms \in SUBSET Doms
    BY <1>4, ConsumeType DEF HandleSnapshot, Arrived, UpMsg
  <2>3. snap' \in [Backends -> SUBSET Doms]
    BY <1>4, <2>2 DEF HandleSnapshot, TypeOK, MasterType
  <2>4. View(backends, snap') \in SUBSET Doms
    BY <2>3 DEF View, TypeOK, MasterType
  <2> QED
    BY <1>1, <2>1, <2>4, ReconcileWire DEF Goal
<1>5. CASE HandleDomDisconnect(b)
  <2> DEFINE d == Head(out[b]).dom
             swept == {r \in Runs : active[r] # None /\ active[r].dom = d}
             drained == IF swept = {} THEN {} ELSE DeadSession(request, pending, V)
             waiting == {r \in pending \ drained : request[r].dom = d}
  <2>1. CompleteRuns(swept, "killed", "disconnect", backends, pending \ waiting, V)
    BY <1>5 DEF HandleDomDisconnect
  <2>2. swept \in SUBSET Runs /\ pending \ waiting \in SUBSET Runs
    BY <1>1
  <2> HIDE DEF swept, waiting, V
  <2> QED
    BY <1>1, <2>1, <2>2, CompleteRunsWire DEF Goal
<1>6. CASE HandleFinished(b)
  <2> DEFINE m == Head(out[b])
  <2>1. /\ m.type \in {"done", "failed", "killed"}
        /\ CompleteRuns({m.run}, FinalState(m.type), m.type, backends, pending, V)
    BY <1>6 DEF HandleFinished
  <2>2. m.run \in Runs
    BY <1>6, <2>1, ConsumeType DEF HandleFinished, UpMsg
  <2> HIDE DEF m, V
  <2> QED
    BY <1>1, <2>1, <2>2, CompleteRunsWire DEF Goal
<1>7. CASE HandleFiles(b)
  BY <1>2, <1>7 DEF HandleFiles, Goal
<1>8. CASE BackendLost(b)
  <2> DEFINE W == View(backends', snap)
             orphaned == {r \in Runs : active[r] # None /\ active[r].dom \notin W}
  <2>1. \/ down' = down
        \/ CompleteRuns(orphaned, "killed", "disconnect", backends', pending, W)
    BY <1>8 DEF BackendLost
  <2>2. W \in SUBSET Doms /\ orphaned \in SUBSET Runs
    BY <1>8 DEF BackendLost, View, TypeOK, MasterType
  <2> HIDE DEF W, orphaned
  <2> QED
    BY <1>1, <1>2, <2>1, <2>2, CompleteRunsWire DEF Goal
<1> QED
  BY <1>3, <1>4, <1>5, <1>6, <1>7, <1>8 DEF MasterStep, Goal

\* A submission sent at once goes to the DOM it was placed on.
LEMMA SubmitWire ==
    ASSUME TypeOK, ChosenOnce, Kept, WireRight, NEW r \in Runs, Submit(r)
    PROVE  down' \in [Backends -> Seq(RightDown)']
<1> DEFINE V == View(backends, snap)
<1>1. /\ down \in [Backends -> Seq(RightDown)] /\ V \in SUBSET Doms
      /\ pending \cup {r} \in SUBSET Runs
      /\ NoExtra \in [Backends -> Seq(PlainDown)]
  BY ViewType DEF WireRight, TypeOK, MasterType, NoExtra
<1>2. \/ \E d \in V : placed' = [placed EXCEPT ![r] = d] /\ SendToDom(d, "run", r)
      \/ Reconcile(pending \cup {r}, active, V,
                   [Silent EXCEPT ![r] = <<"created">>], NoExtra)
  BY DEF Submit
<1>3. ASSUME NEW d \in V, placed' = [placed EXCEPT ![r] = d], SendToDom(d, "run", r)
      PROVE  down' \in [Backends -> Seq(RightDown)']
  <2>1. placed'[r] = d /\ d \in Doms
    BY <1>1, <1>3 DEF TypeOK, MasterType
  <2> QED
    BY <1>1, <1>3, <2>1, SendWire
<1> HIDE DEF V
<1> QED
  BY <1>1, <1>2, <1>3, ReconcileWire

\* What a backend and a plugin move on: a run lands where it is placed.
LEMMA BackendReceiveWire ==
    ASSUME TypeOK, Kept, WireRight, UNCHANGED placed, NEW b \in Backends, BackendReceive(b)
    PROVE  /\ down' \in [Backends -> Seq(RightDown)']
           /\ \A d \in Doms : inbox'[d] \in Seq(RightInbox(d)')
<1> DEFINE m == Head(down[b])
           item == [type |-> m.type, run |-> m.run]
<1>1. (RightDown)' = RightDown /\ \A d \in Doms : RightInbox(d)' = RightInbox(d)
  BY DEF RightDown, RightInbox
<1>2. down \in [Backends -> Seq(RightDown)] /\ down[b] # <<>>
  BY DEF WireRight, BackendReceive
<1>3. m \in RightDown /\ down' \in [Backends -> Seq(RightDown)]
  BY <1>2, TailQueue DEF BackendReceive
<1>4. ASSUME NEW d \in Doms PROVE inbox'[d] \in Seq(RightInbox(d))
  <2>1. inbox[d] \in Seq(RightInbox(d)) /\ inbox \in [Doms -> Seq(InboxMsg)]
    BY DEF WireRight, TypeOK, ChanType
  <2>2. \/ inbox' = inbox
        \/ /\ m.type \in {"run", "kill"}
           /\ inbox' = [inbox EXCEPT ![m.dom] = Append(@, item)]
    BY DEF BackendReceive
  <2>3. CASE m.type \in {"run", "kill"} /\ m.dom = d
    <3>1. m.run \in Runs /\ item \in RightInbox(d)
      BY <1>3, <2>3 DEF RightDown, DownMsg, RightInbox, InboxMsg
    <3>2. Append(inbox[d], item) \in Seq(RightInbox(d))
      BY <2>1, <3>1, AppendProperties
    <3> HIDE DEF m, item
    <3> QED
      BY <2>1, <2>2, <3>2
  <2>4. CASE ~ (m.type \in {"run", "kill"} /\ m.dom = d)
    <3> HIDE DEF m, item
    <3>1. inbox'[d] = inbox[d]
      BY <2>1, <2>2, <2>4
    <3> QED
      BY <2>1, <3>1
  <2> QED
    BY <2>3, <2>4
<1> QED
  BY <1>1, <1>3, <1>4

\* What the plugin starts is what was sent to its DOM.
LEMMA PluginReceiveWire ==
    ASSUME TypeOK, Kept, WireRight, UNCHANGED placed, NEW e \in Doms, PluginReceive(e)
    PROVE  /\ \A d \in Doms : inbox'[d] \in Seq(RightInbox(d)')
           /\ \A d \in Doms : \A t \in scripts'[d] : placed'[t.run] = d
<1> DEFINE m == Head(inbox[e])
<1>1. inbox[e] \in Seq(RightInbox(e)) /\ inbox[e] # <<>>
  BY DEF WireRight, PluginReceive
<1>2. m \in RightInbox(e) /\ Tail(inbox[e]) \in Seq(RightInbox(e))
  BY <1>1, HeadTailProperties
<1>3. \A d \in Doms : inbox'[d] \in Seq(RightInbox(d))
  BY <1>2 DEF PluginReceive, WireRight, TypeOK, ChanType
<1>4. \A d \in Doms : RightInbox(d)' = RightInbox(d)
  BY DEF RightInbox
<1>5. \/ /\ m.type = "run"
         /\ scripts' = [scripts EXCEPT ![e] = @ \cup {[run |-> m.run, conn |-> sock[e]]}]
      \/ scripts' = [scripts EXCEPT ![e] = Survivors(e, m.run)]
  BY DEF PluginReceive
<1>6. m.type = "run" => placed[m.run] = e
  BY <1>2 DEF RightInbox
<1>7. Survivors(e, m.run) \subseteq scripts[e]
  BY DEF Survivors
<1> HIDE DEF m
<1>8. \A d \in Doms : \A t \in scripts'[d] : placed[t.run] = d
  <2>1. ASSUME NEW d \in Doms, NEW t \in scripts'[d]
        PROVE  t \in scripts[d] \/ (d = e /\ t.run = m.run /\ placed[m.run] = e)
    <3>1. scripts \in [Doms -> SUBSET Script]
      BY DEF TypeOK, PluginType
    <3>2. CASE scripts' = [scripts EXCEPT ![e] = @ \cup {[run |-> m.run, conn |-> sock[e]]}]
                 /\ placed[m.run] = e
      <4>1. d # e => t \in scripts[d]
        BY <2>1, <3>1, <3>2
      <4>2. d = e => t \in scripts[e] \/ t = [run |-> m.run, conn |-> sock[e]]
        BY <2>1, <3>1, <3>2
      <4> QED
        BY <3>2, <4>1, <4>2
    <3>3. CASE scripts' = [scripts EXCEPT ![e] = Survivors(e, m.run)]
      BY <1>7, <2>1, <3>1, <3>3
    <3> QED
      BY <1>5, <1>6, <3>2, <3>3
  <2> QED
    BY <2>1 DEF WireRight
<1> QED
  BY <1>3, <1>4, <1>8

\* Every step keeps every run on the wire, and every script, where it belongs.
LEMMA WireStep ==
    ASSUME TypeOK, ChosenOnce, WireRight, [Next]_vars
    PROVE  WireRight'
<1>0. Kept
  BY ChoiceStep
<1> DEFINE Down == down' \in [Backends -> Seq(RightDown)']
           Inbox == \A d \in Doms : inbox'[d] \in Seq(RightInbox(d)')
           Scripts == \A d \in Doms : \A t \in scripts'[d] : placed'[t.run] = d
<1>1. /\ down' = down => Down
      /\ inbox' = inbox => Inbox
      /\ scripts' = scripts => Scripts
  BY <1>0, WireStutter
<1>2. Down /\ Inbox /\ Scripts => WireRight'
  BY DEF WireRight
<1> HIDE DEF Down, Inbox, Scripts
<1>3. ASSUME NEW r \in Runs, Submit(r) PROVE WireRight'
  BY <1>0, <1>1, <1>2, <1>3, SubmitWire DEF Submit, pluginVars, Down
<1>4. ASSUME NEW r \in Runs, Kill(r) \/ ReaderEnd(r) PROVE WireRight'
  <2>1. /\ inbox' = inbox /\ scripts' = scripts
        /\ down' = down \/ (active[r] # None /\ SendToDom(active[r].dom, "kill", r))
    BY <1>4 DEF Kill, ReaderEnd, pluginVars
  <2>2. active[r] # None => active[r].dom \in Doms
    BY DEF TypeOK, MasterType, ActiveRun
  <2>3. down \in [Backends -> Seq(RightDown)]
    BY DEF WireRight
  <2>4. Down
    BY <1>0, <1>1, <2>1, <2>2, <2>3, SendWire DEF Down
  <2> QED
    BY <1>1, <1>2, <2>1, <2>4
<1>5. ASSUME NEW g \in Guids, Close(g) PROVE WireRight'
  <2>1. PICK b \in backends : down' = [down EXCEPT ![b] = Append(@, [type |-> "close", guid |-> g])]
    BY <1>5 DEF Close
  <2>2. inbox' = inbox /\ scripts' = scripts /\ placed' = placed
    BY <1>5 DEF Close, pluginVars, masterVars
  <2>3. down \in [Backends -> Seq(RightDown)] /\ b \in Backends
    BY DEF WireRight, TypeOK, MasterType
  <2>4. [type |-> "close", guid |-> g] \in RightDown
    BY DEF RightDown, DownMsg
  <2>5. down' \in [Backends -> Seq(RightDown)]
    BY <2>1, <2>3, <2>4, AppendQueue
  <2>6. (RightDown)' = RightDown
    BY <2>2 DEF RightDown
  <2> QED
    BY <1>1, <1>2, <2>2, <2>5, <2>6 DEF Down
<1>6. ASSUME NEW b \in Backends, MasterStep(b) \/ BackendLost(b) PROVE WireRight'
  <2>1. inbox' = inbox /\ scripts' = scripts
    BY <1>6 DEF MasterStep, HandleNudge, HandleDomDisconnect, HandleFinished, HandleSnapshot,
                HandleFiles, BackendLost, HandlerFrame, pluginVars
  <2> QED
    BY <1>0, <1>1, <1>2, <1>6, <2>1, MasterWire DEF Down
<1>7. ASSUME NEW b \in Backends, BackendReceive(b) PROVE WireRight'
  <2>1. scripts' = scripts /\ placed' = placed
    BY <1>7 DEF BackendReceive, pluginVars, masterVars
  <2> QED
    BY <1>0, <1>1, <1>2, <1>7, <2>1, BackendReceiveWire DEF Down, Inbox
<1>8. ASSUME NEW d \in Doms, PluginReceive(d) PROVE WireRight'
  <2>1. down' = down /\ placed' = placed
    BY <1>8 DEF PluginReceive, masterVars
  <2> QED
    BY <1>0, <1>1, <1>2, <1>8, <2>1, PluginReceiveWire DEF Inbox, Scripts
<1>9. ASSUME NEW b \in Backends, BackendCrash(b) PROVE WireRight'
  <2>1. /\ down' = [down EXCEPT ![b] = <<>>] /\ scripts' = scripts /\ placed' = placed
        /\ inbox' = [d \in Doms |-> IF Home[d] = b THEN <<>> ELSE inbox[d]]
    BY <1>9 DEF BackendCrash, masterVars
  <2>2. (RightDown)' = RightDown /\ \A d \in Doms : RightInbox(d)' = RightInbox(d)
    BY <2>1 DEF RightDown, RightInbox
  <2>3. down' \in [Backends -> Seq(RightDown)]
    BY <2>1 DEF WireRight
  <2>4. \A d \in Doms : inbox'[d] \in Seq(RightInbox(d))
    BY <2>1 DEF WireRight
  <2> QED
    BY <1>1, <1>2, <2>1, <2>2, <2>3, <2>4 DEF Down, Inbox
<1>10. ASSUME NEW d \in Doms,
              \/ Lose(d) \/ Die(d) \/ \E t \in scripts[d], how \in {"done", "failed"} : ScriptEnd(d, t, how)
       PROVE  WireRight'
  <2>1. /\ down' = down /\ placed' = placed
        /\ inbox' = inbox \/ inbox' = [inbox EXCEPT ![d] = <<>>]
    BY <1>10 DEF Lose, Die, ScriptEnd, masterVars
  <2>2. \A e \in Doms : RightInbox(e)' = RightInbox(e)
    BY <2>1 DEF RightInbox
  <2>3. ASSUME NEW e \in Doms PROVE inbox'[e] \in Seq(RightInbox(e))
    <3>1. inbox[e] \in Seq(RightInbox(e)) /\ <<>> \in Seq(RightInbox(e))
      BY DEF WireRight
    <3>2. inbox'[e] = inbox[e] \/ inbox'[e] = <<>>
      BY <2>1 DEF TypeOK, ChanType
    <3> QED
      BY <3>1, <3>2
  <2>4. \A e \in Doms : scripts'[e] \subseteq scripts[e]
    <3>1. scripts \in [Doms -> SUBSET Script]
      BY DEF TypeOK, PluginType
    <3>2. \/ scripts' = scripts
          \/ scripts' = [scripts EXCEPT ![d] = {}]
          \/ \E t \in scripts[d] : scripts' = [scripts EXCEPT ![d] = @ \ {t}]
      BY <1>10 DEF Lose, Die, ScriptEnd
    <3> QED
      BY <3>1, <3>2
  <2> QED
    BY <1>1, <1>2, <2>1, <2>2, <2>3, <2>4 DEF Inbox, Scripts, WireRight
<1>11. ASSUME UNCHANGED <<down, inbox, scripts>> PROVE WireRight'
  BY <1>1, <1>2, <1>11
<1> QED
  BY <1>3, <1>4, <1>5, <1>6, <1>7, <1>8, <1>9, <1>10, <1>11
     DEF Next, RunStep, ClientStep, Reject, ClientReceive, ClientStreamEnd, ClientDrop,
         DomStep, BackendStep, TakeSnapshot, Forward, FilesDone, Dial, Rewire, LoopEnd,
         vars, chanVars, pluginVars

LEMMA RouteInit == Init => RouteInv
<1> SUFFICES ASSUME Init PROVE RouteInv
  OBVIOUS
<1>1. ChosenOnce
  BY DEF Init, ChosenOnce, Minted
<1>2. WireRight
  BY DEF Init, WireRight
<1> QED
  BY <1>1, <1>2 DEF RouteInv

LEMMA RouteStep == TypeOK /\ RouteInv /\ [Next]_vars => TypeOK' /\ RouteInv'
  BY TypeStep, ChoiceStep, WireStep DEF RouteInv

LEMMA RouteGivesDom == TypeOK /\ RouteInv => RightDom
<1> SUFFICES ASSUME TypeOK, RouteInv, NEW r \in Runs, NEW d \in Doms,
                    Sent(r, d) \/ Executing(r, d)
             PROVE  /\ placed[r] = d /\ Fits(request[r], d)
                    /\ active[r] # None => active[r].dom = d
  BY DEF RightDom
<1>1. placed[r] = d
  <2>1. CASE Executing(r, d)
    BY <2>1 DEF Executing, RouteInv, WireRight
  <2>2. CASE Contains(inbox[d], [type |-> "run", run |-> r])
    <3>1. PICK i \in DOMAIN inbox[d] : inbox[d][i] = [type |-> "run", run |-> r]
      BY <2>2 DEF Contains
    <3>2. inbox[d][i] \in RightInbox(d)
      BY LenProperties, ElementOfSeq DEF RouteInv, WireRight
    <3> QED
      BY <3>1, <3>2 DEF RightInbox
  <2>3. CASE Contains(down[Home[d]], [type |-> "run", run |-> r, dom |-> d])
    <3>1. PICK i \in DOMAIN down[Home[d]] :
             down[Home[d]][i] = [type |-> "run", run |-> r, dom |-> d]
      BY <2>3 DEF Contains
    <3>2. down[Home[d]][i] \in RightDown
      BY DomsAssumption, LenProperties, ElementOfSeq DEF RouteInv, WireRight
    <3> QED
      BY <3>1, <3>2 DEF RightDown
  <2> QED
    BY <2>1, <2>2, <2>3 DEF Sent
<1>2. d # None
  BY DomsAssumption
<1> QED
  BY <1>1, <1>2 DEF RouteInv, ChosenOnce

\* A script only ever reaches a DOM its request fits, the one the master chose.
THEOREM RightDomAlways == Spec => []RightDom
  BY TypeInit, RouteInit, RouteStep, RouteGivesDom, PTL DEF Spec
===============================================================================
