-------------------------- MODULE RunLifecycleOnce --------------------------
(***************************************************************************)
(* A run's script exists once, for any number of runs, DOMs and backends:  *)
(* no handler, lane, reconnect or kill makes a second copy of it.  And what *)
(* is told of it is true: its client exits 0 only after a success, and an  *)
(* acknowledged kill has stopped it.  Nor is it forgotten: what is started  *)
(* will be ended, and what is drained will be told.                         *)
(***************************************************************************)
EXTENDS RunLifecycleRouting

-----------------------------------------------------------------------------
(* Where the command to start a run is *)

RunAt(q, i, r) == i \in 1..Len(q) /\ q[i].type = "run" /\ q[i].run = r
OnDown(b, i, r) == RunAt(down[b], i, r)
OnInbox(d, i, r) == RunAt(inbox[d], i, r)

\* One lane holds the command, at one place; it leaves the backend's lane for the
\* plugin's, and the plugin's for good.
OneDown ==
    \A r \in Runs : \A b, c \in Backends, i, j \in Nat :
        OnDown(b, i, r) /\ OnDown(c, j, r) => b = c /\ i = j
OneInbox ==
    \A r \in Runs : \A d, e \in Doms, i, j \in Nat :
        OnInbox(d, i, r) /\ OnInbox(e, j, r) => d = e /\ i = j
OneLane ==
    \A r \in Runs : \A b \in Backends, d \in Doms, i, j \in Nat :
        ~ (OnDown(b, i, r) /\ OnInbox(d, j, r))
NotAgain ==
    \A r \in begun :
        /\ placed[r] # None
        /\ \A b \in Backends, i \in Nat : ~ OnDown(b, i, r)
        /\ \A d \in Doms, i \in Nat : ~ OnInbox(d, i, r)
ScriptsBegun == \A d \in Doms : \A t \in scripts[d] : t.run \in begun

OnceInv == OneDown /\ OneInbox /\ OneLane /\ NotAgain /\ ScriptsBegun

\* What a queue operation does to the place of a command.
LEMMA AppendRun ==
    ASSUME NEW S, NEW q \in Seq(S), NEW m \in S, NEW i \in Nat, NEW r, RunAt(Append(q, m), i, r)
    PROVE  RunAt(q, i, r) \/ (i = Len(q) + 1 /\ m.type = "run" /\ m.run = r)
<1>1. /\ Len(Append(q, m)) = Len(q) + 1 /\ Append(q, m)[Len(q) + 1] = m
      /\ \A k \in 1..Len(q) : Append(q, m)[k] = q[k]
  BY AppendProperties
<1> QED
  BY <1>1, LenProperties DEF RunAt

LEMMA TailRun ==
    ASSUME NEW S, NEW q \in Seq(S), q # <<>>, NEW i \in Nat, NEW r, RunAt(Tail(q), i, r)
    PROVE  RunAt(q, i + 1, r)
<1>1. Len(Tail(q)) = Len(q) - 1 /\ \A k \in 1..Len(Tail(q)) : Tail(q)[k] = q[k + 1]
  BY HeadTailProperties
<1> QED
  BY <1>1, LenProperties DEF RunAt

LEMMA ConcatRun ==
    ASSUME NEW S, NEW p \in Seq(S), NEW q \in Seq(S), NEW i \in Nat, NEW r, RunAt(p \o q, i, r)
    PROVE  RunAt(p, i, r) \/ (i - Len(p) \in 1..Len(q) /\ RunAt(q, i - Len(p), r))
<1>1. /\ Len(p \o q) = Len(p) + Len(q) /\ Len(p) \in Nat /\ Len(q) \in Nat
      /\ \A k \in 1..Len(p) + Len(q) : (p \o q)[k] = IF k <= Len(p) THEN p[k] ELSE q[k - Len(p)]
  BY ConcatProperties, LenProperties
<1> QED
  BY <1>1 DEF RunAt

\* The lanes at most move up by one and lose commands.
Shifted(n, k) ==
    \A r \in Runs, b \in Backends, i \in Nat : OnDown(b, i, r)' => OnDown(b, IF b = n THEN i + k ELSE i, r)
ShiftedIn(n, k) ==
    \A r \in Runs, d \in Doms, i \in Nat : OnInbox(d, i, r)' => OnInbox(d, IF d = n THEN i + k ELSE i, r)

LEMMA OnceShrinks ==
    ASSUME OnceInv, Kept, begun \subseteq Runs, begun' = begun,
           \A d \in Doms : scripts'[d] \subseteq scripts[d],
           NEW n, NEW k \in {0, 1}, Shifted(n, k), NEW m, NEW l \in {0, 1}, ShiftedIn(m, l)
    PROVE  OnceInv'
<1>1. OneDown'
  BY DEF OnceInv, OneDown, Shifted
<1>2. OneInbox'
  BY DEF OnceInv, OneInbox, ShiftedIn
<1>3. OneLane'
  BY DEF OnceInv, OneLane, Shifted, ShiftedIn
<1>4. NotAgain'
  BY DEF OnceInv, NotAgain, Shifted, ShiftedIn, Kept
<1>5. ScriptsBegun'
  BY DEF OnceInv, ScriptsBegun
<1> QED
  BY <1>1, <1>2, <1>3, <1>4, <1>5 DEF OnceInv

\* The master adds a command for a run it places now, once.
Adds ==
    \A r \in Runs :
        \/ \A b \in Backends, i \in Nat : OnDown(b, i, r)' => OnDown(b, i, r)
        \/ /\ placed[r] = None
           /\ \A b, c \in Backends, i, j \in Nat : OnDown(b, i, r)' /\ OnDown(c, j, r)' => b = c /\ i = j

\* Nothing of a run that is not placed is anywhere.
LEMMA UnplacedNowhere ==
    ASSUME TypeOK, WireRight, NEW r \in Runs, placed[r] = None
    PROVE  /\ \A b \in Backends, i \in Nat : ~ OnDown(b, i, r)
           /\ \A d \in Doms, i \in Nat : ~ OnInbox(d, i, r)
<1>1. ASSUME NEW b \in Backends, NEW i \in Nat, OnDown(b, i, r) PROVE FALSE
  <2>1. down[b][i] \in RightDown
    BY <1>1, LenProperties, ElementOfSeq DEF WireRight, OnDown, RunAt
  <2> QED
    BY <1>1, <2>1, DomsAssumption DEF RightDown, DownMsg, OnDown, RunAt
<1>2. ASSUME NEW d \in Doms, NEW i \in Nat, OnInbox(d, i, r) PROVE FALSE
  <2>1. inbox[d][i] \in RightInbox(d)
    BY <1>2, LenProperties, ElementOfSeq DEF WireRight, OnInbox, RunAt
  <2> QED
    BY <1>2, <2>1, DomsAssumption DEF RightInbox, OnInbox, RunAt
<1> QED
  BY <1>1, <1>2

LEMMA OnceAdds ==
    ASSUME TypeOK, WireRight, OnceInv, Kept, Adds, UNCHANGED <<inbox, scripts, begun>>
    PROVE  OnceInv'
<1>1. OneDown'
  BY DEF OnceInv, OneDown, Adds
<1>2. OneInbox' /\ ScriptsBegun'
  BY DEF OnceInv, OneInbox, OnInbox, ScriptsBegun
<1>3. OneLane'
  BY UnplacedNowhere DEF OnceInv, OneLane, OnInbox, Adds
<1>4. begun \subseteq Runs
  BY DEF TypeOK, PluginType
<1>5. NotAgain'
  BY <1>4 DEF OnceInv, NotAgain, OnInbox, Adds, Kept
<1> QED
  BY <1>1, <1>2, <1>3, <1>5 DEF OnceInv

\* A list of a set's elements holds each at one place.
LEMMA OrderingOnce ==
    ASSUME NEW T \in SUBSET Runs, NEW q \in NewestFirst(T)
    PROVE  /\ q \in Seq(T)
           /\ \A i, j \in 1..Len(q) : q[i] = q[j] => i = j
<1>1. q \in SetToSeqs(T)
  BY DEF NewestFirst
<1>2. q \in Seq(T)
  BY <1>1, OrderingType
<1>3. /\ q \in [1..Cardinality(T) -> T] /\ \A i, j \in 1..Cardinality(T) : i # j => q[i] # q[j]
      /\ Len(q) \in Nat /\ DOMAIN q = 1..Len(q)
  BY <1>1, <1>2, LenProperties DEF SetToSeqs
<1> QED
  BY <1>2, <1>3

\* The master's own part of a lane holds what was in it and what it sends.
LEMMA LaneRun ==
    ASSUME NEW S, NEW q \in Seq(S), NEW x \in Seq(PlainDown), NEW s \in Seq(DownMsg), DownMsg \subseteq S,
           NEW i \in Nat, NEW r, RunAt(q \o x \o s, i, r)
    PROVE  RunAt(q, i, r) \/ (i - Len(q \o x) \in 1..Len(s) /\ RunAt(s, i - Len(q \o x), r))
<1>1. x \in Seq(S) /\ s \in Seq(S)
  BY SeqMonotone DEF PlainDown
<1>2. q \o x \in Seq(S)
  BY <1>1, ConcatProperties
<1>3. \/ RunAt(q \o x, i, r)
      \/ i - Len(q \o x) \in 1..Len(s) /\ RunAt(s, i - Len(q \o x), r)
  BY <1>1, <1>2, ConcatRun
<1>4. ASSUME RunAt(q \o x, i, r) PROVE RunAt(q, i, r)
  <2>1. RunAt(q, i, r) \/ (i - Len(q) \in 1..Len(x) /\ RunAt(x, i - Len(q), r))
    BY <1>1, <1>4, ConcatRun
  <2>2. \A k \in 1..Len(x) : x[k].type # "run"
    BY LenProperties, ElementOfSeq DEF PlainDown
  <2> QED
    BY <2>1, <2>2 DEF RunAt
<1> QED
  BY <1>3, <1>4

\* What reconcile sends are the runs it places, each once.
LEMMA ReconcileAdds ==
    ASSUME TypeOK, WireRight, NEW P \in SUBSET Runs, \A r \in P : placed[r] = None,
           NEW A, NEW V \in SUBSET Doms, NEW note, NEW extra \in [Backends -> Seq(PlainDown)],
           Reconcile(P, A, V, note, extra)
    PROVE  Adds
<1>0. PICK place \in Placements(request', P, V) :
         \E batch \in Batches(place) : Dispatch(P, A, V, note, extra, place, batch)
  BY DEF Reconcile
<1>1. PICK batch \in Batches(place) : Dispatch(P, A, V, note, extra, place, batch)
  BY <1>0
<1> DEFINE share(b) == {r \in DOMAIN place : Home[place[r]] = b}
           sent(b) == [i \in 1..Len(batch[b]) |->
                          [type |-> "run", run |-> batch[b][i], dom |-> place[batch[b][i]]]]
           head(b) == Len(down[b] \o extra[b])
<1>2. DOMAIN place \subseteq P /\ \A r \in DOMAIN place : place[r] \in Doms
  BY DEF Placements
<1>3. down' = [b \in Backends |-> down[b] \o extra[b] \o sent(b)]
  BY <1>1 DEF Dispatch
<1>4. ASSUME NEW b \in Backends
      PROVE  /\ batch[b] \in Seq(share(b))
             /\ \A i, j \in 1..Len(batch[b]) : batch[b][i] = batch[b][j] => i = j
  <2>1. share(b) \in SUBSET Runs /\ batch[b] \in NewestFirst(share(b))
    BY <1>2 DEF Batches
  <2> HIDE DEF share
  <2> QED
    BY <2>1, OrderingOnce
<1>5. ASSUME NEW b \in Backends, NEW i \in Nat, NEW r \in Runs, OnDown(b, i, r)'
      PROVE  \/ OnDown(b, i, r)
             \/ /\ r \in share(b) /\ i - head(b) \in 1..Len(batch[b])
                /\ batch[b][i - head(b)] = r
  <2>1. Len(batch[b]) \in Nat /\ \A k \in 1..Len(batch[b]) : batch[b][k] \in share(b)
    BY <1>4, LenProperties, ElementOfSeq
  <2>2. \A k \in 1..Len(batch[b]) :
           [type |-> "run", run |-> batch[b][k], dom |-> place[batch[b][k]]] \in DownMsg
    BY <1>2, <2>1 DEF DownMsg
  <2>3. sent(b) \in Seq(DownMsg) /\ Len(sent(b)) = Len(batch[b])
    BY <2>1, <2>2, SeqDef, LenProperties
  <2>4. down[b] \in Seq(DownMsg) /\ extra[b] \in Seq(PlainDown)
    BY DEF TypeOK, ChanType
  <2>5. RunAt(down[b] \o extra[b] \o sent(b), i, r)
    BY <1>3, <1>5 DEF OnDown
  <2>6. \/ RunAt(down[b], i, r)
        \/ i - head(b) \in 1..Len(sent(b)) /\ RunAt(sent(b), i - head(b), r)
    <3> HIDE DEF sent
    <3> QED
      BY <2>3, <2>4, <2>5, LaneRun
  <2>7. ASSUME i - head(b) \in 1..Len(sent(b)), RunAt(sent(b), i - head(b), r)
        PROVE  /\ r \in share(b) /\ i - head(b) \in 1..Len(batch[b])
               /\ batch[b][i - head(b)] = r
    <3> DEFINE k == i - head(b)
    <3>1. k \in 1..Len(batch[b])
      BY <2>3, <2>7
    <3>2. sent(b)[k].run = r
      BY <2>7 DEF RunAt
    <3> HIDE DEF k
    <3>3. batch[b][k] = r
      BY <3>1, <3>2
    <3> QED
      BY <2>1, <3>1, <3>3 DEF k
  <2> QED
    BY <2>6, <2>7 DEF OnDown
<1>6. ASSUME NEW r \in Runs PROVE
        \/ \A b \in Backends, i \in Nat : OnDown(b, i, r)' => OnDown(b, i, r)
        \/ /\ placed[r] = None
           /\ \A b, c \in Backends, i, j \in Nat : OnDown(b, i, r)' /\ OnDown(c, j, r)' => b = c /\ i = j
  <2>1. CASE r \notin DOMAIN place
    BY <1>5, <2>1
  <2>2. CASE r \in DOMAIN place
    <3>1. placed[r] = None /\ \A b \in Backends, i \in Nat : ~ OnDown(b, i, r)
      BY <1>2, <2>2, UnplacedNowhere
    <3>2. ASSUME NEW b \in Backends, NEW c \in Backends, NEW i \in Nat, NEW j \in Nat,
                 OnDown(b, i, r)', OnDown(c, j, r)'
          PROVE  b = c /\ i = j
      <4> HIDE DEF head
      <4>1. /\ i - head(b) \in 1..Len(batch[b]) /\ batch[b][i - head(b)] = r
            /\ j - head(c) \in 1..Len(batch[c]) /\ batch[c][j - head(c)] = r
        <5> HIDE DEF share
        <5> QED
          BY <1>5, <3>1, <3>2
      <4>2. r \in share(b) /\ r \in share(c)
        <5> HIDE DEF share
        <5> QED
          BY <1>5, <3>1, <3>2
      <4>3. b = c
        BY <4>2
      <4>4. i - head(b) = j - head(b)
        <5> HIDE DEF share
        <5> QED
          BY <1>4, <4>1, <4>3
      <4>5. head(b) \in Nat
        BY ConcatProperties, LenProperties, SeqMonotone DEF TypeOK, ChanType, PlainDown, head
      <4> QED
        BY <4>3, <4>4, <4>5
    <3> QED
      BY <3>1, <3>2
  <2> QED
    BY <2>1, <2>2
<1> QED
  BY <1>6 DEF Adds

\* The same for the handlers that complete runs before they reconcile.
LEMMA CompleteRunsAdds ==
    ASSUME TypeOK, WireRight, NEW S \in SUBSET Runs, NEW state, NEW ev, NEW bs,
           NEW P \in SUBSET Runs, \A r \in P : placed[r] = None, NEW V \in SUBSET Doms,
           CompleteRuns(S, state, ev, bs, P, V)
    PROVE  Adds
<1>1. PICK order \in SetToSeqs(Profiled(S)) :
        Reconcile(P, Completed(S, state), V, CompletionNote(S, ev), Notices(bs, order))
  BY DEF CompleteRuns
<1>2. order \in Seq(Profiled(S)) /\ Profiled(S) \subseteq Runs
  BY OrderingType DEF Profiled, Finished
<1>3. Len(order) \in Nat /\ \A i \in 1..Len(order) : order[i] \in Runs
  BY <1>2, LenProperties, ElementOfSeq
<1>4. \A i \in 1..Len(order) : [type |-> "completed", run |-> order[i]] \in PlainDown
  BY <1>3 DEF PlainDown, DownMsg
<1>5. /\ [i \in 1..Len(order) |-> [type |-> "completed", run |-> order[i]]] \in Seq(PlainDown)
      /\ <<>> \in Seq(PlainDown)
  BY <1>3, <1>4, SeqDef
<1>6. Notices(bs, order) \in [Backends -> Seq(PlainDown)]
  BY <1>5 DEF Notices
<1> HIDE DEF Reconcile
<1> QED
  BY <1>1, <1>6, ReconcileAdds

\* No handler of the master sends a run that was sent before.
LEMMA MasterAdds ==
    ASSUME TypeOK, ChosenOnce, WireRight, NEW b \in Backends, MasterStep(b) \/ BackendLost(b)
    PROVE  Adds
<1> DEFINE V == View(backends, snap)
<1>1. /\ V \in SUBSET Doms /\ pending \in SUBSET Runs /\ \A r \in pending : placed[r] = None
      /\ NoExtra \in [Backends -> Seq(PlainDown)]
  BY ViewType DEF ChosenOnce, TypeOK, MasterType, NoExtra
<1>2. down' = down => Adds
  BY DEF Adds, OnDown
<1>3. CASE HandleNudge(b)
  <2>1. Reconcile(pending, active, V, Silent, NoExtra)
    BY <1>3 DEF HandleNudge
  <2> HIDE DEF V
  <2> QED
    BY <1>1, <2>1, ReconcileAdds
<1>4. CASE HandleSnapshot(b)
  <2>1. Reconcile(pending, active, View(backends, snap'), Silent, NoExtra)
    BY <1>4 DEF HandleSnapshot
  <2>2. Head(out[b]).doms \in SUBSET Doms
    BY <1>4, ConsumeType DEF HandleSnapshot, Arrived, UpMsg
  <2>3. snap' \in [Backends -> SUBSET Doms]
    BY <1>4, <2>2 DEF HandleSnapshot, TypeOK, MasterType
  <2>4. View(backends, snap') \in SUBSET Doms
    BY <2>3 DEF View, TypeOK, MasterType
  <2> QED
    BY <1>1, <2>1, <2>4, ReconcileAdds
<1>5. CASE HandleDomDisconnect(b)
  <2> DEFINE d == Head(out[b]).dom
             swept == {r \in Runs : active[r] # None /\ active[r].dom = d}
             drained == IF swept = {} THEN {} ELSE DeadSession(request, pending, V)
             waiting == {r \in pending \ drained : request[r].dom = d}
  <2>1. CompleteRuns(swept, "killed", "disconnect", backends, pending \ waiting, V)
    BY <1>5 DEF HandleDomDisconnect
  <2>2. swept \in SUBSET Runs /\ pending \ waiting \in SUBSET Runs
    BY <1>1
  <2> HIDE DEF swept, waiting, V
  <2>3. \A r \in pending \ waiting : placed[r] = None
    BY <1>1
  <2> QED
    BY <1>1, <2>1, <2>2, <2>3, CompleteRunsAdds
<1>6. CASE HandleFinished(b)
  <2> DEFINE m == Head(out[b])
  <2>1. /\ m.type \in {"done", "failed", "killed"}
        /\ CompleteRuns({m.run}, FinalState(m.type), m.type, backends, pending, V)
    BY <1>6 DEF HandleFinished
  <2>2. m.run \in Runs
    BY <1>6, <2>1, ConsumeType DEF HandleFinished, UpMsg
  <2> HIDE DEF m, V
  <2> QED
    BY <1>1, <2>1, <2>2, CompleteRunsAdds
<1>7. CASE HandleFiles(b)
  BY <1>2, <1>7 DEF HandleFiles
<1>8. CASE BackendLost(b)
  <2> DEFINE W == View(backends', snap)
             orphaned == {r \in Runs : active[r] # None /\ active[r].dom \notin W}
  <2>1. \/ down' = down
        \/ CompleteRuns(orphaned, "killed", "disconnect", backends', pending, W)
    BY <1>8 DEF BackendLost
  <2>2. W \in SUBSET Doms /\ orphaned \in SUBSET Runs
    BY <1>8 DEF BackendLost, View, TypeOK, MasterType
  <2> HIDE DEF W, orphaned
  <2> QED
    BY <1>1, <1>2, <2>1, <2>2, CompleteRunsAdds
<1> QED
  BY <1>3, <1>4, <1>5, <1>6, <1>7, <1>8 DEF MasterStep

\* What a command sent outside reconciling adds to the lanes.
LEMMA SendAdds ==
    ASSUME TypeOK, NEW d \in Doms, NEW type \in {"run", "kill"}, NEW u \in Runs, SendToDom(d, type, u),
           NEW b \in Backends, NEW i \in Nat, NEW r \in Runs, OnDown(b, i, r)'
    PROVE  \/ OnDown(b, i, r)
           \/ type = "run" /\ r = u /\ b = Home[d] /\ i = Len(down[b]) + 1
<1> DEFINE m == [type |-> type, run |-> u, dom |-> d]
<1>1. down \in [Backends -> Seq(DownMsg)] /\ Home[d] \in Backends
  BY DomsAssumption DEF TypeOK, ChanType
<1>2. \/ down' = down
      \/ down' = [down EXCEPT ![Home[d]] = Append(@, m)]
  BY DEF SendToDom
<1>3. m \in DownMsg /\ m.type = type /\ m.run = u
  BY DEF DownMsg
<1> HIDE DEF m
<1>4. CASE down'[b] = down[b]
  BY <1>4 DEF OnDown
<1>5. CASE b = Home[d] /\ down'[b] = Append(down[b], m)
  <2>1. RunAt(Append(down[b], m), i, r)
    BY <1>5 DEF OnDown
  <2>2. RunAt(down[b], i, r) \/ (i = Len(down[b]) + 1 /\ m.type = "run" /\ m.run = r)
    BY <1>1, <1>3, <2>1, AppendRun
  <2> QED
    BY <1>3, <1>5, <2>2 DEF OnDown
<1> QED
  BY <1>1, <1>2, <1>4, <1>5

\* A submission sends its run once, if at all, and others' too once.
LEMMA SubmitAdds ==
    ASSUME TypeOK, ChosenOnce, WireRight, NEW u \in Runs, Submit(u)
    PROVE  Adds
<1> DEFINE V == View(backends, snap)
<1>1. /\ V \in SUBSET Doms /\ pending \cup {u} \in SUBSET Runs
      /\ placed[u] = None /\ \A r \in pending \cup {u} : placed[r] = None
      /\ NoExtra \in [Backends -> Seq(PlainDown)]
  BY ViewType DEF Submit, NextId, ChosenOnce, TypeOK, MasterType, NoExtra
<1>2. \/ \E d \in V : SendToDom(d, "run", u)
      \/ Reconcile(pending \cup {u}, active, V,
                   [Silent EXCEPT ![u] = <<"created">>], NoExtra)
  BY DEF Submit
<1>3. ASSUME NEW d \in V, SendToDom(d, "run", u)
      PROVE  Adds
  <2>1. ASSUME NEW b \in Backends, NEW i \in Nat, NEW r \in Runs, OnDown(b, i, r)'
        PROVE  OnDown(b, i, r) \/ (r = u /\ b = Home[d] /\ i = Len(down[Home[d]]) + 1)
    BY <1>1, <1>3, <2>1, SendAdds
  <2>2. \A b \in Backends, i \in Nat : ~ OnDown(b, i, u)
    BY <1>1, UnplacedNowhere
  <2> QED
    BY <1>1, <2>1, <2>2 DEF Adds
<1> HIDE DEF V
<1> QED
  BY <1>1, <1>2, <1>3, ReconcileAdds

\* What a tail leaves on a lane was one place further.
LEMMA ReceiveShifts ==
    ASSUME TypeOK, NEW b \in Backends, BackendReceive(b)
    PROVE  Shifted(b, 1)
<1>1. down \in [Backends -> Seq(DownMsg)] /\ down[b] # <<>> /\ down' = [down EXCEPT ![b] = Tail(@)]
  BY DEF TypeOK, ChanType, BackendReceive
<1> SUFFICES ASSUME NEW r \in Runs, NEW c \in Backends, NEW i \in Nat, OnDown(c, i, r)'
             PROVE  OnDown(c, IF c = b THEN i + 1 ELSE i, r)
  BY DEF Shifted
<1>2. CASE c = b
  <2>1. RunAt(Tail(down[b]), i, r)
    BY <1>1, <1>2 DEF OnDown
  <2>2. RunAt(down[b], i + 1, r)
    BY <1>1, <2>1, TailRun
  <2> QED
    BY <1>2, <2>2 DEF OnDown
<1>3. CASE c # b
  BY <1>1, <1>3 DEF OnDown
<1> QED
  BY <1>2, <1>3

LEMMA PluginShifts ==
    ASSUME TypeOK, NEW e \in Doms, PluginReceive(e)
    PROVE  ShiftedIn(e, 1)
<1>1. inbox \in [Doms -> Seq(InboxMsg)] /\ inbox[e] # <<>> /\ inbox' = [inbox EXCEPT ![e] = Tail(@)]
  BY DEF TypeOK, ChanType, PluginReceive
<1> SUFFICES ASSUME NEW r \in Runs, NEW d \in Doms, NEW i \in Nat, OnInbox(d, i, r)'
             PROVE  OnInbox(d, IF d = e THEN i + 1 ELSE i, r)
  BY DEF ShiftedIn
<1>2. CASE d = e
  <2>1. RunAt(Tail(inbox[e]), i, r)
    BY <1>1, <1>2 DEF OnInbox
  <2>2. RunAt(inbox[e], i + 1, r)
    BY <1>1, <2>1, TailRun
  <2> QED
    BY <1>2, <2>2 DEF OnInbox
<1>3. CASE d # e
  BY <1>1, <1>3 DEF OnInbox
<1> QED
  BY <1>2, <1>3

\* A run command that goes from a backend's lane to its plugin's is in one of them.
LEMMA OnceMoves ==
    ASSUME OnceInv, Kept, begun \subseteq Runs, UNCHANGED <<begun, scripts>>,
           NEW b \in Backends, Shifted(b, 1), NEW u \in Runs, OnDown(b, 1, u), NEW e \in Doms, NEW k,
           \A r \in Runs, d \in Doms, i \in Nat :
              OnInbox(d, i, r)' => OnInbox(d, i, r) \/ (r = u /\ d = e /\ i = k)
    PROVE  OnceInv'
<1>1. /\ \A d \in Doms, i \in Nat : ~ OnInbox(d, i, u)
      /\ u \notin begun
  BY DEF OnceInv, OneLane, NotAgain
<1>2. \A c \in Backends, i \in Nat : OnDown(c, i, u) => c = b /\ i = 1
  BY DEF OnceInv, OneDown
<1>3. \A c \in Backends, i \in Nat : ~ OnDown(c, i, u)'
  <2> SUFFICES ASSUME NEW c \in Backends, NEW i \in Nat, OnDown(c, i, u)' PROVE FALSE
    OBVIOUS
  <2>1. OnDown(c, IF c = b THEN i + 1 ELSE i, u)
    BY DEF Shifted
  <2>2. i # 0
    BY DEF OnDown, RunAt
  <2> QED
    BY <1>2, <2>1, <2>2
<1>4. OneDown'
  BY DEF OnceInv, OneDown, Shifted
<1>5. OneInbox'
  BY <1>1 DEF OnceInv, OneInbox
<1>6. OneLane'
  <2> SUFFICES ASSUME NEW r \in Runs, NEW c \in Backends, NEW d \in Doms, NEW i \in Nat, NEW j \in Nat,
                      OnDown(c, i, r)', OnInbox(d, j, r)'
               PROVE  FALSE
    BY DEF OneLane
  <2>1. r # u
    BY <1>3
  <2>2. OnInbox(d, j, r)
    BY <2>1
  <2>3. OnDown(c, IF c = b THEN i + 1 ELSE i, r)
    BY DEF Shifted
  <2> QED
    BY <2>2, <2>3 DEF OnceInv, OneLane
<1>7. NotAgain'
  <2> SUFFICES ASSUME NEW r \in begun
               PROVE  /\ placed'[r] # None
                      /\ \A c \in Backends, i \in Nat : ~ OnDown(c, i, r)'
                      /\ \A d \in Doms, i \in Nat : ~ OnInbox(d, i, r)'
    BY DEF NotAgain
  <2>1. r # u /\ r \in Runs
    BY <1>1
  <2>2. /\ placed[r] # None
        /\ \A c \in Backends, i \in Nat : ~ OnDown(c, i, r)
        /\ \A d \in Doms, i \in Nat : ~ OnInbox(d, i, r)
    BY DEF OnceInv, NotAgain
  <2> QED
    BY <2>1, <2>2 DEF Shifted, Kept
<1>8. ScriptsBegun'
  BY DEF OnceInv, ScriptsBegun
<1> QED
  BY <1>4, <1>5, <1>6, <1>7, <1>8 DEF OnceInv

\* A run command that a plugin takes is nowhere afterwards.
LEMMA OnceBegins ==
    ASSUME OnceInv, begun \subseteq Runs, UNCHANGED <<down, placed>>,
           NEW e \in Doms, ShiftedIn(e, 1), NEW u \in Runs, OnInbox(e, 1, u), placed[u] # None,
           begun' = begun \cup {u},
           \A d \in Doms : \A t \in scripts'[d] : t \in scripts[d] \/ t.run = u
    PROVE  OnceInv'
<1>1. \A c \in Backends, i \in Nat : ~ OnDown(c, i, u)
  BY DEF OnceInv, OneLane
<1>2. \A d \in Doms, i \in Nat : ~ OnInbox(d, i, u)'
  <2> SUFFICES ASSUME NEW d \in Doms, NEW i \in Nat, OnInbox(d, i, u)' PROVE FALSE
    OBVIOUS
  <2>1. OnInbox(d, IF d = e THEN i + 1 ELSE i, u)
    BY DEF ShiftedIn
  <2>2. i # 0
    BY DEF OnInbox, RunAt
  <2> QED
    BY <2>1, <2>2 DEF OnceInv, OneInbox
<1>3. \A r \in Runs, c \in Backends, i \in Nat : OnDown(c, i, r)' <=> OnDown(c, i, r)
  BY DEF OnDown
<1>4. OneDown'
  BY <1>3 DEF OnceInv, OneDown
<1>5. OneInbox'
  BY DEF OnceInv, OneInbox, ShiftedIn
<1>6. OneLane'
  BY <1>3 DEF OnceInv, OneLane, ShiftedIn
<1>7. NotAgain'
  <2> SUFFICES ASSUME NEW r \in begun \cup {u}
               PROVE  /\ placed[r] # None
                      /\ \A c \in Backends, i \in Nat : ~ OnDown(c, i, r)'
                      /\ \A d \in Doms, i \in Nat : ~ OnInbox(d, i, r)'
    BY DEF NotAgain
  <2>1. CASE r = u
    BY <1>1, <1>2, <1>3, <2>1
  <2>2. CASE r \in begun
    <3>1. /\ placed[r] # None
          /\ \A c \in Backends, i \in Nat : ~ OnDown(c, i, r)
          /\ \A d \in Doms, i \in Nat : ~ OnInbox(d, i, r)
      BY <2>2 DEF OnceInv, NotAgain
    <3> QED
      BY <1>3, <2>2, <3>1 DEF ShiftedIn
  <2> QED
    BY <2>1, <2>2
<1>8. ScriptsBegun'
  BY DEF OnceInv, ScriptsBegun
<1> QED
  BY <1>4, <1>5, <1>6, <1>7, <1>8 DEF OnceInv

\* A backend passes a command on, or drops it.
LEMMA ReceiveOnce ==
    ASSUME TypeOK, OnceInv, Kept, NEW b \in Backends, BackendReceive(b)
    PROVE  OnceInv'
<1> DEFINE m == Head(down[b])
           item == [type |-> m.type, run |-> m.run]
<1>1. Shifted(b, 1)
  BY ReceiveShifts
<1>2. UNCHANGED <<begun, scripts>> /\ begun \subseteq Runs
  BY DEF BackendReceive, pluginVars, TypeOK, PluginType
<1>3. down[b] \in Seq(DownMsg) /\ down[b] # <<>>
  BY DEF TypeOK, ChanType, BackendReceive
<1>4. m \in DownMsg /\ m = down[b][1] /\ 1 \in 1..Len(down[b])
  BY <1>3, HeadTailProperties, LenProperties, EmptySeq
<1>5. inbox \in [Doms -> Seq(InboxMsg)]
  BY DEF TypeOK, ChanType
<1>6. \/ inbox' = inbox
      \/ /\ m.type \in {"run", "kill"}
         /\ inbox' = [inbox EXCEPT ![m.dom] = Append(@, item)]
  BY DEF BackendReceive
<1>7. ASSUME \A r \in Runs, d \in Doms, i \in Nat : OnInbox(d, i, r)' => OnInbox(d, i, r)
      PROVE  OnceInv'
  <2>1. ShiftedIn(None, 0)
    BY <1>7, DomsAssumption DEF ShiftedIn
  <2> QED
    BY <1>1, <1>2, <2>1, OnceShrinks
<1>8. CASE inbox' = inbox
  BY <1>7, <1>8 DEF OnInbox
<1>9. CASE /\ m.type \in {"run", "kill"}
           /\ inbox' = [inbox EXCEPT ![m.dom] = Append(@, item)]
  <2>1. m.run \in Runs /\ m.dom \in Doms /\ item \in InboxMsg
    BY <1>4, <1>9 DEF DownMsg, InboxMsg
  <2>2. item.type = m.type /\ item.run = m.run
    OBVIOUS
  <2>3. m.type = "run" => OnDown(b, 1, m.run)
    BY <1>4 DEF OnDown, RunAt
  <2> HIDE DEF m, item
  <2>4. ASSUME NEW r \in Runs, NEW d \in Doms, NEW i \in Nat, OnInbox(d, i, r)'
        PROVE  OnInbox(d, i, r) \/ (m.type = "run" /\ r = m.run /\ d = m.dom /\ i = Len(inbox[m.dom]) + 1)
    <3>1. CASE d # m.dom
      BY <1>5, <1>9, <2>4, <3>1 DEF OnInbox
    <3>2. CASE d = m.dom
      <4>1. RunAt(Append(inbox[d], item), i, r)
        BY <1>5, <1>9, <2>4, <3>2 DEF OnInbox
      <4>2. RunAt(inbox[d], i, r) \/ (i = Len(inbox[d]) + 1 /\ item.type = "run" /\ item.run = r)
        BY <1>5, <2>1, <4>1, AppendRun
      <4> QED
        BY <2>2, <3>2, <4>2 DEF OnInbox
    <3> QED
      BY <3>1, <3>2
  <2>5. CASE m.type = "run"
    <3> DEFINE n == Len(inbox[m.dom]) + 1
               u == m.run
               e == m.dom
    <3>1. \A r \in Runs, d \in Doms, i \in Nat :
             OnInbox(d, i, r)' => OnInbox(d, i, r) \/ (r = u /\ d = e /\ i = n)
      BY <2>4
    <3>2. u \in Runs /\ e \in Doms /\ OnDown(b, 1, u)
      BY <2>1, <2>3, <2>5
    <3> HIDE DEF n, u, e
    <3> QED
      BY <1>1, <1>2, <3>1, <3>2, OnceMoves
  <2>6. CASE m.type # "run"
    BY <1>7, <2>4, <2>6
  <2> QED
    BY <2>5, <2>6
<1> QED
  BY <1>6, <1>8, <1>9

\* A plugin starts a script, or stops one.
LEMMA PluginOnce ==
    ASSUME TypeOK, WireRight, OnceInv, NEW e \in Doms, PluginReceive(e)
    PROVE  OnceInv'
<1> DEFINE m == Head(inbox[e])
<1>1. ShiftedIn(e, 1)
  BY PluginShifts
<1>2. UNCHANGED <<down, placed>> /\ begun \subseteq Runs /\ scripts \in [Doms -> SUBSET Script]
  BY DEF PluginReceive, masterVars, TypeOK, PluginType
<1>3. inbox[e] \in Seq(RightInbox(e)) /\ inbox[e] # <<>>
  BY DEF WireRight, PluginReceive
<1>4. m \in RightInbox(e) /\ m = inbox[e][1] /\ 1 \in 1..Len(inbox[e])
  BY <1>3, HeadTailProperties, LenProperties, EmptySeq
<1>5. \/ /\ m.type = "run" /\ begun' = begun \cup {m.run}
         /\ scripts' = [scripts EXCEPT ![e] = @ \cup {[run |-> m.run, conn |-> sock[e]]}]
      \/ begun' = begun /\ scripts' = [scripts EXCEPT ![e] = Survivors(e, m.run)]
  BY DEF PluginReceive
<1>6. m.run \in Runs
  BY <1>4 DEF RightInbox, InboxMsg
<1>7. m.type = "run" => placed[m.run] = e /\ OnInbox(e, 1, m.run)
  BY <1>4 DEF RightInbox, OnInbox, RunAt
<1>8. Survivors(e, m.run) \subseteq scripts[e]
  BY DEF Survivors
<1> HIDE DEF m
<1>9. CASE /\ m.type = "run" /\ begun' = begun \cup {m.run}
           /\ scripts' = [scripts EXCEPT ![e] = @ \cup {[run |-> m.run, conn |-> sock[e]]}]
  <2>1. placed[m.run] # None
    BY <1>7, <1>9, DomsAssumption
  <2>2. ASSUME NEW d \in Doms, NEW t \in scripts'[d] PROVE t \in scripts[d] \/ t.run = m.run
    <3>1. d # e => t \in scripts[d]
      BY <1>2, <1>9, <2>2
    <3>2. d = e => t \in scripts[d] \/ t = [run |-> m.run, conn |-> sock[e]]
      BY <1>2, <1>9, <2>2
    <3> QED
      BY <3>1, <3>2
  <2> QED
    BY <1>1, <1>2, <1>6, <1>7, <1>9, <2>1, <2>2, OnceBegins
<1>10. CASE begun' = begun /\ scripts' = [scripts EXCEPT ![e] = Survivors(e, m.run)]
  <2>1. \A d \in Doms : scripts'[d] \subseteq scripts[d]
    BY <1>2, <1>8, <1>10
  <2>2. Shifted(None, 0) /\ Kept
    BY <1>2 DEF Shifted, OnDown, Kept
  <2> QED
    BY <1>1, <1>2, <1>10, <2>1, <2>2, OnceShrinks
<1> QED
  BY <1>5, <1>9, <1>10

\* Every step keeps one copy of every run.
LEMMA OnceStep ==
    ASSUME TypeOK, ChosenOnce, WireRight, OnceInv, [Next]_vars
    PROVE  OnceInv'
<1>0. Kept /\ begun \subseteq Runs
  BY ChoiceStep DEF TypeOK, PluginType
<1>1. ASSUME NEW r \in Runs, Submit(r) PROVE OnceInv'
  BY <1>0, <1>1, SubmitAdds, OnceAdds DEF Submit, pluginVars
<1>2. ASSUME NEW b \in Backends, MasterStep(b) \/ BackendLost(b) PROVE OnceInv'
  <2>1. UNCHANGED <<inbox, scripts, begun>>
    BY <1>2 DEF MasterStep, HandleNudge, HandleDomDisconnect, HandleFinished, HandleSnapshot,
                HandleFiles, BackendLost, HandlerFrame, pluginVars
  <2> QED
    BY <1>0, <1>2, <2>1, MasterAdds, OnceAdds
<1>3. ASSUME \A c \in Backends, i \in Nat, r \in Runs : OnDown(c, i, r)' => OnDown(c, i, r),
             \A d \in Doms, i \in Nat, r \in Runs : OnInbox(d, i, r)' => OnInbox(d, i, r),
             begun' = begun, \A d \in Doms : scripts'[d] \subseteq scripts[d]
      PROVE  OnceInv'
  <2>1. Shifted(None, 0) /\ ShiftedIn(None, 0)
    BY <1>3 DEF Shifted, ShiftedIn
  <2> QED
    BY <1>0, <1>3, <2>1, OnceShrinks
<1>4. ASSUME NEW u \in Runs, Kill(u) \/ ReaderEnd(u) PROVE OnceInv'
  <2>1. /\ UNCHANGED <<inbox, scripts, begun>>
        /\ down' = down \/ (active[u] # None /\ SendToDom(active[u].dom, "kill", u))
    BY <1>4 DEF Kill, ReaderEnd, pluginVars
  <2>2. active[u] # None => active[u].dom \in Doms
    BY DEF TypeOK, MasterType, ActiveRun
  <2>3. \A c \in Backends, i \in Nat, r \in Runs : OnDown(c, i, r)' => OnDown(c, i, r)
    <3>1. CASE down' = down
      BY <3>1 DEF OnDown
    <3>2. CASE active[u] # None /\ SendToDom(active[u].dom, "kill", u)
      BY <2>2, <3>2, SendAdds
    <3> QED
      BY <2>1, <3>1, <3>2
  <2> QED
    BY <1>3, <2>1, <2>3 DEF OnInbox
<1>5. ASSUME NEW g \in Guids, Close(g) PROVE OnceInv'
  <2> DEFINE m == [type |-> "close", guid |-> g]
  <2>1. PICK b \in backends : down' = [down EXCEPT ![b] = Append(@, m)]
    BY <1>5 DEF Close
  <2>2. UNCHANGED <<inbox, scripts, begun>>
    BY <1>5 DEF Close, pluginVars
  <2>3. down \in [Backends -> Seq(DownMsg)] /\ m \in DownMsg /\ m.type # "run"
    BY DEF TypeOK, ChanType, DownMsg
  <2> HIDE DEF m
  <2>4. ASSUME NEW c \in Backends, NEW i \in Nat, NEW r \in Runs, OnDown(c, i, r)'
        PROVE  OnDown(c, i, r)
    <3>1. CASE c # b
      BY <2>1, <2>3, <2>4, <3>1 DEF OnDown
    <3>2. CASE c = b
      <4>1. RunAt(Append(down[c], m), i, r)
        BY <2>1, <2>3, <2>4, <3>2 DEF OnDown
      <4> QED
        BY <2>3, <4>1, AppendRun DEF OnDown
    <3> QED
      BY <3>1, <3>2
  <2> QED
    BY <1>3, <2>2, <2>4 DEF OnInbox
<1>6. ASSUME NEW b \in Backends, BackendCrash(b) PROVE OnceInv'
  <2>1. /\ down' = [down EXCEPT ![b] = <<>>] /\ UNCHANGED <<scripts, begun>>
        /\ inbox' = [d \in Doms |-> IF Home[d] = b THEN <<>> ELSE inbox[d]]
    BY <1>6 DEF BackendCrash
  <2>2. ASSUME NEW c \in Backends, NEW i \in Nat, NEW r \in Runs, OnDown(c, i, r)'
        PROVE  OnDown(c, i, r)
    <3>1. down'[c] = <<>> \/ down'[c] = down[c]
      BY <2>1 DEF TypeOK, ChanType
    <3> QED
      BY <2>2, <3>1 DEF OnDown, RunAt
  <2>3. ASSUME NEW d \in Doms, NEW i \in Nat, NEW r \in Runs, OnInbox(d, i, r)'
        PROVE  OnInbox(d, i, r)
    <3>1. inbox'[d] = <<>> \/ inbox'[d] = inbox[d]
      BY <2>1
    <3> QED
      BY <2>3, <3>1 DEF OnInbox, RunAt
  <2> QED
    BY <1>3, <2>1, <2>2, <2>3
<1>7. ASSUME NEW e \in Doms,
              \/ Lose(e) \/ Die(e) \/ \E t \in scripts[e], how \in {"done", "failed"} : ScriptEnd(e, t, how)
       PROVE  OnceInv'
  <2>1. /\ UNCHANGED <<down, begun>>
        /\ inbox' = inbox \/ inbox' = [inbox EXCEPT ![e] = <<>>]
    BY <1>7 DEF Lose, Die, ScriptEnd
  <2>2. ASSUME NEW d \in Doms, NEW i \in Nat, NEW r \in Runs, OnInbox(d, i, r)'
        PROVE  OnInbox(d, i, r)
    <3>1. inbox'[d] = <<>> \/ inbox'[d] = inbox[d]
      BY <2>1 DEF TypeOK, ChanType
    <3> QED
      BY <2>2, <3>1 DEF OnInbox, RunAt
  <2>3. \A d \in Doms : scripts'[d] \subseteq scripts[d]
    <3>1. scripts \in [Doms -> SUBSET Script]
      BY DEF TypeOK, PluginType
    <3>2. \/ scripts' = scripts
          \/ scripts' = [scripts EXCEPT ![e] = {}]
          \/ \E t \in scripts[e] : scripts' = [scripts EXCEPT ![e] = @ \ {t}]
      BY <1>7 DEF Lose, Die, ScriptEnd
    <3> QED
      BY <3>1, <3>2
  <2> QED
    BY <1>3, <2>1, <2>2, <2>3 DEF OnDown
<1>8. ASSUME UNCHANGED <<down, inbox, scripts, begun>> PROVE OnceInv'
  BY <1>3, <1>8 DEF OnDown, OnInbox
<1>9. ASSUME NEW b \in Backends, BackendReceive(b) PROVE OnceInv'
  BY <1>0, <1>9, ReceiveOnce
<1>10. ASSUME NEW d \in Doms, PluginReceive(d) PROVE OnceInv'
  BY <1>10, PluginOnce
<1> QED
  BY <1>1, <1>2, <1>4, <1>5, <1>6, <1>7, <1>8, <1>9, <1>10
     DEF Next, RunStep, ClientStep, Reject, ClientReceive, ClientStreamEnd, ClientDrop,
         DomStep, BackendStep, TakeSnapshot, Forward, FilesDone, Dial, Rewire, LoopEnd,
         vars, chanVars, pluginVars

-----------------------------------------------------------------------------
(* One copy *)

LEMMA OnceInit == Init => OnceInv
<1> SUFFICES ASSUME Init PROVE OnceInv
  OBVIOUS
<1>1. \A r \in Runs, b \in Backends, i \in Nat : ~ OnDown(b, i, r)
  BY DEF Init, OnDown, RunAt
<1>2. \A r \in Runs, d \in Doms, i \in Nat : ~ OnInbox(d, i, r)
  BY DEF Init, OnInbox, RunAt
<1>3. begun = {} /\ \A d \in Doms : scripts[d] = {}
  BY DEF Init
<1> QED
  BY <1>1, <1>2, <1>3 DEF OnceInv, OneDown, OneInbox, OneLane, NotAgain, ScriptsBegun

\* A command on its way is at a place of a lane.
LEMMA SentSomewhere ==
    ASSUME TypeOK, NEW r \in Runs, NEW d \in Doms, Sent(r, d)
    PROVE  \/ \E i \in Nat : OnDown(Home[d], i, r)
           \/ \E i \in Nat : OnInbox(d, i, r)
<1>1. /\ down[Home[d]] \in Seq(DownMsg) /\ inbox[d] \in Seq(InboxMsg)
  BY DomsAssumption DEF TypeOK, ChanType
<1>2. CASE Contains(down[Home[d]], [type |-> "run", run |-> r, dom |-> d])
  <2>1. PICK i \in DOMAIN down[Home[d]] :
           down[Home[d]][i] = [type |-> "run", run |-> r, dom |-> d]
    BY <1>2 DEF Contains
  <2>2. i \in Nat /\ i \in 1..Len(down[Home[d]])
    BY <1>1, LenProperties
  <2> QED
    BY <2>1, <2>2 DEF OnDown, RunAt
<1>3. CASE Contains(inbox[d], [type |-> "run", run |-> r])
  <2>1. PICK i \in DOMAIN inbox[d] : inbox[d][i] = [type |-> "run", run |-> r]
    BY <1>3 DEF Contains
  <2>2. i \in Nat /\ i \in 1..Len(inbox[d])
    BY <1>1, LenProperties
  <2> QED
    BY <2>1, <2>2 DEF OnInbox, RunAt
<1> QED
  BY <1>2, <1>3 DEF Sent

LEMMA OnceGivesCopy == TypeOK /\ RouteInv /\ OnceInv => OneCopy
<1> SUFFICES ASSUME TypeOK, RouteInv, OnceInv, NEW r \in Runs
             PROVE  /\ \A d \in Doms : Sent(r, d) \/ Executing(r, d) =>
                          /\ r \notin pending
                          /\ \A e \in Doms : Sent(r, e) \/ Executing(r, e) => e = d
                          /\ ~ (Sent(r, d) /\ Executing(r, d))
                    /\ \A b \in Backends : \A i, j \in DOMAIN down[b] :
                          down[b][i].type = "run" /\ down[b][i] = down[b][j] => i = j
                    /\ r \in begun => r \notin pending /\ \A d \in Doms : ~ Sent(r, d)
  BY DEF OneCopy
<1>1. \A d \in Doms : Sent(r, d) \/ Executing(r, d) => placed[r] = d
  BY RouteGivesDom DEF RightDom
<1>2. placed[r] # None => r \notin pending
  BY DEF RouteInv, ChosenOnce
<1>3. \A d \in Doms : Executing(r, d) => r \in begun
  BY DEF Executing, OnceInv, ScriptsBegun
<1>4. r \in begun => placed[r] # None /\ \A d \in Doms : ~ Sent(r, d)
  BY SentSomewhere, DomsAssumption DEF OnceInv, NotAgain
<1>5. ASSUME NEW b \in Backends, NEW i \in DOMAIN down[b], NEW j \in DOMAIN down[b],
             down[b][i].type = "run", down[b][i] = down[b][j]
      PROVE  i = j
  <2>1. down[b] \in Seq(DownMsg)
    BY DEF TypeOK, ChanType
  <2>2. i \in 1..Len(down[b]) /\ j \in 1..Len(down[b]) /\ down[b][i] \in DownMsg
    BY <2>1, LenProperties, ElementOfSeq
  <2>3. down[b][i].run \in Runs
    BY <1>5, <2>2 DEF DownMsg
  <2>4. OnDown(b, i, down[b][i].run) /\ OnDown(b, j, down[b][i].run) /\ i \in Nat /\ j \in Nat
    BY <1>5, <2>1, <2>2, LenProperties DEF OnDown, RunAt
  <2> QED
    BY <2>3, <2>4 DEF OnceInv, OneDown
<1> QED
  BY <1>1, <1>2, <1>3, <1>4, <1>5, DomsAssumption

\* A run's script exists once: it is queued, or on its way to one DOM, or
\* executing on one DOM; nothing sends, relays or starts a second one.
THEOREM OneCopyAlways == Spec => []OneCopy
<1>1. Init => TypeOK /\ RouteInv /\ OnceInv
  BY TypeInit, RouteInit, OnceInit
<1>2. TypeOK /\ RouteInv /\ OnceInv /\ [Next]_vars => TypeOK' /\ RouteInv' /\ OnceInv'
  BY RouteStep, OnceStep DEF RouteInv
<1> QED
  BY <1>1, <1>2, OnceGivesCopy, PTL DEF Spec

-----------------------------------------------------------------------------
(* What a client is told is true *)

\* Something makes run r's client not exit 0, or lets it.
Bad == {"failed", "killed", "disconnect"}
Settled(r) ==
    \/ outcome[r] = "done" \/ code[r] = 1 \/ exit[r] # "open"
    \/ \E i \in 1..Len(events[r]) : events[r][i] \in Bad

\* A Complete on its way is that of a successful script, or comes after an event
\* that sets the exit code or ends the client.
Honest(r) ==
    \A i \in 1..Len(events[r]) : events[r][i] = "complete" =>
        \/ outcome[r] = "done" \/ code[r] = 1
        \/ \E j \in 1..(i - 1) : events[r][j] \in Bad
RunTrue(r) ==
    /\ Honest(r)
    /\ exit[r] = "ok" => outcome[r] = "done"

\* What a handler may tell the client of r.
GoodNote(r, s) ==
    \A i \in 1..Len(s) : s[i] = "complete" =>
        Settled(r) \/ \E j \in 1..(i - 1) : s[j] \in Bad

\* What a step does for the client of r.
Goes(r) ==
    /\ RunTrue(r)' /\ (Settled(r) => Settled(r)')
    /\ outcome[r] = "done" => outcome'[r] = "done"

LEMMA NoteConcat ==
    ASSUME NEW r \in Runs, NEW s \in Seq(Events), NEW u \in Seq(Events), GoodNote(r, s), GoodNote(r, u)
    PROVE  s \o u \in Seq(Events) /\ GoodNote(r, s \o u)
<1>1. /\ s \o u \in Seq(Events) /\ Len(s \o u) = Len(s) + Len(u)
      /\ Len(s) \in Nat /\ Len(u) \in Nat
      /\ \A i \in 1..Len(s) + Len(u) : (s \o u)[i] = IF i <= Len(s) THEN s[i] ELSE u[i - Len(s)]
  BY ConcatProperties, LenProperties
<1> DEFINE w == s \o u
<1>2. ASSUME NEW i \in 1..Len(w), w[i] = "complete", ~ Settled(r)
      PROVE  \E j \in 1..(i - 1) : w[j] \in Bad
  <2>1. CASE i <= Len(s)
    <3>1. i \in 1..Len(s) /\ s[i] = "complete"
      BY <1>1, <1>2, <2>1
    <3>2. PICK j \in 1..(i - 1) : s[j] \in Bad
      BY <1>2, <3>1 DEF GoodNote
    <3>3. j \in 1..Len(s) + Len(u) /\ j <= Len(s)
      BY <1>1, <3>1
    <3>4. w[j] = s[j]
      BY <1>1, <3>3
    <3> QED
      BY <3>2, <3>4
  <2>2. CASE ~ i <= Len(s)
    <3>1. i - Len(s) \in 1..Len(u) /\ u[i - Len(s)] = "complete"
      BY <1>1, <1>2, <2>2
    <3>2. PICK j \in 1..(i - Len(s) - 1) : u[j] \in Bad
      BY <1>2, <3>1 DEF GoodNote
    <3>3. /\ j + Len(s) \in 1..(i - 1) /\ j + Len(s) \in 1..Len(s) + Len(u)
          /\ ~ j + Len(s) <= Len(s) /\ j + Len(s) - Len(s) = j
      BY <1>1, <2>2, <3>1
    <3>4. w[j + Len(s)] = u[j]
      BY <1>1, <3>3
    <3> QED
      BY <3>2, <3>3, <3>4
  <2> QED
    BY <2>1, <2>2
<1> QED
  BY <1>1, <1>2 DEF GoodNote

\* A client that is told a good note is still told the truth.
LEMMA ToldGoes ==
    ASSUME TypeOK, NEW r \in Runs, RunTrue(r), NEW s \in Seq(Events), GoodNote(r, s),
           events'[r] = Told(r, s), code'[r] = code[r], exit'[r] = exit[r], outcome'[r] = outcome[r]
    PROVE  /\ Goes(r)
           /\ (\E j \in 1..Len(s) : s[j] \in Bad) => Settled(r)'
<1>1. events[r] \in Seq(Events)
  BY DEF TypeOK, ChanType
<1>2. CASE exit[r] # "open"
  <2>1. events'[r] = events[r]
    BY <1>2 DEF Told
  <2> QED
    BY <1>2, <2>1 DEF Goes, RunTrue, Honest, Settled
<1>3. CASE exit[r] = "open"
  <2> DEFINE w == events[r] \o s
             n == Len(events[r])
  <2>1. events'[r] = w
    BY <1>3 DEF Told
  <2>2. /\ Len(w) = n + Len(s) /\ n \in Nat /\ Len(s) \in Nat
        /\ \A i \in 1..n + Len(s) : w[i] = IF i <= n THEN events[r][i] ELSE s[i - n]
    BY <1>1, ConcatProperties, LenProperties
  <2> HIDE DEF w, n
  <2>3. \A j \in 1..n : j \in 1..Len(w) /\ w[j] = events[r][j]
    BY <2>2
  <2>4. \A j \in 1..Len(s) : j + n \in 1..Len(w) /\ w[j + n] = s[j]
    <3> SUFFICES ASSUME NEW j \in 1..Len(s) PROVE j + n \in 1..Len(w) /\ w[j + n] = s[j]
      OBVIOUS
    <3>1. j + n \in 1..n + Len(s) /\ ~ j + n <= n /\ j + n - n = j
      BY <2>2
    <3> QED
      BY <2>2, <3>1
  <2>5. Settled(r) => Settled(r)'
    BY <2>1, <2>3 DEF Settled, n
  <2>6. (\E j \in 1..Len(s) : s[j] \in Bad) => Settled(r)'
    BY <2>1, <2>4 DEF Settled
  <2>7. ASSUME NEW i \in 1..Len(w), w[i] = "complete", outcome[r] # "done", code[r] # 1
        PROVE  \E j \in 1..(i - 1) : w[j] \in Bad
    <3>1. CASE i <= n
      <4>1. i \in 1..n /\ events[r][i] = "complete"
        BY <2>2, <2>7, <3>1
      <4>2. PICK j \in 1..(i - 1) : events[r][j] \in Bad
        BY <2>7, <4>1 DEF RunTrue, Honest, n
      <4>3. j \in 1..n
        BY <2>2, <4>1
      <4> QED
        BY <2>3, <4>2, <4>3
    <3>2. CASE ~ i <= n
      <4>1. i - n \in 1..Len(s) /\ s[i - n] = "complete"
        BY <2>2, <2>7, <3>2
      <4>2. CASE Settled(r)
        <5>1. PICK j \in 1..n : events[r][j] \in Bad
          BY <1>3, <2>7, <4>2 DEF Settled, n
        <5>2. j \in 1..(i - 1)
          BY <2>2, <3>2
        <5> QED
          BY <2>3, <5>1, <5>2
      <4>3. CASE \E j \in 1..(i - n - 1) : s[j] \in Bad
        <5>1. PICK j \in 1..(i - n - 1) : s[j] \in Bad
          BY <4>3
        <5>2. j \in 1..Len(s) /\ j + n \in 1..(i - 1)
          BY <2>2, <4>1
        <5> QED
          BY <2>4, <5>1, <5>2
      <4> QED
        BY <4>1, <4>2, <4>3 DEF GoodNote
    <3> QED
      BY <3>1, <3>2
  <2>8. Honest(r)'
    BY <2>1, <2>7 DEF Honest
  <2> QED
    BY <1>3, <2>5, <2>6, <2>8 DEF Goes, RunTrue
<1> QED
  BY <1>2, <1>3

\* Nothing is told, and nothing else of the client changes.
LEMMA QuietGoes ==
    ASSUME NEW r \in Runs, RunTrue(r), events'[r] = events[r], code'[r] = code[r], exit'[r] = exit[r],
           outcome'[r] = outcome[r]
    PROVE  Goes(r)
  BY DEF Goes, RunTrue, Honest, Settled

\* The messages that say so: a Done follows a successful script; a RunCompleted
\* and a FilesComplete follow the end of their run.
TrueUp ==
    {m \in UpMsg : /\ m.type = "done" => outcome[m.run] = "done"
                   /\ m.type = "files" => Settled(m.run)}
TrueDown == {m \in DownMsg : m.type = "completed" => Settled(m.run)}

LanesTrue ==
    /\ relay \in [Backends -> Seq(TrueUp)]
    /\ out \in [Backends -> Seq(TrueUp)]
    /\ down \in [Backends -> Seq(TrueDown)]
    /\ \A p \in flushing : Settled(p[2])

\* A script that executes has not ended, and is the only one of its run.
ScriptsFresh ==
    /\ \A d \in Doms : \A t \in scripts[d] : outcome[t.run] = None
    /\ \A d, e \in Doms : \A t \in scripts[d], u \in scripts[e] : t.run = u.run => d = e /\ t = u
    /\ \A r \in Runs : outcome[r] # None => r \in begun

TrueInv == ScriptsFresh /\ LanesTrue /\ \A r \in Runs : RunTrue(r)

\* What was true on a lane stays true.
LEMMA TrueStays ==
    ASSUME \A r \in Runs : Goes(r)
    PROVE  TrueUp \subseteq (TrueUp)' /\ TrueDown \subseteq (TrueDown)'
<1>1. ASSUME NEW m \in TrueUp PROVE m \in (TrueUp)'
  <2>1. m \in UpMsg
    BY <1>1 DEF TrueUp
  <2>2. m.type \in {"done", "files"} => m.run \in Runs
    BY <2>1 DEF UpMsg
  <2> QED
    BY <1>1, <2>1, <2>2 DEF TrueUp, Goes
<1>2. ASSUME NEW m \in TrueDown PROVE m \in (TrueDown)'
  <2>1. m \in DownMsg
    BY <1>2 DEF TrueDown
  <2>2. m.type = "completed" => m.run \in Runs
    BY <2>1 DEF DownMsg
  <2> QED
    BY <1>2, <2>1, <2>2 DEF TrueDown, Goes
<1> QED
  BY <1>1, <1>2

\* Lanes that are left alone stay true.
LEMMA LanesStay ==
    ASSUME LanesTrue, flushing \subseteq Backends \X Runs, \A r \in Runs : Goes(r)
    PROVE  /\ \A b \in Backends : relay[b] \in Seq((TrueUp)') /\ out[b] \in Seq((TrueUp)')
           /\ relay \in [Backends -> Seq((TrueUp)')] /\ out \in [Backends -> Seq((TrueUp)')]
           /\ down \in [Backends -> Seq((TrueDown)')]
           /\ \A p \in flushing : Settled(p[2])'
<1>1. \A b \in Backends :
        relay[b] \in Seq((TrueUp)') /\ out[b] \in Seq((TrueUp)') /\ down[b] \in Seq((TrueDown)')
  BY TrueStays, SeqMonotone DEF LanesTrue
<1>2. \A p \in flushing : Settled(p[2])'
  BY DEF LanesTrue, Goes
<1> QED
  BY <1>1, <1>2 DEF LanesTrue

\* A reconciling handler that tells the truth leaves it told.
LEMMA ReconcileTrue ==
    ASSUME TypeOK, \A r \in Runs : RunTrue(r), UNCHANGED <<code, exit, outcome>>,
           NEW P \in SUBSET Runs, NEW A, NEW V \in SUBSET Doms,
           NEW note \in [Runs -> Seq(Events)], \A r \in Runs : GoodNote(r, note[r]),
           NEW extra, Reconcile(P, A, V, note, extra)
    PROVE  /\ \A r \in Runs : Goes(r)
           /\ \A r \in Runs : (\E j \in 1..Len(note[r]) : note[r][j] \in Bad) => Settled(r)'
<1> DEFINE swan == <<"killed", "complete">>
<1>1. PICK dead : events' = [r \in Runs |-> Told(r, note[r] \o IF r \in dead THEN swan ELSE <<>>)]
  BY DEF Reconcile, Dispatch
<1>2. ASSUME NEW r \in Runs
      PROVE  /\ Goes(r)
             /\ (\E j \in 1..Len(note[r]) : note[r][j] \in Bad) => Settled(r)'
  <2> DEFINE last == IF r \in dead THEN swan ELSE <<>>
             s == note[r] \o last
  <2>1. last \in Seq(Events)
    <3>1. swan \in Seq(Events) /\ <<>> \in Seq(Events)
      BY DEF Events
    <3> HIDE DEF swan
    <3> QED
      BY <3>1
  <2>2. GoodNote(r, last)
    <3>1. GoodNote(r, <<>>)
      BY DEF GoodNote
    <3>2. GoodNote(r, swan)
      <4>1. Len(swan) = 2 /\ swan[1] = "killed" /\ swan[2] = "complete"
        OBVIOUS
      <4> HIDE DEF swan
      <4> QED
        BY <4>1 DEF GoodNote, Bad
    <3> QED
      BY <3>1, <3>2
  <2>3. note[r] \in Seq(Events) /\ GoodNote(r, note[r])
    OBVIOUS
  <2> HIDE DEF last
  <2>4. s \in Seq(Events) /\ GoodNote(r, s)
    BY <2>1, <2>2, <2>3, NoteConcat
  <2>5. events'[r] = Told(r, s)
    BY <1>1 DEF last
  <2>6. (\E j \in 1..Len(note[r]) : note[r][j] \in Bad) => \E j \in 1..Len(s) : s[j] \in Bad
    <3> DEFINE n == note[r]
    <3>1. /\ Len(s) = Len(n) + Len(last) /\ Len(n) \in Nat /\ Len(last) \in Nat
          /\ \A k \in 1..Len(n) + Len(last) : s[k] = IF k <= Len(n) THEN n[k] ELSE last[k - Len(n)]
      BY <2>1, <2>3, ConcatProperties, LenProperties
    <3> HIDE DEF n, s
    <3>2. \A k \in 1..Len(n) : k \in 1..Len(s) /\ s[k] = n[k]
      BY <3>1
    <3> QED
      BY <3>2 DEF n
  <2>7. code'[r] = code[r] /\ exit'[r] = exit[r] /\ outcome'[r] = outcome[r]
    OBVIOUS
  <2> HIDE DEF s
  <2> QED
    BY <2>4, <2>5, <2>6, <2>7, ToldGoes
<1> QED
  BY <1>2

\* What it adds to the lanes is true, if what the handler itself adds is.
LEMMA ReconcileTrueDown ==
    ASSUME TypeOK, LanesTrue, \A r \in Runs : Goes(r),
           NEW P \in SUBSET Runs, NEW A, NEW V \in SUBSET Doms, NEW note,
           NEW extra \in [Backends -> Seq((TrueDown)')],
           Reconcile(P, A, V, note, extra)
    PROVE  down' \in [Backends -> Seq((TrueDown)')]
<1>0. PICK place \in Placements(request', P, V) :
         \E batch \in Batches(place) : Dispatch(P, A, V, note, extra, place, batch)
  BY DEF Reconcile
<1>1. PICK batch \in Batches(place) : Dispatch(P, A, V, note, extra, place, batch)
  BY <1>0
<1> DEFINE share(b) == {r \in DOMAIN place : Home[place[r]] = b}
           sent(b) == [i \in 1..Len(batch[b]) |->
                          [type |-> "run", run |-> batch[b][i], dom |-> place[batch[b][i]]]]
<1>2. /\ DOMAIN place \subseteq Runs
      /\ \A r \in DOMAIN place : place[r] \in Doms
  BY DEF Placements
<1>3. down' = [b \in Backends |-> down[b] \o extra[b] \o sent(b)]
  BY <1>1 DEF Dispatch
<1> SUFFICES ASSUME NEW b \in Backends
             PROVE  down[b] \o extra[b] \o sent(b) \in Seq((TrueDown)')
  BY <1>3
<1>4. down[b] \in Seq((TrueDown)')
  BY TrueStays, SeqMonotone DEF LanesTrue
<1>5. sent(b) \in Seq((TrueDown)')
  <2>1. share(b) \in SUBSET Runs /\ batch[b] \in NewestFirst(share(b))
    BY <1>2 DEF Batches
  <2>2. batch[b] \in Seq(share(b))
    <3> HIDE DEF share
    <3> QED
      BY <2>1, OrderingOnce
  <2>3. Len(batch[b]) \in Nat /\ \A i \in 1..Len(batch[b]) : batch[b][i] \in share(b)
    BY <2>2, LenProperties, ElementOfSeq
  <2>4. \A r \in share(b) : [type |-> "run", run |-> r, dom |-> place[r]] \in (TrueDown)'
    BY <1>2 DEF TrueDown, DownMsg
  <2> QED
    BY <2>3, <2>4, SeqDef
<1> QED
  BY <1>4, <1>5, ConcatProperties

\* What completing runs tells clients and backends is true, if the report is.
LEMMA CompleteRunsTrue ==
    ASSUME TypeOK, LanesTrue, \A r \in Runs : RunTrue(r), UNCHANGED <<code, exit, outcome>>,
           NEW S \in SUBSET Runs, NEW state, NEW ev \in {"done", "failed", "killed", "disconnect"},
           ev = "done" => \A r \in S : outcome[r] = "done",
           NEW bs, NEW P \in SUBSET Runs, NEW V \in SUBSET Doms,
           CompleteRuns(S, state, ev, bs, P, V)
    PROVE  /\ \A r \in Runs : Goes(r)
           /\ down' \in [Backends -> Seq((TrueDown)')]
<1> DEFINE note == CompletionNote(S, ev)
<1>1. PICK order \in SetToSeqs(Profiled(S)) :
        Reconcile(P, Completed(S, state), V, note, Notices(bs, order))
  BY DEF CompleteRuns
<1>2. note \in [Runs -> Seq(Events)]
  BY CompletionNoteType DEF Events
<1>3. ASSUME NEW r \in Runs PROVE GoodNote(r, note[r])
  <2>1. note[r] = <<>> \/ (r \in S /\ note[r] \in {<<ev>>, <<ev, "complete">>})
    BY DEF CompletionNote, Finished
  <2>2. ASSUME r \in S, NEW s \in {<<ev>>, <<ev, "complete">>} PROVE GoodNote(r, s)
    <3>1. Len(s) \in {1, 2} /\ s[1] = ev
      BY <2>2
    <3>2. ev \in Bad \/ Settled(r)
      BY <2>2 DEF Bad, Settled
    <3>3. \A i \in 1..Len(s) : s[i] = "complete" => i = 2 /\ 1 \in 1..(i - 1)
      BY <3>1
    <3> QED
      BY <3>1, <3>2, <3>3 DEF GoodNote
  <2>3. GoodNote(r, <<>>)
    BY DEF GoodNote
  <2> QED
    BY <2>1, <2>2, <2>3
<1>4. \A r \in Profiled(S) : r \in Runs /\ r \in S /\ note[r] = <<ev>>
  BY DEF CompletionNote, Profiled, Finished
<1> HIDE DEF note
<1>5. /\ \A r \in Runs : Goes(r)
      /\ \A r \in Runs : (\E j \in 1..Len(note[r]) : note[r][j] \in Bad) => Settled(r)'
  BY <1>1, <1>2, <1>3, ReconcileTrue
<1>6. ASSUME NEW r \in Profiled(S) PROVE Settled(r)'
  <2>1. CASE ev \in Bad
    <3> DEFINE s == note[r]
    <3>1. s = <<ev>> /\ r \in Runs
      BY <1>4
    <3> HIDE DEF s
    <3>2. Len(s) = 1 /\ s[1] = ev
      BY <3>1
    <3>3. \E j \in 1..Len(s) : s[j] \in Bad
      BY <2>1, <3>2
    <3> QED
      BY <1>5, <3>1, <3>3 DEF s
  <2>2. CASE ev \notin Bad
    BY <1>4, <1>5, <2>2 DEF Bad, Settled, Goes
  <2> QED
    BY <2>1, <2>2
<1>7. order \in Seq(Profiled(S))
  BY <1>4, OrderingType
<1>8. Len(order) \in Nat /\ \A i \in 1..Len(order) : order[i] \in Profiled(S)
  BY <1>7, LenProperties, ElementOfSeq
<1>9. \A i \in 1..Len(order) : [type |-> "completed", run |-> order[i]] \in (TrueDown)'
  BY <1>4, <1>6, <1>8 DEF TrueDown, DownMsg
<1>10. /\ [i \in 1..Len(order) |-> [type |-> "completed", run |-> order[i]]] \in Seq((TrueDown)')
       /\ <<>> \in Seq((TrueDown)')
  BY <1>8, <1>9, SeqDef
<1>11. Notices(bs, order) \in [Backends -> Seq((TrueDown)')]
  BY <1>10 DEF Notices
<1> HIDE DEF Reconcile
<1> QED
  BY <1>1, <1>5, <1>11, ReconcileTrueDown

\* What a handler reads leaves the stream, and the rest is as true as it was.
LEMMA HandlerLanes ==
    ASSUME TypeOK, LanesTrue, \A r \in Runs : Goes(r), down' \in [Backends -> Seq((TrueDown)')],
           UNCHANGED <<relay, flushing>>, NEW b \in Backends,
           (Consume(b) /\ out[b] # <<>>) \/ out' = [out EXCEPT ![b] = <<>>]
    PROVE  LanesTrue'
<1>1. /\ relay \in [Backends -> Seq((TrueUp)')] /\ out \in [Backends -> Seq((TrueUp)')]
      /\ \A p \in flushing : Settled(p[2])'
  BY LanesStay DEF TypeOK, BackendType
<1>2. CASE Consume(b) /\ out[b] # <<>>
  <2>1. out' \in [Backends -> Seq((TrueUp)')]
    BY <1>1, <1>2, TailQueue DEF Consume
  <2> QED
    BY <1>1, <2>1 DEF LanesTrue
<1>3. CASE out' = [out EXCEPT ![b] = <<>>]
  <2>1. out' \in [Backends -> Seq((TrueUp)')]
    BY <1>1, <1>3
  <2> QED
    BY <1>1, <2>1 DEF LanesTrue
<1> QED
  BY <1>2, <1>3

\* The head of a stream is true.
LEMMA HeadTrue ==
    ASSUME LanesTrue, NEW b \in Backends, out[b] # <<>>
    PROVE  Head(out[b]) \in TrueUp
<1>1. out[b] \in Seq(TrueUp)
  BY DEF LanesTrue
<1> QED
  BY <1>1, HeadTailProperties

LEMMA NothingSaid ==
    /\ Silent \in [Runs -> Seq(Events)] /\ \A r \in Runs : GoodNote(r, Silent[r])
    /\ NoExtra \in [Backends -> Seq((TrueDown)')]
<1>1. <<>> \in Seq(Events) /\ <<>> \in Seq((TrueDown)')
  OBVIOUS
<1>2. \A r \in Runs : GoodNote(r, <<>>)
  BY DEF GoodNote
<1> QED
  BY <1>1, <1>2 DEF Silent, NoExtra

\* Every handler of the master tells clients and backends what is true.
LEMMA MasterTrue ==
    ASSUME TypeOK, LanesTrue, \A r \in Runs : RunTrue(r), NEW b \in Backends,
           MasterStep(b) \/ BackendLost(b)
    PROVE  LanesTrue' /\ \A r \in Runs : Goes(r)
<1> DEFINE V == View(backends, snap)
           Says == (\A r \in Runs : Goes(r)) /\ down' \in [Backends -> Seq((TrueDown)')]
<1>1. /\ V \in SUBSET Doms /\ pending \in SUBSET Runs
      /\ Silent \in [Runs -> Seq(Events)] /\ \A r \in Runs : GoodNote(r, Silent[r])
      /\ NoExtra \in [Backends -> Seq((TrueDown)')]
  BY ViewType, NothingSaid DEF TypeOK, MasterType
<1>2. UNCHANGED <<relay, flushing, code, exit, outcome>>
  BY DEF MasterStep, HandleNudge, HandleDomDisconnect, HandleFinished, HandleSnapshot,
         HandleFiles, BackendLost, HandlerFrame, clientVars, backendVars, pluginVars
<1>3. (Consume(b) /\ out[b] # <<>>) \/ out' = [out EXCEPT ![b] = <<>>]
  BY DEF MasterStep, HandleNudge, HandleDomDisconnect, HandleFinished, HandleSnapshot,
         HandleFiles, BackendLost, Arrived
<1>4. Says => LanesTrue' /\ \A r \in Runs : Goes(r)
  BY <1>2, <1>3, HandlerLanes
<1>5. ASSUME NEW W \in SUBSET Doms, Reconcile(pending, active, W, Silent, NoExtra) PROVE Says
  <2>1. \A r \in Runs : Goes(r)
    BY <1>1, <1>2, <1>5, ReconcileTrue
  <2> QED
    BY <1>1, <1>5, <2>1, ReconcileTrueDown
<1>6. UNCHANGED <<events, down>> => Says
  <2>1. ASSUME UNCHANGED <<events, down>> PROVE Says
    <3>1. \A r \in Runs : Goes(r)
      BY <1>2, <2>1, QuietGoes
    <3>2. down' \in [Backends -> Seq((TrueDown)')]
      BY <2>1, <3>1, LanesStay DEF TypeOK, BackendType
    <3> QED
      BY <3>1, <3>2
  <2> QED
    BY <2>1
<1> HIDE DEF Says
<1>7. CASE HandleNudge(b)
  <2>1. Reconcile(pending, active, V, Silent, NoExtra)
    BY <1>7 DEF HandleNudge
  <2> HIDE DEF V
  <2> QED
    BY <1>1, <1>4, <1>5, <2>1
<1>8. CASE HandleSnapshot(b)
  <2>1. Reconcile(pending, active, View(backends, snap'), Silent, NoExtra)
    BY <1>8 DEF HandleSnapshot
  <2>2. Head(out[b]).doms \in SUBSET Doms
    BY <1>8, ConsumeType DEF HandleSnapshot, Arrived, UpMsg
  <2>3. snap' \in [Backends -> SUBSET Doms]
    BY <1>8, <2>2 DEF HandleSnapshot, TypeOK, MasterType
  <2>4. View(backends, snap') \in SUBSET Doms
    BY <2>3 DEF View, TypeOK, MasterType
  <2> QED
    BY <1>4, <1>5, <2>1, <2>4
<1>9. CASE HandleDomDisconnect(b)
  <2> DEFINE d == Head(out[b]).dom
             swept == {r \in Runs : active[r] # None /\ active[r].dom = d}
             drained == IF swept = {} THEN {} ELSE DeadSession(request, pending, V)
             waiting == {r \in pending \ drained : request[r].dom = d}
  <2>1. CompleteRuns(swept, "killed", "disconnect", backends, pending \ waiting, V)
    BY <1>9 DEF HandleDomDisconnect
  <2>2. swept \in SUBSET Runs /\ pending \ waiting \in SUBSET Runs
    BY <1>1
  <2> HIDE DEF swept, waiting, V
  <2> QED
    BY <1>1, <1>2, <1>4, <2>1, <2>2, CompleteRunsTrue DEF Says
<1>10. CASE HandleFinished(b)
  <2> DEFINE m == Head(out[b])
  <2>1. /\ m.type \in {"done", "failed", "killed"}
        /\ CompleteRuns({m.run}, FinalState(m.type), m.type, backends, pending, V)
    BY <1>10 DEF HandleFinished
  <2>2. m \in TrueUp
    BY <1>10, HeadTrue DEF HandleFinished
  <2>3. m.run \in Runs /\ (m.type = "done" => outcome[m.run] = "done")
    BY <2>1, <2>2 DEF TrueUp, UpMsg
  <2> DEFINE ended == {m.run}
             ev == m.type
             state == FinalState(m.type)
  <2>4. /\ ended \in SUBSET Runs /\ (ev = "done" => \A r \in ended : outcome[r] = "done")
        /\ ev \in {"done", "failed", "killed", "disconnect"}
        /\ CompleteRuns(ended, state, ev, backends, pending, V)
    BY <2>1, <2>3
  <2> HIDE DEF V, ended, ev, state
  <2> QED
    BY <1>1, <1>2, <1>4, <2>4, CompleteRunsTrue DEF Says
<1>11. CASE HandleFiles(b)
  <2> DEFINE r == Head(out[b]).run
  <2>1. Head(out[b]) \in TrueUp /\ Head(out[b]).type = "files" /\ down' = down
    BY <1>11, HeadTrue DEF HandleFiles, Arrived
  <2>2. r \in Runs /\ Settled(r)
    BY <2>1 DEF TrueUp, UpMsg
  <2>3. events' = [events EXCEPT ![r] = IF active[r] # None THEN Told(r, <<"complete">>) ELSE @]
    BY <1>11 DEF HandleFiles
  <2>4. <<"complete">> \in Seq(Events)
    BY DEF Events
  <2> HIDE DEF r
  <2>5. GoodNote(r, <<"complete">>)
    BY <2>2 DEF GoodNote
  <2>6. ASSUME NEW u \in Runs PROVE Goes(u)
    <3>1. \/ events'[u] = events[u]
          \/ u = r /\ events'[u] = Told(u, <<"complete">>)
      BY <2>2, <2>3 DEF TypeOK, ChanType
    <3>2. CASE events'[u] = events[u]
      BY <1>2, <3>2, QuietGoes
    <3>3. CASE u = r /\ events'[u] = Told(u, <<"complete">>)
      BY <1>2, <2>4, <2>5, <3>3, ToldGoes
    <3> QED
      BY <3>1, <3>2, <3>3
  <2>7. down' \in [Backends -> Seq((TrueDown)')]
    BY <2>1, <2>6, LanesStay DEF TypeOK, BackendType
  <2> QED
    BY <1>4, <2>6, <2>7 DEF Says
<1>12. CASE BackendLost(b)
  <2> DEFINE W == View(backends', snap)
             orphaned == {r \in Runs : active[r] # None /\ active[r].dom \notin W}
  <2>1. \/ UNCHANGED <<events, down>>
        \/ CompleteRuns(orphaned, "killed", "disconnect", backends', pending, W)
    BY <1>12 DEF BackendLost
  <2>2. W \in SUBSET Doms /\ orphaned \in SUBSET Runs
    BY <1>12 DEF BackendLost, View, TypeOK, MasterType
  <2> HIDE DEF W, orphaned
  <2> QED
    BY <1>1, <1>2, <1>4, <1>6, <2>1, <2>2, CompleteRunsTrue DEF Says
<1> QED
  BY <1>7, <1>8, <1>9, <1>10, <1>11, <1>12 DEF MasterStep

\* A submission is told it exists, and of its session's end as others are.
LEMMA SubmitTrue ==
    ASSUME TypeOK, LanesTrue, \A r \in Runs : RunTrue(r), NEW u \in Runs, Submit(u)
    PROVE  LanesTrue' /\ \A r \in Runs : Goes(r)
<1> DEFINE V == View(backends, snap)
           made == [Silent EXCEPT ![u] = <<"created">>]
<1>1. /\ V \in SUBSET Doms /\ pending \cup {u} \in SUBSET Runs
      /\ Silent \in [Runs -> Seq(Events)] /\ \A r \in Runs : GoodNote(r, Silent[r])
      /\ NoExtra \in [Backends -> Seq((TrueDown)')]
  BY ViewType, NothingSaid DEF TypeOK, MasterType
<1>2. UNCHANGED <<relay, out, flushing, code, exit, outcome>>
  BY DEF Submit, backendVars, pluginVars
<1>3. <<"created">> \in Seq(Events) /\ GoodNote(u, <<"created">>)
  BY DEF Events, GoodNote
<1>4. made \in [Runs -> Seq(Events)] /\ \A r \in Runs : GoodNote(r, made[r])
  BY <1>1, <1>3
<1>5. \/ /\ \E d \in V : SendToDom(d, "run", u)
         /\ events' = [events EXCEPT ![u] = Told(u, <<"created">>)]
      \/ Reconcile(pending \cup {u}, active, V, made, NoExtra)
  BY DEF Submit
<1> HIDE DEF V, made
<1>6. ASSUME \A r \in Runs : Goes(r), down' \in [Backends -> Seq((TrueDown)')]
      PROVE  LanesTrue'
  BY <1>2, <1>6, LanesStay DEF LanesTrue, TypeOK, BackendType
<1>7. CASE Reconcile(pending \cup {u}, active, V, made, NoExtra)
  <2>1. \A r \in Runs : Goes(r)
    BY <1>1, <1>2, <1>4, <1>7, ReconcileTrue
  <2>2. down' \in [Backends -> Seq((TrueDown)')]
    BY <1>1, <1>7, <2>1, ReconcileTrueDown
  <2> QED
    BY <1>6, <2>1, <2>2
<1>8. CASE /\ \E d \in V : SendToDom(d, "run", u)
           /\ events' = [events EXCEPT ![u] = Told(u, <<"created">>)]
  <2>1. ASSUME NEW r \in Runs PROVE Goes(r)
    <3>1. \/ events'[r] = events[r]
          \/ r = u /\ events'[r] = Told(r, <<"created">>)
      BY <1>8 DEF TypeOK, ChanType
    <3>2. CASE events'[r] = events[r]
      BY <1>2, <3>2, QuietGoes
    <3>3. CASE r = u /\ events'[r] = Told(r, <<"created">>)
      BY <1>2, <1>3, <3>3, ToldGoes
    <3> QED
      BY <3>1, <3>2, <3>3
  <2>2. PICK d \in V : SendToDom(d, "run", u)
    BY <1>8
  <2>3. down \in [Backends -> Seq((TrueDown)')]
    BY <2>1, LanesStay DEF TypeOK, BackendType
  <2>4. [type |-> "run", run |-> u, dom |-> d] \in (TrueDown)'
    BY <1>1 DEF TrueDown, DownMsg
  <2>5. down' \in [Backends -> Seq((TrueDown)')]
    BY <1>1, <2>2, <2>3, <2>4, AppendQueue, DomsAssumption DEF SendToDom
  <2> QED
    BY <1>6, <2>1, <2>5
<1> QED
  BY <1>5, <1>7, <1>8

\* The client is gone, and exited 0 only after a success; or it still listens.
LEMMA LeaveGoes ==
    ASSUME NEW r \in Runs, outcome'[r] = outcome[r], events'[r] = <<>>, exit'[r] # "open",
           exit'[r] = "ok" => outcome[r] = "done"
    PROVE  Goes(r)
  BY DEF Goes, RunTrue, Honest, Settled

LEMMA ListenGoes ==
    ASSUME NEW r \in Runs, RunTrue(r), outcome'[r] = outcome[r], exit'[r] = exit[r], Honest(r)',
           Settled(r) => Settled(r)'
    PROVE  Goes(r)
  BY DEF Goes, RunTrue

\* The client reads what is true, or its end of the run is over.
LEMMA ClientTrue ==
    ASSUME TypeOK, LanesTrue, \A r \in Runs : RunTrue(r), NEW u \in Runs,
           ClientStep(u) \/ ClientDrop(u) \/ Reject(u)
    PROVE  LanesTrue' /\ \A r \in Runs : Goes(r)
<1>1. UNCHANGED <<relay, out, down, flushing, outcome>>
  BY DEF ClientStep, ClientReceive, ClientStreamEnd, ClientDrop, Reject, backendVars, pluginVars
<1>2. /\ events \in [Runs -> Seq(Events)] /\ code \in [Runs -> {0, 1}]
      /\ exit \in [Runs -> {"open", "ok", "fail", "lost", "dropped"}]
  BY DEF TypeOK, ChanType, ClientType
<1>3. \A r \in Runs \ {u} : events'[r] = events[r] /\ code'[r] = code[r] /\ exit'[r] = exit[r]
  BY <1>2 DEF ClientStep, ClientReceive, ClientStreamEnd, ClientDrop, Reject, Leave, clientVars
<1>4. \A r \in Runs \ {u} : Goes(r)
  BY <1>1, <1>3, QuietGoes
<1>5. ASSUME ClientReceive(u) PROVE Goes(u)
  <2> DEFINE ev == Head(events[u])
             q == events[u]
  <2>1. q # <<>> /\ q \in Seq(Events)
    BY <1>2, <1>5 DEF ClientReceive
  <2>2. /\ ev = q[1] /\ Len(q) \in Nat /\ Len(q) # 0 /\ Len(Tail(q)) = Len(q) - 1
        /\ \A i \in 1..Len(Tail(q)) : Tail(q)[i] = q[i + 1]
    BY <2>1, HeadTailProperties, LenProperties, EmptySeq
  <2>3. CASE ev = "complete"
    <3>1. outcome[u] = "done" \/ code[u] = 1
      BY <2>2, <2>3 DEF RunTrue, Honest
    <3>2. Leave(u, IF code[u] = 0 THEN "ok" ELSE "fail")
      BY <1>5, <2>3 DEF ClientReceive
    <3>3. events'[u] = <<>> /\ exit'[u] = IF code[u] = 0 THEN "ok" ELSE "fail"
      BY <1>2, <3>2 DEF Leave
    <3> HIDE DEF ev, q
    <3> QED
      BY <1>1, <3>1, <3>3, LeaveGoes
  <2>4. CASE ev = "disconnect"
    <3>1. events'[u] = <<>> /\ exit'[u] = "lost"
      BY <1>2, <1>5, <2>4 DEF ClientReceive, Leave
    <3> QED
      BY <1>1, <3>1, LeaveGoes
  <2>5. CASE ev \notin {"complete", "disconnect"}
    <3>1. /\ events'[u] = Tail(q) /\ exit'[u] = exit[u]
          /\ code'[u] = code[u] \/ code'[u] = 1
          /\ ev \in Bad => code'[u] = 1
      <4>1. \/ /\ ev \in {"created", "done"} /\ UNCHANGED <<code, exit>>
               /\ events' = [events EXCEPT ![u] = Tail(@)]
            \/ /\ ev \in {"failed", "killed"} /\ exit' = exit
               /\ code' = [code EXCEPT ![u] = 1]
               /\ events' = [events EXCEPT ![u] = Tail(@)]
        BY <1>5, <2>5 DEF ClientReceive
      <4> HIDE DEF ev
      <4> QED
        BY <1>2, <4>1 DEF Bad
    <3> HIDE DEF ev, q
    <3>2. Settled(u) => Settled(u)'
      <4>1. ASSUME NEW i \in 1..Len(q), q[i] \in Bad
            PROVE  code'[u] = 1 \/ \E j \in 1..Len(Tail(q)) : Tail(q)[j] \in Bad
        <5>1. CASE i = 1
          BY <2>2, <3>1, <4>1, <5>1
        <5>2. CASE i # 1
          <6>1. i - 1 \in 1..Len(Tail(q)) /\ i - 1 + 1 = i
            BY <2>2, <5>2
          <6> QED
            BY <2>2, <4>1, <6>1
        <5> QED
          BY <5>1, <5>2
      <4> QED
        BY <1>1, <3>1, <4>1 DEF Settled, q
    <3>3. ASSUME NEW i \in 1..Len(Tail(q)), Tail(q)[i] = "complete",
                 outcome[u] # "done", code'[u] # 1
          PROVE  \E j \in 1..(i - 1) : Tail(q)[j] \in Bad
      <4>1. i + 1 \in 1..Len(q) /\ q[i + 1] = "complete" /\ i + 1 - 1 = i
        BY <2>2, <3>3
      <4>2. PICK j \in 1..i : q[j] \in Bad
        BY <3>1, <3>3, <4>1 DEF RunTrue, Honest, q
      <4>3. j # 1
        BY <2>2, <3>1, <3>3, <4>2
      <4>4. j - 1 \in 1..(i - 1) /\ j - 1 \in 1..Len(Tail(q)) /\ j - 1 + 1 = j
        BY <2>2, <4>2, <4>3
      <4> QED
        BY <2>2, <4>2, <4>4
    <3>4. Honest(u)'
      BY <1>1, <3>1, <3>3 DEF Honest
    <3> QED
      BY <1>1, <1>3, <3>1, <3>2, <3>4, ListenGoes
  <2> QED
    BY <2>3, <2>4, <2>5
<1>6. ASSUME ClientStreamEnd(u) PROVE Goes(u)
  <2>1. events'[u] = <<>> /\ exit'[u] = "lost"
    BY <1>2, <1>6 DEF ClientStreamEnd, Leave
  <2> QED
    BY <1>1, <2>1, LeaveGoes
<1>7. ASSUME ClientDrop(u) PROVE Goes(u)
  <2>1. events'[u] = <<>> /\ exit'[u] = "dropped"
    BY <1>2, <1>7 DEF ClientDrop, Leave
  <2> QED
    BY <1>1, <2>1, LeaveGoes
<1>8. ASSUME Reject(u) PROVE Goes(u)
  <2> DEFINE q == <<"created", "disconnect">>
  <2>1. events'[u] = q /\ code' = code /\ exit' = exit
    BY <1>2, <1>8 DEF Reject, clientVars
  <2>2. Len(q) = 2 /\ q[1] = "created" /\ q[2] = "disconnect"
    OBVIOUS
  <2> HIDE DEF q
  <2>3. Settled(u)' /\ Honest(u)'
    BY <2>1, <2>2 DEF Settled, Honest, Bad
  <2> QED
    BY <1>1, <1>3, <2>1, <2>3, ListenGoes
<1>9. \A r \in Runs : Goes(r)
  BY <1>4, <1>5, <1>6, <1>7, <1>8 DEF ClientStep
<1>10. LanesTrue'
  BY <1>1, <1>9, LanesStay DEF LanesTrue, TypeOK, BackendType
<1> QED
  BY <1>9, <1>10

\* The report of a script that ends is true.
LEMMA ScriptEndTrue ==
    ASSUME TypeOK, LanesTrue, \A r \in Runs : RunTrue(r), ScriptsFresh,
           NEW d \in Doms, NEW t \in scripts[d], NEW how \in {"done", "failed"}, ScriptEnd(d, t, how)
    PROVE  LanesTrue' /\ \A r \in Runs : Goes(r)
<1> DEFINE m == [type |-> how, run |-> t.run]
<1>1. /\ t.run \in Runs /\ outcome \in [Runs -> {None, "done", "failed"}] /\ Home[d] \in Backends
  BY DomsAssumption DEF TypeOK, PluginType, Script
<1>2. /\ UNCHANGED <<out, down, flushing, events, code, exit>>
      /\ outcome' = [outcome EXCEPT ![t.run] = how]
      /\ relay' = relay \/ relay' = [relay EXCEPT ![Home[d]] = Append(@, m)]
  BY DEF ScriptEnd, backendVars, clientVars
<1>3. outcome[t.run] = None
  BY DEF ScriptsFresh
<1>4. ASSUME NEW r \in Runs, outcome[r] = "done" PROVE outcome'[r] = "done"
  <2>1. CASE r # t.run
    BY <1>1, <1>2, <1>4, <2>1
  <2>2. CASE r = t.run
    BY <1>1, <1>2, <1>3, <1>4, <2>2, NoneAssumption
  <2> QED
    BY <2>1, <2>2
<1>5. \A r \in Runs : Goes(r)
  BY <1>2, <1>4 DEF Goes, RunTrue, Honest, Settled
<1>6. m \in (TrueUp)'
  BY <1>1, <1>2 DEF TrueUp, UpMsg
<1>7. /\ relay \in [Backends -> Seq((TrueUp)')] /\ out \in [Backends -> Seq((TrueUp)')]
      /\ down \in [Backends -> Seq((TrueDown)')]
      /\ \A p \in flushing : Settled(p[2])'
  BY <1>5, LanesStay DEF TypeOK, BackendType
<1> HIDE DEF m
<1>8. relay' \in [Backends -> Seq((TrueUp)')]
  <2> DEFINE b == Home[d]
             sent == [relay EXCEPT ![b] = Append(@, m)]
  <2>1. sent \in [Backends -> Seq((TrueUp)')]
    BY <1>1, <1>6, <1>7, AppendQueue
  <2> QED
    BY <1>2, <1>7, <2>1
<1> QED
  BY <1>2, <1>5, <1>7, <1>8 DEF LanesTrue

\* Nothing is told: what moves on the lanes is as true as it was.
LEMMA QuietLanes ==
    ASSUME TypeOK, LanesTrue, UNCHANGED <<events, code, exit, outcome>>,
           \/ \E r \in Runs : Kill(r) \/ ReaderEnd(r)
           \/ \E g \in Guids : Close(g)
           \/ \E b \in Backends : \/ Forward(b) \/ BackendReceive(b) \/ TakeSnapshot(b)
                                  \/ BackendCrash(b) \/ \E r \in Runs : FilesDone(b, r)
           \/ \E d \in Doms : \/ Dial(d) \/ Die(d) \/ PluginReceive(d)
                              \/ \E c \in loops[d] : LoopEnd(d, c)
           \/ UNCHANGED <<relay, out, down, flushing>>
    PROVE  LanesTrue'
<1> DEFINE Lanes == /\ relay' \in [Backends -> Seq(TrueUp)]
                    /\ out' \in [Backends -> Seq(TrueUp)]
                    /\ down' \in [Backends -> Seq(TrueDown)]
                    /\ \A p \in flushing' : Settled(p[2])
<1>1. (TrueUp)' = TrueUp /\ (TrueDown)' = TrueDown /\ \A r : Settled(r)' = Settled(r)
  BY DEF TrueUp, TrueDown, Settled
<1>2. Lanes => LanesTrue'
  BY <1>1 DEF LanesTrue
<1>3. /\ relay \in [Backends -> Seq(TrueUp)] /\ out \in [Backends -> Seq(TrueUp)]
      /\ down \in [Backends -> Seq(TrueDown)] /\ \A p \in flushing : Settled(p[2])
  BY DEF LanesTrue
<1> HIDE DEF Lanes
<1>4. ASSUME NEW r \in Runs, Kill(r) \/ ReaderEnd(r) PROVE LanesTrue'
  <2>1. /\ UNCHANGED <<relay, out, flushing>>
        /\ down' = down \/ (active[r] # None /\ SendToDom(active[r].dom, "kill", r))
    BY <1>4 DEF Kill, ReaderEnd, backendVars
  <2>2. active[r] # None => active[r].dom \in Doms
    BY DEF TypeOK, MasterType, ActiveRun
  <2>3. CASE active[r] # None /\ SendToDom(active[r].dom, "kill", r)
    <3> DEFINE d == active[r].dom
               m == [type |-> "kill", run |-> r, dom |-> d]
               n == Home[d]
    <3>1. m \in TrueDown /\ n \in Backends
      BY <2>2, <2>3, DomsAssumption DEF TrueDown, DownMsg
    <3>2. [down EXCEPT ![n] = Append(@, m)] \in [Backends -> Seq(TrueDown)]
      <4> HIDE DEF m, n
      <4> QED
        BY <1>3, <3>1, AppendQueue
    <3> QED
      BY <1>2, <1>3, <2>1, <2>3, <3>2 DEF SendToDom, Lanes
  <2> QED
    BY <1>2, <1>3, <2>1, <2>3 DEF Lanes
<1>5. ASSUME NEW g \in Guids, Close(g) PROVE LanesTrue'
  <2> DEFINE m == [type |-> "close", guid |-> g]
  <2>1. PICK b \in backends : down' = [down EXCEPT ![b] = Append(@, m)]
    BY <1>5 DEF Close
  <2>2. UNCHANGED <<relay, out, flushing>> /\ b \in Backends
    BY <1>5 DEF Close, backendVars, TypeOK, MasterType
  <2>3. m \in TrueDown
    BY DEF TrueDown, DownMsg
  <2> HIDE DEF m
  <2>4. down' \in [Backends -> Seq(TrueDown)]
    BY <1>3, <2>1, <2>2, <2>3, AppendQueue
  <2> QED
    BY <1>2, <1>3, <2>2, <2>4 DEF Lanes
<1>6. ASSUME NEW b \in Backends, NEW m \in TrueUp, UNCHANGED <<down, flushing>>,
             relay' = relay \/ (relay[b] # <<>> /\ relay' = [relay EXCEPT ![b] = Tail(@)]),
             out' = [out EXCEPT ![b] = Append(@, m)]
      PROVE  LanesTrue'
  <2>1. out' \in [Backends -> Seq(TrueUp)]
    BY <1>3, <1>6, AppendQueue
  <2>2. relay' \in [Backends -> Seq(TrueUp)]
    <3>1. relay[b] # <<>> => [relay EXCEPT ![b] = Tail(@)] \in [Backends -> Seq(TrueUp)]
      BY <1>3, TailQueue
    <3> QED
      BY <1>3, <1>6, <3>1
  <2> QED
    BY <1>2, <1>3, <1>6, <2>1, <2>2 DEF Lanes
<1>7. ASSUME NEW b \in Backends, Forward(b) PROVE LanesTrue'
  <2>1. Head(relay[b]) \in TrueUp
    BY <1>3, <1>7, TailQueue DEF Forward
  <2> QED
    BY <1>6, <1>7, <2>1 DEF Forward, backendVars
<1>8. ASSUME NEW b \in Backends, TakeSnapshot(b) PROVE LanesTrue'
  <2>1. [type |-> "snapshot", doms |-> Entries(b)] \in TrueUp
    BY DEF TrueUp, UpMsg, Entries
  <2> QED
    BY <1>6, <1>8, <2>1 DEF TakeSnapshot, backendVars
<1>9. ASSUME NEW b \in Backends, NEW r \in Runs, FilesDone(b, r) PROVE LanesTrue'
  <2> DEFINE m == [type |-> "files", run |-> r]
  <2>1. /\ flushing' = flushing \ {<<b, r>>} /\ UNCHANGED <<relay, down>>
        /\ out' = [out EXCEPT ![b] = Append(@, m)]
        /\ <<b, r>> \in flushing
    BY <1>9 DEF FilesDone
  <2>2. Settled(r)
    BY <1>3, <2>1
  <2>3. m \in TrueUp
    BY <2>2 DEF TrueUp, UpMsg
  <2> HIDE DEF m
  <2>4. out' \in [Backends -> Seq(TrueUp)]
    BY <1>3, <2>1, <2>3, AppendQueue
  <2> QED
    BY <1>2, <1>3, <2>1, <2>4 DEF Lanes
<1>10. ASSUME NEW b \in Backends, BackendReceive(b) PROVE LanesTrue'
  <2> DEFINE m == Head(down[b])
  <2>1. m \in TrueDown /\ down' \in [Backends -> Seq(TrueDown)]
    BY <1>3, <1>10, TailQueue DEF BackendReceive
  <2>2. out' = out
    BY <1>10 DEF BackendReceive
  <2>3. CASE m.type \in {"run", "kill"}
    <3>1. UNCHANGED <<relay, flushing>>
      BY <1>10, <2>3 DEF BackendReceive
    <3> QED
      BY <1>2, <1>3, <2>1, <2>2, <3>1 DEF Lanes
  <2>4. CASE m.type = "completed"
    <3>1. relay' = relay /\ flushing' \subseteq flushing \cup {<<b, m.run>>}
      BY <1>10, <2>4 DEF BackendReceive
    <3>2. Settled(m.run)
      BY <2>1, <2>4 DEF TrueDown
    <3> HIDE DEF m
    <3>3. \A p \in flushing' : Settled(p[2])
      BY <1>3, <3>1, <3>2
    <3> QED
      BY <1>2, <1>3, <2>1, <2>2, <3>1, <3>3 DEF Lanes
  <2>5. CASE m.type = "close"
    <3> DEFINE dying == {d \in Entries(b) : Guid[d] = m.guid}
               told(o) == [i \in 1..Len(o) |-> [type |-> "disconnect", dom |-> o[i]]]
    <3>1. flushing' = flushing
      BY <1>10, <2>5 DEF BackendReceive
    <3>2. PICK order \in SetToSeqs(dying) : relay' = [relay EXCEPT ![b] = @ \o told(order)]
      BY <1>10, <2>5 DEF BackendReceive
    <3>3. dying \subseteq Doms
      BY DEF Entries
    <3> HIDE DEF dying
    <3>4. /\ Len(order) \in Nat /\ \A i \in 1..Len(order) : order[i] \in Doms
      <4>1. IsFiniteSet(dying)
        BY <3>3, FS_Subset, DomsAssumption
      <4>2. Cardinality(dying) \in Nat
        BY <4>1, FS_CardinalityType
      <4>3. order \in Seq(dying)
        BY <4>2, SeqDef DEF SetToSeqs
      <4> QED
        BY <3>3, <4>3, LenProperties, ElementOfSeq
    <3>5. \A i \in 1..Len(order) : [type |-> "disconnect", dom |-> order[i]] \in TrueUp
      BY <3>4 DEF TrueUp, UpMsg
    <3>6. told(order) \in Seq(TrueUp)
      BY <3>4, <3>5, SeqDef
    <3> HIDE DEF told
    <3>7. relay[b] \o told(order) \in Seq(TrueUp)
      BY <1>3, <3>6, ConcatProperties
    <3>8. relay' \in [Backends -> Seq(TrueUp)]
      BY <1>3, <3>2, <3>7
    <3> QED
      BY <1>2, <1>3, <2>1, <2>2, <3>1, <3>8 DEF Lanes
  <2> QED
    BY <1>10, <2>3, <2>4, <2>5 DEF BackendReceive
<1>11. ASSUME NEW b \in Backends, BackendCrash(b) PROVE LanesTrue'
  <2>1. /\ relay' = [relay EXCEPT ![b] = <<>>] /\ down' = [down EXCEPT ![b] = <<>>]
        /\ flushing' \subseteq flushing /\ out' = out
    BY <1>11 DEF BackendCrash
  <2>2. relay' \in [Backends -> Seq(TrueUp)] /\ down' \in [Backends -> Seq(TrueDown)]
    BY <1>3, <2>1
  <2> QED
    BY <1>2, <1>3, <2>1, <2>2 DEF Lanes
<1>12. ASSUME NEW b \in Backends, NEW m \in TrueUp, UNCHANGED <<down, flushing, out>>,
              relay' = [relay EXCEPT ![b] = Append(@, m)]
       PROVE  LanesTrue'
  <2>1. relay' \in [Backends -> Seq(TrueUp)]
    BY <1>3, <1>12, AppendQueue
  <2> QED
    BY <1>2, <1>3, <1>12, <2>1 DEF Lanes
<1>13. ASSUME NEW d \in Doms, Dial(d) \/ \E c \in loops[d] : LoopEnd(d, c) PROVE LanesTrue'
  <2>1. Home[d] \in Backends
    BY DomsAssumption
  <2>2. [type |-> "connect", dom |-> d] \in TrueUp /\ [type |-> "disconnect", dom |-> d] \in TrueUp
    BY DEF TrueUp, UpMsg
  <2>3. /\ UNCHANGED <<down, flushing, out>>
        /\ \/ relay' = [relay EXCEPT ![Home[d]] = Append(@, [type |-> "connect", dom |-> d])]
           \/ relay' = [relay EXCEPT ![Home[d]] = Append(@, [type |-> "disconnect", dom |-> d])]
    BY <1>13 DEF Dial, LoopEnd
  <2> QED
    BY <1>12, <2>1, <2>2, <2>3
<1>14. ASSUME NEW d \in Doms, Die(d) PROVE LanesTrue'
  <2>1. /\ UNCHANGED <<relay, down, flushing>>
        /\ \/ out' = out
           \/ out' = [out EXCEPT ![Home[d]] = Append(@, [type |-> "exited", guid |-> Guid[d]])]
    BY <1>14 DEF Die, backendVars
  <2>2. Home[d] \in Backends /\ [type |-> "exited", guid |-> Guid[d]] \in TrueUp
    BY DomsAssumption DEF TrueUp, UpMsg
  <2>3. CASE out' = out
    BY <1>2, <1>3, <2>1, <2>3 DEF Lanes
  <2> QED
    BY <1>6, <2>1, <2>2, <2>3
<1>15. ASSUME NEW d \in Doms, PluginReceive(d) PROVE LanesTrue'
  <2> DEFINE r == Head(inbox[d]).run
             m == [type |-> "killed", run |-> r]
  <2>1. /\ UNCHANGED <<out, down, flushing>>
        /\ relay' = relay \/ relay' = [relay EXCEPT ![Home[d]] = @ \o <<m>>]
    BY <1>15 DEF PluginReceive, KillAck, backendVars
  <2>2. /\ inbox[d] \in Seq(InboxMsg) /\ inbox[d] # <<>> /\ Home[d] \in Backends
    BY <1>15, DomsAssumption DEF PluginReceive, TypeOK, ChanType
  <2>3. Head(inbox[d]) \in InboxMsg
    BY <2>2, HeadTailProperties
  <2>4. m \in TrueUp
    BY <2>3 DEF InboxMsg, TrueUp, UpMsg
  <2> HIDE DEF m
  <2>5. <<m>> \in Seq(TrueUp) /\ relay[Home[d]] \in Seq(TrueUp)
    BY <1>3, <2>2, <2>4
  <2>6. relay[Home[d]] \o <<m>> \in Seq(TrueUp)
    BY <2>5, ConcatProperties
  <2>7. relay' \in [Backends -> Seq(TrueUp)]
    BY <1>3, <2>1, <2>2, <2>6
  <2> QED
    BY <1>2, <1>3, <2>1, <2>7 DEF Lanes
<1>16. ASSUME UNCHANGED <<relay, out, down, flushing>> PROVE LanesTrue'
  BY <1>2, <1>3, <1>16 DEF Lanes
<1> QED
  BY <1>4, <1>5, <1>7, <1>8, <1>9, <1>10, <1>11, <1>13, <1>14, <1>15, <1>16

\* A plugin starts only scripts that never ran; an ended one is gone.
LEMMA FreshStep ==
    ASSUME TypeOK, ChosenOnce, WireRight, OnceInv, ScriptsFresh, [Next]_vars
    PROVE  ScriptsFresh'
<1>1. /\ scripts \in [Doms -> SUBSET Script] /\ outcome \in [Runs -> {None, "done", "failed"}]
      /\ begun \subseteq Runs
  BY DEF TypeOK, PluginType
<1>2. ASSUME UNCHANGED <<outcome, begun>>, \A d \in Doms : scripts'[d] \subseteq scripts[d]
      PROVE  ScriptsFresh'
  BY <1>2 DEF ScriptsFresh
<1>3. ASSUME NEW e \in Doms, PluginReceive(e) PROVE ScriptsFresh'
  <2> DEFINE m == Head(inbox[e])
             new == [run |-> m.run, conn |-> sock[e]]
  <2>1. inbox[e] \in Seq(RightInbox(e)) /\ inbox[e] # <<>>
    BY <1>3 DEF WireRight, PluginReceive
  <2>2. m \in RightInbox(e) /\ m = inbox[e][1] /\ 1 \in 1..Len(inbox[e])
    BY <2>1, HeadTailProperties, LenProperties, EmptySeq
  <2>3. \/ /\ m.type = "run" /\ begun' = begun \cup {m.run}
           /\ scripts' = [scripts EXCEPT ![e] = @ \cup {new}]
        \/ begun' = begun /\ scripts' = [scripts EXCEPT ![e] = Survivors(e, m.run)]
    BY <1>3 DEF PluginReceive
  <2>4. outcome' = outcome /\ Survivors(e, m.run) \subseteq scripts[e] /\ m.run \in Runs
    BY <1>3, <2>2 DEF PluginReceive, Survivors, RightInbox, InboxMsg
  <2>5. m.type = "run" => OnInbox(e, 1, m.run)
    BY <2>2 DEF OnInbox, RunAt
  <2>6. m.type = "run" => m.run \notin begun
    BY <2>5 DEF OnceInv, NotAgain
  <2>7. new.run = m.run
    OBVIOUS
  <2> HIDE DEF m, new
  <2>8. CASE begun' = begun /\ scripts' = [scripts EXCEPT ![e] = Survivors(e, m.run)]
    <3>1. \A d \in Doms : scripts'[d] \subseteq scripts[d]
      BY <1>1, <2>4, <2>8
    <3> QED
      BY <1>2, <2>4, <2>8, <3>1
  <2>9. CASE /\ m.type = "run" /\ begun' = begun \cup {m.run}
             /\ scripts' = [scripts EXCEPT ![e] = @ \cup {new}]
    <3>1. outcome[m.run] = None
      BY <2>4, <2>6, <2>9 DEF ScriptsFresh
    <3>2. \A d \in Doms : \A t \in scripts[d] : t.run # m.run
      BY <2>6, <2>9 DEF OnceInv, ScriptsBegun
    <3>3. \A d \in Doms : \A t \in scripts'[d] : t \in scripts[d] \/ (d = e /\ t = new)
      BY <1>1, <2>9
    <3>4. \A d \in Doms : \A t \in scripts'[d] : outcome'[t.run] = None
      BY <2>4, <2>7, <3>1, <3>3 DEF ScriptsFresh
    <3>5. ASSUME NEW d \in Doms, NEW c \in Doms, NEW t \in scripts'[d], NEW u \in scripts'[c], t.run = u.run
          PROVE  d = c /\ t = u
      <4>1. (t \in scripts[d] \/ (d = e /\ t = new)) /\ (u \in scripts[c] \/ (c = e /\ u = new))
        BY <3>3
      <4>2. CASE t \in scripts[d] /\ u \in scripts[c]
        BY <3>5, <4>2 DEF ScriptsFresh
      <4>3. CASE t \in scripts[d] /\ u = new
        BY <2>7, <3>2, <3>5, <4>3
      <4>4. CASE t = new /\ u \in scripts[c]
        BY <2>7, <3>2, <3>5, <4>4
      <4>5. CASE d = e /\ t = new /\ c = e /\ u = new
        BY <4>5
      <4> QED
        BY <4>1, <4>2, <4>3, <4>4, <4>5
    <3>6. \A r \in Runs : outcome'[r] # None => r \in begun'
      BY <2>4, <2>9 DEF ScriptsFresh
    <3> QED
      BY <3>4, <3>5, <3>6 DEF ScriptsFresh
  <2> QED
    BY <2>3, <2>8, <2>9
<1>4. ASSUME NEW e \in Doms, NEW t \in scripts[e], NEW how \in {"done", "failed"}, ScriptEnd(e, t, how)
      PROVE  ScriptsFresh'
  <2>1. /\ scripts' = [scripts EXCEPT ![e] = @ \ {t}] /\ begun' = begun
        /\ outcome' = [outcome EXCEPT ![t.run] = how]
    BY <1>4 DEF ScriptEnd
  <2>2. t.run \in begun /\ t.run \in Runs
    BY <1>1 DEF OnceInv, ScriptsBegun
  <2>3. \A d \in Doms : \A u \in scripts'[d] : u \in scripts[d] /\ u.run # t.run
    <3> SUFFICES ASSUME NEW d \in Doms, NEW u \in scripts'[d]
                 PROVE  u \in scripts[d] /\ u.run # t.run
      OBVIOUS
    <3>1. u \in scripts[d] /\ ~ (d = e /\ u = t)
      BY <1>1, <2>1
    <3> QED
      BY <3>1 DEF ScriptsFresh
  <2>4. \A d \in Doms : \A u \in scripts'[d] : outcome'[u.run] = None
    BY <1>1, <2>1, <2>3 DEF ScriptsFresh, Script
  <2>5. \A r \in Runs : outcome'[r] # None => r \in begun'
    BY <1>1, <2>1, <2>2 DEF ScriptsFresh
  <2> QED
    BY <2>3, <2>4, <2>5 DEF ScriptsFresh
<1>5. ASSUME NEW e \in Doms, Lose(e) \/ Die(e) PROVE ScriptsFresh'
  <2>1. UNCHANGED <<outcome, begun>> /\ (scripts' = scripts \/ scripts' = [scripts EXCEPT ![e] = {}])
    BY <1>5 DEF Lose, Die
  <2>2. \A d \in Doms : scripts'[d] \subseteq scripts[d]
    BY <1>1, <2>1
  <2> QED
    BY <1>2, <2>1, <2>2
<1>6. ASSUME UNCHANGED <<scripts, outcome, begun>> PROVE ScriptsFresh'
  BY <1>2, <1>6
<1> QED
  BY <1>3, <1>4, <1>5, <1>6, ZenonT(60)
     DEF Next, RunStep, MasterStep, HandleNudge, HandleDomDisconnect, HandleFinished, HandleSnapshot,
         HandleFiles, BackendLost, HandlerFrame, Submit, Kill, ReaderEnd, Close,
         ClientStep, Reject, ClientReceive, ClientStreamEnd, ClientDrop, BackendReceive, BackendCrash,
         DomStep, BackendStep, TakeSnapshot, Forward, FilesDone, Dial, Rewire, LoopEnd,
         vars, pluginVars

\* Every step keeps what is told true.
LEMMA TrueStep ==
    ASSUME TypeOK, ChosenOnce, WireRight, OnceInv, TrueInv, [Next]_vars
    PROVE  TrueInv'
<1>0. LanesTrue /\ ScriptsFresh /\ \A r \in Runs : RunTrue(r)
  BY DEF TrueInv
<1>1. ScriptsFresh'
  BY <1>0, FreshStep
<1>2. ASSUME LanesTrue', \A r \in Runs : Goes(r) PROVE TrueInv'
  BY <1>1, <1>2 DEF TrueInv, Goes
<1>3. ASSUME NEW r \in Runs, Submit(r) PROVE TrueInv'
  BY <1>0, <1>2, <1>3, SubmitTrue
<1>4. ASSUME NEW r \in Runs, ClientStep(r) \/ ClientDrop(r) \/ Reject(r) PROVE TrueInv'
  BY <1>0, <1>2, <1>4, ClientTrue
<1>5. ASSUME NEW b \in Backends, MasterStep(b) \/ BackendLost(b) PROVE TrueInv'
  BY <1>0, <1>2, <1>5, MasterTrue
<1>6. ASSUME NEW d \in Doms, NEW t \in scripts[d], NEW how \in {"done", "failed"}, ScriptEnd(d, t, how)
      PROVE  TrueInv'
  BY <1>0, <1>2, <1>6, ScriptEndTrue
<1> DEFINE Quiet ==
           \/ \E r \in Runs : Kill(r) \/ ReaderEnd(r)
           \/ \E g \in Guids : Close(g)
           \/ \E b \in Backends : \/ Forward(b) \/ BackendReceive(b) \/ TakeSnapshot(b)
                                  \/ BackendCrash(b) \/ \E r \in Runs : FilesDone(b, r)
           \/ \E d \in Doms : \/ Dial(d) \/ Die(d) \/ PluginReceive(d)
                              \/ \E c \in loops[d] : LoopEnd(d, c)
           \/ UNCHANGED <<relay, out, down, flushing>>
<1>7. ASSUME Quiet, UNCHANGED <<events, code, exit, outcome>> PROVE TrueInv'
  <2>1. \A r \in Runs : Goes(r)
    BY <1>0, <1>7, QuietGoes
  <2>2. LanesTrue'
    BY <1>0, <1>7, QuietLanes
  <2> QED
    BY <1>2, <2>1, <2>2
<1>8. ASSUME NEW r \in Runs, Kill(r) \/ ReaderEnd(r) PROVE UNCHANGED <<events, code, exit, outcome>>
  BY <1>8 DEF Kill, ReaderEnd, pluginVars
<1>9. ASSUME NEW g \in Guids, Close(g) PROVE UNCHANGED <<events, code, exit, outcome>>
  BY <1>9 DEF Close, pluginVars, clientVars
<1>10. ASSUME NEW b \in Backends,
              \/ Forward(b) \/ BackendReceive(b) \/ TakeSnapshot(b)
              \/ BackendCrash(b) \/ \E r \in Runs : FilesDone(b, r)
       PROVE  UNCHANGED <<events, code, exit, outcome>>
  BY <1>10 DEF Forward, BackendReceive, TakeSnapshot, BackendCrash, FilesDone, pluginVars, clientVars
<1>11. ASSUME NEW d \in Doms,
              \/ Dial(d) \/ Die(d) \/ PluginReceive(d) \/ Lose(d) \/ Rewire(d)
              \/ \E c \in loops[d] : LoopEnd(d, c)
       PROVE  UNCHANGED <<events, code, exit, outcome>>
  BY <1>11 DEF Dial, Die, PluginReceive, Lose, Rewire, LoopEnd, chanVars, pluginVars, clientVars
<1>12. ASSUME NEW d \in Doms, Lose(d) \/ Rewire(d) PROVE UNCHANGED <<relay, out, down, flushing>>
  BY <1>12 DEF Lose, Rewire, chanVars, backendVars
<1>13. ASSUME UNCHANGED vars PROVE UNCHANGED <<events, code, exit, outcome, relay, out, down, flushing>>
  BY <1>13 DEF vars, chanVars, clientVars, pluginVars, backendVars
<1> QED
  BY <1>3, <1>4, <1>5, <1>6, <1>7, <1>8, <1>9, <1>10, <1>11, <1>12, <1>13
     DEF Next, RunStep, DomStep, BackendStep

LEMMA TrueInit == Init => TrueInv
<1> SUFFICES ASSUME Init PROVE TrueInv
  OBVIOUS
<1>1. ScriptsFresh
  BY DEF Init, ScriptsFresh
<1>2. LanesTrue
  BY DEF Init, LanesTrue
<1>3. \A r \in Runs : RunTrue(r)
  BY DEF Init, RunTrue, Honest
<1> QED
  BY <1>1, <1>2, <1>3 DEF TrueInv

\* A client exits 0 only for a script that ran and returned without an error: no
\* kill, disconnect, drain or crash is told as a success.
THEOREM SuccessAlwaysReal == Spec => []SuccessIsReal
<1>1. Init => TypeOK /\ RouteInv /\ OnceInv /\ TrueInv
  BY TypeInit, RouteInit, OnceInit, TrueInit
<1>2. /\ TypeOK /\ RouteInv /\ OnceInv /\ TrueInv /\ [Next]_vars
      => TypeOK' /\ RouteInv' /\ OnceInv' /\ TrueInv'
  BY RouteStep, OnceStep, TrueStep DEF RouteInv
<1>3. TrueInv => SuccessIsReal
  BY DEF TrueInv, RunTrue, SuccessIsReal
<1> QED
  BY <1>1, <1>2, <1>3, PTL DEF Spec

-----------------------------------------------------------------------------
(* A kill that is acknowledged has stopped its run *)

KillAt(q, i, r) == i \in 1..Len(q) /\ q[i].type = "kill" /\ q[i].run = r
OnKill(b, i, r) == KillAt(down[b], i, r)
InKill(d, i, r) == KillAt(inbox[d], i, r)

LEMMA AppendKill ==
    ASSUME NEW S, NEW q \in Seq(S), NEW m \in S, NEW i \in Nat, NEW r, KillAt(Append(q, m), i, r)
    PROVE  KillAt(q, i, r) \/ (i = Len(q) + 1 /\ m.type = "kill" /\ m.run = r)
<1>1. /\ Len(Append(q, m)) = Len(q) + 1 /\ Append(q, m)[Len(q) + 1] = m
      /\ \A k \in 1..Len(q) : Append(q, m)[k] = q[k]
  BY AppendProperties
<1> QED
  BY <1>1, LenProperties DEF KillAt

LEMMA TailKill ==
    ASSUME NEW S, NEW q \in Seq(S), q # <<>>, NEW i \in Nat, NEW r, KillAt(Tail(q), i, r)
    PROVE  KillAt(q, i + 1, r)
<1>1. Len(Tail(q)) = Len(q) - 1 /\ \A k \in 1..Len(Tail(q)) : Tail(q)[k] = q[k + 1]
  BY HeadTailProperties
<1> QED
  BY <1>1, LenProperties DEF KillAt

\* What is put behind a lane, if it kills nothing, adds no kill to it.
LEMMA ConcatKill ==
    ASSUME NEW S, NEW p \in Seq(S), NEW q \in Seq(S), \A k \in 1..Len(q) : q[k].type # "kill",
           NEW i \in Nat, NEW r, KillAt(p \o q, i, r)
    PROVE  KillAt(p, i, r)
<1>1. /\ Len(p \o q) = Len(p) + Len(q) /\ Len(p) \in Nat /\ Len(q) \in Nat
      /\ \A k \in 1..Len(p) + Len(q) : (p \o q)[k] = IF k <= Len(p) THEN p[k] ELSE q[k - Len(p)]
  BY ConcatProperties, LenProperties
<1>2. CASE i <= Len(p)
  BY <1>1, <1>2 DEF KillAt
<1>3. CASE ~ i <= Len(p)
  <2>1. i - Len(p) \in 1..Len(q) /\ q[i - Len(p)].type = "kill"
    BY <1>1, <1>3 DEF KillAt
  <2> QED
    BY <2>1
<1> QED
  BY <1>2, <1>3

\* Nothing of run r can start any more, or is executing.
Stopped(r) ==
    /\ placed[r] # None
    /\ \A b \in Backends, i \in Nat : ~ OnDown(b, i, r)
    /\ \A d \in Doms, i \in Nat : ~ OnInbox(d, i, r)
    /\ \A d \in Doms : \A t \in scripts[d] : t.run # r

\* The commands on the lane of a backend are for the runs placed with it, and on
\* that of a plugin for the runs placed there.
LaneMsg(b) ==
    {m \in DownMsg : m.type \in {"run", "kill"} => placed[m.run] = m.dom /\ Home[m.dom] = b}
PostMsg(d) == {m \in InboxMsg : placed[m.run] = d}
AckMsg == {m \in UpMsg : m.type = "killed" => Stopped(m.run)}

\* A kill comes after the command that starts its run.
KillLast ==
    \A r \in Runs, b \in Backends, i, j \in Nat : OnDown(b, i, r) /\ OnKill(b, j, r) => i < j
InKillLast ==
    \A r \in Runs, d \in Doms, j \in Nat : InKill(d, j, r) =>
        /\ \A b \in Backends, i \in Nat : ~ OnDown(b, i, r)
        /\ \A i \in Nat : OnInbox(d, i, r) => i < j
\* A handler knows the scripts of its DataModel, as long as its backend lives.
HandlerKnows ==
    \A d \in Doms :
        /\ Home[d] \in alive => \A t \in scripts[d] : t.run \in tracked[d]
        /\ sock[d] # 0 => Home[d] \in alive
LanesHome ==
    /\ \A b \in Backends : down[b] \in Seq(LaneMsg(b))
    /\ \A d \in Doms : inbox[d] \in Seq(PostMsg(d))
AcksTrue == \A b \in Backends : relay[b] \in Seq(AckMsg) /\ out[b] \in Seq(AckMsg)

KillInv == LanesHome /\ KillLast /\ InKillLast /\ HandlerKnows /\ AcksTrue

\* Where a command is says where its run is placed.
LEMMA LanePlaced ==
    ASSUME LanesHome, NEW r \in Runs
    PROVE  /\ \A b \in Backends, i \in Nat :
                 OnDown(b, i, r) \/ OnKill(b, i, r) =>
                    down[b][i].dom = placed[r] /\ placed[r] \in Doms /\ Home[placed[r]] = b
           /\ \A d \in Doms, i \in Nat : OnInbox(d, i, r) \/ InKill(d, i, r) => placed[r] = d
<1>1. ASSUME NEW b \in Backends, NEW i \in Nat, OnDown(b, i, r) \/ OnKill(b, i, r)
      PROVE  down[b][i].dom = placed[r] /\ placed[r] \in Doms /\ Home[placed[r]] = b
  <2>1. down[b][i] \in LaneMsg(b)
    BY <1>1, LenProperties, ElementOfSeq DEF LanesHome, OnDown, OnKill, RunAt, KillAt
  <2> QED
    BY <1>1, <2>1 DEF LaneMsg, DownMsg, OnDown, OnKill, RunAt, KillAt
<1>2. ASSUME NEW d \in Doms, NEW i \in Nat, OnInbox(d, i, r) \/ InKill(d, i, r)
      PROVE  placed[r] = d
  <2>1. inbox[d][i] \in PostMsg(d)
    BY <1>2, LenProperties, ElementOfSeq DEF LanesHome, OnInbox, InKill, RunAt, KillAt
  <2> QED
    BY <1>2, <2>1 DEF PostMsg, OnInbox, InKill, RunAt, KillAt
<1> QED
  BY <1>1, <1>2

\* While the choices are kept, what is on the right lane stays so.
LEMMA KeptLanes ==
    ASSUME LanesHome, Kept
    PROVE  /\ \A b \in Backends : LaneMsg(b) \subseteq LaneMsg(b)' /\ down[b] \in Seq(LaneMsg(b)')
           /\ \A d \in Doms : PostMsg(d) \subseteq PostMsg(d)' /\ inbox[d] \in Seq(PostMsg(d)')
<1>1. \A d \in Doms, r \in Runs : placed[r] = d => placed'[r] = d
  BY DomsAssumption DEF Kept
<1>2. ASSUME NEW b \in Backends, NEW m \in LaneMsg(b) PROVE m \in LaneMsg(b)'
  <2>1. m \in DownMsg
    BY DEF LaneMsg
  <2>2. m.type \in {"run", "kill"} => m.run \in Runs /\ m.dom \in Doms
    BY <2>1 DEF DownMsg
  <2> QED
    BY <1>1, <1>2, <2>1, <2>2 DEF LaneMsg
<1>3. ASSUME NEW d \in Doms, NEW m \in PostMsg(d) PROVE m \in PostMsg(d)'
  <2>1. m.run \in Runs
    BY <1>3 DEF PostMsg, InboxMsg
  <2> QED
    BY <1>1, <1>3, <2>1 DEF PostMsg
<1> QED
  BY <1>2, <1>3, SeqMonotone DEF LanesHome

NoticeDown == {m \in DownMsg : m.type \notin {"run", "kill"}}
KillsSame == \A b \in Backends, i \in Nat, r \in Runs : OnKill(b, i, r)' => OnKill(b, i, r)
LanesKept == KillsSame /\ \A b \in Backends : down'[b] \in Seq(LaneMsg(b)')

\* Reconciling kills nothing, and sends each run to the lane of its DOM.
LEMMA ReconcileKills ==
    ASSUME TypeOK, LanesHome, Kept, NEW P \in SUBSET Runs, NEW A, NEW V \in SUBSET Doms, NEW note,
           NEW extra \in [Backends -> Seq(NoticeDown)], Reconcile(P, A, V, note, extra)
    PROVE  LanesKept
<1>0. PICK place \in Placements(request', P, V) :
         \E batch \in Batches(place) : Dispatch(P, A, V, note, extra, place, batch)
  BY DEF Reconcile
<1>1. PICK batch \in Batches(place) : Dispatch(P, A, V, note, extra, place, batch)
  BY <1>0
<1> DEFINE share(b) == {r \in DOMAIN place : Home[place[r]] = b}
           sent(b) == [i \in 1..Len(batch[b]) |->
                          [type |-> "run", run |-> batch[b][i], dom |-> place[batch[b][i]]]]
<1>2. /\ DOMAIN place \subseteq Runs
      /\ \A r \in DOMAIN place : place[r] \in Doms
  BY DEF Placements
<1>3. /\ down' = [b \in Backends |-> down[b] \o extra[b] \o sent(b)]
      /\ placed' = [r \in Runs |-> IF r \in DOMAIN place THEN place[r] ELSE placed[r]]
  BY <1>1 DEF Dispatch
<1>4. ASSUME NEW b \in Backends
      PROVE  /\ down'[b] \in Seq(LaneMsg(b)')
             /\ \A i \in Nat, r \in Runs : OnKill(b, i, r)' => OnKill(b, i, r)
  <2> DEFINE S == LaneMsg(b)'
  <2>1. down[b] \in Seq(S)
    BY KeptLanes
  <2>2. extra[b] \in Seq(S)
    <3>1. NoticeDown \subseteq S
      BY DEF NoticeDown, LaneMsg
    <3> HIDE DEF S
    <3> QED
      BY <3>1, SeqMonotone
  <2>3. share(b) \in SUBSET Runs /\ batch[b] \in NewestFirst(share(b))
    BY <1>2 DEF Batches
  <2>4. batch[b] \in Seq(share(b))
    <3> HIDE DEF share
    <3> QED
      BY <2>3, OrderingOnce
  <2>5. Len(batch[b]) \in Nat /\ \A i \in 1..Len(batch[b]) : batch[b][i] \in share(b)
    BY <2>4, LenProperties, ElementOfSeq
  <2>6. \A r \in share(b) : [type |-> "run", run |-> r, dom |-> place[r]] \in S
    BY <1>2, <1>3 DEF LaneMsg, DownMsg
  <2> HIDE DEF S
  <2>7. sent(b) \in Seq(S) /\ Len(sent(b)) = Len(batch[b])
    BY <2>5, <2>6, SeqDef, LenProperties
  <2>8. \A k \in 1..Len(sent(b)) : sent(b)[k].type # "kill"
    BY <2>7
  <2>9. \A k \in 1..Len(extra[b]) : extra[b][k].type # "kill"
    <3>1. extra[b] \in Seq(NoticeDown)
      OBVIOUS
    <3>2. \A k \in 1..Len(extra[b]) : extra[b][k] \in NoticeDown
      BY <3>1, LenProperties, ElementOfSeq
    <3> QED
      BY <3>2 DEF NoticeDown
  <2>10. down[b] \o extra[b] \in Seq(S)
    BY <2>1, <2>2, ConcatProperties
  <2> DEFINE w == sent(b)
  <2>11. down'[b] = down[b] \o extra[b] \o w
    BY <1>3
  <2>12. w \in Seq(S) /\ \A k \in 1..Len(w) : w[k].type # "kill"
    BY <2>7, <2>8
  <2> HIDE DEF w
  <2>13. down'[b] \in Seq(S)
    BY <2>10, <2>11, <2>12, ConcatProperties
  <2>14. ASSUME NEW i \in Nat, NEW r \in Runs, OnKill(b, i, r)' PROVE OnKill(b, i, r)
    <3>1. KillAt(down[b] \o extra[b] \o w, i, r)
      BY <2>11, <2>14 DEF OnKill
    <3>2. KillAt(down[b] \o extra[b], i, r)
      BY <2>10, <2>12, <3>1, ConcatKill
    <3>3. KillAt(down[b], i, r)
      BY <2>1, <2>2, <2>9, <3>2, ConcatKill
    <3> QED
      BY <3>3 DEF OnKill
  <2> QED
    BY <2>13, <2>14 DEF S
<1> QED
  BY <1>4 DEF LanesKept, KillsSame

LEMMA CompleteRunsKills ==
    ASSUME TypeOK, LanesHome, Kept, NEW S \in SUBSET Runs, NEW state, NEW ev, NEW bs,
           NEW P \in SUBSET Runs, NEW V \in SUBSET Doms,
           CompleteRuns(S, state, ev, bs, P, V)
    PROVE  LanesKept
<1>1. PICK order \in SetToSeqs(Profiled(S)) :
        Reconcile(P, Completed(S, state), V, CompletionNote(S, ev), Notices(bs, order))
  BY DEF CompleteRuns
<1>2. order \in Seq(Profiled(S)) /\ Profiled(S) \subseteq Runs
  BY OrderingType DEF Profiled, Finished
<1>3. Len(order) \in Nat /\ \A i \in 1..Len(order) : order[i] \in Runs
  BY <1>2, LenProperties, ElementOfSeq
<1>4. \A i \in 1..Len(order) : [type |-> "completed", run |-> order[i]] \in NoticeDown
  BY <1>3 DEF NoticeDown, DownMsg
<1>5. /\ [i \in 1..Len(order) |-> [type |-> "completed", run |-> order[i]]] \in Seq(NoticeDown)
      /\ <<>> \in Seq(NoticeDown)
  BY <1>3, <1>4, SeqDef
<1>6. Notices(bs, order) \in [Backends -> Seq(NoticeDown)]
  BY <1>5 DEF Notices
<1> HIDE DEF Reconcile
<1> QED
  BY <1>1, <1>6, ReconcileKills

LEMMA SameLanes ==
    ASSUME LanesHome, Kept, down' = down
    PROVE  LanesKept
  BY KeptLanes DEF LanesKept, KillsSame, OnKill

LEMMA MasterKills ==
    ASSUME TypeOK, LanesHome, Kept, NEW b \in Backends, MasterStep(b) \/ BackendLost(b)
    PROVE  LanesKept
<1> DEFINE V == View(backends, snap)
<1>1. /\ V \in SUBSET Doms /\ pending \in SUBSET Runs
      /\ NoExtra \in [Backends -> Seq(NoticeDown)]
  BY ViewType DEF TypeOK, MasterType, NoExtra
<1>2. CASE HandleNudge(b)
  <2>1. Reconcile(pending, active, V, Silent, NoExtra)
    BY <1>2 DEF HandleNudge
  <2> HIDE DEF V
  <2> QED
    BY <1>1, <2>1, ReconcileKills
<1>3. CASE HandleSnapshot(b)
  <2>1. Reconcile(pending, active, View(backends, snap'), Silent, NoExtra)
    BY <1>3 DEF HandleSnapshot
  <2>2. Head(out[b]).doms \in SUBSET Doms
    BY <1>3, ConsumeType DEF HandleSnapshot, Arrived, UpMsg
  <2>3. snap' \in [Backends -> SUBSET Doms]
    BY <1>3, <2>2 DEF HandleSnapshot, TypeOK, MasterType
  <2>4. View(backends, snap') \in SUBSET Doms
    BY <2>3 DEF View, TypeOK, MasterType
  <2> QED
    BY <1>1, <2>1, <2>4, ReconcileKills
<1>4. CASE HandleDomDisconnect(b)
  <2> DEFINE d == Head(out[b]).dom
             swept == {r \in Runs : active[r] # None /\ active[r].dom = d}
             drained == IF swept = {} THEN {} ELSE DeadSession(request, pending, V)
             waiting == {r \in pending \ drained : request[r].dom = d}
  <2>1. CompleteRuns(swept, "killed", "disconnect", backends, pending \ waiting, V)
    BY <1>4 DEF HandleDomDisconnect
  <2>2. swept \in SUBSET Runs /\ pending \ waiting \in SUBSET Runs
    BY <1>1
  <2> HIDE DEF swept, waiting, V
  <2> QED
    BY <1>1, <2>1, <2>2, CompleteRunsKills
<1>5. CASE HandleFinished(b)
  <2> DEFINE m == Head(out[b])
  <2>1. /\ m.type \in {"done", "failed", "killed"}
        /\ CompleteRuns({m.run}, FinalState(m.type), m.type, backends, pending, V)
    BY <1>5 DEF HandleFinished
  <2>2. m.run \in Runs
    BY <1>5, <2>1, ConsumeType DEF HandleFinished, UpMsg
  <2> HIDE DEF m, V
  <2> QED
    BY <1>1, <2>1, <2>2, CompleteRunsKills
<1>6. CASE HandleFiles(b)
  BY <1>6, SameLanes DEF HandleFiles
<1>7. CASE BackendLost(b)
  <2> DEFINE W == View(backends', snap)
             orphaned == {r \in Runs : active[r] # None /\ active[r].dom \notin W}
  <2>1. \/ down' = down
        \/ CompleteRuns(orphaned, "killed", "disconnect", backends', pending, W)
    BY <1>7 DEF BackendLost
  <2>2. W \in SUBSET Doms /\ orphaned \in SUBSET Runs
    BY <1>7 DEF BackendLost, View, TypeOK, MasterType
  <2> HIDE DEF W, orphaned
  <2> QED
    BY <1>1, <2>1, <2>2, SameLanes, CompleteRunsKills
<1> QED
  BY <1>2, <1>3, <1>4, <1>5, <1>6, <1>7 DEF MasterStep

\* A command sent outside reconciling is at the end of its DOM's lane.
LEMMA SendKills ==
    ASSUME TypeOK, LanesHome, Kept, NEW d \in Doms, NEW type \in {"run", "kill"}, NEW u \in Runs,
           placed'[u] = d, SendToDom(d, type, u)
    PROVE  /\ \A b \in Backends : down'[b] \in Seq(LaneMsg(b)')
           /\ \A b \in Backends, i \in Nat, r \in Runs : OnKill(b, i, r)' =>
                 \/ OnKill(b, i, r)
                 \/ type = "kill" /\ r = u /\ b = Home[d] /\ i = Len(down[b]) + 1
<1> DEFINE m == [type |-> type, run |-> u, dom |-> d]
<1>1. down \in [Backends -> Seq(DownMsg)] /\ Home[d] \in Backends
  BY DomsAssumption DEF TypeOK, ChanType
<1>2. \/ down' = down
      \/ down' = [down EXCEPT ![Home[d]] = Append(@, m)]
  BY DEF SendToDom
<1>3. m \in DownMsg /\ m.type = type /\ m.run = u /\ m \in LaneMsg(Home[d])'
  BY DEF DownMsg, LaneMsg
<1> HIDE DEF m
<1>4. ASSUME NEW b \in Backends
      PROVE  /\ down'[b] \in Seq(LaneMsg(b)')
             /\ \A i \in Nat, r \in Runs : OnKill(b, i, r)' =>
                   \/ OnKill(b, i, r)
                   \/ type = "kill" /\ r = u /\ b = Home[d] /\ i = Len(down[b]) + 1
  <2>1. down[b] \in Seq(LaneMsg(b)')
    BY KeptLanes
  <2>2. CASE down'[b] = down[b]
    BY <2>1, <2>2 DEF OnKill
  <2>3. CASE b = Home[d] /\ down'[b] = Append(down[b], m)
    <3>1. Append(down[b], m) \in Seq(LaneMsg(b)')
      BY <1>3, <2>1, <2>3, AppendProperties
    <3>2. ASSUME NEW i \in Nat, NEW r \in Runs, OnKill(b, i, r)'
          PROVE  OnKill(b, i, r) \/ (type = "kill" /\ r = u /\ i = Len(down[b]) + 1)
      <4>1. KillAt(Append(down[b], m), i, r)
        BY <2>3, <3>2 DEF OnKill
      <4>2. KillAt(down[b], i, r) \/ (i = Len(down[b]) + 1 /\ m.type = "kill" /\ m.run = r)
        BY <1>1, <1>3, <4>1, AppendKill
      <4> QED
        BY <1>3, <4>2 DEF OnKill
    <3> QED
      BY <2>3, <3>1, <3>2
  <2> QED
    BY <1>1, <1>2, <2>2, <2>3
<1> QED
  BY <1>4

LEMMA SubmitKills ==
    ASSUME TypeOK, LanesHome, Kept, NEW u \in Runs, Submit(u)
    PROVE  LanesKept
<1> DEFINE V == View(backends, snap)
<1>1. /\ V \in SUBSET Doms /\ pending \cup {u} \in SUBSET Runs
      /\ NoExtra \in [Backends -> Seq(NoticeDown)] /\ placed \in [Runs -> Doms \cup {None}]
  BY ViewType DEF TypeOK, MasterType, NoExtra
<1>2. \/ \E d \in V : placed' = [placed EXCEPT ![u] = d] /\ SendToDom(d, "run", u)
      \/ Reconcile(pending \cup {u}, active, V,
                   [Silent EXCEPT ![u] = <<"created">>], NoExtra)
  BY DEF Submit
<1>3. ASSUME NEW d \in V, placed' = [placed EXCEPT ![u] = d], SendToDom(d, "run", u)
      PROVE  LanesKept
  <2>1. placed'[u] = d /\ d \in Doms
    BY <1>1, <1>3
  <2> QED
    BY <1>3, <2>1, SendKills DEF LanesKept, KillsSame
<1> HIDE DEF V
<1> QED
  BY <1>1, <1>2, <1>3, ReconcileKills

\* A step on which what is stopped stays so.
StopsStay == \A r \in Runs : Stopped(r) => Stopped(r)'
KillOrder == LanesHome /\ KillLast /\ InKillLast /\ HandlerKnows
Frozen == UNCHANGED <<alive, sock, tracked, scripts>>

\* The master's handlers and submissions.
LEMMA AddsKills ==
    ASSUME TypeOK, KillOrder, Kept, Adds, LanesKept, UNCHANGED inbox, Frozen
    PROVE  KillOrder' /\ StopsStay
<1>1. LanesHome'
  BY KeptLanes DEF KillOrder, LanesHome, LanesKept
<1>2. \A r \in Runs, b \in Backends, j \in Nat : OnKill(b, j, r)' => OnKill(b, j, r) /\ placed[r] # None
  BY LanePlaced, DomsAssumption DEF KillOrder, LanesKept, KillsSame
<1>3. KillLast'
  BY <1>2 DEF KillOrder, KillLast, Adds
<1>4. \A r \in Runs, d \in Doms, j \in Nat : InKill(d, j, r) => placed[r] # None
  BY LanePlaced, DomsAssumption DEF KillOrder
<1>5. InKillLast'
  BY <1>4 DEF KillOrder, InKillLast, InKill, OnInbox, Adds
<1>6. HandlerKnows'
  BY DEF KillOrder, HandlerKnows, Frozen
<1>7. StopsStay
  BY DEF StopsStay, Stopped, Kept, Adds, OnInbox, Frozen
<1> QED
  BY <1>1, <1>3, <1>5, <1>6, <1>7 DEF KillOrder

\* Steps that add no command that starts a run.
LEMMA PlainKills ==
    ASSUME TypeOK, KillOrder, UNCHANGED placed,
           \A b \in Backends : down'[b] \in Seq(LaneMsg(b)),
           \A r \in Runs, b \in Backends, i \in Nat : OnDown(b, i, r)' => OnDown(b, i, r),
           \A r \in Runs, b \in Backends, j \in Nat : OnKill(b, j, r)' =>
               OnKill(b, j, r) \/ \A i \in Nat : OnDown(b, i, r) => i < j,
           \A d \in Doms : inbox'[d] \in {inbox[d], <<>>},
           \A d \in Doms : scripts'[d] \subseteq scripts[d],
           HandlerKnows'
    PROVE  KillOrder' /\ StopsStay
<1>1. \A d \in Doms, i \in Nat, r \in Runs :
        (OnInbox(d, i, r)' => OnInbox(d, i, r)) /\ (InKill(d, i, r)' => InKill(d, i, r))
  BY DEF OnInbox, InKill, RunAt, KillAt
<1>2. LanesHome'
  <2>1. /\ \A b \in Backends : LaneMsg(b)' = LaneMsg(b)
        /\ \A d \in Doms : PostMsg(d)' = PostMsg(d)
    BY DEF LaneMsg, PostMsg
  <2>2. \A d \in Doms : inbox'[d] \in Seq(PostMsg(d))
    <3> SUFFICES ASSUME NEW d \in Doms PROVE inbox'[d] \in Seq(PostMsg(d))
      OBVIOUS
    <3>1. inbox[d] \in Seq(PostMsg(d)) /\ <<>> \in Seq(PostMsg(d))
      BY DEF KillOrder, LanesHome
    <3> QED
      BY <3>1
  <2> QED
    BY <2>1, <2>2 DEF LanesHome
<1>3. KillLast'
  BY DEF KillOrder, KillLast
<1>4. InKillLast'
  BY <1>1 DEF KillOrder, InKillLast
<1>5. StopsStay
  BY <1>1 DEF StopsStay, Stopped
<1> QED
  BY <1>2, <1>3, <1>4, <1>5 DEF KillOrder

\* A kill is put behind what it kills.
LEMMA KillKills ==
    ASSUME TypeOK, ChosenOnce, KillOrder, NEW u \in Runs, Kill(u) \/ ReaderEnd(u)
    PROVE  KillOrder' /\ StopsStay
<1> DEFINE d == active[u].dom
<1>1. UNCHANGED <<placed, inbox, scripts>> /\ Frozen /\ Kept
  BY DEF Kill, ReaderEnd, Frozen, Kept, masterVars, backendVars, pluginVars
<1>2. down' = down \/ (active[u] # None /\ SendToDom(d, "kill", u))
  BY DEF Kill, ReaderEnd
<1>3. active[u] # None => d \in Doms /\ placed'[u] = d
  BY <1>1 DEF ChosenOnce, TypeOK, MasterType, ActiveRun
<1>4. /\ \A b \in Backends : LaneMsg(b)' = LaneMsg(b)
      /\ HandlerKnows'
  BY <1>1 DEF LaneMsg, HandlerKnows, Frozen, KillOrder
<1> HIDE DEF d
<1>5. CASE down' = down
  <2>1. /\ \A r \in Runs, b \in Backends, i \in Nat : OnDown(b, i, r)' => OnDown(b, i, r)
        /\ \A r \in Runs, b \in Backends, i \in Nat : OnKill(b, i, r)' => OnKill(b, i, r)
        /\ \A b \in Backends : down'[b] \in Seq(LaneMsg(b))
    BY <1>5 DEF OnDown, OnKill, KillOrder, LanesHome
  <2> QED
    BY <1>1, <1>4, <2>1, PlainKills
<1>6. CASE active[u] # None /\ SendToDom(d, "kill", u)
  <2>1. LanesHome
    BY DEF KillOrder
  <2>2. \A r \in Runs, b \in Backends, i \in Nat : OnDown(b, i, r)' => OnDown(b, i, r)
    BY <1>3, <1>6, SendAdds
  <2>3. /\ \A b \in Backends : down'[b] \in Seq(LaneMsg(b))
        /\ \A b \in Backends, i \in Nat, r \in Runs : OnKill(b, i, r)' =>
              OnKill(b, i, r) \/ i = Len(down[b]) + 1
    BY <1>1, <1>3, <1>4, <1>6, <2>1, SendKills
  <2>4. \A b \in Backends : Len(down[b]) \in Nat
    BY LenProperties DEF TypeOK, ChanType
  <2>5. \A r \in Runs, b \in Backends, j \in Nat : OnKill(b, j, r)' =>
              OnKill(b, j, r) \/ \A i \in Nat : OnDown(b, i, r) => i < j
    BY <2>3, <2>4 DEF OnDown, RunAt
  <2> QED
    BY <1>1, <1>4, <2>2, <2>3, <2>5, PlainKills
<1> QED
  BY <1>2, <1>5, <1>6

\* A handler that keeps its DOM's entry, or loses it with its scripts or backend.
LEMMA OtherKills ==
    ASSUME TypeOK, KillOrder, ScriptsFresh,
           \/ \E g \in Guids : Close(g)
           \/ \E b \in Backends : BackendCrash(b)
           \/ \E d \in Doms : \/ Dial(d) \/ Die(d)
                              \/ \E t \in scripts[d], how \in {"done", "failed"} : ScriptEnd(d, t, how)
           \/ UNCHANGED <<placed, down, inbox>> /\ Frozen
    PROVE  KillOrder' /\ StopsStay
<1>1. /\ scripts \in [Doms -> SUBSET Script] /\ tracked \in [Doms -> SUBSET Runs]
      /\ sock \in [Doms -> 0..MaxConn] /\ inbox \in [Doms -> Seq(InboxMsg)]
      /\ down \in [Backends -> Seq(DownMsg)]
  BY DEF TypeOK, PluginType, ChanType
<1>2. /\ \A d \in Doms : Home[d] \in alive => \A t \in scripts[d] : t.run \in tracked[d]
      /\ \A d \in Doms : sock[d] # 0 => Home[d] \in alive
  BY DEF KillOrder, HandlerKnows
<1>3. \A b \in Backends : down[b] \in Seq(LaneMsg(b))
  BY DEF KillOrder, LanesHome
<1>4. ASSUME UNCHANGED <<placed, down>>, \A d \in Doms : inbox'[d] \in {inbox[d], <<>>},
             \A d \in Doms : scripts'[d] \subseteq scripts[d], HandlerKnows'
      PROVE  KillOrder' /\ StopsStay
  <2>1. /\ \A r \in Runs, b \in Backends, i \in Nat : OnDown(b, i, r)' => OnDown(b, i, r)
        /\ \A r \in Runs, b \in Backends, i \in Nat : OnKill(b, i, r)' => OnKill(b, i, r)
        /\ \A b \in Backends : down'[b] \in Seq(LaneMsg(b))
    BY <1>3, <1>4 DEF OnDown, OnKill
  <2> QED
    BY <1>4, <2>1, PlainKills
<1>5. ASSUME NEW g \in Guids, Close(g) PROVE KillOrder' /\ StopsStay
  <2> DEFINE m == [type |-> "close", guid |-> g]
  <2>1. PICK b \in backends : down' = [down EXCEPT ![b] = Append(@, m)]
    BY <1>5 DEF Close
  <2>2. UNCHANGED <<inbox, scripts, placed>> /\ Frozen
    BY <1>5 DEF Close, Frozen, backendVars, pluginVars, masterVars
  <2>3. m \in DownMsg /\ m.type = "close" /\ \A c \in Backends : m \in LaneMsg(c)
    BY DEF DownMsg, LaneMsg
  <2> HIDE DEF m
  <2>4. ASSUME NEW c \in Backends
        PROVE  /\ down'[c] \in Seq(LaneMsg(c))
               /\ \A i \in Nat, r \in Runs : OnDown(c, i, r)' => OnDown(c, i, r)
               /\ \A i \in Nat, r \in Runs : OnKill(c, i, r)' => OnKill(c, i, r)
    <3>1. CASE down'[c] = down[c]
      BY <1>3, <3>1 DEF OnDown, OnKill
    <3>2. CASE down'[c] = Append(down[c], m)
      <4>1. Append(down[c], m) \in Seq(LaneMsg(c))
        BY <1>3, <2>3, AppendProperties
      <4>2. ASSUME NEW i \in Nat, NEW r \in Runs, RunAt(Append(down[c], m), i, r)
            PROVE  RunAt(down[c], i, r)
        BY <1>1, <2>3, <4>2, AppendRun
      <4>3. ASSUME NEW i \in Nat, NEW r \in Runs, KillAt(Append(down[c], m), i, r)
            PROVE  KillAt(down[c], i, r)
        BY <1>1, <2>3, <4>3, AppendKill
      <4> QED
        BY <3>2, <4>1, <4>2, <4>3 DEF OnDown, OnKill
    <3> QED
      BY <1>1, <2>1, <3>1, <3>2
  <2>5. HandlerKnows'
    BY <1>2, <2>2 DEF HandlerKnows, Frozen
  <2> QED
    BY <2>2, <2>4, <2>5, PlainKills
<1>6. ASSUME NEW b \in Backends, BackendCrash(b) PROVE KillOrder' /\ StopsStay
  <2>1. /\ down' = [down EXCEPT ![b] = <<>>] /\ UNCHANGED <<scripts, placed>>
        /\ alive' = alive \ {b}
        /\ inbox' = [d \in Doms |-> IF Home[d] = b THEN <<>> ELSE inbox[d]]
        /\ sock' = [d \in Doms |-> IF Home[d] = b THEN 0 ELSE sock[d]]
        /\ tracked' = [d \in Doms |-> IF Home[d] = b THEN {} ELSE tracked[d]]
    BY <1>6 DEF BackendCrash, masterVars
  <2>2. \A c \in Backends : down'[c] \in {down[c], <<>>}
    BY <1>1, <2>1
  <2>3. /\ \A c \in Backends : down'[c] \in Seq(LaneMsg(c))
        /\ \A c \in Backends, i \in Nat, r \in Runs : OnDown(c, i, r)' => OnDown(c, i, r)
        /\ \A c \in Backends, i \in Nat, r \in Runs : OnKill(c, i, r)' => OnKill(c, i, r)
    <3>1. ASSUME NEW c \in Backends PROVE down'[c] \in Seq(LaneMsg(c))
      <4>1. <<>> \in Seq(LaneMsg(c)) /\ down[c] \in Seq(LaneMsg(c))
        BY <1>3
      <4> QED
        BY <2>2, <4>1
    <3>2. ASSUME NEW c \in Backends, NEW i \in Nat, NEW r \in Runs
          PROVE  (OnDown(c, i, r)' => OnDown(c, i, r)) /\ (OnKill(c, i, r)' => OnKill(c, i, r))
      BY <2>2 DEF OnDown, OnKill, RunAt, KillAt
    <3> QED
      BY <3>1, <3>2
  <2>4. HandlerKnows'
    BY <1>2, <2>1 DEF HandlerKnows
  <2> QED
    BY <2>1, <2>3, <2>4, PlainKills
<1>7. ASSUME NEW e \in Doms, Dial(e) PROVE KillOrder' /\ StopsStay
  <2>1. /\ UNCHANGED <<placed, down, inbox, scripts, tracked, alive>> /\ Home[e] \in alive
        /\ sock' = [sock EXCEPT ![e] = dials[e] + 1]
    BY <1>7 DEF Dial, masterVars
  <2>2. HandlerKnows'
    BY <1>1, <1>2, <2>1 DEF HandlerKnows
  <2> QED
    BY <1>4, <2>1, <2>2
<1>8. ASSUME NEW e \in Doms, Die(e) PROVE KillOrder' /\ StopsStay
  <2>1. /\ UNCHANGED <<placed, down, alive>>
        /\ sock' = [sock EXCEPT ![e] = 0] /\ inbox' = [inbox EXCEPT ![e] = <<>>]
        /\ tracked' = [tracked EXCEPT ![e] = {}] /\ scripts' = [scripts EXCEPT ![e] = {}]
    BY <1>8 DEF Die, masterVars, backendVars
  <2>2. HandlerKnows'
    BY <1>1, <1>2, <2>1 DEF HandlerKnows
  <2>3. \A d \in Doms : inbox'[d] \in {inbox[d], <<>>} /\ scripts'[d] \subseteq scripts[d]
    BY <1>1, <2>1
  <2> QED
    BY <1>4, <2>1, <2>2, <2>3
<1>9. ASSUME NEW e \in Doms, NEW t \in scripts[e], NEW how \in {"done", "failed"}, ScriptEnd(e, t, how)
      PROVE  KillOrder' /\ StopsStay
  <2>1. /\ UNCHANGED <<placed, down, inbox, alive, sock>>
        /\ scripts' = [scripts EXCEPT ![e] = @ \ {t}] /\ tracked' = [tracked EXCEPT ![e] = @ \ {t.run}]
    BY <1>9 DEF ScriptEnd, masterVars, backendVars
  <2>2. \A u \in scripts[e] \ {t} : u.run # t.run
    BY DEF ScriptsFresh
  <2>3. HandlerKnows'
    <3> SUFFICES ASSUME NEW d \in Doms, Home[d] \in alive, NEW u \in scripts'[d]
                 PROVE  u.run \in tracked'[d]
      BY <1>2, <2>1 DEF HandlerKnows
    <3>1. CASE d = e
      BY <1>1, <1>2, <2>1, <2>2, <3>1
    <3>2. CASE d # e
      BY <1>1, <1>2, <2>1, <3>2
    <3> QED
      BY <3>1, <3>2
  <2>4. \A d \in Doms : scripts'[d] \subseteq scripts[d]
    BY <1>1, <2>1
  <2> QED
    BY <1>4, <2>1, <2>3, <2>4
<1>10. ASSUME UNCHANGED <<placed, down, inbox>>, Frozen PROVE KillOrder' /\ StopsStay
  <2>1. HandlerKnows'
    BY <1>2, <1>10 DEF HandlerKnows, Frozen
  <2> QED
    BY <1>4, <1>10, <2>1 DEF Frozen
<1> QED
  BY <1>5, <1>6, <1>7, <1>8, <1>9, <1>10

KillShifted(n) ==
    \A r \in Runs, b \in Backends, i \in Nat : OnKill(b, i, r)' => OnKill(b, IF b = n THEN i + 1 ELSE i, r)
KillShiftedIn(n) ==
    \A r \in Runs, d \in Doms, i \in Nat : InKill(d, i, r)' => InKill(d, IF d = n THEN i + 1 ELSE i, r)

\* A command that goes from a backend's lane to its plugin's keeps its turn.
LEMMA KillMoves ==
    ASSUME KillOrder, UNCHANGED <<placed, scripts>>, NEW b \in Backends, Shifted(b, 1), KillShifted(b),
           NEW u \in Runs,
           \A r \in Runs, d \in Doms, i \in Nat :
              OnInbox(d, i, r)' => OnInbox(d, i, r) \/ (OnDown(b, 1, u) /\ r = u),
           \A r \in Runs, d \in Doms, j \in Nat :
              InKill(d, j, r)' =>
                 \/ InKill(d, j, r)
                 \/ OnKill(b, 1, u) /\ r = u /\ \A i \in Nat : OnInbox(d, i, r)' => i < j
    PROVE  KillLast' /\ InKillLast' /\ StopsStay
<1>1. KillLast'
  <2> SUFFICES ASSUME NEW r \in Runs, NEW c \in Backends, NEW i \in Nat, NEW j \in Nat,
                      OnDown(c, i, r)', OnKill(c, j, r)'
               PROVE  i < j
    BY DEF KillLast
  <2>1. CASE c = b
    <3>1. OnDown(c, i + 1, r) /\ OnKill(c, j + 1, r)
      BY <2>1 DEF Shifted, KillShifted
    <3>2. i + 1 < j + 1
      BY <3>1 DEF KillOrder, KillLast
    <3> QED
      BY <3>2
  <2>2. CASE c # b
    BY <2>2 DEF Shifted, KillShifted, KillOrder, KillLast
  <2> QED
    BY <2>1, <2>2
<1>2. \A r \in Runs : (\A c \in Backends, i \in Nat : ~ OnDown(c, i, r)) =>
                         \A c \in Backends, i \in Nat : ~ OnDown(c, i, r)'
  BY DEF Shifted
<1>3. OnKill(b, 1, u) => \A c \in Backends, i \in Nat : ~ OnDown(c, i, u)
  <2> SUFFICES ASSUME OnKill(b, 1, u), NEW c \in Backends, NEW i \in Nat, OnDown(c, i, u)
               PROVE  FALSE
    OBVIOUS
  <2>1. c = b
    BY LanePlaced DEF KillOrder
  <2>2. i < 1 /\ i # 0
    BY <2>1 DEF KillOrder, KillLast, OnDown, RunAt
  <2> QED
    BY <2>2
<1>4. InKillLast'
  <2> SUFFICES ASSUME NEW r \in Runs, NEW d \in Doms, NEW j \in Nat, InKill(d, j, r)'
               PROVE  /\ \A c \in Backends, i \in Nat : ~ OnDown(c, i, r)'
                      /\ \A i \in Nat : OnInbox(d, i, r)' => i < j
    BY DEF InKillLast
  <2>1. CASE InKill(d, j, r)
    <3>1. /\ \A c \in Backends, i \in Nat : ~ OnDown(c, i, r)
          /\ \A i \in Nat : OnInbox(d, i, r) => i < j
      BY <2>1 DEF KillOrder, InKillLast
    <3> QED
      BY <1>2, <3>1
  <2>2. CASE OnKill(b, 1, u) /\ r = u /\ \A i \in Nat : OnInbox(d, i, r)' => i < j
    BY <1>2, <1>3, <2>2
  <2> QED
    BY <2>1, <2>2
<1>5. StopsStay
  <2> SUFFICES ASSUME NEW r \in Runs, Stopped(r) PROVE Stopped(r)'
    BY DEF StopsStay
  <2>1. \A c \in Backends, i \in Nat : ~ OnDown(c, i, r)'
    BY <1>2 DEF Stopped
  <2>2. \A d \in Doms, i \in Nat : ~ OnInbox(d, i, r)'
    BY DEF Stopped
  <2> QED
    BY <2>1, <2>2 DEF Stopped
<1> QED
  BY <1>1, <1>4, <1>5

\* A backend passes commands on in their order, or drops them.
LEMMA ReceiveKills ==
    ASSUME TypeOK, KillOrder, NEW b \in Backends, BackendReceive(b)
    PROVE  KillOrder' /\ StopsStay
<1> DEFINE m == Head(down[b])
           item == [type |-> m.type, run |-> m.run]
           e == m.dom
           n == Len(inbox[e]) + 1
<1>1. /\ UNCHANGED <<placed, scripts>> /\ Frozen
      /\ down[b] # <<>> /\ down' = [down EXCEPT ![b] = Tail(@)]
  BY DEF BackendReceive, Frozen, masterVars, pluginVars
<1>2. down \in [Backends -> Seq(DownMsg)] /\ inbox \in [Doms -> Seq(InboxMsg)]
  BY DEF TypeOK, ChanType
<1>3. /\ \A c \in Backends : down[c] \in Seq(LaneMsg(c))
      /\ \A d \in Doms : inbox[d] \in Seq(PostMsg(d))
  BY DEF KillOrder, LanesHome
<1>4. m \in LaneMsg(b) /\ m = down[b][1] /\ 1 \in 1..Len(down[b]) /\ Tail(down[b]) \in Seq(LaneMsg(b))
  BY <1>1, <1>3, HeadTailProperties, LenProperties, EmptySeq
<1>5. Shifted(b, 1)
  BY ReceiveShifts
<1>6. KillShifted(b)
  <2> SUFFICES ASSUME NEW r \in Runs, NEW c \in Backends, NEW i \in Nat, OnKill(c, i, r)'
               PROVE  OnKill(c, IF c = b THEN i + 1 ELSE i, r)
    BY DEF KillShifted
  <2>1. CASE c = b
    <3>1. KillAt(Tail(down[b]), i, r)
      BY <1>1, <1>2, <2>1 DEF OnKill
    <3>2. KillAt(down[b], i + 1, r)
      BY <1>1, <1>2, <3>1, TailKill
    <3> QED
      BY <2>1, <3>2 DEF OnKill
  <2>2. CASE c # b
    BY <1>1, <1>2, <2>2 DEF OnKill
  <2> QED
    BY <2>1, <2>2
<1>7. /\ \A c \in Backends : LaneMsg(c)' = LaneMsg(c)
      /\ \A d \in Doms : PostMsg(d)' = PostMsg(d)
  BY <1>1 DEF LaneMsg, PostMsg
<1>8. \A c \in Backends : down'[c] \in Seq(LaneMsg(c)')
  <2> SUFFICES ASSUME NEW c \in Backends PROVE down'[c] \in Seq(LaneMsg(c))
    BY <1>7
  <2>1. CASE c = b
    BY <1>1, <1>2, <1>4, <2>1
  <2>2. CASE c # b
    BY <1>1, <1>2, <1>3, <2>2
  <2> QED
    BY <2>1, <2>2
<1>9. HandlerKnows'
  BY <1>1 DEF KillOrder, HandlerKnows, Frozen
<1>10. \/ inbox' = inbox
       \/ m.type \in {"run", "kill"} /\ inbox' = [inbox EXCEPT ![e] = Append(@, item)]
  BY DEF BackendReceive
<1>11. CASE inbox' = inbox
  <2>1. LanesHome'
    BY <1>3, <1>7, <1>8, <1>11 DEF LanesHome
  <2>2. KillLast' /\ InKillLast' /\ StopsStay
    <3>1. CASE Runs = {}
      BY <3>1 DEF KillLast, InKillLast, StopsStay
    <3>2. CASE Runs # {}
      <4>1. PICK u : u \in Runs
        BY <3>2
      <4>2. \A r \in Runs, d \in Doms, i \in Nat :
              (OnInbox(d, i, r)' => OnInbox(d, i, r)) /\ (InKill(d, i, r)' => InKill(d, i, r))
        BY <1>11 DEF OnInbox, InKill
      <4> QED
        BY <1>1, <1>5, <1>6, <4>1, <4>2, KillMoves
    <3> QED
      BY <3>1, <3>2
  <2> QED
    BY <1>9, <2>1, <2>2 DEF KillOrder
<1>12. CASE m.type \in {"run", "kill"} /\ inbox' = [inbox EXCEPT ![e] = Append(@, item)]
  <2>1. m.run \in Runs /\ e \in Doms /\ placed[m.run] = e
    BY <1>4, <1>12 DEF LaneMsg, DownMsg
  <2>2. item \in PostMsg(e) /\ item \in InboxMsg /\ item.type = m.type /\ item.run = m.run
    BY <1>12, <2>1 DEF PostMsg, InboxMsg
  <2>3. /\ m.type = "run" => OnDown(b, 1, m.run)
        /\ m.type = "kill" => OnKill(b, 1, m.run)
    BY <1>4 DEF OnDown, OnKill, RunAt, KillAt
  <2> HIDE DEF m, item, e
  <2>4. LanesHome'
    <3> SUFFICES ASSUME NEW d \in Doms PROVE inbox'[d] \in Seq(PostMsg(d))
      BY <1>7, <1>8 DEF LanesHome
    <3>1. CASE d = e
      <4>1. Append(inbox[e], item) \in Seq(PostMsg(e))
        BY <1>3, <2>1, <2>2, AppendProperties
      <4> QED
        BY <1>2, <1>12, <2>1, <3>1, <4>1
    <3>2. CASE d # e
      BY <1>2, <1>3, <1>12, <3>2
    <3> QED
      BY <3>1, <3>2
  <2>5. ASSUME NEW r \in Runs, NEW d \in Doms, NEW i \in Nat, OnInbox(d, i, r)'
        PROVE  OnInbox(d, i, r) \/ (m.type = "run" /\ r = m.run)
    <3>1. CASE d # e
      BY <1>2, <1>12, <2>5, <3>1 DEF OnInbox
    <3>2. CASE d = e
      <4>1. RunAt(Append(inbox[d], item), i, r)
        BY <1>2, <1>12, <2>5, <3>2 DEF OnInbox
      <4>2. RunAt(inbox[d], i, r) \/ (i = Len(inbox[d]) + 1 /\ item.type = "run" /\ item.run = r)
        <5>1. inbox[d] \in Seq(InboxMsg) /\ item \in InboxMsg
          BY <1>2, <2>2
        <5> QED
          BY <4>1, <5>1, AppendRun
      <4> QED
        BY <2>2, <4>2 DEF OnInbox
    <3> QED
      BY <3>1, <3>2
  <2>6. ASSUME NEW r \in Runs, NEW d \in Doms, NEW i \in Nat, InKill(d, i, r)'
        PROVE  InKill(d, i, r) \/ (m.type = "kill" /\ r = m.run /\ d = e /\ i = n)
    <3>1. CASE d # e
      BY <1>2, <1>12, <2>6, <3>1 DEF InKill
    <3>2. CASE d = e
      <4>1. KillAt(Append(inbox[d], item), i, r)
        BY <1>2, <1>12, <2>6, <3>2 DEF InKill
      <4>2. KillAt(inbox[d], i, r) \/ (i = Len(inbox[d]) + 1 /\ item.type = "kill" /\ item.run = r)
        <5>1. inbox[d] \in Seq(InboxMsg) /\ item \in InboxMsg
          BY <1>2, <2>2
        <5> QED
          BY <4>1, <5>1, AppendKill
      <4> QED
        BY <2>2, <3>2, <4>2 DEF InKill
    <3> QED
      BY <3>1, <3>2
  <2>7. \A i \in Nat, r \in Runs : OnInbox(e, i, r) => i < n
    BY <1>2, <2>1, LenProperties DEF OnInbox, RunAt
  <2> HIDE DEF n
  <2> DEFINE u == m.run
  <2>8. \A r \in Runs, d \in Doms, i \in Nat :
           OnInbox(d, i, r)' => OnInbox(d, i, r) \/ (OnDown(b, 1, u) /\ r = u)
    BY <2>3, <2>5
  <2>9. \A r \in Runs, d \in Doms, j \in Nat :
           InKill(d, j, r)' =>
              \/ InKill(d, j, r)
              \/ OnKill(b, 1, u) /\ r = u /\ \A i \in Nat : OnInbox(d, i, r)' => i < j
    <3> SUFFICES ASSUME NEW r \in Runs, NEW d \in Doms, NEW j \in Nat, InKill(d, j, r)',
                        ~ InKill(d, j, r)
                 PROVE  OnKill(b, 1, u) /\ r = u /\ \A i \in Nat : OnInbox(d, i, r)' => i < j
      OBVIOUS
    <3>1. m.type = "kill" /\ r = m.run /\ d = e /\ j = n
      BY <2>6
    <3>2. \A i \in Nat : OnInbox(d, i, r)' => OnInbox(d, i, r)
      BY <2>5, <3>1
    <3> QED
      BY <2>3, <2>7, <3>1, <3>2
  <2>10. u \in Runs
    BY <2>1
  <2> HIDE DEF u
  <2>11. KillLast' /\ InKillLast' /\ StopsStay
    BY <1>1, <1>5, <1>6, <2>8, <2>9, <2>10, KillMoves
  <2> QED
    BY <1>9, <2>4, <2>11 DEF KillOrder
<1> QED
  BY <1>10, <1>11, <1>12

\* A plugin that acknowledges a kill has stopped the script, and started it before.
LEMMA PluginKills ==
    ASSUME TypeOK, WireRight, KillOrder, NEW e \in Doms, PluginReceive(e)
    PROVE  /\ KillOrder' /\ StopsStay
           /\ Head(inbox[e]).run \in Runs
           /\ \A r \in Runs :
                 Head(inbox[e]).type = "kill" /\ Head(inbox[e]).run = r => Stopped(r)'
<1> DEFINE m == Head(inbox[e])
<1>1. /\ UNCHANGED <<placed, down, alive, sock>> /\ sock[e] # 0
      /\ inbox[e] # <<>> /\ inbox' = [inbox EXCEPT ![e] = Tail(@)]
  BY DEF PluginReceive, masterVars, backendVars
<1>2. /\ inbox \in [Doms -> Seq(InboxMsg)]
      /\ scripts \in [Doms -> SUBSET Script] /\ tracked \in [Doms -> SUBSET Runs]
  BY DEF TypeOK, ChanType, PluginType
<1>3. \A d \in Doms : inbox[d] \in Seq(PostMsg(d))
  BY DEF KillOrder, LanesHome
<1>4. /\ m \in PostMsg(e) /\ m = inbox[e][1] /\ 1 \in 1..Len(inbox[e])
      /\ Tail(inbox[e]) \in Seq(PostMsg(e))
  BY <1>1, <1>3, HeadTailProperties, LenProperties, EmptySeq
<1>0. PICK u \in Runs : u = m.run
  BY <1>4 DEF PostMsg, InboxMsg
<1>5. /\ placed[u] = e /\ e # None
      /\ m.type = "run" => OnInbox(e, 1, u)
      /\ m.type = "kill" => InKill(e, 1, u)
  BY <1>0, <1>4, DomsAssumption DEF PostMsg, InboxMsg, OnInbox, InKill, RunAt, KillAt
<1>6. \/ /\ m.type = "run" /\ tracked' = [tracked EXCEPT ![e] = @ \cup {u}]
         /\ scripts' = [scripts EXCEPT ![e] = @ \cup {[run |-> u, conn |-> sock[e]]}]
      \/ /\ m.type = "kill" /\ tracked' = [tracked EXCEPT ![e] = @ \ {u}]
         /\ scripts' = [scripts EXCEPT ![e] = Survivors(e, u)]
  BY <1>0 DEF PluginReceive
<1>7. ShiftedIn(e, 1)
  BY PluginShifts
<1> HIDE DEF m
<1>8. KillShiftedIn(e)
  <2> SUFFICES ASSUME NEW r \in Runs, NEW d \in Doms, NEW i \in Nat, InKill(d, i, r)'
               PROVE  InKill(d, IF d = e THEN i + 1 ELSE i, r)
    BY DEF KillShiftedIn
  <2>1. CASE d = e
    <3>1. KillAt(Tail(inbox[e]), i, r)
      BY <1>1, <1>2, <2>1 DEF InKill
    <3>2. KillAt(inbox[e], i + 1, r)
      BY <1>1, <1>2, <3>1, TailKill
    <3> QED
      BY <2>1, <3>2 DEF InKill
  <2>2. CASE d # e
    BY <1>1, <1>2, <2>2 DEF InKill
  <2> QED
    BY <2>1, <2>2
<1>9. LanesHome'
  <2>1. /\ \A c \in Backends : LaneMsg(c)' = LaneMsg(c)
        /\ \A d \in Doms : PostMsg(d)' = PostMsg(d)
    BY <1>1 DEF LaneMsg, PostMsg
  <2>2. \A d \in Doms : inbox'[d] \in Seq(PostMsg(d))
    <3> SUFFICES ASSUME NEW d \in Doms PROVE inbox'[d] \in Seq(PostMsg(d))
      OBVIOUS
    <3>1. CASE d = e
      BY <1>1, <1>2, <1>4, <3>1
    <3>2. CASE d # e
      BY <1>1, <1>2, <1>3, <3>2
    <3> QED
      BY <3>1, <3>2
  <2>3. \A c \in Backends : down'[c] \in Seq(LaneMsg(c))
    BY <1>1 DEF KillOrder, LanesHome
  <2> QED
    BY <2>1, <2>2, <2>3 DEF LanesHome
<1>10. \A r \in Runs, c \in Backends, i \in Nat :
          (OnDown(c, i, r)' <=> OnDown(c, i, r)) /\ (OnKill(c, i, r)' <=> OnKill(c, i, r))
  BY <1>1 DEF OnDown, OnKill
<1>11. KillLast'
  BY <1>10 DEF KillOrder, KillLast
<1>12. InKillLast'
  <2> SUFFICES ASSUME NEW r \in Runs, NEW d \in Doms, NEW j \in Nat, InKill(d, j, r)'
               PROVE  /\ \A c \in Backends, i \in Nat : ~ OnDown(c, i, r)'
                      /\ \A i \in Nat : OnInbox(d, i, r)' => i < j
    BY DEF InKillLast
  <2>1. CASE d = e
    <3>1. InKill(e, j + 1, r)
      BY <1>8, <2>1 DEF KillShiftedIn
    <3>2. /\ \A c \in Backends, i \in Nat : ~ OnDown(c, i, r)
          /\ \A i \in Nat : OnInbox(e, i, r) => i < j + 1
      BY <3>1 DEF KillOrder, InKillLast
    <3>3. ASSUME NEW i \in Nat, OnInbox(d, i, r)' PROVE i < j
      <4>1. OnInbox(e, i + 1, r)
        BY <1>7, <2>1, <3>3 DEF ShiftedIn
      <4>2. i + 1 < j + 1
        BY <3>2, <4>1
      <4> QED
        BY <4>2
    <3> QED
      BY <1>10, <3>2, <3>3
  <2>2. CASE d # e
    <3>1. InKill(d, j, r) /\ \A i \in Nat : OnInbox(d, i, r)' => OnInbox(d, i, r)
      BY <1>7, <1>8, <2>2 DEF KillShiftedIn, ShiftedIn
    <3> QED
      BY <1>10, <3>1 DEF KillOrder, InKillLast
  <2> QED
    BY <2>1, <2>2
<1>13. /\ \A d \in Doms : Home[d] \in alive => \A t \in scripts[d] : t.run \in tracked[d]
       /\ \A d \in Doms : sock[d] # 0 => Home[d] \in alive
  BY DEF KillOrder, HandlerKnows
<1>14. m.type = "kill" => \A t \in Survivors(e, u) : t \in scripts[e] /\ t.run # u
  BY <1>1, <1>13 DEF Survivors
<1>15. HandlerKnows'
  <2> SUFFICES ASSUME NEW d \in Doms, Home[d] \in alive, NEW t \in scripts'[d]
               PROVE  t.run \in tracked'[d]
    BY <1>1, <1>13 DEF HandlerKnows
  <2>1. CASE d # e
    BY <1>2, <1>6, <1>13, <2>1
  <2>2. CASE d = e /\ m.type = "run"
    <3>1. tracked'[e] = tracked[e] \cup {u}
      BY <1>2, <1>6, <2>2
    <3>2. t \in scripts[e] \/ t = [run |-> u, conn |-> sock[e]]
      BY <1>2, <1>6, <2>2
    <3> QED
      BY <1>13, <2>2, <3>1, <3>2
  <2>3. CASE d = e /\ m.type = "kill"
    <3>1. tracked'[e] = tracked[e] \ {u} /\ scripts'[e] = Survivors(e, u)
      BY <1>2, <1>6, <2>3
    <3> QED
      BY <1>13, <1>14, <2>3, <3>1
  <2> QED
    BY <1>6, <2>1, <2>2, <2>3
<1>16. \A r \in Runs : (\A d \in Doms, i \in Nat : ~ OnInbox(d, i, r)) =>
                          \A d \in Doms, i \in Nat : ~ OnInbox(d, i, r)'
  BY <1>7 DEF ShiftedIn
<1>17. StopsStay
  <2> SUFFICES ASSUME NEW r \in Runs, Stopped(r) PROVE Stopped(r)'
    BY DEF StopsStay
  <2>1. /\ \A c \in Backends, i \in Nat : ~ OnDown(c, i, r)'
        /\ \A d \in Doms, i \in Nat : ~ OnInbox(d, i, r)'
    BY <1>10, <1>16 DEF Stopped
  <2>2. ASSUME NEW d \in Doms, NEW t \in scripts'[d] PROVE t.run # r
    <3>1. CASE t \in scripts[d]
      BY <3>1 DEF Stopped
    <3>2. CASE t \notin scripts[d]
      <4>1. m.type = "run" /\ t = [run |-> u, conn |-> sock[e]]
        BY <1>2, <1>6, <1>14, <2>2, <3>2
      <4> QED
        BY <1>5, <4>1 DEF Stopped
    <3> QED
      BY <3>1, <3>2
  <2> QED
    BY <1>1, <2>1, <2>2 DEF Stopped
<1>18. ASSUME m.type = "kill" PROVE Stopped(u)'
  <2>1. /\ \A c \in Backends, i \in Nat : ~ OnDown(c, i, u)
        /\ \A i \in Nat : OnInbox(e, i, u) => i < 1
    BY <1>5, <1>18 DEF KillOrder, InKillLast
  <2>2. ASSUME NEW d \in Doms, NEW i \in Nat, OnInbox(d, i, u) PROVE FALSE
    <3>1. d = e
      BY <1>5, <2>2, LanePlaced DEF KillOrder
    <3>2. i < 1 /\ i # 0
      BY <2>1, <2>2, <3>1 DEF OnInbox, RunAt
    <3> QED
      BY <3>2
  <2>3. \A d \in Doms, i \in Nat : ~ OnInbox(d, i, u)'
    BY <1>5, <1>16, <2>2
  <2>4. ASSUME NEW d \in Doms, NEW t \in scripts'[d] PROVE t.run # u
    <3>1. CASE d # e
      <4>1. t \in scripts[d]
        BY <1>2, <1>6, <1>18, <2>4, <3>1
      <4> QED
        BY <1>5, <3>1, <4>1 DEF WireRight
    <3>2. CASE d = e
      BY <1>2, <1>6, <1>14, <1>18, <2>4, <3>2
    <3> QED
      BY <3>1, <3>2
  <2> QED
    BY <1>1, <1>5, <1>10, <2>1, <2>3, <2>4 DEF Stopped
<1> QED
  BY <1>0, <1>9, <1>11, <1>12, <1>15, <1>17, <1>18 DEF KillOrder, m

\* What else moves on the lanes to the master acknowledges no kill.
LEMMA AckLanes ==
    ASSUME TypeOK, AcksTrue, StopsStay,
           \/ \E b \in Backends : MasterStep(b) \/ BackendLost(b) \/ BackendStep(b) \/ TakeSnapshot(b)
                                  \/ BackendCrash(b)
           \/ \E d \in Doms : \/ Dial(d) \/ Die(d)
                              \/ \E c \in loops[d] : LoopEnd(d, c)
                              \/ \E t \in scripts[d], how \in {"done", "failed"} : ScriptEnd(d, t, how)
                              \/ /\ PluginReceive(d) /\ Head(inbox[d]).run \in Runs
                                 /\ \A r \in Runs :
                                       Head(inbox[d]).type = "kill" /\ Head(inbox[d]).run = r => Stopped(r)'
           \/ UNCHANGED <<relay, out>>
    PROVE  AcksTrue'
<1> DEFINE S == (AckMsg)'
           Plain == {m \in UpMsg : m.type # "killed"}
           Acks == relay' \in [Backends -> Seq(S)] /\ out' \in [Backends -> Seq(S)]
<1>1. ASSUME NEW m \in AckMsg PROVE m \in S
  <2>1. m \in UpMsg /\ (m.type = "killed" => m.run \in Runs)
    BY DEF AckMsg, UpMsg
  <2> QED
    BY <2>1 DEF AckMsg, StopsStay
<1>2. relay \in [Backends -> Seq(S)] /\ out \in [Backends -> Seq(S)]
  <2>1. \A b \in Backends : relay[b] \in Seq(AckMsg) /\ out[b] \in Seq(AckMsg)
    BY DEF AcksTrue
  <2> HIDE DEF S
  <2>2. \A b \in Backends : relay[b] \in Seq(S) /\ out[b] \in Seq(S)
    BY <1>1, <2>1, SeqMonotone
  <2> QED
    BY <2>2 DEF TypeOK, ChanType
<1>3. Acks => AcksTrue'
  BY DEF AcksTrue
<1>4. Plain \subseteq S
  BY DEF AckMsg
<1> HIDE DEF S, Acks
<1>5. ASSUME NEW b \in Backends, NEW m \in S,
             relay' = relay \/ (relay[b] # <<>> /\ relay' = [relay EXCEPT ![b] = Tail(@)]),
             out' = out \/ out' = [out EXCEPT ![b] = Append(@, m)]
      PROVE  AcksTrue'
  <2>1. [out EXCEPT ![b] = Append(@, m)] \in [Backends -> Seq(S)]
    BY <1>2, AppendQueue
  <2>2. relay[b] # <<>> => [relay EXCEPT ![b] = Tail(@)] \in [Backends -> Seq(S)]
    BY <1>2, TailQueue
  <2> QED
    BY <1>2, <1>3, <1>5, <2>1, <2>2 DEF Acks
<1>6. ASSUME NEW b \in Backends, NEW m \in S, out' = out,
             relay' = relay \/ relay' = [relay EXCEPT ![b] = Append(@, m)]
      PROVE  AcksTrue'
  <2>1. [relay EXCEPT ![b] = Append(@, m)] \in [Backends -> Seq(S)]
    BY <1>2, AppendQueue
  <2> QED
    BY <1>2, <1>3, <1>6, <2>1 DEF Acks
<1>7. ASSUME NEW b \in Backends, MasterStep(b) \/ BackendLost(b) PROVE AcksTrue'
  <2>1. relay' = relay
    BY <1>7 DEF MasterStep, HandleNudge, HandleDomDisconnect, HandleFinished, HandleSnapshot,
                HandleFiles, BackendLost, HandlerFrame
  <2>2. (Consume(b) /\ out[b] # <<>>) \/ out' = [out EXCEPT ![b] = <<>>]
    BY <1>7 DEF MasterStep, HandleNudge, HandleDomDisconnect, HandleFinished, HandleSnapshot,
                HandleFiles, BackendLost, Arrived
  <2>3. out[b] # <<>> => [out EXCEPT ![b] = Tail(@)] \in [Backends -> Seq(S)]
    BY <1>2, TailQueue
  <2>4. [out EXCEPT ![b] = <<>>] \in [Backends -> Seq(S)]
    BY <1>2
  <2> QED
    BY <1>2, <1>3, <2>1, <2>2, <2>3, <2>4 DEF Acks, Consume
<1>8. ASSUME NEW b \in Backends, Forward(b) PROVE AcksTrue'
  <2>1. Head(relay[b]) \in S
    BY <1>2, <1>8, TailQueue DEF Forward
  <2> QED
    BY <1>5, <1>8, <2>1 DEF Forward
<1>9. ASSUME NEW b \in Backends, TakeSnapshot(b) PROVE AcksTrue'
  <2>1. [type |-> "snapshot", doms |-> Entries(b)] \in Plain
    BY DEF UpMsg, Entries
  <2> QED
    BY <1>4, <1>5, <1>9, <2>1 DEF TakeSnapshot
<1>10. ASSUME NEW b \in Backends, NEW r \in Runs, FilesDone(b, r) PROVE AcksTrue'
  <2>1. [type |-> "files", run |-> r] \in Plain
    BY DEF UpMsg
  <2> QED
    BY <1>4, <1>5, <1>10, <2>1 DEF FilesDone
<1>11. ASSUME NEW b \in Backends, BackendReceive(b) PROVE AcksTrue'
  <2> DEFINE m == Head(down[b])
             dying == {d \in Entries(b) : Guid[d] = m.guid}
             told(o) == [i \in 1..Len(o) |-> [type |-> "disconnect", dom |-> o[i]]]
  <2>1. out' = out
    BY <1>11 DEF BackendReceive
  <2>2. \/ relay' = relay
        \/ \E order \in SetToSeqs(dying) : relay' = [relay EXCEPT ![b] = @ \o told(order)]
    BY <1>11 DEF BackendReceive
  <2>3. dying \subseteq Doms
    BY DEF Entries
  <2> HIDE DEF dying
  <2>4. ASSUME NEW order \in SetToSeqs(dying), relay' = [relay EXCEPT ![b] = @ \o told(order)]
        PROVE  relay' \in [Backends -> Seq(S)]
    <3>1. Len(order) \in Nat /\ \A i \in 1..Len(order) : order[i] \in Doms
      <4>1. IsFiniteSet(dying)
        BY <2>3, FS_Subset, DomsAssumption
      <4>2. Cardinality(dying) \in Nat
        BY <4>1, FS_CardinalityType
      <4>3. order \in Seq(dying)
        BY <4>2, SeqDef DEF SetToSeqs
      <4> QED
        BY <2>3, <4>3, LenProperties, ElementOfSeq
    <3>2. \A i \in 1..Len(order) : [type |-> "disconnect", dom |-> order[i]] \in Plain
      BY <3>1 DEF UpMsg
    <3>3. told(order) \in Seq(S)
      BY <1>4, <3>1, <3>2, SeqDef
    <3> HIDE DEF told
    <3>4. relay[b] \o told(order) \in Seq(S)
      BY <1>2, <3>3, ConcatProperties
    <3> QED
      BY <1>2, <2>4, <3>4
  <2> HIDE DEF told
  <2> QED
    BY <1>2, <1>3, <2>1, <2>2, <2>4 DEF Acks
<1>12. ASSUME NEW b \in Backends, BackendCrash(b) PROVE AcksTrue'
  <2>1. relay' = [relay EXCEPT ![b] = <<>>] /\ out' = out
    BY <1>12 DEF BackendCrash
  <2>2. [relay EXCEPT ![b] = <<>>] \in [Backends -> Seq(S)]
    BY <1>2
  <2> QED
    BY <1>2, <1>3, <2>1, <2>2 DEF Acks
<1>13. ASSUME NEW d \in Doms, Dial(d) \/ \E c \in loops[d] : LoopEnd(d, c) PROVE AcksTrue'
  <2>1. Home[d] \in Backends
    BY DomsAssumption
  <2>2. [type |-> "connect", dom |-> d] \in Plain /\ [type |-> "disconnect", dom |-> d] \in Plain
    BY DEF UpMsg
  <2>3. /\ out' = out
        /\ \/ relay' = [relay EXCEPT ![Home[d]] = Append(@, [type |-> "connect", dom |-> d])]
           \/ relay' = [relay EXCEPT ![Home[d]] = Append(@, [type |-> "disconnect", dom |-> d])]
    BY <1>13 DEF Dial, LoopEnd
  <2> QED
    BY <1>4, <1>6, <2>1, <2>2, <2>3
<1>14. ASSUME NEW d \in Doms, Die(d) PROVE AcksTrue'
  <2>1. /\ relay' = relay
        /\ \/ out' = out
           \/ out' = [out EXCEPT ![Home[d]] = Append(@, [type |-> "exited", guid |-> Guid[d]])]
    BY <1>14 DEF Die
  <2>2. Home[d] \in Backends /\ [type |-> "exited", guid |-> Guid[d]] \in Plain
    BY DomsAssumption DEF UpMsg
  <2> QED
    BY <1>4, <1>5, <2>1, <2>2
<1>15. ASSUME NEW d \in Doms, NEW t \in scripts[d], NEW how \in {"done", "failed"}, ScriptEnd(d, t, how)
       PROVE  AcksTrue'
  <2>1. t.run \in Runs /\ Home[d] \in Backends
    BY DomsAssumption DEF TypeOK, PluginType, Script
  <2>2. [type |-> how, run |-> t.run] \in Plain
    BY <2>1 DEF UpMsg
  <2>3. /\ out' = out
        /\ \/ relay' = relay
           \/ relay' = [relay EXCEPT ![Home[d]] = Append(@, [type |-> how, run |-> t.run])]
    BY <1>15 DEF ScriptEnd
  <2> QED
    BY <1>4, <1>6, <2>1, <2>2, <2>3
<1>16. ASSUME NEW d \in Doms, PluginReceive(d), Head(inbox[d]).run \in Runs,
              \A r \in Runs : Head(inbox[d]).type = "kill" /\ Head(inbox[d]).run = r => Stopped(r)'
       PROVE  AcksTrue'
  <2>1. PICK u \in Runs : u = Head(inbox[d]).run
    BY <1>16
  <2> DEFINE m == [type |-> "killed", run |-> u]
  <2>2. /\ out' = out
        /\ \/ relay' = relay
           \/ Head(inbox[d]).type = "kill" /\ relay' = [relay EXCEPT ![Home[d]] = @ \o <<m>>]
    BY <1>16, <2>1 DEF PluginReceive, KillAck
  <2>3. Head(inbox[d]).type = "kill" => m \in S
    BY <1>16, <2>1 DEF S, AckMsg, UpMsg
  <2>4. Home[d] \in Backends
    BY DomsAssumption
  <2> HIDE DEF m
  <2>5. m \in S => [relay EXCEPT ![Home[d]] = @ \o <<m>>] \in [Backends -> Seq(S)]
    <3> SUFFICES ASSUME m \in S PROVE [relay EXCEPT ![Home[d]] = @ \o <<m>>] \in [Backends -> Seq(S)]
      OBVIOUS
    <3>1. <<m>> \in Seq(S) /\ relay[Home[d]] \in Seq(S)
      BY <1>2, <2>4
    <3>2. relay[Home[d]] \o <<m>> \in Seq(S)
      BY <3>1, ConcatProperties
    <3> QED
      BY <1>2, <2>4, <3>2
  <2> QED
    BY <1>2, <1>3, <2>2, <2>3, <2>5 DEF Acks
<1>17. CASE UNCHANGED <<relay, out>>
  BY <1>2, <1>3, <1>17 DEF Acks
<1> QED
  BY <1>7, <1>8, <1>9, <1>10, <1>11, <1>12, <1>13, <1>14, <1>15, <1>16, <1>17 DEF BackendStep

\* No step changes what may disturb the behaviour.
LEMMA EnvKept ==
    ASSUME [Next]_vars
    PROVE  env' = env
<1>1. ASSUME NEW r \in Runs, RunStep(r) PROVE env' = env
  BY <1>1 DEF RunStep, ClientStep, Submit, Reject, ClientReceive, ClientStreamEnd, ClientDrop,
              ReaderEnd, Kill, backendVars
<1>2. ASSUME NEW b \in Backends, MasterStep(b) \/ BackendLost(b) PROVE env' = env
  BY <1>2 DEF MasterStep, HandleNudge, HandleDomDisconnect, HandleFinished, HandleSnapshot,
              HandleFiles, BackendLost, HandlerFrame, backendVars
<1>3. ASSUME NEW b \in Backends, BackendStep(b) \/ TakeSnapshot(b) \/ BackendCrash(b) PROVE env' = env
  BY <1>3 DEF BackendStep, Forward, BackendReceive, FilesDone, TakeSnapshot, BackendCrash, backendVars
<1>4. ASSUME NEW d \in Doms, DomStep(d) PROVE env' = env
  BY <1>4 DEF DomStep, Dial, Lose, Die, Rewire, PluginReceive, LoopEnd, ScriptEnd, backendVars
<1> QED
  BY <1>1, <1>2, <1>3, <1>4 DEF Next, Close, vars, backendVars

\* The steps of a behaviour in which no socket is lost and no handler replaced.
LEMMA KillStep ==
    ASSUME TypeOK, ChosenOnce, WireRight, ScriptsFresh, KillInv, env \cap {"lose", "rewire"} = {},
           [Next]_vars
    PROVE  KillInv'
<1>0. KillOrder /\ LanesHome /\ AcksTrue /\ Kept
  BY ChoiceStep DEF KillInv, KillOrder
<1>1. ASSUME KillOrder', AcksTrue' PROVE KillInv'
  BY <1>1 DEF KillInv, KillOrder
<1>2. ASSUME NEW r \in Runs, Submit(r) PROVE KillInv'
  <2>1. UNCHANGED <<relay, out, inbox>> /\ Frozen
    BY <1>2 DEF Submit, backendVars, pluginVars, Frozen
  <2>2. KillOrder' /\ StopsStay
    BY <1>0, <1>2, <2>1, SubmitAdds, SubmitKills, AddsKills
  <2> QED
    BY <1>0, <1>1, <2>1, <2>2, AckLanes
<1>3. ASSUME NEW b \in Backends, MasterStep(b) \/ BackendLost(b) PROVE KillInv'
  <2>1. inbox' = inbox /\ Frozen
    BY <1>3 DEF MasterStep, HandleNudge, HandleDomDisconnect, HandleFinished, HandleSnapshot,
                HandleFiles, BackendLost, HandlerFrame, backendVars, pluginVars, Frozen
  <2>2. KillOrder' /\ StopsStay
    BY <1>0, <1>3, <2>1, MasterAdds, MasterKills, AddsKills
  <2> QED
    BY <1>0, <1>1, <1>3, <2>2, AckLanes
<1>4. ASSUME NEW r \in Runs, Kill(r) \/ ReaderEnd(r) PROVE KillInv'
  <2>1. UNCHANGED <<relay, out>>
    BY <1>4 DEF Kill, ReaderEnd
  <2>2. KillOrder' /\ StopsStay
    BY <1>0, <1>4, KillKills
  <2> QED
    BY <1>0, <1>1, <2>1, <2>2, AckLanes
<1>5. ASSUME NEW b \in Backends, BackendReceive(b) PROVE KillInv'
  <2>1. KillOrder' /\ StopsStay
    BY <1>0, <1>5, ReceiveKills
  <2> QED
    BY <1>0, <1>1, <1>5, <2>1, AckLanes DEF BackendStep
<1>6. ASSUME NEW d \in Doms, PluginReceive(d) PROVE KillInv'
  <2>1. /\ KillOrder' /\ StopsStay
        /\ Head(inbox[d]).run \in Runs
        /\ \A r \in Runs :
              Head(inbox[d]).type = "kill" /\ Head(inbox[d]).run = r => Stopped(r)'
    BY <1>0, <1>6, PluginKills
  <2> QED
    BY <1>0, <1>1, <1>6, <2>1, AckLanes
<1>7. ASSUME NEW g \in Guids, Close(g) PROVE KillInv'
  <2>1. KillOrder' /\ StopsStay
    BY <1>0, <1>7, OtherKills
  <2> QED
    BY <1>0, <1>1, <1>7, <2>1, AckLanes DEF Close
<1>8. ASSUME NEW b \in Backends, BackendCrash(b) PROVE KillInv'
  <2>1. KillOrder' /\ StopsStay
    BY <1>0, <1>8, OtherKills
  <2> QED
    BY <1>0, <1>1, <1>8, <2>1, AckLanes
<1>9. ASSUME NEW d \in Doms,
             \/ Dial(d) \/ Die(d)
             \/ \E t \in scripts[d], how \in {"done", "failed"} : ScriptEnd(d, t, how)
      PROVE  KillInv'
  <2>1. KillOrder' /\ StopsStay
    BY <1>0, <1>9, OtherKills
  <2> QED
    BY <1>0, <1>1, <1>9, <2>1, AckLanes
<1>10. ASSUME UNCHANGED <<placed, down, inbox>>, Frozen PROVE KillOrder' /\ StopsStay
  BY <1>0, <1>10, OtherKills
<1>11. ASSUME NEW r \in Runs, Reject(r) \/ ClientStep(r) \/ ClientDrop(r) PROVE KillInv'
  <2>1. UNCHANGED <<placed, down, inbox, relay, out>> /\ Frozen
    BY <1>11 DEF Reject, ClientStep, ClientReceive, ClientStreamEnd, ClientDrop,
                 masterVars, backendVars, pluginVars, Frozen
  <2> QED
    BY <1>0, <1>1, <1>10, <2>1, AckLanes
<1>12. ASSUME NEW b \in Backends, Forward(b) \/ TakeSnapshot(b) \/ \E r \in Runs : FilesDone(b, r)
       PROVE  KillInv'
  <2>1. UNCHANGED <<placed, down, inbox>> /\ Frozen
    BY <1>12 DEF Forward, TakeSnapshot, FilesDone, masterVars, backendVars, pluginVars, Frozen
  <2> QED
    BY <1>0, <1>1, <1>10, <1>12, <2>1, AckLanes DEF BackendStep
<1>13. ASSUME NEW d \in Doms, \E c \in loops[d] : LoopEnd(d, c) PROVE KillInv'
  <2>1. UNCHANGED <<placed, down, inbox>> /\ Frozen
    BY <1>13 DEF LoopEnd, masterVars, pluginVars, Frozen
  <2> QED
    BY <1>0, <1>1, <1>10, <1>13, <2>1, AckLanes
<1>14. ASSUME NEW d \in Doms, Lose(d) \/ Rewire(d) PROVE KillInv'
  BY <1>14 DEF Lose, Rewire
<1>15. ASSUME UNCHANGED vars PROVE KillInv'
  <2>1. UNCHANGED <<placed, down, inbox, relay, out>> /\ Frozen
    BY <1>15 DEF vars, masterVars, chanVars, backendVars, pluginVars, Frozen
  <2> QED
    BY <1>0, <1>1, <1>10, <2>1, AckLanes
<1> QED
  BY <1>2, <1>3, <1>4, <1>5, <1>6, <1>7, <1>8, <1>9, <1>11, <1>12, <1>13, <1>14, <1>15
     DEF Next, RunStep, DomStep, BackendStep

LEMMA KillInit == Init => KillInv
<1> SUFFICES ASSUME Init PROVE KillInv
  OBVIOUS
<1>1. LanesHome
  BY DEF Init, LanesHome
<1>2. KillLast /\ InKillLast
  BY DEF Init, KillLast, InKillLast, OnKill, InKill, KillAt
<1>3. HandlerKnows
  BY DEF Init, HandlerKnows
<1>4. AcksTrue
  BY DEF Init, AcksTrue
<1> QED
  BY <1>1, <1>2, <1>3, <1>4 DEF KillInv

LEMMA AcksStopped ==
    ASSUME TypeOK, KillInv
    PROVE  KilledIsStopped
<1> SUFFICES ASSUME NEW r \in Runs, NEW b \in Backends,
                    \/ Contains(relay[b], [type |-> "killed", run |-> r])
                    \/ Contains(out[b], [type |-> "killed", run |-> r]),
                    NEW d \in Doms
             PROVE  ~ Sent(r, d) /\ ~ Executing(r, d)
  BY DEF KilledIsStopped
<1> DEFINE ack == [type |-> "killed", run |-> r]
<1>1. relay[b] \in Seq(AckMsg) /\ out[b] \in Seq(AckMsg)
  BY DEF KillInv, AcksTrue
<1>2. \A i \in DOMAIN relay[b] : relay[b][i] \in AckMsg
  BY <1>1, LenProperties, ElementOfSeq
<1>3. \A i \in DOMAIN out[b] : out[b][i] \in AckMsg
  BY <1>1, LenProperties, ElementOfSeq
<1>4. ack \in AckMsg
  BY <1>2, <1>3 DEF Contains
<1>5. Stopped(r)
  BY <1>4 DEF AckMsg
<1>6. ~ Executing(r, d)
  BY <1>5 DEF Stopped, Executing
<1>7. Home[d] \in Backends
  BY DomsAssumption
<1> QED
  BY <1>5, <1>6, <1>7, SentSomewhere DEF Stopped

\* `rodeo kill` reports the truth, in every behaviour where no socket is lost and no
\* handler replaced: a Killed on its way to the master is of a run no copy of
\* which is queued on a lane or executes.
THEOREM KillAcksTrue == Spec => []KillAckTruthful
<1> DEFINE Calm == env \cap {"lose", "rewire"} = {}
           I == TypeOK /\ RouteInv /\ OnceInv /\ TrueInv /\ (Calm => KillInv)
<1>1. Init => I
  BY TypeInit, RouteInit, OnceInit, TrueInit, KillInit
<1>2. I /\ [Next]_vars => I'
  <2> SUFFICES ASSUME I, [Next]_vars PROVE I'
    OBVIOUS
  <2>1. TypeOK' /\ RouteInv'
    BY RouteStep
  <2>2. OnceInv' /\ TrueInv'
    BY OnceStep, TrueStep DEF RouteInv
  <2>3. env' = env
    BY EnvKept
  <2>4. Calm' => KillInv'
    <3>1. Calm' <=> Calm
      BY <2>3
    <3>2. ScriptsFresh
      BY DEF TrueInv
    <3> QED
      BY <3>1, <3>2, KillStep DEF RouteInv
  <2> QED
    BY <2>1, <2>2, <2>4
<1>3. I => KillAckTruthful
  BY AcksStopped DEF KillAckTruthful
<1> HIDE DEF I
<1> QED
  BY <1>1, <1>2, <1>3, PTL DEF Spec

-----------------------------------------------------------------------------
(* A run that waits for its files will get them *)

NoticeAt(q, i, r) == i \in 1..Len(q) /\ q[i].type = "completed" /\ q[i].run = r
FilesAt(q, i, r) == i \in 1..Len(q) /\ q[i].type = "files" /\ q[i].run = r
OnNotice(b, i, r) == NoticeAt(down[b], i, r)
OnFiles(b, i, r) == FilesAt(out[b], i, r)

\* Every element of a concatenation is one of its parts', at its place.
LEMMA ConcatPlaces ==
    ASSUME NEW S, NEW p \in Seq(S), NEW q \in Seq(S)
    PROVE  /\ p \o q \in Seq(S) /\ Len(p) \in Nat /\ Len(q) \in Nat
           /\ Len(p \o q) = Len(p) + Len(q)
           /\ \A i \in 1..Len(p) : i \in 1..Len(p \o q) /\ (p \o q)[i] = p[i]
           /\ \A k \in 1..Len(q) : Len(p) + k \in 1..Len(p \o q) /\ (p \o q)[Len(p) + k] = q[k]
           /\ \A i \in 1..Len(p \o q) :
                 i \in 1..Len(p) \/ (i - Len(p) \in 1..Len(q) /\ (p \o q)[i] = q[i - Len(p)])
<1>1. /\ Len(p \o q) = Len(p) + Len(q) /\ Len(p) \in Nat /\ Len(q) \in Nat /\ p \o q \in Seq(S)
      /\ \A k \in 1..Len(p) + Len(q) : (p \o q)[k] = IF k <= Len(p) THEN p[k] ELSE q[k - Len(p)]
  BY ConcatProperties, LenProperties
<1>2. \A i \in 1..Len(p) : i \in 1..Len(p \o q) /\ (p \o q)[i] = p[i]
  BY <1>1
<1>3. ASSUME NEW k \in 1..Len(q)
      PROVE  Len(p) + k \in 1..Len(p \o q) /\ (p \o q)[Len(p) + k] = q[k]
  <2>1. Len(p) + k \in 1..Len(p) + Len(q) /\ ~ Len(p) + k <= Len(p) /\ Len(p) + k - Len(p) = k
    BY <1>1
  <2> QED
    BY <1>1, <2>1
<1>4. ASSUME NEW i \in 1..Len(p \o q)
      PROVE  i \in 1..Len(p) \/ (i - Len(p) \in 1..Len(q) /\ (p \o q)[i] = q[i - Len(p)])
  BY <1>1
<1> QED
  BY <1>1, <1>2, <1>3, <1>4

LEMMA AppendPlaces ==
    ASSUME NEW S, NEW q \in Seq(S), NEW m \in S
    PROVE  /\ Len(q) \in Nat /\ Len(Append(q, m)) = Len(q) + 1 /\ Append(q, m)[Len(q) + 1] = m
           /\ \A i \in 1..Len(q) : i \in 1..Len(Append(q, m)) /\ Append(q, m)[i] = q[i]
           /\ \A i \in 1..Len(Append(q, m)) : i \in 1..Len(q) \/ i = Len(q) + 1
<1>1. /\ Len(Append(q, m)) = Len(q) + 1 /\ Append(q, m)[Len(q) + 1] = m
      /\ \A k \in 1..Len(q) : Append(q, m)[k] = q[k]
  BY AppendProperties
<1> QED
  BY <1>1, LenProperties

LEMMA TailPlaces ==
    ASSUME NEW S, NEW q \in Seq(S), q # <<>>
    PROVE  /\ Len(q) \in Nat \ {0} /\ Head(q) = q[1]
           /\ \A i \in 1..Len(q) : i # 1 => i - 1 \in 1..Len(Tail(q)) /\ Tail(q)[i - 1] = q[i]
           /\ \A i \in 1..Len(Tail(q)) : i + 1 \in 1..Len(q) /\ Tail(q)[i] = q[i + 1]
<1>1. Head(q) = q[1] /\ Len(Tail(q)) = Len(q) - 1 /\ \A k \in 1..Len(Tail(q)) : Tail(q)[k] = q[k + 1]
  BY HeadTailProperties
<1>2. Len(q) \in Nat \ {0}
  BY LenProperties, EmptySeq
<1>3. ASSUME NEW i \in 1..Len(q), i # 1
      PROVE  i - 1 \in 1..Len(Tail(q)) /\ Tail(q)[i - 1] = q[i]
  <2>1. i - 1 \in 1..Len(Tail(q)) /\ (i - 1) + 1 = i
    BY <1>1, <1>2, <1>3
  <2> QED
    BY <1>1, <2>1
<1>4. \A i \in 1..Len(Tail(q)) : i + 1 \in 1..Len(q)
  BY <1>1, <1>2
<1> QED
  BY <1>1, <1>2, <1>3, <1>4

\* A list of a set's elements lists them all.
LEMMA OrderingFull ==
    ASSUME NEW T \in SUBSET Runs, NEW q \in SetToSeqs(T), NEW r \in T
    PROVE  \E k \in 1..Len(q) : q[k] = r
<1>1. IsFiniteSet(T)
  BY FS_Subset, RunsAssumption
<1> DEFINE n == Cardinality(T)
           D == 1..n
<1>2. n \in Nat
  BY <1>1, FS_CardinalityType
<1>3. IsFiniteSet(D) /\ Cardinality(D) = n
  BY <1>2, FS_Interval
<1>4. q \in [D -> T] /\ \A i, j \in D : i # j => q[i] # q[j]
  BY DEF SetToSeqs
<1>5. q \in Seq(T) /\ Len(q) = n
  BY <1>2, <1>4, OrderingType, LenProperties
<1>6. q \in Injection(D, T)
  BY <1>4 DEF Injection, IsInjective
<1> HIDE DEF n, D
<1>7. q \in Surjection(D, T)
  BY <1>1, <1>3, <1>6, FS_Injection DEF n
<1>8. \E k \in D : q[k] = r
  BY <1>7 DEF Surjection
<1> QED
  BY <1>5, <1>8 DEF D

\* What is on the lanes stays where it is.
Grown ==
    \A r \in Runs, b \in Backends, i \in Nat :
        (OnDown(b, i, r) => OnDown(b, i, r)') /\ (OnNotice(b, i, r) => OnNotice(b, i, r)')
\* The master dispatches run r.
Placing(r) ==
    /\ placed[r] = None /\ placed'[r] \in Doms
    /\ active'[r] # None /\ active'[r].state = "running"
    /\ \E i \in Nat : OnDown(Home[placed[r]], i, r)'

\* What reconciling sends: the command of each run it places, after what the
\* handler itself had to say.
LEMMA ReconcileSends ==
    ASSUME TypeOK, NEW P \in SUBSET Runs, \A r \in P : placed[r] = None,
           NEW A, NEW V \in SUBSET Doms, NEW note, NEW extra \in [Backends -> Seq(PlainDown)],
           Reconcile(P, A, V, note, extra)
    PROVE  /\ Grown
           /\ \A r \in Runs : Placing(r) \/ (placed'[r] = placed[r] /\ active'[r] = A[r])
           /\ \A r \in Runs, b \in Backends, j \in Nat : OnNotice(b, j, r)' =>
                 OnNotice(b, j, r) \/ \E k \in Nat : NoticeAt(extra[b], k, r)
           /\ \A r \in Runs, b \in Backends, k \in Nat :
                 NoticeAt(extra[b], k, r) => \E j \in Nat : OnNotice(b, j, r)' /\ Len(down[b]) < j
<1>0. PICK place \in Placements(request', P, V) :
         \E batch \in Batches(place) : Dispatch(P, A, V, note, extra, place, batch)
  BY DEF Reconcile
<1>1. PICK batch \in Batches(place) : Dispatch(P, A, V, note, extra, place, batch)
  BY <1>0
<1> DEFINE share(b) == {r \in DOMAIN place : Home[place[r]] = b}
           sent(b) == [i \in 1..Len(batch[b]) |->
                          [type |-> "run", run |-> batch[b][i], dom |-> place[batch[b][i]]]]
<1>2. DOMAIN place \subseteq P /\ \A r \in DOMAIN place : place[r] \in Doms
  BY DEF Placements
<1>3. /\ down' = [b \in Backends |-> down[b] \o extra[b] \o sent(b)]
      /\ placed' = [r \in Runs |-> IF r \in DOMAIN place THEN place[r] ELSE placed[r]]
      /\ active' = [r \in Runs |-> IF r \in DOMAIN place
                                   THEN [dom |-> place[r], state |-> "running"] ELSE A[r]]
  BY <1>1 DEF Dispatch
<1>4. ASSUME NEW b \in Backends
      PROVE  /\ down[b] \in Seq(DownMsg) /\ extra[b] \in Seq(DownMsg) /\ sent(b) \in Seq(DownMsg)
             /\ Len(sent(b)) = Len(batch[b])
             /\ \A r \in share(b) : \E k \in 1..Len(sent(b)) : sent(b)[k].type = "run" /\ sent(b)[k].run = r
             /\ \A k \in 1..Len(sent(b)) : sent(b)[k].type # "completed"
  <2>1. share(b) \in SUBSET Runs /\ batch[b] \in SetToSeqs(share(b))
    BY <1>2 DEF Batches, NewestFirst
  <2>2. batch[b] \in Seq(share(b))
    <3> HIDE DEF share
    <3> QED
      BY <2>1, OrderingType
  <2>3. Len(batch[b]) \in Nat /\ \A k \in 1..Len(batch[b]) : batch[b][k] \in share(b)
    BY <2>2, LenProperties, ElementOfSeq
  <2>4. \A k \in 1..Len(batch[b]) :
           [type |-> "run", run |-> batch[b][k], dom |-> place[batch[b][k]]] \in DownMsg
    BY <1>2, <2>3 DEF DownMsg
  <2>5. sent(b) \in Seq(DownMsg) /\ Len(sent(b)) = Len(batch[b])
    BY <2>3, <2>4, SeqDef, LenProperties
  <2>6. \A k \in 1..Len(sent(b)) : sent(b)[k].type = "run" /\ sent(b)[k].run = batch[b][k]
    BY <2>5
  <2>7. \A r \in share(b) : \E k \in 1..Len(batch[b]) : batch[b][k] = r
    <3> HIDE DEF share
    <3> QED
      BY <2>1, OrderingFull
  <2>8. down[b] \in Seq(DownMsg) /\ extra[b] \in Seq(DownMsg)
    BY SeqMonotone DEF TypeOK, ChanType, PlainDown
  <2> HIDE DEF sent, share
  <2> QED
    BY <2>5, <2>6, <2>7, <2>8
<1>5. ASSUME NEW b \in Backends
      PROVE  /\ Len(down[b]) \in Nat /\ Len(extra[b]) \in Nat
             /\ \A i \in 1..Len(down[b]) : i \in 1..Len(down'[b]) /\ down'[b][i] = down[b][i]
             /\ \A k \in 1..Len(extra[b]) :
                   Len(down[b]) + k \in 1..Len(down'[b]) /\ down'[b][Len(down[b]) + k] = extra[b][k]
             /\ \A k \in 1..Len(sent(b)) :
                   \E i \in Nat : i \in 1..Len(down'[b]) /\ down'[b][i] = sent(b)[k]
             /\ \A i \in 1..Len(down'[b]) :
                   \/ i \in 1..Len(down[b])
                   \/ \E k \in 1..Len(extra[b]) : down'[b][i] = extra[b][k]
                   \/ \E k \in 1..Len(sent(b)) : down'[b][i] = sent(b)[k]
  <2> DEFINE l == down[b]
             x == extra[b]
             s == sent(b)
             h == l \o x
             q == h \o s
  <2>1. l \in Seq(DownMsg) /\ x \in Seq(DownMsg) /\ s \in Seq(DownMsg)
    BY <1>4
  <2>2. down'[b] = q
    BY <1>3
  <2> HIDE DEF s, l, x
  <2>3. /\ h \in Seq(DownMsg) /\ Len(l) \in Nat /\ Len(x) \in Nat /\ Len(h) = Len(l) + Len(x)
        /\ \A i \in 1..Len(l) : i \in 1..Len(h) /\ h[i] = l[i]
        /\ \A k \in 1..Len(x) : Len(l) + k \in 1..Len(h) /\ h[Len(l) + k] = x[k]
        /\ \A i \in 1..Len(h) :
              i \in 1..Len(l) \/ (i - Len(l) \in 1..Len(x) /\ h[i] = x[i - Len(l)])
    BY <2>1, ConcatPlaces
  <2> HIDE DEF h
  <2>4. /\ Len(h) \in Nat /\ Len(s) \in Nat /\ Len(q) = Len(h) + Len(s)
        /\ \A i \in 1..Len(h) : i \in 1..Len(q) /\ q[i] = h[i]
        /\ \A k \in 1..Len(s) : Len(h) + k \in 1..Len(q) /\ q[Len(h) + k] = s[k]
        /\ \A i \in 1..Len(q) :
              i \in 1..Len(h) \/ (i - Len(h) \in 1..Len(s) /\ q[i] = s[i - Len(h)])
    <3>1. h \in Seq(DownMsg) /\ s \in Seq(DownMsg)
      BY <2>1, <2>3
    <3> QED
      BY <3>1, ConcatPlaces
  <2> HIDE DEF q
  <2>5. \A i \in 1..Len(l) : i \in 1..Len(q) /\ q[i] = l[i]
    BY <2>3, <2>4
  <2>6. \A k \in 1..Len(x) : Len(l) + k \in 1..Len(q) /\ q[Len(l) + k] = x[k]
    BY <2>3, <2>4
  <2>7. \A k \in 1..Len(s) : \E i \in Nat : i \in 1..Len(q) /\ q[i] = s[k]
    BY <2>4
  <2>8. ASSUME NEW i \in 1..Len(q)
        PROVE  \/ i \in 1..Len(l)
               \/ \E k \in 1..Len(x) : q[i] = x[k]
               \/ \E k \in 1..Len(s) : q[i] = s[k]
    <3>1. CASE i \in 1..Len(h)
      <4>1. i \in 1..Len(l) \/ (i - Len(l) \in 1..Len(x) /\ h[i] = x[i - Len(l)])
        BY <2>3, <3>1
      <4> QED
        BY <2>4, <3>1, <4>1
    <3>2. CASE i - Len(h) \in 1..Len(s) /\ q[i] = s[i - Len(h)]
      BY <3>2
    <3> QED
      BY <2>4, <3>1, <3>2
  <2>9. Len(down[b]) \in Nat /\ Len(extra[b]) \in Nat
    BY <2>3 DEF l, x
  <2>10. \A i \in 1..Len(down[b]) : i \in 1..Len(down'[b]) /\ down'[b][i] = down[b][i]
    BY <2>2, <2>5 DEF l
  <2>11. \A k \in 1..Len(extra[b]) :
            /\ Len(down[b]) + k \in 1..Len(down'[b])
            /\ down'[b][Len(down[b]) + k] = extra[b][k]
    BY <2>2, <2>6 DEF l, x
  <2>12. \A k \in 1..Len(sent(b)) :
            \E i \in Nat : i \in 1..Len(down'[b]) /\ down'[b][i] = sent(b)[k]
    BY <2>2, <2>7 DEF s
  <2>13. \A i \in 1..Len(down'[b]) :
            \/ i \in 1..Len(down[b])
            \/ \E k \in 1..Len(extra[b]) : down'[b][i] = extra[b][k]
            \/ \E k \in 1..Len(sent(b)) : down'[b][i] = sent(b)[k]
    BY <2>2, <2>8 DEF l, x, s
  <2> HIDE DEF sent, share
  <2> QED
    BY <2>9, <2>10, <2>11, <2>12, <2>13
<1> HIDE DEF sent, share
<1>6. Grown
  <2> SUFFICES ASSUME NEW r \in Runs, NEW b \in Backends, NEW i \in Nat
               PROVE  (OnDown(b, i, r) => OnDown(b, i, r)') /\ (OnNotice(b, i, r) => OnNotice(b, i, r)')
    BY DEF Grown
  <2>1. \A j \in 1..Len(down[b]) : j \in 1..Len(down'[b]) /\ down'[b][j] = down[b][j]
    BY <1>5
  <2> QED
    BY <2>1 DEF OnDown, OnNotice, RunAt, NoticeAt
<1>7. ASSUME NEW r \in Runs
      PROVE  Placing(r) \/ (placed'[r] = placed[r] /\ active'[r] = A[r])
  <2>1. CASE r \in DOMAIN place
    <3>1. /\ placed[r] = None /\ placed'[r] = place[r] /\ place[r] \in Doms
          /\ active'[r] = [dom |-> place[r], state |-> "running"]
      BY <1>2, <1>3, <2>1
    <3>2. active'[r] \in ActiveRun /\ active'[r].state = "running"
      BY <3>1 DEF ActiveRun
    <3>3. Home[place[r]] \in Backends /\ r \in share(Home[place[r]])
      BY <2>1, <3>1, DomsAssumption DEF share
    <3> DEFINE b == Home[place[r]]
    <3>4. PICK k \in 1..Len(sent(b)) : sent(b)[k].type = "run" /\ sent(b)[k].run = r
      BY <1>4, <3>3
    <3>5. PICK i \in Nat : i \in 1..Len(down'[b]) /\ down'[b][i] = sent(b)[k]
      BY <1>5, <3>3
    <3>6. RunAt(down'[b], i, r)
      BY <3>4, <3>5 DEF RunAt
    <3>7. \E j \in Nat : OnDown(Home[placed[r]], j, r)'
      BY <3>1, <3>6 DEF OnDown
    <3> QED
      BY <3>1, <3>2, <3>7, NoneAssumption DEF Placing
  <2>2. CASE r \notin DOMAIN place
    BY <1>3, <2>2
  <2> QED
    BY <2>1, <2>2
<1>8. ASSUME NEW r \in Runs, NEW b \in Backends, NEW j \in Nat, OnNotice(b, j, r)'
      PROVE  OnNotice(b, j, r) \/ \E k \in Nat : NoticeAt(extra[b], k, r)
  <2>1. j \in 1..Len(down'[b]) /\ down'[b][j].type = "completed" /\ down'[b][j].run = r
    BY <1>8 DEF OnNotice, NoticeAt
  <2>2. \/ j \in 1..Len(down[b])
        \/ \E k \in 1..Len(extra[b]) : down'[b][j] = extra[b][k]
        \/ \E k \in 1..Len(sent(b)) : down'[b][j] = sent(b)[k]
    BY <1>5, <2>1
  <2>3. CASE j \in 1..Len(down[b])
    <3>1. down'[b][j] = down[b][j]
      BY <1>5, <2>3
    <3> QED
      BY <2>1, <2>3, <3>1 DEF OnNotice, NoticeAt
  <2>4. CASE \E k \in 1..Len(extra[b]) : down'[b][j] = extra[b][k]
    BY <2>1, <2>4 DEF NoticeAt
  <2>5. CASE \E k \in 1..Len(sent(b)) : down'[b][j] = sent(b)[k]
    BY <1>4, <2>1, <2>5
  <2> QED
    BY <2>2, <2>3, <2>4, <2>5
<1>9. ASSUME NEW r \in Runs, NEW b \in Backends, NEW k \in Nat, NoticeAt(extra[b], k, r)
      PROVE  \E j \in Nat : OnNotice(b, j, r)' /\ Len(down[b]) < j
  <2>1. k \in 1..Len(extra[b]) /\ extra[b][k].type = "completed" /\ extra[b][k].run = r
    BY <1>9 DEF NoticeAt
  <2>2. Len(down[b]) \in Nat /\ Len(extra[b]) \in Nat
    BY <1>5
  <2>3. PICK j \in Nat : j = Len(down[b]) + k
    BY <2>2
  <2>4. j \in 1..Len(down'[b]) /\ down'[b][j] = extra[b][k] /\ Len(down[b]) < j
    BY <1>5, <2>1, <2>2, <2>3
  <2> QED
    BY <2>1, <2>4 DEF OnNotice, NoticeAt
<1> QED
  BY <1>6, <1>7, <1>8, <1>9

\* A backend that has run r on its lane or with its scanner will unregister it when
\* told; one that drains r has been told, or has sent what there was.
Scans(b, r) == <<b, r>> \in scanning \/ \E i \in Nat : OnDown(b, i, r)
Drains(b, r) ==
    \/ <<b, r>> \in flushing
    \/ \E i \in Nat : OnFiles(b, i, r)
    \/ \E j \in Nat :
          /\ OnNotice(b, j, r)
          /\ <<b, r>> \in scanning \/ \E i \in Nat : OnDown(b, i, r) /\ i < j
Live(r) == active[r] # None /\ active[r].state = "running"
Ends(r) == active[r] # None /\ active[r].state # "running"

DrainOf(r) ==
    /\ \A b \in Backends, j \in Nat : OnNotice(b, j, r) => placed[r] # None /\ ~ Live(r)
    /\ Ends(r) => request[r].profile
    /\ alive = Backends =>
          /\ Live(r) /\ request[r].profile => Scans(Home[placed[r]], r)
          /\ Ends(r) => Drains(Home[placed[r]], r)
DrainInv == (alive = Backends => backends = Backends) /\ \A r \in Runs : DrainOf(r)

NoNews(r) == \A b \in Backends, j \in Nat : OnNotice(b, j, r)' => OnNotice(b, j, r)
\* What a handler does to run r: place it, leave it or drop it, or complete it and
\* tell the backends so.
MovesOn(r) ==
    \/ Placing(r) /\ NoNews(r)
    \/ placed'[r] = placed[r] /\ active'[r] \in {active[r], None} /\ NoNews(r)
    \/ /\ placed'[r] = placed[r] /\ active[r] # None /\ request[r].profile /\ Ends(r)'
       /\ alive = Backends => \E j \in Nat :
             /\ OnNotice(Home[placed[r]], j, r)'
             /\ \A i \in Nat : OnDown(Home[placed[r]], i, r) => i < j

LEMMA PlacedActive ==
    ASSUME TypeOK, ChosenOnce, NEW r \in Runs, active[r] # None
    PROVE  placed[r] \in Doms /\ placed[r] # None /\ Home[placed[r]] \in Backends
  BY DomsAssumption DEF TypeOK, MasterType, ActiveRun, ChosenOnce

LEMMA DrainSends ==
    ASSUME TypeOK, ChosenOnce, DrainInv, Grown, UNCHANGED <<alive, scanning, flushing>>,
           alive = Backends => backends' = backends,
           \A r \in Runs : active[r] # None => request'[r] = request[r],
           \A r \in Runs : MovesOn(r),
           alive = Backends => \A r \in Runs, b \in Backends, i \in Nat :
              active'[r] # None /\ OnFiles(b, i, r) => \E k \in Nat : OnFiles(b, k, r)'
    PROVE  DrainInv'
<1> SUFFICES ASSUME NEW r \in Runs PROVE DrainOf(r)'
  BY DEF DrainInv
<1>1. DrainOf(r)
  BY DEF DrainInv
<1>2. CASE Placing(r) /\ NoNews(r)
  <2>1. \A b \in Backends, j \in Nat : ~ OnNotice(b, j, r)'
    BY <1>1, <1>2 DEF DrainOf, Placing, NoNews
  <2>2. Live(r)' /\ ~ Ends(r)'
    BY <1>2 DEF Placing, Live, Ends
  <2>3. Scans(Home[placed[r]], r)'
    BY <1>2 DEF Placing, Scans
  <2> QED
    BY <2>1, <2>2, <2>3 DEF DrainOf
<1>3. CASE active[r] = None /\ placed'[r] = placed[r] /\ active'[r] \in {active[r], None} /\ NoNews(r)
  <2>1. ~ Live(r)' /\ ~ Ends(r)'
    BY <1>3 DEF Live, Ends
  <2>2. \A b \in Backends, j \in Nat : OnNotice(b, j, r)' => placed'[r] # None
    BY <1>1, <1>3 DEF DrainOf, NoNews
  <2> QED
    BY <2>1, <2>2 DEF DrainOf
<1>4. CASE active[r] # None /\ placed'[r] = placed[r]
  <2> DEFINE b == Home[placed[r]]
  <2>1. b \in Backends /\ placed[r] # None /\ request'[r] = request[r]
    BY <1>4, PlacedActive
  <2>2. PICK c \in Backends : c = b
    BY <2>1
  <2>3. Home[placed'[r]] = c
    BY <1>4, <2>2
  <2>4. Scans(c, r) => Scans(c, r)'
    BY DEF Scans, Grown
  <2>5. alive = Backends /\ active'[r] # None /\ Drains(c, r) => Drains(c, r)'
    <3>1. ASSUME NEW j \in Nat, OnNotice(c, j, r),
                 <<c, r>> \in scanning \/ \E i \in Nat : OnDown(c, i, r) /\ i < j
          PROVE  Drains(c, r)'
      <4>1. OnNotice(c, j, r)' /\ (<<c, r>> \in scanning' \/ \E i \in Nat : OnDown(c, i, r)' /\ i < j)
        BY <3>1 DEF Grown
      <4> QED
        BY <4>1 DEF Drains
    <3>2. ASSUME alive = Backends, active'[r] # None, NEW i \in Nat, OnFiles(c, i, r)
          PROVE  Drains(c, r)'
      <4>1. \E k \in Nat : OnFiles(c, k, r)'
        BY <3>2
      <4> QED
        BY <4>1 DEF Drains
    <3>3. <<c, r>> \in flushing => Drains(c, r)'
      BY DEF Drains
    <3> QED
      BY <3>1, <3>2, <3>3 DEF Drains
  <2>6. alive = Backends => (Live(r) /\ request[r].profile => Scans(c, r)) /\ (Ends(r) => Drains(c, r))
    BY <1>1, <2>2 DEF DrainOf
  <2>7. CASE active'[r] \in {active[r], None} /\ NoNews(r)
    <3>1. (Live(r)' => Live(r)) /\ (Ends(r)' => Ends(r))
      BY <2>7 DEF Live, Ends
    <3>2. \A e \in Backends, j \in Nat : OnNotice(e, j, r)' => placed'[r] # None /\ ~ Live(r)'
      BY <1>1, <1>4, <2>7, <3>1 DEF DrainOf, NoNews
    <3>3. Ends(r)' => request'[r].profile
      BY <1>1, <2>1, <3>1 DEF DrainOf
    <3>4. ASSUME alive = Backends
          PROVE  (Live(r)' /\ request'[r].profile => Scans(c, r)') /\ (Ends(r)' => Drains(c, r)')
      <4>1. Live(r)' /\ request'[r].profile => Scans(c, r)'
        BY <2>1, <2>4, <2>6, <3>1, <3>4
      <4>2. Ends(r)' => active'[r] # None
        BY DEF Ends
      <4>3. Ends(r)' => Drains(c, r)'
        BY <2>5, <2>6, <3>1, <3>4, <4>2
      <4> QED
        BY <4>1, <4>3
    <3> QED
      BY <2>3, <3>2, <3>3, <3>4 DEF DrainOf
  <2>8. CASE /\ request[r].profile /\ Ends(r)'
             /\ alive = Backends => \E j \in Nat :
                   /\ OnNotice(Home[placed[r]], j, r)'
                   /\ \A i \in Nat : OnDown(Home[placed[r]], i, r) => i < j
    <3>1. ~ Live(r)' /\ active'[r] # None
      BY <2>8 DEF Live, Ends
    <3>2. ASSUME alive = Backends PROVE Drains(c, r)'
      <4>1. PICK j \in Nat : OnNotice(c, j, r)' /\ \A i \in Nat : OnDown(c, i, r) => i < j
        BY <1>4, <2>2, <2>8, <3>2 DEF OnNotice
      <4>2. CASE Ends(r)
        BY <2>5, <2>6, <3>1, <3>2, <4>2
      <4>3. CASE ~ Ends(r)
        <5>1. Live(r)
          BY <1>4, <4>3 DEF Live, Ends
        <5>2. Scans(c, r)
          BY <2>6, <2>8, <3>2, <5>1
        <5>3. <<c, r>> \in scanning' \/ \E i \in Nat : OnDown(c, i, r)' /\ i < j
          BY <4>1, <5>2 DEF Scans, Grown
        <5> QED
          BY <4>1, <5>3 DEF Drains
      <4> QED
        BY <4>2, <4>3
    <3> QED
      BY <1>4, <2>1, <2>3, <2>8, <3>1, <3>2 DEF DrainOf
  <2> QED
    BY <1>3, <1>4, <2>7, <2>8, <2>1 DEF MovesOn, Placing
<1> QED
  BY <1>2, <1>3, <1>4 DEF MovesOn

\* The same for the handlers that complete runs before they reconcile: the notice of
\* a profiled one goes behind its command.
LEMMA CompleteSends ==
    ASSUME TypeOK, ChosenOnce, NEW S \in SUBSET Runs, NEW state \in {"done", "error", "killed"},
           NEW ev, NEW bs, NEW P \in SUBSET Runs, \A r \in P : placed[r] = None,
           NEW V \in SUBSET Doms, alive = Backends => bs = Backends,
           CompleteRuns(S, state, ev, bs, P, V)
    PROVE  Grown /\ \A r \in Runs : MovesOn(r)
<1>1. PICK order \in SetToSeqs(Profiled(S)) :
        Reconcile(P, Completed(S, state), V, CompletionNote(S, ev), Notices(bs, order))
  BY DEF CompleteRuns
<1>2. order \in Seq(Profiled(S)) /\ Profiled(S) \in SUBSET Runs
  BY OrderingType DEF Profiled, Finished
<1>3. Len(order) \in Nat /\ \A i \in 1..Len(order) : order[i] \in Profiled(S)
  BY <1>2, LenProperties, ElementOfSeq
<1> DEFINE told == [i \in 1..Len(order) |-> [type |-> "completed", run |-> order[i]]]
<1>4. \A i \in 1..Len(order) : [type |-> "completed", run |-> order[i]] \in PlainDown
  BY <1>2, <1>3 DEF PlainDown, DownMsg
<1>5. told \in Seq(PlainDown) /\ <<>> \in Seq(PlainDown) /\ Len(told) = Len(order)
  BY <1>3, <1>4, SeqDef, LenProperties
<1>6. \A i \in 1..Len(told) : told[i].type = "completed" /\ told[i].run = order[i]
  BY <1>5
<1> HIDE DEF told
<1>7. \A b \in Backends : Notices(bs, order)[b] = IF b \in bs THEN told ELSE <<>>
  BY DEF Notices, told
<1>8. Notices(bs, order) \in [Backends -> Seq(PlainDown)]
  BY <1>5, <1>7 DEF Notices
<1> DEFINE extra == Notices(bs, order)
           A == Completed(S, state)
<1> HIDE DEF Reconcile, extra, A
<1>9. extra \in [Backends -> Seq(PlainDown)] /\ Reconcile(P, A, V, CompletionNote(S, ev), extra)
  BY <1>1, <1>8 DEF extra, A
<1>10. /\ Grown
       /\ \A r \in Runs : Placing(r) \/ (placed'[r] = placed[r] /\ active'[r] = A[r])
       /\ \A r \in Runs, b \in Backends, j \in Nat : OnNotice(b, j, r)' =>
             OnNotice(b, j, r) \/ \E k \in Nat : NoticeAt(extra[b], k, r)
       /\ \A r \in Runs, b \in Backends, k \in Nat :
             NoticeAt(extra[b], k, r) => \E j \in Nat : OnNotice(b, j, r)' /\ Len(down[b]) < j
  BY <1>9, ReconcileSends
<1>11. \A r \in Runs, b \in Backends, k \in Nat : NoticeAt(extra[b], k, r) => r \in Profiled(S)
  <2> SUFFICES ASSUME NEW r \in Runs, NEW b \in Backends, NEW k \in Nat, NoticeAt(extra[b], k, r)
               PROVE  r \in Profiled(S)
    OBVIOUS
  <2>1. CASE b \in bs
    <3>1. NoticeAt(told, k, r)
      BY <1>7, <2>1 DEF extra
    <3> QED
      BY <1>3, <1>5, <1>6, <3>1 DEF NoticeAt
  <2>2. CASE b \notin bs
    <3>1. NoticeAt(<<>>, k, r)
      BY <1>7, <2>2 DEF extra
    <3> QED
      BY <3>1 DEF NoticeAt
  <2> QED
    BY <2>1, <2>2
<1>12. ASSUME NEW r \in Runs, r \notin Profiled(S) PROVE MovesOn(r)
  <2>1. NoNews(r)
    BY <1>10, <1>11, <1>12 DEF NoNews
  <2>2. A[r] \in {active[r], None}
    BY <1>12 DEF A, Completed
  <2> QED
    BY <1>10, <2>1, <2>2 DEF MovesOn
<1>13. ASSUME NEW r \in Profiled(S) PROVE MovesOn(r)
  <2>1. r \in Runs /\ active[r] # None /\ request[r].profile /\ r \in Finished(S)
    BY <1>2 DEF Profiled, Finished
  <2>2. placed[r] # None /\ Home[placed[r]] \in Backends
    BY <2>1, PlacedActive
  <2>3. placed'[r] = placed[r] /\ active'[r] = A[r]
    BY <1>10, <2>1, <2>2 DEF Placing
  <2>4. A[r] = [active[r] EXCEPT !.state = state]
    BY <1>13, <2>1 DEF A, Completed
  <2>5. active[r] \in ActiveRun
    BY <2>1 DEF TypeOK, MasterType
  <2>6. A[r] \in ActiveRun /\ A[r].state # "running"
    BY <2>4, <2>5 DEF ActiveRun
  <2>7. Ends(r)'
    BY <2>3, <2>6, NoneAssumption DEF Ends
  <2>8. PICK c \in Backends : c = Home[placed[r]]
    BY <2>2
  <2>9. ASSUME alive = Backends
        PROVE  \E j \in Nat : OnNotice(c, j, r)' /\ \A i \in Nat : OnDown(c, i, r) => i < j
    <3>1. PICK k \in 1..Len(order) : order[k] = r
      BY <1>2, <1>13, OrderingFull
    <3>2. k \in Nat /\ NoticeAt(told, k, r)
      BY <1>5, <1>6, <3>1 DEF NoticeAt
    <3>3. NoticeAt(extra[c], k, r)
      BY <1>7, <2>9, <3>2 DEF extra
    <3>4. PICK j \in Nat : OnNotice(c, j, r)' /\ Len(down[c]) < j
      BY <1>10, <2>1, <3>2, <3>3
    <3>5. down[c] \in Seq(DownMsg)
      BY DEF TypeOK, ChanType
    <3>6. Len(down[c]) \in Nat
      BY <3>5, LenProperties
    <3>7. \A i \in Nat : OnDown(c, i, r) => i < j
      BY <3>4, <3>6 DEF OnDown, RunAt
    <3> QED
      BY <3>4, <3>7
  <2>10. alive = Backends => \E j \in Nat :
            /\ OnNotice(Home[placed[r]], j, r)'
            /\ \A i \in Nat : OnDown(Home[placed[r]], i, r) => i < j
    <3>1. Home[placed'[r]] = c
      BY <2>3, <2>8
    <3> QED
      BY <2>8, <2>9, <3>1
  <2> QED
    BY <2>1, <2>3, <2>7, <2>10 DEF MovesOn
<1> QED
  BY <1>10, <1>12, <1>13

\* A handler that only reconciles.
LEMMA PlainSends ==
    ASSUME TypeOK, NEW P \in SUBSET Runs, \A r \in P : placed[r] = None,
           NEW V \in SUBSET Doms, NEW note, Reconcile(P, active, V, note, NoExtra)
    PROVE  Grown /\ \A r \in Runs : MovesOn(r)
<1>1. NoExtra \in [Backends -> Seq(PlainDown)]
  BY DEF NoExtra
<1> DEFINE extra == NoExtra
           A == active
<1> HIDE DEF extra, A
<1>2. extra \in [Backends -> Seq(PlainDown)] /\ Reconcile(P, A, V, note, extra)
  BY <1>1 DEF extra, A
<1>3. /\ Grown
      /\ \A r \in Runs : Placing(r) \/ (placed'[r] = placed[r] /\ active'[r] = A[r])
      /\ \A r \in Runs, b \in Backends, j \in Nat : OnNotice(b, j, r)' =>
            OnNotice(b, j, r) \/ \E k \in Nat : NoticeAt(extra[b], k, r)
  BY <1>2, ReconcileSends
<1>4. \A r \in Runs, b \in Backends, k \in Nat : ~ NoticeAt(extra[b], k, r)
  BY DEF extra, NoExtra, NoticeAt
<1>5. \A r \in Runs : NoNews(r)
  BY <1>3, <1>4 DEF NoNews
<1> QED
  BY <1>3, <1>5 DEF MovesOn, A

\* No handler of the master leaves a run waiting for files that no one will send.
LEMMA MasterDrains ==
    ASSUME TypeOK, ChosenOnce, DrainInv, NEW b \in Backends, MasterStep(b) \/ BackendLost(b)
    PROVE  DrainInv'
<1> DEFINE V == View(backends, snap)
<1>1. /\ V \in SUBSET Doms /\ pending \in SUBSET Runs /\ \A r \in pending : placed[r] = None
      /\ out \in [Backends -> Seq(UpMsg)]
  BY ViewType DEF ChosenOnce, TypeOK, MasterType, ChanType
<1>2. UNCHANGED <<alive, scanning, flushing, request>>
  BY DEF MasterStep, HandleNudge, HandleDomDisconnect, HandleFinished, HandleSnapshot,
         HandleFiles, BackendLost, HandlerFrame, backendVars
<1>3. alive = Backends => backends' = backends
  BY DEF MasterStep, HandleNudge, HandleDomDisconnect, HandleFinished, HandleSnapshot,
         HandleFiles, BackendLost
<1>4. alive = Backends => backends = Backends
  BY DEF DrainInv
<1>5. ASSUME Consume(b), out[b] # <<>>, NEW r \in Runs, NEW c \in Backends, NEW i \in Nat,
             OnFiles(c, i, r), Head(out[b]).type = "files" => r # Head(out[b]).run
      PROVE  \E k \in Nat : OnFiles(c, k, r)'
  <2>1. CASE c # b
    <3>1. out'[c] = out[c]
      BY <1>1, <1>5, <2>1 DEF Consume
    <3> QED
      BY <1>5, <3>1 DEF OnFiles
  <2>2. CASE c = b
    <3>1. out'[b] = Tail(out[b]) /\ out[b] \in Seq(UpMsg)
      BY <1>1, <1>5 DEF Consume
    <3>2. /\ Head(out[b]) = out[b][1]
          /\ \A j \in 1..Len(out[b]) : j # 1 => j - 1 \in 1..Len(Tail(out[b])) /\ Tail(out[b])[j - 1] = out[b][j]
      BY <1>5, <3>1, TailPlaces
    <3>3. i \in 1..Len(out[b]) /\ out[b][i].type = "files" /\ out[b][i].run = r
      BY <1>5, <2>2 DEF OnFiles, FilesAt
    <3>4. i # 1
      BY <1>5, <3>2, <3>3
    <3>5. i - 1 \in 1..Len(out'[b]) /\ out'[b][i - 1] = out[b][i]
      BY <3>1, <3>2, <3>3, <3>4
    <3>6. PICK k \in Nat : k = i - 1
      BY <3>5
    <3> QED
      BY <2>2, <3>3, <3>5, <3>6 DEF OnFiles, FilesAt
  <2> QED
    BY <2>1, <2>2
<1>6. ASSUME Grown, \A r \in Runs : MovesOn(r), Consume(b), out[b] # <<>>, Head(out[b]).type # "files"
      PROVE  DrainInv'
  <2>1. \A r \in Runs, c \in Backends, i \in Nat :
           active'[r] # None /\ OnFiles(c, i, r) => \E k \in Nat : OnFiles(c, k, r)'
    BY <1>5, <1>6
  <2> QED
    BY <1>2, <1>3, <1>6, <2>1, DrainSends
<1>7. CASE HandleNudge(b)
  <2>1. Reconcile(pending, active, V, Silent, NoExtra)
    BY <1>7 DEF HandleNudge
  <2>2. Consume(b) /\ out[b] # <<>> /\ Head(out[b]).type # "files"
    BY <1>7 DEF HandleNudge, Arrived
  <2> HIDE DEF V
  <2> QED
    BY <1>1, <1>6, <2>1, <2>2, PlainSends
<1>8. CASE HandleSnapshot(b)
  <2>1. Reconcile(pending, active, View(backends, snap'), Silent, NoExtra)
    BY <1>8 DEF HandleSnapshot
  <2>2. Head(out[b]).doms \in SUBSET Doms
    BY <1>8, ConsumeType DEF HandleSnapshot, Arrived, UpMsg
  <2>3. snap' \in [Backends -> SUBSET Doms]
    BY <1>8, <2>2 DEF HandleSnapshot, TypeOK, MasterType
  <2>4. View(backends, snap') \in SUBSET Doms
    BY <2>3 DEF View, TypeOK, MasterType
  <2>5. Consume(b) /\ out[b] # <<>> /\ Head(out[b]).type # "files"
    BY <1>8 DEF HandleSnapshot, Arrived
  <2> QED
    BY <1>1, <1>6, <2>1, <2>4, <2>5, PlainSends
<1>9. CASE HandleDomDisconnect(b)
  <2> DEFINE d == Head(out[b]).dom
             swept == {r \in Runs : active[r] # None /\ active[r].dom = d}
             drained == IF swept = {} THEN {} ELSE DeadSession(request, pending, V)
             waiting == {r \in pending \ drained : request[r].dom = d}
  <2>1. CompleteRuns(swept, "killed", "disconnect", backends, pending \ waiting, V)
    BY <1>9 DEF HandleDomDisconnect
  <2>2. swept \in SUBSET Runs /\ pending \ waiting \in SUBSET Runs
    BY <1>1
  <2>3. Consume(b) /\ out[b] # <<>> /\ Head(out[b]).type # "files"
    BY <1>9 DEF HandleDomDisconnect, Arrived
  <2> HIDE DEF swept, waiting, V
  <2>4. \A r \in pending \ waiting : placed[r] = None
    BY <1>1
  <2>5. Grown /\ \A r \in Runs : MovesOn(r)
    BY <1>1, <1>4, <2>1, <2>2, <2>4, CompleteSends
  <2> QED
    BY <1>6, <2>3, <2>5
<1>10. CASE HandleFinished(b)
  <2> DEFINE m == Head(out[b])
  <2>1. /\ m.type \in {"done", "failed", "killed"}
        /\ CompleteRuns({m.run}, FinalState(m.type), m.type, backends, pending, V)
    BY <1>10 DEF HandleFinished
  <2>2. m.run \in Runs
    BY <1>10, <2>1, ConsumeType DEF HandleFinished, UpMsg
  <2>3. FinalState(m.type) \in {"done", "error", "killed"}
    BY <2>1 DEF FinalState
  <2>4. Consume(b) /\ out[b] # <<>> /\ m.type # "files"
    BY <1>10, <2>1 DEF HandleFinished
  <2> HIDE DEF V
  <2>5. Grown /\ \A r \in Runs : MovesOn(r)
    <3> HIDE DEF m
    <3> QED
      BY <1>1, <1>4, <2>1, <2>2, <2>3, CompleteSends
  <2> QED
    BY <1>6, <2>4, <2>5
<1>11. CASE HandleFiles(b)
  <2>1. /\ out[b] # <<>> /\ Head(out[b]).type = "files" /\ Consume(b)
        /\ active' = [active EXCEPT ![Head(out[b]).run] = None]
        /\ UNCHANGED <<placed, down>>
    BY <1>11 DEF HandleFiles, Arrived
  <2>2. active \in [Runs -> ActiveRun \cup {None}]
    BY DEF TypeOK, MasterType
  <2>3. Grown /\ \A r \in Runs : NoNews(r)
    BY <2>1 DEF Grown, NoNews, OnDown, OnNotice
  <2>4. \A r \in Runs : MovesOn(r)
    BY <2>1, <2>2, <2>3 DEF MovesOn
  <2>5. \A r \in Runs, c \in Backends, i \in Nat :
           active'[r] # None /\ OnFiles(c, i, r) => \E k \in Nat : OnFiles(c, k, r)'
    BY <1>5, <2>1, <2>2
  <2> QED
    BY <1>2, <1>3, <2>3, <2>4, <2>5, DrainSends
<1>12. CASE BackendLost(b)
  <2> DEFINE W == View(backends', snap)
             orphaned == {r \in Runs : active[r] # None /\ active[r].dom \notin W}
  <2>1. \/ UNCHANGED <<active, placed, down>>
        \/ CompleteRuns(orphaned, "killed", "disconnect", backends', pending, W)
    BY <1>12 DEF BackendLost
  <2>2. W \in SUBSET Doms /\ orphaned \in SUBSET Runs
    BY <1>12 DEF BackendLost, View, TypeOK, MasterType
  <2>3. alive # Backends
    BY <1>12 DEF BackendLost
  <2> HIDE DEF W, orphaned
  <2>4. Grown /\ \A r \in Runs : MovesOn(r)
    <3>1. CASE UNCHANGED <<active, placed, down>>
      <4>1. Grown /\ \A r \in Runs : NoNews(r)
        BY <3>1 DEF Grown, NoNews, OnDown, OnNotice
      <4> QED
        BY <3>1, <4>1 DEF MovesOn
    <3>2. CASE CompleteRuns(orphaned, "killed", "disconnect", backends', pending, W)
      BY <1>1, <2>2, <2>3, <3>2, CompleteSends
    <3> QED
      BY <2>1, <3>1, <3>2
  <2> QED
    BY <1>2, <1>3, <2>3, <2>4, DrainSends
<1> QED
  BY <1>7, <1>8, <1>9, <1>10, <1>11, <1>12 DEF MasterStep

\* A command put on a lane moves nothing on it and is no notice.
LEMMA SendGrows ==
    ASSUME TypeOK, NEW c \in Backends, NEW m \in DownMsg, m.type # "completed",
           down' = down \/ down' = [down EXCEPT ![c] = Append(@, m)]
    PROVE  /\ Grown /\ \A r \in Runs : NoNews(r)
           /\ \A r \in Runs : down' # down /\ m.type = "run" /\ m.run = r =>
                 \E i \in Nat : OnDown(c, i, r)'
<1>1. down \in [Backends -> Seq(DownMsg)]
  BY DEF TypeOK, ChanType
<1>2. CASE down' = down
  BY <1>2 DEF Grown, NoNews, OnDown, OnNotice
<1>3. CASE down' = [down EXCEPT ![c] = Append(@, m)]
  <2>1. down'[c] = Append(down[c], m) /\ \A b \in Backends : b # c => down'[b] = down[b]
    BY <1>1, <1>3
  <2>2. /\ Len(down[c]) \in Nat /\ Len(down'[c]) = Len(down[c]) + 1 /\ down'[c][Len(down[c]) + 1] = m
        /\ \A i \in 1..Len(down[c]) : i \in 1..Len(down'[c]) /\ down'[c][i] = down[c][i]
        /\ \A i \in 1..Len(down'[c]) : i \in 1..Len(down[c]) \/ i = Len(down[c]) + 1
    BY <1>1, <2>1, AppendPlaces
  <2>3. Grown
    <3> SUFFICES ASSUME NEW r \in Runs, NEW b \in Backends, NEW i \in Nat
                 PROVE  (OnDown(b, i, r) => OnDown(b, i, r)') /\ (OnNotice(b, i, r) => OnNotice(b, i, r)')
      BY DEF Grown
    <3>1. CASE b = c
      BY <2>2, <3>1 DEF OnDown, OnNotice, RunAt, NoticeAt
    <3>2. CASE b # c
      BY <2>1, <3>2 DEF OnDown, OnNotice
    <3> QED
      BY <3>1, <3>2
  <2>4. ASSUME NEW r \in Runs, NEW b \in Backends, NEW j \in Nat, OnNotice(b, j, r)'
        PROVE  OnNotice(b, j, r)
    <3>1. CASE b = c
      BY <2>2, <2>4, <3>1 DEF OnNotice, NoticeAt
    <3>2. CASE b # c
      BY <2>1, <2>4, <3>2 DEF OnNotice
    <3> QED
      BY <3>1, <3>2
  <2>5. ASSUME NEW r \in Runs, m.type = "run", m.run = r
        PROVE  \E i \in Nat : OnDown(c, i, r)'
    <3>1. PICK n \in Nat : n = Len(down[c]) + 1
      BY <2>2
    <3>2. n \in 1..Len(down'[c]) /\ down'[c][n] = m
      BY <2>2, <3>1
    <3> QED
      BY <2>5, <3>2 DEF OnDown, RunAt
  <2> QED
    BY <2>3, <2>4, <2>5 DEF NoNews
<1> QED
  BY <1>2, <1>3

\* Steps that leave the master's list of runs alone, and what a drain is made of.
LEMMA DrainGrows ==
    ASSUME TypeOK, ChosenOnce, DrainInv, Grown, \A r \in Runs : NoNews(r),
           UNCHANGED <<alive, backends, placed, active, scanning, flushing>>,
           \A r \in Runs : active[r] # None => request'[r] = request[r],
           \A r \in Runs, b \in Backends, i \in Nat : OnFiles(b, i, r) => OnFiles(b, i, r)'
    PROVE  DrainInv'
<1>1. \A r \in Runs : MovesOn(r)
  BY DEF MovesOn
<1>2. \A r \in Runs, b \in Backends, i \in Nat :
         active'[r] # None /\ OnFiles(b, i, r) => \E k \in Nat : OnFiles(b, k, r)'
  OBVIOUS
<1> QED
  BY <1>1, <1>2, DrainSends

\* A submission puts the command of the run it places on the lane of the DOM.
LEMMA SubmitDrains ==
    ASSUME TypeOK, ChosenOnce, DrainInv, NEW u \in Runs, Submit(u)
    PROVE  DrainInv'
<1> DEFINE V == View(backends, snap)
           created == [Silent EXCEPT ![u] = <<"created">>]
<1>1. /\ V \in SUBSET Doms /\ pending \cup {u} \in SUBSET Runs
      /\ placed[u] = None /\ \A r \in pending \cup {u} : placed[r] = None
      /\ placed \in [Runs -> Doms \cup {None}] /\ active \in [Runs -> ActiveRun \cup {None}]
      /\ request \in [Runs -> Requests \cup {None}]
  BY ViewType DEF Submit, NextId, ChosenOnce, TypeOK, MasterType
<1>2. active[u] = None
  BY <1>1, PlacedActive
<1>3. /\ UNCHANGED <<alive, backends, scanning, flushing, out>>
      /\ \E q \in Requests : request' = [request EXCEPT ![u] = q]
  BY DEF Submit, backendVars
<1>4. \A r \in Runs : active[r] # None => request'[r] = request[r]
  BY <1>1, <1>2, <1>3
<1>5. \A r \in Runs, b \in Backends, i \in Nat :
         active'[r] # None /\ OnFiles(b, i, r) => \E k \in Nat : OnFiles(b, k, r)'
  BY <1>3 DEF OnFiles
<1>6. \/ \E d \in V : /\ active' = [active EXCEPT ![u] = [dom |-> d, state |-> "running"]]
                      /\ placed' = [placed EXCEPT ![u] = d]
                      /\ SendToDom(d, "run", u)
      \/ Reconcile(pending \cup {u}, active, V, created, NoExtra)
  BY DEF Submit
<1>7. ASSUME Grown, \A r \in Runs : MovesOn(r) PROVE DrainInv'
  BY <1>3, <1>4, <1>5, <1>7, DrainSends
<1>8. ASSUME NEW d \in V, active' = [active EXCEPT ![u] = [dom |-> d, state |-> "running"]],
             placed' = [placed EXCEPT ![u] = d], SendToDom(d, "run", u)
      PROVE  DrainInv'
  <2> DEFINE m == [type |-> "run", run |-> u, dom |-> d]
  <2>1. d \in Doms /\ d # None /\ Home[d] \in Backends
    BY <1>1, DomsAssumption
  <2>2. down' = [down EXCEPT ![Home[d]] = Append(@, m)]
    BY <1>8 DEF SendToDom
  <2>3. m \in DownMsg /\ m.type = "run" /\ m.run = u
    BY <2>1 DEF DownMsg
  <2>4. PICK c \in Backends : c = Home[d]
    BY <2>1
  <2> HIDE DEF m
  <2>5. down' # down
    <3>1. down \in [Backends -> Seq(DownMsg)]
      BY DEF TypeOK, ChanType
    <3>2. down'[c] = Append(down[c], m) /\ down[c] \in Seq(DownMsg)
      BY <2>2, <2>4, <3>1
    <3>3. Len(down'[c]) = Len(down[c]) + 1 /\ Len(down[c]) \in Nat
      BY <2>3, <3>2, AppendPlaces
    <3> QED
      BY <3>3
  <2>6. Grown /\ (\A r \in Runs : NoNews(r)) /\ \E i \in Nat : OnDown(c, i, u)'
    BY <2>2, <2>3, <2>4, <2>5, SendGrows
  <2>7. placed'[u] = d /\ active'[u] = [dom |-> d, state |-> "running"]
    BY <1>1, <1>8
  <2>8. active'[u] # None /\ active'[u].state = "running"
    BY <2>1, <2>7, NoneAssumption DEF ActiveRun
  <2>9. \E i \in Nat : OnDown(Home[placed[u]], i, u)'
    <3>1. Home[placed'[u]] = c
      BY <2>4, <2>7
    <3> QED
      BY <2>6, <3>1
  <2>10. Placing(u)
    BY <1>1, <2>1, <2>7, <2>8, <2>9 DEF Placing
  <2>11. \A r \in Runs : r # u => placed'[r] = placed[r] /\ active'[r] = active[r]
    BY <1>1, <1>8
  <2>12. \A r \in Runs : MovesOn(r)
    BY <2>6, <2>10, <2>11 DEF MovesOn
  <2> QED
    BY <1>7, <2>6, <2>12
<1>9. CASE Reconcile(pending \cup {u}, active, V, created, NoExtra)
  <2> HIDE DEF V, created
  <2>1. Grown /\ \A r \in Runs : MovesOn(r)
    BY <1>1, <1>9, PlainSends
  <2> QED
    BY <1>7, <2>1
<1> QED
  BY <1>6, <1>8, <1>9

\* The steps of a backend: the master's list of runs is left alone.
LEMMA DrainMoves ==
    ASSUME DrainInv, UNCHANGED <<placed, active, request, alive, backends>>,
           \A r \in Runs, c \in Backends, j \in Nat : OnNotice(c, j, r)' => \E k \in Nat : OnNotice(c, k, r),
           \A r \in Runs : Live(r) /\ request[r].profile /\ Scans(Home[placed[r]], r) /\ alive = Backends
                              => Scans(Home[placed[r]], r)',
           \A r \in Runs : Ends(r) /\ Drains(Home[placed[r]], r) /\ alive = Backends
                              => Drains(Home[placed[r]], r)'
    PROVE  DrainInv'
<1> SUFFICES ASSUME NEW r \in Runs PROVE DrainOf(r)'
  BY DEF DrainInv
<1>1. DrainOf(r)
  BY DEF DrainInv
<1>2. (Live(r)' <=> Live(r)) /\ (Ends(r)' <=> Ends(r))
  BY DEF Live, Ends
<1>3. \A c \in Backends, j \in Nat : OnNotice(c, j, r)' => placed'[r] # None /\ ~ Live(r)'
  BY <1>1, <1>2 DEF DrainOf
<1>4. Ends(r)' => request'[r].profile
  BY <1>1, <1>2 DEF DrainOf
<1>5. alive' = Backends /\ Live(r)' /\ request'[r].profile => Scans(Home[placed[r]], r)'
  BY <1>1, <1>2 DEF DrainOf
<1>6. alive' = Backends /\ Ends(r)' => Drains(Home[placed[r]], r)'
  BY <1>1, <1>2 DEF DrainOf
<1> QED
  BY <1>3, <1>4, <1>5, <1>6 DEF DrainOf

\* A backend that registers a run, unregisters one or does something else keeps up
\* the drain of every run.
LEMMA ReceiveDrains ==
    ASSUME TypeOK, ChosenOnce, DrainInv, NEW b \in Backends, BackendReceive(b)
    PROVE  DrainInv'
<1> DEFINE m == Head(down[b])
<1>1. /\ down \in [Backends -> Seq(DownMsg)] /\ down[b] # <<>>
      /\ down' = [down EXCEPT ![b] = Tail(@)]
      /\ UNCHANGED <<placed, active, request, alive, backends, out>>
  BY DEF TypeOK, ChanType, BackendReceive, masterVars
<1>2. \/ /\ m.type \in {"run", "kill"} /\ flushing' = flushing
         /\ scanning' = IF m.type = "run" /\ request[m.run].profile
                        THEN scanning \cup {<<b, m.run>>} ELSE scanning
      \/ /\ m.type = "completed" /\ scanning' = scanning \ {<<b, m.run>>}
         /\ flushing' = flushing \cup (scanning \cap {<<b, m.run>>})
      \/ m.type = "close" /\ UNCHANGED <<scanning, flushing>>
  BY DEF BackendReceive
<1>3. /\ Len(down[b]) \in Nat \ {0} /\ m = down[b][1]
      /\ \A i \in 1..Len(down[b]) : i # 1 =>
            i - 1 \in 1..Len(Tail(down[b])) /\ Tail(down[b])[i - 1] = down[b][i]
      /\ \A i \in 1..Len(Tail(down[b])) : i + 1 \in 1..Len(down[b]) /\ Tail(down[b])[i] = down[b][i + 1]
  BY <1>1, TailPlaces
<1>4. down'[b] = Tail(down[b]) /\ \A c \in Backends : c # b => down'[c] = down[c]
  BY <1>1
<1> HIDE DEF m
<1>5. \A c \in Backends, i \in Nat, r \in Runs : c # b =>
         (OnDown(c, i, r)' <=> OnDown(c, i, r)) /\ (OnNotice(c, i, r)' <=> OnNotice(c, i, r))
  BY <1>4 DEF OnDown, OnNotice
<1>6. ASSUME NEW i \in Nat, NEW r \in Runs, i # 1
      PROVE  (OnDown(b, i, r) => i - 1 \in Nat /\ OnDown(b, i - 1, r)')
             /\ (OnNotice(b, i, r) => i - 1 \in Nat /\ OnNotice(b, i - 1, r)')
  BY <1>3, <1>4, <1>6 DEF OnDown, OnNotice, RunAt, NoticeAt
<1>7. ASSUME NEW i \in Nat, NEW r \in Runs, OnNotice(b, i, r)'
      PROVE  i + 1 \in Nat /\ OnNotice(b, i + 1, r)
  BY <1>3, <1>4, <1>7 DEF OnNotice, NoticeAt
<1>8. 1 \in 1..Len(down[b])
  BY <1>3
<1>9. \A r \in Runs : /\ OnDown(b, 1, r) <=> m.type = "run" /\ m.run = r
                      /\ OnNotice(b, 1, r) <=> m.type = "completed" /\ m.run = r
  BY <1>3, <1>8 DEF OnDown, OnNotice, RunAt, NoticeAt
<1>10. \A r \in Runs : OnDown(b, 1, r) /\ request[r].profile => <<b, r>> \in scanning'
  BY <1>2, <1>9
<1>11. \A r \in Runs, c \in Backends : <<c, r>> \in scanning =>
          <<c, r>> \in scanning' \/ (c = b /\ OnNotice(b, 1, r))
  BY <1>2, <1>9
<1>12. \A r \in Runs : <<b, r>> \in scanning /\ OnNotice(b, 1, r) => <<b, r>> \in flushing'
  BY <1>2, <1>9
<1>13. flushing \subseteq flushing'
  BY <1>2
<1>14. \A r \in Runs, c \in Backends, j \in Nat :
          OnNotice(c, j, r)' => \E k \in Nat : OnNotice(c, k, r)
  BY <1>5, <1>7
<1>15. ASSUME NEW r \in Runs, NEW c \in Backends, Live(r), request[r].profile, Scans(c, r)
       PROVE  Scans(c, r)'
  <2>1. ~ OnNotice(b, 1, r)
    BY <1>15 DEF DrainInv, DrainOf
  <2>2. CASE <<c, r>> \in scanning
    BY <1>11, <2>1, <2>2 DEF Scans
  <2>3. ASSUME NEW i \in Nat, OnDown(c, i, r) PROVE Scans(c, r)'
    <3>1. CASE c # b
      BY <1>5, <2>3, <3>1 DEF Scans
    <3>2. CASE c = b /\ i = 1
      BY <1>10, <1>15, <2>3, <3>2 DEF Scans
    <3>3. CASE c = b /\ i # 1
      <4>1. i - 1 \in Nat /\ OnDown(c, i - 1, r)'
        BY <1>6, <2>3, <3>3
      <4> QED
        BY <4>1 DEF Scans
    <3> QED
      BY <3>1, <3>2, <3>3
  <2> QED
    BY <1>15, <2>2, <2>3 DEF Scans
<1>16. ASSUME NEW r \in Runs, NEW c \in Backends, request[r].profile, Drains(c, r)
       PROVE  Drains(c, r)'
  <2>1. CASE <<c, r>> \in flushing
    BY <1>13, <2>1 DEF Drains
  <2>2. ASSUME NEW i \in Nat, OnFiles(c, i, r) PROVE Drains(c, r)'
    <3>1. OnFiles(c, i, r)'
      BY <1>1, <2>2 DEF OnFiles
    <3> QED
      BY <3>1 DEF Drains
  <2>3. ASSUME NEW j \in Nat, OnNotice(c, j, r),
               <<c, r>> \in scanning \/ \E i \in Nat : OnDown(c, i, r) /\ i < j
        PROVE  Drains(c, r)'
    <3>1. CASE c # b
      <4>1. OnNotice(c, j, r)' /\ (<<c, r>> \in scanning' \/ \E i \in Nat : OnDown(c, i, r)' /\ i < j)
        BY <1>5, <1>11, <2>3, <3>1
      <4> QED
        BY <4>1 DEF Drains
    <3>2. CASE c = b /\ j = 1
      <4>1. ~ \E i \in Nat : OnDown(c, i, r) /\ i < j
        BY <3>2 DEF OnDown, RunAt
      <4>2. <<c, r>> \in flushing'
        BY <1>12, <2>3, <3>2, <4>1
      <4> QED
        BY <4>2 DEF Drains
    <3>3. CASE c = b /\ j # 1
      <4>1. PICK k \in Nat : k = j - 1 /\ OnNotice(c, k, r)'
        BY <1>6, <2>3, <3>3
      <4>2. CASE <<c, r>> \in scanning /\ OnNotice(b, 1, r)
        <5>1. <<c, r>> \in flushing'
          BY <1>12, <3>3, <4>2
        <5> QED
          BY <5>1 DEF Drains
      <4>3. CASE <<c, r>> \in scanning /\ ~ OnNotice(b, 1, r)
        <5>1. <<c, r>> \in scanning'
          BY <1>11, <4>3
        <5> QED
          BY <4>1, <5>1 DEF Drains
      <4>4. ASSUME NEW i \in Nat, OnDown(c, i, r), i < j PROVE Drains(c, r)'
        <5>1. CASE i = 1
          <6>1. <<c, r>> \in scanning'
            BY <1>10, <1>16, <3>3, <4>4, <5>1
          <6> QED
            BY <4>1, <6>1 DEF Drains
        <5>2. CASE i # 1
          <6>1. PICK h \in Nat : h = i - 1 /\ OnDown(c, h, r)'
            BY <1>6, <3>3, <4>4, <5>2
          <6>2. h < k
            BY <4>1, <4>4, <6>1
          <6> QED
            BY <4>1, <6>1, <6>2 DEF Drains
        <5> QED
          BY <5>1, <5>2
      <4> QED
        BY <2>3, <4>2, <4>3, <4>4
    <3> QED
      BY <3>1, <3>2, <3>3
  <2> QED
    BY <1>16, <2>1, <2>2, <2>3 DEF Drains
<1>17. ASSUME NEW r \in Runs
       PROVE  /\ Live(r) /\ request[r].profile /\ Scans(Home[placed[r]], r) => Scans(Home[placed[r]], r)'
              /\ Ends(r) /\ Drains(Home[placed[r]], r) => Drains(Home[placed[r]], r)'
  <2>1. CASE active[r] = None
    BY <2>1 DEF Live, Ends
  <2>2. CASE active[r] # None
    <3>1. PICK c \in Backends : c = Home[placed[r]]
      BY <2>2, PlacedActive
    <3>2. Home[placed'[r]] = c
      BY <1>1, <3>1
    <3>3. Ends(r) => request[r].profile
      BY DEF DrainInv, DrainOf
    <3> QED
      BY <1>15, <1>16, <3>1, <3>2, <3>3
  <2> QED
    BY <2>1, <2>2
<1> QED
  BY <1>1, <1>14, <1>17, DrainMoves

\* The drain of run u ends with its files on the way to the master.
LEMMA FilesDrains ==
    ASSUME TypeOK, ChosenOnce, DrainInv, NEW b \in Backends, NEW u \in Runs, FilesDone(b, u)
    PROVE  DrainInv'
<1> DEFINE m == [type |-> "files", run |-> u]
<1>1. /\ out \in [Backends -> Seq(UpMsg)] /\ out' = [out EXCEPT ![b] = Append(@, m)]
      /\ flushing' = flushing \ {<<b, u>>}
      /\ UNCHANGED <<placed, active, request, alive, backends, down, scanning>>
  BY DEF TypeOK, ChanType, FilesDone, masterVars
<1>2. m \in UpMsg /\ m.type = "files" /\ m.run = u
  BY DEF UpMsg
<1> HIDE DEF m
<1>3. out'[b] = Append(out[b], m) /\ \A c \in Backends : c # b => out'[c] = out[c]
  BY <1>1
<1>4. /\ Len(out[b]) \in Nat /\ Len(out'[b]) = Len(out[b]) + 1 /\ out'[b][Len(out[b]) + 1] = m
      /\ \A i \in 1..Len(out[b]) : i \in 1..Len(out'[b]) /\ out'[b][i] = out[b][i]
  BY <1>1, <1>2, <1>3, AppendPlaces
<1>5. ASSUME NEW r \in Runs, NEW c \in Backends, NEW i \in Nat, OnFiles(c, i, r)
      PROVE  OnFiles(c, i, r)'
  <2>1. CASE c = b
    BY <1>4, <1>5, <2>1 DEF OnFiles, FilesAt
  <2>2. CASE c # b
    BY <1>3, <1>5, <2>2 DEF OnFiles
  <2> QED
    BY <2>1, <2>2
<1>6. \E i \in Nat : OnFiles(b, i, u)'
  <2>1. PICK n \in Nat : n = Len(out[b]) + 1
    BY <1>4
  <2>2. n \in 1..Len(out'[b]) /\ out'[b][n] = m
    BY <1>4, <2>1
  <2> QED
    BY <1>2, <2>2 DEF OnFiles, FilesAt
<1>7. \A r \in Runs, c \in Backends, i \in Nat :
         (OnDown(c, i, r)' <=> OnDown(c, i, r)) /\ (OnNotice(c, i, r)' <=> OnNotice(c, i, r))
  BY <1>1 DEF OnDown, OnNotice
<1>8. ASSUME NEW r \in Runs, NEW c \in Backends, Drains(c, r) PROVE Drains(c, r)'
  <2>1. CASE <<c, r>> \in flushing /\ <<c, r>> # <<b, u>>
    BY <1>1, <2>1 DEF Drains
  <2>2. CASE <<c, r>> = <<b, u>>
    BY <1>6, <2>2 DEF Drains
  <2>3. CASE \E i \in Nat : OnFiles(c, i, r)
    BY <1>5, <2>3 DEF Drains
  <2>4. ASSUME NEW j \in Nat, OnNotice(c, j, r),
               <<c, r>> \in scanning \/ \E i \in Nat : OnDown(c, i, r) /\ i < j
        PROVE  Drains(c, r)'
    <3>1. OnNotice(c, j, r)' /\ (<<c, r>> \in scanning' \/ \E i \in Nat : OnDown(c, i, r)' /\ i < j)
      BY <1>1, <1>7, <2>4
    <3> QED
      BY <3>1 DEF Drains
  <2> QED
    BY <1>8, <2>1, <2>2, <2>3, <2>4 DEF Drains
<1>9. \A r \in Runs, c \in Backends : Scans(c, r) => Scans(c, r)'
  BY <1>1, <1>7 DEF Scans
<1>10. ASSUME NEW r \in Runs
       PROVE  /\ Live(r) /\ Scans(Home[placed[r]], r) => Scans(Home[placed[r]], r)'
              /\ Ends(r) /\ Drains(Home[placed[r]], r) => Drains(Home[placed[r]], r)'
  <2>1. CASE active[r] = None
    BY <2>1 DEF Live, Ends
  <2>2. CASE active[r] # None
    <3>1. PICK c \in Backends : c = Home[placed[r]]
      BY <2>2, PlacedActive
    <3>2. Home[placed'[r]] = c
      BY <1>1, <3>1
    <3> QED
      BY <1>8, <1>9, <3>1, <3>2
  <2> QED
    BY <2>1, <2>2
<1> QED
  BY <1>1, <1>7, <1>10, DrainMoves

\* With a backend dead nothing is promised but that a notice is of a placed run.
LEMMA CrashDrains ==
    ASSUME TypeOK, DrainInv, NEW b \in Backends, BackendCrash(b)
    PROVE  DrainInv'
<1>1. /\ down \in [Backends -> Seq(DownMsg)] /\ down' = [down EXCEPT ![b] = <<>>]
      /\ alive' = alive \ {b} /\ UNCHANGED <<placed, active, request, backends>>
  BY DEF TypeOK, ChanType, BackendCrash, masterVars
<1>2. alive' # Backends
  BY <1>1
<1>3. ASSUME NEW r \in Runs, NEW c \in Backends, NEW j \in Nat, OnNotice(c, j, r)'
      PROVE  OnNotice(c, j, r)
  <2>1. CASE c = b
    <3>1. NoticeAt(<<>>, j, r)
      BY <1>1, <1>3, <2>1 DEF OnNotice
    <3> QED
      BY <3>1 DEF NoticeAt
  <2>2. CASE c # b
    BY <1>1, <1>3, <2>2 DEF OnNotice
  <2> QED
    BY <2>1, <2>2
<1>4. ASSUME NEW r \in Runs PROVE DrainOf(r)'
  <2>1. DrainOf(r)
    BY DEF DrainInv
  <2>2. (Live(r)' <=> Live(r)) /\ (Ends(r)' <=> Ends(r))
    BY <1>1 DEF Live, Ends
  <2>3. \A c \in Backends, j \in Nat : OnNotice(c, j, r)' => placed'[r] # None /\ ~ Live(r)'
    BY <1>1, <1>3, <2>1, <2>2 DEF DrainOf
  <2>4. Ends(r)' => request'[r].profile
    BY <1>1, <2>1, <2>2 DEF DrainOf
  <2> QED
    BY <1>2, <2>3, <2>4 DEF DrainOf
<1> QED
  BY <1>2, <1>4 DEF DrainInv

\* A message put on the stream to the master takes no files off it.
LEMMA OutGrows ==
    ASSUME TypeOK, NEW b \in Backends, NEW m \in UpMsg,
           out' = out \/ out' = [out EXCEPT ![b] = Append(@, m)]
    PROVE  \A r \in Runs, c \in Backends, i \in Nat : OnFiles(c, i, r) => OnFiles(c, i, r)'
<1>1. out \in [Backends -> Seq(UpMsg)]
  BY DEF TypeOK, ChanType
<1>2. CASE out' = out
  BY <1>2 DEF OnFiles
<1>3. CASE out' = [out EXCEPT ![b] = Append(@, m)]
  <2>1. out'[b] = Append(out[b], m) /\ \A c \in Backends : c # b => out'[c] = out[c]
    BY <1>1, <1>3
  <2>2. \A i \in 1..Len(out[b]) : i \in 1..Len(out'[b]) /\ out'[b][i] = out[b][i]
    BY <1>1, <2>1, AppendPlaces
  <2> SUFFICES ASSUME NEW r \in Runs, NEW c \in Backends, NEW i \in Nat, OnFiles(c, i, r)
               PROVE  OnFiles(c, i, r)'
    OBVIOUS
  <2>3. CASE c = b
    BY <2>2, <2>3 DEF OnFiles, FilesAt
  <2>4. CASE c # b
    BY <2>1, <2>4 DEF OnFiles
  <2> QED
    BY <2>3, <2>4
<1> QED
  BY <1>2, <1>3

DrainFrame == UNCHANGED <<alive, backends, placed, active, scanning, flushing>>

\* A kill or a close put on a lane.
LEMMA CommandDrains ==
    ASSUME TypeOK, ChosenOnce, DrainInv,
           (\E r \in Runs : Kill(r) \/ ReaderEnd(r)) \/ \E g \in Guids : Close(g)
    PROVE  DrainInv'
<1>1. UNCHANGED <<request, out>> /\ DrainFrame
  BY DEF Kill, ReaderEnd, Close, masterVars, backendVars, DrainFrame
<1>2. ASSUME Grown, \A r \in Runs : NoNews(r) PROVE DrainInv'
  <2>1. \A r \in Runs, b \in Backends, i \in Nat : OnFiles(b, i, r) => OnFiles(b, i, r)'
    BY <1>1 DEF OnFiles
  <2>2. \A r \in Runs : active[r] # None => request'[r] = request[r]
    BY <1>1
  <2> QED
    BY <1>1, <1>2, <2>1, <2>2, DrainGrows DEF DrainFrame
<1>3. CASE down' = down
  <2>1. Grown /\ \A r \in Runs : NoNews(r)
    BY <1>3 DEF Grown, NoNews, OnDown, OnNotice
  <2> QED
    BY <1>2, <2>1
<1>4. ASSUME NEW u \in Runs, Kill(u) \/ ReaderEnd(u) PROVE DrainInv'
  <2>1. down' = down \/ (active[u] # None /\ SendToDom(active[u].dom, "kill", u))
    BY <1>4 DEF Kill, ReaderEnd
  <2>2. CASE active[u] # None /\ SendToDom(active[u].dom, "kill", u)
    <3> DEFINE d == active[u].dom
               m == [type |-> "kill", run |-> u, dom |-> d]
    <3>1. d \in Doms
      BY <2>2 DEF TypeOK, MasterType, ActiveRun
    <3>2. Home[d] \in Backends /\ m \in DownMsg /\ m.type # "completed"
      BY <3>1, DomsAssumption DEF DownMsg
    <3>3. down' = down \/ down' = [down EXCEPT ![Home[d]] = Append(@, m)]
      BY <2>2 DEF SendToDom
    <3> HIDE DEF d, m
    <3>4. PICK c \in Backends : c = Home[d]
      BY <3>2
    <3>5. Grown /\ \A r \in Runs : NoNews(r)
      BY <3>2, <3>3, <3>4, SendGrows
    <3> QED
      BY <1>2, <3>5
  <2> QED
    BY <1>3, <2>1, <2>2
<1>5. ASSUME NEW g \in Guids, Close(g) PROVE DrainInv'
  <2> DEFINE m == [type |-> "close", guid |-> g]
  <2>1. PICK c \in backends : down' = [down EXCEPT ![c] = Append(@, m)]
    BY <1>5 DEF Close
  <2>2. c \in Backends /\ m \in DownMsg /\ m.type # "completed"
    BY DEF TypeOK, MasterType, DownMsg
  <2> HIDE DEF m
  <2>3. Grown /\ \A r \in Runs : NoNews(r)
    BY <2>1, <2>2, SendGrows
  <2> QED
    BY <1>2, <2>3
<1> QED
  BY <1>4, <1>5

\* Every other step: what it says to the master goes behind what was said.
LEMMA OtherDrains ==
    ASSUME TypeOK, ChosenOnce, DrainInv, DrainFrame, down' = down,
           \A r \in Runs : active[r] # None => request'[r] = request[r],
           \/ out' = out
           \/ \E b \in Backends, m \in UpMsg : out' = [out EXCEPT ![b] = Append(@, m)]
    PROVE  DrainInv'
<1>1. Grown /\ \A r \in Runs : NoNews(r)
  BY DEF Grown, NoNews, OnDown, OnNotice
<1>2. \A r \in Runs, b \in Backends, i \in Nat : OnFiles(b, i, r) => OnFiles(b, i, r)'
  <2>1. CASE out' = out
    BY <2>1 DEF OnFiles
  <2>2. CASE \E b \in Backends, m \in UpMsg : out' = [out EXCEPT ![b] = Append(@, m)]
    BY <2>2, OutGrows
  <2> QED
    BY <2>1, <2>2
<1> QED
  BY <1>1, <1>2, DrainGrows DEF DrainFrame

LEMMA DrainStep ==
    ASSUME TypeOK, ChosenOnce, DrainInv, [Next]_vars
    PROVE  DrainInv'
<1>1. ASSUME NEW r \in Runs, Submit(r) PROVE DrainInv'
  BY <1>1, SubmitDrains
<1>2. ASSUME NEW b \in Backends, MasterStep(b) \/ BackendLost(b) PROVE DrainInv'
  BY <1>2, MasterDrains
<1>3. ASSUME (\E r \in Runs : Kill(r) \/ ReaderEnd(r)) \/ \E g \in Guids : Close(g) PROVE DrainInv'
  BY <1>3, CommandDrains
<1>4. ASSUME NEW b \in Backends, BackendReceive(b) PROVE DrainInv'
  BY <1>4, ReceiveDrains
<1>5. ASSUME NEW b \in Backends, NEW r \in Runs, FilesDone(b, r) PROVE DrainInv'
  BY <1>5, FilesDrains
<1>6. ASSUME NEW b \in Backends, BackendCrash(b) PROVE DrainInv'
  BY <1>6, CrashDrains
<1>7. ASSUME DrainFrame, UNCHANGED <<request, down, out>> PROVE DrainInv'
  <2>1. \A r \in Runs : active[r] # None => request'[r] = request[r]
    BY <1>7
  <2> QED
    BY <1>7, <2>1, OtherDrains
<1>8. ASSUME DrainFrame, UNCHANGED <<request, down>>, NEW b \in Backends, NEW m \in UpMsg,
             out' = [out EXCEPT ![b] = Append(@, m)]
      PROVE  DrainInv'
  <2>1. \A r \in Runs : active[r] # None => request'[r] = request[r]
    BY <1>8
  <2> QED
    BY <1>8, <2>1, OtherDrains
<1>9. ASSUME NEW u \in Runs, Reject(u) PROVE DrainInv'
  <2>1. /\ UNCHANGED <<down, out>> /\ DrainFrame /\ request[u] = None
        /\ \E q \in Requests : request' = [request EXCEPT ![u] = q]
    BY <1>9 DEF Reject, NextId, backendVars, DrainFrame
  <2>2. request \in [Runs -> Requests \cup {None}]
    BY DEF TypeOK, MasterType
  <2>3. active[u] = None
    BY <2>1, PlacedActive DEF ChosenOnce
  <2>4. \A r \in Runs : active[r] # None => request'[r] = request[r]
    BY <2>1, <2>2, <2>3
  <2> QED
    BY <2>1, <2>4, OtherDrains
<1>10. ASSUME NEW r \in Runs, ClientStep(r) \/ ClientDrop(r) PROVE DrainInv'
  <2>1. DrainFrame /\ UNCHANGED <<request, down, out>>
    BY <1>10 DEF ClientStep, ClientReceive, ClientStreamEnd, ClientDrop, masterVars, backendVars, DrainFrame
  <2> QED
    BY <1>7, <2>1
<1>11. ASSUME NEW b \in Backends, Forward(b) PROVE DrainInv'
  <2>1. /\ DrainFrame /\ UNCHANGED <<request, down>> /\ relay[b] # <<>>
        /\ out' = [out EXCEPT ![b] = Append(@, Head(relay[b]))]
    BY <1>11 DEF Forward, masterVars, backendVars, DrainFrame
  <2>2. Head(relay[b]) \in UpMsg
    BY <2>1, TailQueue DEF TypeOK, ChanType
  <2> QED
    BY <1>8, <2>1, <2>2
<1>12. ASSUME NEW b \in Backends, TakeSnapshot(b) PROVE DrainInv'
  <2>1. /\ DrainFrame /\ UNCHANGED <<request, down>>
        /\ out' = [out EXCEPT ![b] = Append(@, [type |-> "snapshot", doms |-> Entries(b)])]
    BY <1>12 DEF TakeSnapshot, masterVars, backendVars, DrainFrame
  <2>2. [type |-> "snapshot", doms |-> Entries(b)] \in UpMsg
    BY DEF UpMsg, Entries
  <2> QED
    BY <1>8, <2>1, <2>2
<1>13. ASSUME NEW d \in Doms, Die(d) PROVE DrainInv'
  <2>1. /\ DrainFrame /\ UNCHANGED <<request, down>>
        /\ \/ out' = out
           \/ out' = [out EXCEPT ![Home[d]] = Append(@, [type |-> "exited", guid |-> Guid[d]])]
    BY <1>13 DEF Die, masterVars, backendVars, DrainFrame
  <2>2. Home[d] \in Backends /\ [type |-> "exited", guid |-> Guid[d]] \in UpMsg
    BY DomsAssumption DEF UpMsg
  <2> QED
    BY <1>7, <1>8, <2>1, <2>2
<1>14. ASSUME NEW d \in Doms,
              \/ Dial(d) \/ Lose(d) \/ Rewire(d) \/ PluginReceive(d)
              \/ \E c \in loops[d] : LoopEnd(d, c)
              \/ \E t \in scripts[d], how \in {"done", "failed"} : ScriptEnd(d, t, how)
       PROVE  DrainInv'
  <2>1. DrainFrame /\ UNCHANGED <<request, down, out>>
    BY <1>14 DEF Dial, Lose, Rewire, PluginReceive, LoopEnd, ScriptEnd, masterVars, chanVars,
                 backendVars, DrainFrame
  <2> QED
    BY <1>7, <2>1
<1>15. ASSUME UNCHANGED vars PROVE DrainInv'
  <2>1. DrainFrame /\ UNCHANGED <<request, down, out>>
    BY <1>15 DEF vars, masterVars, chanVars, backendVars, DrainFrame
  <2> QED
    BY <1>7, <2>1
<1> QED
  BY <1>1, <1>2, <1>3, <1>4, <1>5, <1>6, <1>9, <1>10, <1>11, <1>12, <1>13, <1>14, <1>15
     DEF Next, RunStep, BackendStep, DomStep

LEMMA DrainInit == Init => DrainInv
<1> SUFFICES ASSUME Init PROVE DrainInv
  OBVIOUS
<1>1. \A r \in Runs : ~ Live(r) /\ ~ Ends(r)
  BY DEF Init, Live, Ends
<1>2. \A r \in Runs, b \in Backends, j \in Nat : ~ OnNotice(b, j, r)
  BY DEF Init, OnNotice, NoticeAt
<1> QED
  BY <1>1, <1>2 DEF Init, DrainInv, DrainOf

LEMMA DrainsWait ==
    ASSUME TypeOK, ChosenOnce, DrainInv
    PROVE  DrainHasFuture
<1> SUFFICES ASSUME NEW r \in Runs, alive = Backends, active[r] # None, active[r].state # "running"
             PROVE  \E b \in Backends :
                       \/ b \in alive /\ <<b, r>> \in flushing
                       \/ b \in alive /\ Contains(down[b], [type |-> "completed", run |-> r])
                       \/ b \in backends /\ Contains(out[b], [type |-> "files", run |-> r])
  BY DEF DrainHasFuture
<1>1. PICK b \in Backends : b = Home[placed[r]]
  BY PlacedActive
<1>2. Drains(b, r) /\ backends = Backends
  BY <1>1 DEF DrainInv, DrainOf, Ends
<1>3. ASSUME NEW i \in Nat, OnFiles(b, i, r)
      PROVE  Contains(out[b], [type |-> "files", run |-> r])
  <2>1. out[b] \in Seq(UpMsg)
    BY DEF TypeOK, ChanType
  <2>2. i \in 1..Len(out[b]) /\ out[b][i].type = "files" /\ out[b][i].run = r
    BY <1>3 DEF OnFiles, FilesAt
  <2>3. out[b][i] \in UpMsg
    BY <2>1, <2>2, ElementOfSeq
  <2>4. out[b][i] = [type |-> "files", run |-> r]
    BY <2>2, <2>3 DEF UpMsg
  <2> QED
    BY <2>1, <2>2, <2>4, LenProperties DEF Contains
<1>4. ASSUME NEW j \in Nat, OnNotice(b, j, r)
      PROVE  Contains(down[b], [type |-> "completed", run |-> r])
  <2>1. down[b] \in Seq(DownMsg)
    BY DEF TypeOK, ChanType
  <2>2. j \in 1..Len(down[b]) /\ down[b][j].type = "completed" /\ down[b][j].run = r
    BY <1>4 DEF OnNotice, NoticeAt
  <2>3. down[b][j] \in DownMsg
    BY <2>1, <2>2, ElementOfSeq
  <2>4. down[b][j] = [type |-> "completed", run |-> r]
    BY <2>2, <2>3 DEF DownMsg
  <2> QED
    BY <2>1, <2>2, <2>4, LenProperties DEF Contains
<1> QED
  BY <1>2, <1>3, <1>4 DEF Drains

\* `rodeo run --profile` is answered: while every backend lives, a profiled run that
\* has ended is being drained, is about to be, or has its FilesComplete on the way.
THEOREM DrainsHaveFuture == Spec => []DrainHasFuture
<1> DEFINE I == TypeOK /\ RouteInv /\ DrainInv
<1>1. Init => I
  BY TypeInit, RouteInit, DrainInit
<1>2. I /\ [Next]_vars => I'
  BY RouteStep, DrainStep DEF RouteInv
<1>3. I => DrainHasFuture
  BY DrainsWait DEF RouteInv
<1> HIDE DEF I
<1> QED
  BY <1>1, <1>2, <1>3, PTL DEF Spec

-----------------------------------------------------------------------------
(* A run whose script has started is never forgotten *)

\* A message that ends run r on DOM d when the master reads it.
Word(m, r, d) ==
    \/ m.type \in {"done", "failed", "killed"} /\ m.run = r
    \/ m.type = "disconnect" /\ m.dom = d
Holds(q, r, d) == \E i \in 1..Len(q) : Word(q[i], r, d)

\* A plugin's open socket is one of its connections, whose loop runs; what loops
\* run is connections made.
Dialed(d) ==
    /\ loops[d] \subseteq 1..dials[d]
    /\ sock[d] # 0 => sock[d] \in loops[d]

\* The backend of DOM d has such a message to pass on, or has passed it on.
Spoken(r, d) == Holds(relay[Home[d]], r, d) \/ Holds(out[Home[d]], r, d)

\* What will yet end run r, started on DOM d.  A script whose connection is lost
\* leaves a loop behind, a loop that ends leaves its disconnect.
Future(r, d) ==
    \/ \E t \in scripts[d] : t.run = r /\ t.conn = sock[d]
    \/ Spoken(r, d)
    \/ loops[d] \ {sock[d]} # {}
    \/ Home[d] \notin alive

FutureInv ==
    /\ \A d \in Doms : Dialed(d)
    /\ \A r \in begun, d \in Doms : Live(r) /\ active[r].dom = d => Future(r, d)

\* A lane keeps what it holds when something is put behind it.
LEMMA HoldsAppend ==
    ASSUME NEW S, NEW q \in Seq(S), NEW m \in S, NEW r, NEW d, Holds(q, r, d) \/ Word(m, r, d)
    PROVE  Holds(Append(q, m), r, d)
<1>1. /\ Len(q) \in Nat /\ Len(Append(q, m)) = Len(q) + 1 /\ Append(q, m)[Len(q) + 1] = m
      /\ \A i \in 1..Len(q) : i \in 1..Len(Append(q, m)) /\ Append(q, m)[i] = q[i]
  BY AppendPlaces
<1>2. CASE Holds(q, r, d)
  BY <1>1, <1>2 DEF Holds
<1>3. CASE Word(m, r, d)
  <2>1. Len(q) + 1 \in 1..Len(Append(q, m))
    BY <1>1
  <2> QED
    BY <1>1, <1>3, <2>1 DEF Holds
<1> QED
  BY <1>2, <1>3

LEMMA HoldsConcat ==
    ASSUME NEW S, NEW p \in Seq(S), NEW q \in Seq(S), NEW r, NEW d, Holds(p, r, d)
    PROVE  Holds(p \o q, r, d)
<1>1. \A i \in 1..Len(p) : i \in 1..Len(p \o q) /\ (p \o q)[i] = p[i]
  BY ConcatPlaces
<1> QED
  BY <1>1 DEF Holds

\* Reading a lane takes its head and nothing else.
LEMMA HoldsTail ==
    ASSUME NEW S, NEW q \in Seq(S), q # <<>>, NEW r, NEW d, Holds(q, r, d)
    PROVE  Holds(Tail(q), r, d) \/ Word(Head(q), r, d)
<1>1. /\ Head(q) = q[1]
      /\ \A i \in 1..Len(q) : i # 1 => i - 1 \in 1..Len(Tail(q)) /\ Tail(q)[i - 1] = q[i]
  BY TailPlaces
<1>2. PICK i \in 1..Len(q) : Word(q[i], r, d)
  BY DEF Holds
<1>3. CASE i = 1
  BY <1>1, <1>2, <1>3
<1>4. CASE i # 1
  BY <1>1, <1>2, <1>4 DEF Holds
<1> QED
  BY <1>3, <1>4

\* Each step owes this of a run that has started and is still running.
LEMMA FutureKept ==
    ASSUME FutureInv, begun' = begun, \A d \in Doms : Dialed(d)',
           \A r \in begun, d \in Doms : Live(r)' =>
              active'[r] = active[r] /\ (active[r].dom = d /\ Future(r, d) => Future(r, d)')
    PROVE  FutureInv'
<1> SUFFICES ASSUME NEW r \in begun, NEW d \in Doms, Live(r)', active'[r].dom = d
             PROVE  Future(r, d)'
  BY DEF FutureInv
<1>1. active'[r] = active[r]
  OBVIOUS
<1>2. Live(r) /\ active[r].dom = d
  BY <1>1 DEF Live
<1>3. Future(r, d)
  BY <1>2 DEF FutureInv
<1> QED
  BY <1>2, <1>3

\* Reconciling moves only the runs it finds queued.
LEMMA PlacedLeft ==
    ASSUME NEW P \in SUBSET Runs, NEW A, NEW V, NEW note, NEW extra,
           Reconcile(P, A, V, note, extra), NEW r \in Runs, r \notin P
    PROVE  active'[r] = A[r]
<1>1. PICK place \in Placements(request', P, V) :
         \E batch \in Batches(place) : Dispatch(P, A, V, note, extra, place, batch)
  BY DEF Reconcile
<1>2. r \notin DOMAIN place
  BY DEF Placements
<1> QED
  BY <1>1, <1>2 DEF Dispatch

\* Completing runs leaves none of them running and touches no other.
LEMMA CompleteLeaves ==
    ASSUME TypeOK, NEW S \in SUBSET Runs, NEW state \in {"done", "error", "killed"},
           NEW ev, NEW bs, NEW P \in SUBSET Runs, NEW V,
           CompleteRuns(S, state, ev, bs, P, V), NEW r \in Runs, r \notin P, Live(r)'
    PROVE  r \notin S /\ active'[r] = active[r]
<1>1. PICK order \in SetToSeqs(Profiled(S)) :
        Reconcile(P, Completed(S, state), V, CompletionNote(S, ev), Notices(bs, order))
  BY DEF CompleteRuns
<1>2. active'[r] = Completed(S, state)[r]
  BY <1>1, PlacedLeft
<1>3. active[r] \in ActiveRun \cup {None}
  BY DEF TypeOK, MasterType
<1>4. CASE r \in S
  <2>1. CASE active[r] = None
    BY <1>2, <1>4, <2>1 DEF Completed, Finished, Live
  <2>2. CASE active[r] # None
    <3>1. active'[r] \in {[active[r] EXCEPT !.state = state], None}
      BY <1>2, <1>4, <2>2 DEF Completed, Finished, Profiled
    <3>2. active'[r] = None \/ active'[r].state = state
      BY <1>3, <2>2, <3>1 DEF ActiveRun
    <3> QED
      BY <3>2 DEF Live
  <2> QED
    BY <2>1, <2>2
<1>5. CASE r \notin S
  BY <1>2, <1>5 DEF Completed, Finished
<1> QED
  BY <1>4, <1>5

\* Where the scripts, the sockets and their loops are.
Plugged == UNCHANGED <<sock, dials, loops, scripts, begun, alive>>

\* The master reads a word about a run only to end it.
LEMMA MasterFuture ==
    ASSUME TypeOK, ChosenOnce, NotAgain, FutureInv, NEW b \in Backends,
           MasterStep(b) \/ BackendLost(b)
    PROVE  FutureInv'
<1> DEFINE V == View(backends, snap)
<1>1. /\ pending \in SUBSET Runs /\ begun \in SUBSET Runs /\ out \in [Backends -> Seq(UpMsg)]
      /\ active \in [Runs -> ActiveRun \cup {None}]
  BY DEF TypeOK, MasterType, ChanType, PluginType
<1>2. relay' = relay /\ Plugged
  BY DEF MasterStep, HandleNudge, HandleDomDisconnect, HandleFinished, HandleSnapshot,
         HandleFiles, BackendLost, HandlerFrame, backendVars, pluginVars, Plugged
<1>3. begun' = begun /\ \A d \in Doms : Dialed(d)'
  BY <1>2 DEF Plugged, FutureInv, Dialed
<1> SUFFICES ASSUME NEW r \in begun, NEW d \in Doms, Live(r)'
             PROVE  active'[r] = active[r] /\ (active[r].dom = d /\ Future(r, d) => Future(r, d)')
  BY <1>3, FutureKept
<1>4. r \in Runs /\ r \notin pending /\ Home[d] \in Backends
  BY <1>1, DomsAssumption DEF NotAgain, ChosenOnce
<1>5. ASSUME Consume(b), out[b] # <<>>, ~ Word(Head(out[b]), r, d), Future(r, d) PROVE Future(r, d)'
  <2>1. out'[b] = Tail(out[b]) /\ out[b] \in Seq(UpMsg) /\ \A c \in Backends : c # b => out'[c] = out[c]
    BY <1>1, <1>5 DEF Consume
  <2>2. Holds(out[b], r, d) => Holds(out'[b], r, d)
    BY <1>5, <2>1, HoldsTail
  <2>3. Holds(out[Home[d]], r, d) => Holds(out'[Home[d]], r, d)
    BY <1>4, <2>1, <2>2
  <2> QED
    BY <1>2, <1>5, <2>3 DEF Future, Spoken, Plugged
<1>6. CASE HandleNudge(b)
  <2>1. Reconcile(pending, active, V, Silent, NoExtra)
    BY <1>6 DEF HandleNudge
  <2>2. active'[r] = active[r]
    BY <1>1, <1>4, <2>1, PlacedLeft
  <2>3. Consume(b) /\ out[b] # <<>> /\ ~ Word(Head(out[b]), r, d)
    BY <1>6 DEF HandleNudge, Arrived, Word
  <2> QED
    BY <1>5, <2>2, <2>3
<1>7. CASE HandleSnapshot(b)
  <2>1. Reconcile(pending, active, View(backends, snap'), Silent, NoExtra)
    BY <1>7 DEF HandleSnapshot
  <2>2. active'[r] = active[r]
    BY <1>1, <1>4, <2>1, PlacedLeft
  <2>3. Consume(b) /\ out[b] # <<>> /\ ~ Word(Head(out[b]), r, d)
    BY <1>7 DEF HandleSnapshot, Arrived, Word
  <2> QED
    BY <1>5, <2>2, <2>3
<1>8. CASE HandleDomDisconnect(b)
  <2> DEFINE x == Head(out[b]).dom
             swept == {u \in Runs : active[u] # None /\ active[u].dom = x}
             drained == IF swept = {} THEN {} ELSE DeadSession(request, pending, V)
             waiting == {u \in pending \ drained : request[u].dom = x}
  <2>1. CompleteRuns(swept, "killed", "disconnect", backends, pending \ waiting, V)
    BY <1>8 DEF HandleDomDisconnect
  <2>2. swept \in SUBSET Runs /\ pending \ waiting \in SUBSET Runs /\ r \notin pending \ waiting
    BY <1>1, <1>4
  <2>3. Consume(b) /\ out[b] # <<>> /\ Head(out[b]).type = "disconnect"
    BY <1>4, <1>8 DEF HandleDomDisconnect, Arrived
  <2>4. r \notin swept /\ active'[r] = active[r]
    <3> HIDE DEF swept, waiting, V
    <3> QED
      BY <1>4, <2>1, <2>2, CompleteLeaves
  <2>5. active[r].dom # x
    BY <1>4, <2>4 DEF Live
  <2>6. active[r].dom = d => ~ Word(Head(out[b]), r, d)
    BY <2>3, <2>5 DEF Word
  <2> QED
    BY <1>5, <2>3, <2>4, <2>6
<1>9. CASE HandleFinished(b)
  <2> DEFINE m == Head(out[b])
  <2>1. /\ m.type \in {"done", "failed", "killed"}
        /\ CompleteRuns({m.run}, FinalState(m.type), m.type, backends, pending, V)
    BY <1>9 DEF HandleFinished
  <2>2. m.run \in Runs
    BY <1>9, <2>1, ConsumeType DEF HandleFinished, UpMsg
  <2>3. FinalState(m.type) \in {"done", "error", "killed"}
    BY <2>1 DEF FinalState
  <2>4. r \notin {m.run} /\ active'[r] = active[r]
    <3> DEFINE S == {m.run}
               state == FinalState(m.type)
               ev == m.type
    <3>1. S \in SUBSET Runs /\ CompleteRuns(S, state, ev, backends, pending, V)
      BY <2>1, <2>2
    <3> HIDE DEF m, V, S, state, ev
    <3>2. state \in {"done", "error", "killed"}
      BY <2>3 DEF state
    <3>3. pending \in SUBSET Runs /\ r \in Runs /\ r \notin pending
      BY <1>1, <1>4
    <3>4. r \notin S /\ active'[r] = active[r]
      BY <3>1, <3>2, <3>3, CompleteLeaves
    <3> QED
      BY <3>4 DEF S
  <2>5. Consume(b) /\ out[b] # <<>> /\ ~ Word(m, r, d)
    BY <1>9, <2>1, <2>4 DEF HandleFinished, Word
  <2> QED
    BY <1>5, <2>4, <2>5
<1>10. CASE HandleFiles(b)
  <2>1. Consume(b) /\ out[b] # <<>> /\ ~ Word(Head(out[b]), r, d)
    BY <1>10 DEF HandleFiles, Arrived, Word
  <2>2. active'[r] = active[r]
    BY <1>1, <1>4, <1>10 DEF HandleFiles, Live
  <2> QED
    BY <1>5, <2>1, <2>2
<1>11. CASE BackendLost(b)
  <2> DEFINE W == View(backends', snap)
             orphaned == {u \in Runs : active[u] # None /\ active[u].dom \notin W}
  <2>1. \/ active' = active
        \/ CompleteRuns(orphaned, "killed", "disconnect", backends', pending, W)
    BY <1>11 DEF BackendLost
  <2>2. orphaned \in SUBSET Runs
    OBVIOUS
  <2>3. active'[r] = active[r]
    <3> HIDE DEF orphaned, W
    <3> QED
      BY <1>1, <1>4, <2>1, <2>2, CompleteLeaves
  <2>4. b \notin alive /\ \A c \in Backends : c # b => out'[c] = out[c]
    BY <1>1, <1>11 DEF BackendLost
  <2>5. Future(r, d) => Future(r, d)'
    BY <1>2, <1>4, <2>4 DEF Future, Spoken, Plugged
  <2> QED
    BY <2>3, <2>5
<1> QED
  BY <1>6, <1>7, <1>8, <1>9, <1>10, <1>11 DEF MasterStep

\* A submission and a reader's end touch no run that has started.
LEMMA SubmitFuture ==
    ASSUME TypeOK, ChosenOnce, NotAgain, FutureInv, NEW u \in Runs, Submit(u)
    PROVE  FutureInv'
<1> DEFINE V == View(backends, snap)
           created == [Silent EXCEPT ![u] = <<"created">>]
<1>1. /\ pending \cup {u} \in SUBSET Runs /\ begun \in SUBSET Runs /\ request[u] = None
      /\ active \in [Runs -> ActiveRun \cup {None}]
  BY DEF Submit, NextId, TypeOK, MasterType, PluginType
<1>2. UNCHANGED <<relay, out>> /\ Plugged
  BY DEF Submit, backendVars, pluginVars, Plugged
<1>3. begun' = begun /\ \A d \in Doms : Dialed(d)'
  BY <1>2 DEF Plugged, FutureInv, Dialed
<1> SUFFICES ASSUME NEW r \in begun, NEW d \in Doms, Live(r)'
             PROVE  active'[r] = active[r] /\ (active[r].dom = d /\ Future(r, d) => Future(r, d)')
  BY <1>3, FutureKept
<1>4. r \in Runs /\ r \notin pending \cup {u}
  BY <1>1 DEF NotAgain, ChosenOnce
<1>5. Future(r, d) => Future(r, d)'
  BY <1>2 DEF Future, Spoken, Plugged
<1>6. \/ \E e \in V : active' = [active EXCEPT ![u] = [dom |-> e, state |-> "running"]]
      \/ Reconcile(pending \cup {u}, active, V, created, NoExtra)
  BY DEF Submit
<1>7. CASE \E e \in V : active' = [active EXCEPT ![u] = [dom |-> e, state |-> "running"]]
  BY <1>1, <1>4, <1>5, <1>7
<1>8. CASE Reconcile(pending \cup {u}, active, V, created, NoExtra)
  <2> HIDE DEF V, created
  <2>1. active'[r] = active[r]
    BY <1>1, <1>4, <1>8, PlacedLeft
  <2> QED
    BY <1>5, <2>1
<1> QED
  BY <1>6, <1>7, <1>8

\* A step away from the plugins that keeps every word spoken.
LEMMA SpokenFuture ==
    ASSUME FutureInv, Plugged, active' = active,
           \A r \in Runs, d \in Doms : Spoken(r, d) => Spoken(r, d)',
           begun \in SUBSET Runs
    PROVE  FutureInv'
<1>1. begun' = begun /\ \A d \in Doms : Dialed(d)'
  BY DEF Plugged, FutureInv, Dialed
<1>2. \A r \in Runs, d \in Doms : Future(r, d) => Future(r, d)'
  BY DEF Future, Plugged
<1> QED
  BY <1>1, <1>2, FutureKept

\* What the backend says goes behind what it has said.
LEMMA RelaySpoken ==
    ASSUME TypeOK, out' = out, NEW b \in Backends, NEW m \in UpMsg,
           relay' = [relay EXCEPT ![b] = Append(@, m)]
    PROVE  /\ \A r \in Runs, d \in Doms : Spoken(r, d) => Spoken(r, d)'
           /\ \A r \in Runs, d \in Doms : Home[d] = b /\ Word(m, r, d) => Spoken(r, d)'
<1>1. /\ relay'[b] = Append(relay[b], m) /\ relay[b] \in Seq(UpMsg)
      /\ \A c \in Backends : c # b => relay'[c] = relay[c]
      /\ \A d \in Doms : Home[d] \in Backends
  BY DomsAssumption DEF TypeOK, ChanType
<1>2. ASSUME NEW r \in Runs, NEW d \in Doms, Holds(relay[b], r, d) \/ Word(m, r, d)
      PROVE  Holds(relay'[b], r, d)
  BY <1>1, <1>2, HoldsAppend
<1> QED
  BY <1>1, <1>2 DEF Spoken

LEMMA OutSpoken ==
    ASSUME TypeOK, relay' = relay, NEW b \in Backends, NEW m \in UpMsg,
           out' = [out EXCEPT ![b] = Append(@, m)]
    PROVE  \A r \in Runs, d \in Doms : Spoken(r, d) => Spoken(r, d)'
<1>1. /\ out'[b] = Append(out[b], m) /\ out[b] \in Seq(UpMsg)
      /\ \A c \in Backends : c # b => out'[c] = out[c]
      /\ \A d \in Doms : Home[d] \in Backends
  BY DomsAssumption DEF TypeOK, ChanType
<1>2. ASSUME NEW r \in Runs, NEW d \in Doms, Holds(out[b], r, d) PROVE Holds(out'[b], r, d)
  BY <1>1, <1>2, HoldsAppend
<1> QED
  BY <1>1, <1>2 DEF Spoken

LEMMA ForwardSpoken ==
    ASSUME TypeOK, NEW b \in Backends, Forward(b)
    PROVE  \A r \in Runs, d \in Doms : Spoken(r, d) => Spoken(r, d)'
<1>1. /\ out[b] \in Seq(UpMsg) /\ relay[b] \in Seq(UpMsg) /\ relay[b] # <<>>
      /\ relay'[b] = Tail(relay[b]) /\ out'[b] = Append(out[b], Head(relay[b]))
      /\ \A c \in Backends : c # b => out'[c] = out[c] /\ relay'[c] = relay[c]
      /\ \A d \in Doms : Home[d] \in Backends
  BY DomsAssumption DEF Forward, TypeOK, ChanType
<1>2. Head(relay[b]) \in UpMsg
  BY <1>1, TailQueue
<1>3. ASSUME NEW r \in Runs, NEW d \in Doms, Holds(out[b], r, d) \/ Word(Head(relay[b]), r, d)
      PROVE  Holds(out'[b], r, d)
  BY <1>1, <1>2, <1>3, HoldsAppend
<1>4. ASSUME NEW r \in Runs, NEW d \in Doms, Holds(relay[b], r, d)
      PROVE  Holds(relay'[b], r, d) \/ Word(Head(relay[b]), r, d)
  BY <1>1, <1>4, HoldsTail
<1> QED
  BY <1>1, <1>3, <1>4 DEF Spoken

\* The backend's steps.
LEMMA BackendFuture ==
    ASSUME TypeOK, FutureInv, NEW b \in Backends, BackendStep(b) \/ TakeSnapshot(b)
    PROVE  FutureInv'
<1>1. Plugged /\ active' = active
  BY DEF BackendStep, Forward, BackendReceive, FilesDone, TakeSnapshot, Plugged,
         masterVars, backendVars, pluginVars
<1>2. begun \in SUBSET Runs
  BY DEF TypeOK, PluginType
<1> SUFFICES \A r \in Runs, d \in Doms : Spoken(r, d) => Spoken(r, d)'
  BY <1>1, <1>2, SpokenFuture
<1>3. CASE Forward(b)
  BY <1>3, ForwardSpoken
<1>4. CASE BackendReceive(b)
  <2>1. out' = out
    BY <1>4 DEF BackendReceive
  <2>2. CASE relay' = relay
    BY <2>1, <2>2 DEF Spoken
  <2>3. CASE relay' # relay
    <3>1. PICK dying \in SUBSET Doms :
             \E order \in SetToSeqs(dying) :
                relay' = [relay EXCEPT ![b] = @ \o
                   [i \in 1..Len(order) |-> [type |-> "disconnect", dom |-> order[i]]]]
      BY <1>4, <2>3 DEF BackendReceive, Entries
    <3>2. PICK order \in SetToSeqs(dying) :
             relay' = [relay EXCEPT ![b] = @ \o
                [i \in 1..Len(order) |-> [type |-> "disconnect", dom |-> order[i]]]]
      BY <3>1
    <3> DEFINE q == [i \in 1..Len(order) |-> [type |-> "disconnect", dom |-> order[i]]]
    <3>3. order \in Seq(Doms)
      <4>1. Cardinality(dying) \in Nat
        BY DomsAssumption, FS_Subset, FS_CardinalityType
      <4>2. order \in [1..Cardinality(dying) -> dying]
        BY <3>2 DEF SetToSeqs
      <4> QED
        BY <4>1, <4>2, SeqDef
    <3>4. Len(order) \in Nat /\ \A i \in 1..Len(order) : order[i] \in Doms
      BY <3>3, LenProperties, ElementOfSeq
    <3>5. q \in Seq(UpMsg)
      BY <3>4, SeqDef DEF UpMsg
    <3> HIDE DEF q
    <3>6. /\ relay'[b] = relay[b] \o q /\ relay[b] \in Seq(UpMsg)
          /\ \A c \in Backends : c # b => relay'[c] = relay[c]
      BY <3>2 DEF q, TypeOK, ChanType
    <3>7. \A d \in Doms : Home[d] \in Backends
      BY DomsAssumption
    <3>8. ASSUME NEW r \in Runs, NEW d \in Doms, Holds(relay[b], r, d) PROVE Holds(relay'[b], r, d)
      BY <3>5, <3>6, <3>8, HoldsConcat
    <3> QED
      BY <2>1, <3>6, <3>7, <3>8 DEF Spoken
  <2> QED
    BY <2>2, <2>3
<1>5. ASSUME NEW r \in Runs, FilesDone(b, r)
      PROVE  \A u \in Runs, d \in Doms : Spoken(u, d) => Spoken(u, d)'
  <2>1. relay' = relay /\ out' = [out EXCEPT ![b] = Append(@, [type |-> "files", run |-> r])]
    BY <1>5 DEF FilesDone
  <2>2. [type |-> "files", run |-> r] \in UpMsg
    BY DEF UpMsg
  <2> QED
    BY <2>1, <2>2, OutSpoken
<1>6. CASE TakeSnapshot(b)
  <2>1. relay' = relay /\ out' = [out EXCEPT ![b] = Append(@, [type |-> "snapshot", doms |-> Entries(b)])]
    BY <1>6 DEF TakeSnapshot
  <2>2. [type |-> "snapshot", doms |-> Entries(b)] \in UpMsg
    BY DEF UpMsg, Entries
  <2> QED
    BY <2>1, <2>2, OutSpoken
<1> QED
  BY <1>3, <1>4, <1>5, <1>6 DEF BackendStep

\* A backend that dies is the end of its plugins' runs.
LEMMA CrashFuture ==
    ASSUME TypeOK, FutureInv, NEW b \in Backends, BackendCrash(b)
    PROVE  FutureInv'
<1>1. /\ begun' = begun /\ active' = active /\ scripts' = scripts /\ dials' = dials /\ out' = out
      /\ alive' = alive \ {b} /\ begun \in SUBSET Runs
  BY DEF BackendCrash, masterVars, TypeOK, PluginType
<1>2. \A c \in Backends : c # b => relay'[c] = relay[c]
  BY DEF BackendCrash, TypeOK, ChanType
<1>3. \A d \in Doms : /\ loops'[d] = IF Home[d] = b THEN {} ELSE loops[d]
                      /\ sock'[d] = IF Home[d] = b THEN 0 ELSE sock[d]
  BY DEF BackendCrash
<1>4. \A d \in Doms : Dialed(d)'
  BY <1>1, <1>3 DEF FutureInv, Dialed
<1>5. ASSUME NEW r \in Runs, NEW d \in Doms, Future(r, d) PROVE Future(r, d)'
  <2>1. CASE Home[d] = b
    BY <1>1, <2>1 DEF Future
  <2>2. CASE Home[d] # b
    <3>1. loops'[d] = loops[d] /\ sock'[d] = sock[d] /\ Home[d] \in Backends
      BY <1>3, <2>2, DomsAssumption
    <3>2. Spoken(r, d) => Spoken(r, d)'
      BY <1>1, <1>2, <2>2, <3>1 DEF Spoken
    <3> QED
      BY <1>1, <1>5, <3>1, <3>2 DEF Future
  <2> QED
    BY <2>1, <2>2
<1> QED
  BY <1>1, <1>4, <1>5, FutureKept

\* A plugin's connections: a new one leaves the loop of the last behind, and so
\* does losing one.
LEMMA SocketFuture ==
    ASSUME TypeOK, FutureInv, NEW d \in Doms, Dial(d) \/ Lose(d) \/ Die(d)
    PROVE  FutureInv'
<1>1. /\ begun' = begun /\ active' = active /\ alive' = alive /\ begun \in SUBSET Runs
      /\ Home[d] \in Backends
  BY DomsAssumption DEF Dial, Lose, Die, masterVars, backendVars, TypeOK, PluginType
<1>2. /\ dials \in [Doms -> 0..MaxConn] /\ dials[d] \in Nat
      /\ sock \in [Doms -> 0..MaxConn] /\ loops \in [Doms -> SUBSET (1..MaxConn)]
      /\ scripts \in [Doms -> SUBSET Script]
  BY BoundsAssumption DEF TypeOK, PluginType, BackendType
<1>3. \A r \in Runs, e \in Doms : Spoken(r, e) => Spoken(r, e)'
  <2>1. CASE Dial(d)
    <3>1. out' = out /\ relay' = [relay EXCEPT ![Home[d]] = Append(@, [type |-> "connect", dom |-> d])]
      BY <2>1 DEF Dial
    <3>2. [type |-> "connect", dom |-> d] \in UpMsg
      BY DEF UpMsg
    <3> QED
      BY <1>1, <3>1, <3>2, RelaySpoken
  <2>2. CASE Lose(d)
    BY <2>2 DEF Lose, Spoken
  <2>3. CASE Die(d)
    <3>1. relay' = relay /\ \/ out' = out
                            \/ out' = [out EXCEPT ![Home[d]] = Append(@, [type |-> "exited", guid |-> Guid[d]])]
      BY <2>3 DEF Die
    <3>2. [type |-> "exited", guid |-> Guid[d]] \in UpMsg
      BY DomsAssumption DEF UpMsg
    <3>3. CASE out' = out
      BY <3>1, <3>3 DEF Spoken
    <3> QED
      BY <1>1, <3>1, <3>2, <3>3, OutSpoken
  <2> QED
    BY <2>1, <2>2, <2>3
<1>4. /\ \A e \in Doms : e # d => /\ sock'[e] = sock[e] /\ loops'[e] = loops[e]
                                 /\ scripts'[e] = scripts[e] /\ dials'[e] = dials[e]
      /\ \/ /\ sock[d] = 0 /\ sock'[d] = dials[d] + 1 /\ dials'[d] = dials[d] + 1
            /\ loops'[d] = loops[d] \cup {dials[d] + 1}
         \/ sock'[d] = 0 /\ dials'[d] = dials[d] /\ loops'[d] = loops[d]
  BY <1>2 DEF Dial, Lose, Die, backendVars
<1>5. Dialed(d)
  BY DEF FutureInv
<1>6. Dialed(d)'
  <2>1. loops[d] \subseteq 1..dials[d] + 1 /\ dials[d] + 1 \in 1..dials[d] + 1
    BY <1>2, <1>5 DEF Dialed
  <2> QED
    BY <1>2, <1>4, <1>5, <2>1 DEF Dialed
<1>7. \A e \in Doms : Dialed(e)'
  BY <1>4, <1>6 DEF FutureInv, Dialed
<1>8. 0 \notin loops[d] /\ dials[d] + 1 \notin loops[d]
  BY <1>2, <1>5 DEF Dialed
<1>9. ASSUME NEW r \in Runs, Future(r, d) PROVE Future(r, d)'
  <2>1. CASE \E t \in scripts[d] : t.run = r /\ t.conn = sock[d]
    <3>1. sock[d] \in 1..MaxConn
      BY <1>2, <2>1 DEF Script
    <3>2. sock[d] # 0 /\ sock[d] \in loops[d]
      BY <1>5, <3>1 DEF Dialed
    <3>3. sock'[d] = 0 /\ sock[d] \in loops'[d]
      BY <1>4, <3>2
    <3>4. sock[d] \in loops'[d] \ {sock'[d]}
      BY <3>2, <3>3
    <3> QED
      BY <3>4 DEF Future
  <2>2. CASE loops[d] \ {sock[d]} # {}
    <3>1. PICK x \in loops[d] : x # sock[d]
      BY <2>2
    <3>2. x \in loops'[d] /\ x # sock'[d]
      BY <1>4, <1>8, <3>1
    <3> QED
      BY <3>2 DEF Future
  <2>3. CASE Spoken(r, d) \/ Home[d] \notin alive
    BY <1>1, <1>3, <2>3 DEF Future
  <2> QED
    BY <1>9, <2>1, <2>2, <2>3 DEF Future
<1>10. ASSUME NEW r \in Runs, NEW e \in Doms, e # d, Future(r, e) PROVE Future(r, e)'
  BY <1>1, <1>3, <1>4, <1>10 DEF Future
<1> QED
  BY <1>1, <1>7, <1>9, <1>10, FutureKept

\* A loop that ends says so.
LEMMA LoopFuture ==
    ASSUME TypeOK, FutureInv, NEW d \in Doms, NEW x \in loops[d], LoopEnd(d, x)
    PROVE  FutureInv'
<1> DEFINE m == [type |-> "disconnect", dom |-> d]
<1>1. /\ begun' = begun /\ active' = active /\ alive' = alive /\ begun \in SUBSET Runs
      /\ UNCHANGED <<sock, dials, scripts, out>> /\ Home[d] \in Backends
      /\ relay' = [relay EXCEPT ![Home[d]] = Append(@, m)]
  BY DomsAssumption DEF LoopEnd, masterVars, pluginVars, TypeOK, PluginType
<1>2. /\ m \in UpMsg /\ \A r \in Runs : Word(m, r, d)
  BY DEF UpMsg, Word
<1> HIDE DEF m
<1>3. /\ \A r \in Runs, e \in Doms : Spoken(r, e) => Spoken(r, e)'
      /\ \A r \in Runs : Spoken(r, d)'
  BY <1>1, <1>2, RelaySpoken
<1>4. /\ loops'[d] = loops[d] \ {x} /\ x # sock[d]
      /\ \A e \in Doms : e # d => loops'[e] = loops[e]
  BY DEF LoopEnd, TypeOK, BackendType
<1>5. \A e \in Doms : Dialed(e)'
  BY <1>1, <1>4 DEF FutureInv, Dialed
<1>6. ASSUME NEW r \in Runs, NEW e \in Doms, Future(r, e) PROVE Future(r, e)'
  BY <1>1, <1>3, <1>4, <1>6 DEF Future
<1> QED
  BY <1>1, <1>5, <1>6, FutureKept

\* A script that ends on its open connection reports it.
LEMMA EndFuture ==
    ASSUME TypeOK, FutureInv, NEW d \in Doms, NEW s \in scripts[d], NEW how \in {"done", "failed"},
           ScriptEnd(d, s, how)
    PROVE  FutureInv'
<1> DEFINE m == [type |-> how, run |-> s.run]
<1>1. /\ begun' = begun /\ active' = active /\ alive' = alive /\ begun \in SUBSET Runs
      /\ UNCHANGED <<sock, dials, loops, out>> /\ Home[d] \in Backends
  BY DomsAssumption DEF ScriptEnd, masterVars, backendVars, TypeOK, PluginType
<1>2. /\ scripts'[d] = scripts[d] \ {s}
      /\ \A e \in Doms : e # d => scripts'[e] = scripts[e]
      /\ relay' = IF s.conn = sock[d] THEN [relay EXCEPT ![Home[d]] = Append(@, m)] ELSE relay
  BY DEF ScriptEnd, TypeOK, PluginType
<1>3. s \in Script
  BY DEF TypeOK, PluginType
<1>4. m \in UpMsg /\ Word(m, s.run, d)
  BY <1>3 DEF UpMsg, Word, Script
<1> HIDE DEF m
<1>5. s.run \in Runs
  BY <1>3 DEF Script
<1>6. /\ \A r \in Runs, e \in Doms : Spoken(r, e) => Spoken(r, e)'
      /\ s.conn = sock[d] => Spoken(s.run, d)'
  <2>1. CASE s.conn = sock[d]
    <3>1. relay' = [relay EXCEPT ![Home[d]] = Append(@, m)]
      BY <1>2, <2>1
    <3> QED
      BY <1>1, <1>4, <1>5, <3>1, RelaySpoken
  <2>2. CASE s.conn # sock[d]
    BY <1>1, <1>2, <2>2 DEF Spoken
  <2> QED
    BY <2>1, <2>2
<1>7. \A e \in Doms : Dialed(e)'
  BY <1>1 DEF FutureInv, Dialed
<1>8. ASSUME NEW r \in Runs, NEW e \in Doms, Future(r, e) PROVE Future(r, e)'
  <2>1. CASE \E t \in scripts[e] : t.run = r /\ t.conn = sock[e]
    BY <1>1, <1>2, <1>6, <2>1 DEF Future
  <2> QED
    BY <1>1, <1>6, <1>8, <2>1 DEF Future
<1> QED
  BY <1>1, <1>7, <1>8, FutureKept

\* A script starts on the connection its command came by, for the DOM the master has
\* it on; one that a kill stops is acknowledged.
LEMMA PluginFuture ==
    ASSUME TypeOK, RouteInv, FutureInv, NEW d \in Doms, PluginReceive(d)
    PROVE  FutureInv'
<1> DEFINE m == Head(inbox[d])
<1>1. /\ active' = active /\ alive' = alive /\ begun \in SUBSET Runs
      /\ UNCHANGED <<sock, dials, loops, out>> /\ Home[d] \in Backends
      /\ scripts \in [Doms -> SUBSET Script]
  BY DomsAssumption DEF PluginReceive, masterVars, backendVars, TypeOK, PluginType
<1>2. m \in RightInbox(d) /\ m \in InboxMsg
  <2>1. inbox[d] # <<>> /\ inbox[d] \in Seq(RightInbox(d))
    BY DEF PluginReceive, RouteInv, WireRight
  <2>2. m \in RightInbox(d)
    BY <2>1, TailQueue
  <2> QED
    BY <2>2 DEF RightInbox
<1>3. PICK u \in Runs : u = m.run
  BY <1>2 DEF InboxMsg
<1>4. \A e \in Doms : Dialed(e)'
  BY <1>1 DEF FutureInv, Dialed
<1>5. CASE m.type = "run"
  <2>1. /\ scripts' = [scripts EXCEPT ![d] = @ \cup {[run |-> u, conn |-> sock[d]]}]
        /\ begun' = begun \cup {u} /\ relay' = relay
    BY <1>3, <1>5 DEF PluginReceive
  <2> DEFINE t == [run |-> u, conn |-> sock[d]]
  <2>2. t \in scripts'[d] /\ t.run = u /\ t.conn = sock'[d]
    BY <1>1, <2>1
  <2>3. Future(u, d)'
    BY <2>2 DEF Future
  <2>4. \A e \in Doms : scripts[e] \subseteq scripts'[e]
    BY <1>1, <2>1
  <2>5. ASSUME NEW r \in Runs, NEW e \in Doms, Future(r, e) PROVE Future(r, e)'
    <3>1. Spoken(r, e) => Spoken(r, e)'
      BY <1>1, <2>1 DEF Spoken
    <3> QED
      BY <1>1, <2>4, <2>5, <3>1 DEF Future
  <2>6. active[u] # None => active[u].dom = d
    BY <1>2, <1>3, <1>5 DEF RouteInv, ChosenOnce, RightInbox
  <2>7. ASSUME NEW r \in begun', NEW e \in Doms, Live(r)', active'[r].dom = e PROVE Future(r, e)'
    <3>1. Live(r) /\ active[r].dom = e
      BY <1>1, <2>7 DEF Live
    <3>2. CASE r = u
      <4>1. e = d
        BY <2>6, <3>1, <3>2 DEF Live
      <4> QED
        BY <2>3, <3>2, <4>1
    <3>3. CASE r # u
      <4>1. r \in begun /\ r \in Runs
        BY <1>1, <2>1, <2>7, <3>3
      <4>2. Future(r, e)
        BY <3>1, <4>1 DEF FutureInv
      <4> QED
        BY <2>5, <4>1, <4>2
    <3> QED
      BY <3>2, <3>3
  <2> QED
    BY <1>4, <2>7 DEF FutureInv
<1>6. CASE m.type = "kill"
  <2> DEFINE w == [type |-> "killed", run |-> u]
  <2>1. begun' = begun /\ scripts' = [scripts EXCEPT ![d] = Survivors(d, u)]
        /\ relay' = [relay EXCEPT ![Home[d]] = @ \o <<w>>]
    BY <1>3, <1>6 DEF PluginReceive, KillAck
  <2>2. w \in UpMsg /\ Word(w, u, d)
    BY <1>3 DEF UpMsg, Word
  <2>3. relay' = [relay EXCEPT ![Home[d]] = Append(@, w)]
    <3>1. relay[Home[d]] \in Seq(UpMsg)
      BY <1>1 DEF TypeOK, ChanType
    <3>2. relay[Home[d]] \o <<w>> = Append(relay[Home[d]], w)
      BY <2>2, <3>1, AppendIsConcat
    <3> QED
      BY <2>1, <3>2
  <2> HIDE DEF w
  <2>4. /\ \A r \in Runs, e \in Doms : Spoken(r, e) => Spoken(r, e)'
        /\ Spoken(u, d)'
    BY <1>1, <1>3, <2>2, <2>3, RelaySpoken
  <2>5. /\ \A t \in scripts[d] : t.run # u => t \in scripts'[d]
        /\ \A e \in Doms : e # d => scripts'[e] = scripts[e]
    BY <1>1, <2>1 DEF Survivors
  <2>6. ASSUME NEW r \in Runs, NEW e \in Doms, Future(r, e) PROVE Future(r, e)'
    <3>1. CASE r = u /\ e = d
      BY <2>4, <3>1 DEF Future
    <3>2. CASE ~ (r = u /\ e = d)
      <4>1. \A t \in scripts[e] : t.run = r => t \in scripts'[e]
        BY <2>5, <3>2
      <4> QED
        BY <1>1, <2>4, <2>6, <4>1 DEF Future
    <3> QED
      BY <3>1, <3>2
  <2> QED
    BY <1>1, <1>4, <2>1, <2>6, FutureKept
<1> QED
  BY <1>5, <1>6 DEF PluginReceive

LEMMA FutureStep ==
    ASSUME TypeOK, RouteInv, OnceInv, FutureInv, [Next]_vars
    PROVE  FutureInv'
<1>1. ChosenOnce /\ NotAgain /\ begun \in SUBSET Runs
  BY DEF RouteInv, OnceInv, TypeOK, PluginType
<1>2. ASSUME NEW r \in Runs, Submit(r) PROVE FutureInv'
  BY <1>1, <1>2, SubmitFuture
<1>3. ASSUME NEW b \in Backends, MasterStep(b) \/ BackendLost(b) PROVE FutureInv'
  BY <1>1, <1>3, MasterFuture
<1>4. ASSUME NEW b \in Backends, BackendStep(b) \/ TakeSnapshot(b) PROVE FutureInv'
  BY <1>4, BackendFuture
<1>5. ASSUME NEW b \in Backends, BackendCrash(b) PROVE FutureInv'
  BY <1>5, CrashFuture
<1>6. ASSUME NEW d \in Doms, Dial(d) \/ Lose(d) \/ Die(d) PROVE FutureInv'
  BY <1>6, SocketFuture
<1>7. ASSUME NEW d \in Doms, PluginReceive(d) PROVE FutureInv'
  BY <1>7, PluginFuture
<1>8. ASSUME NEW d \in Doms, NEW c \in loops[d], LoopEnd(d, c) PROVE FutureInv'
  BY <1>8, LoopFuture
<1>9. ASSUME NEW d \in Doms, NEW t \in scripts[d], NEW how \in {"done", "failed"}, ScriptEnd(d, t, how)
      PROVE  FutureInv'
  BY <1>9, EndFuture
<1>10. ASSUME Plugged, UNCHANGED <<active, relay, out>> PROVE FutureInv'
  <2>1. \A r \in Runs, d \in Doms : Spoken(r, d) => Spoken(r, d)'
    BY <1>10 DEF Spoken
  <2> QED
    BY <1>1, <1>10, <2>1, SpokenFuture
<1>11. ASSUME NEW r \in Runs, Reject(r) \/ ClientStep(r) \/ ClientDrop(r) \/ ReaderEnd(r) \/ Kill(r)
       PROVE  FutureInv'
  <2>1. Plugged /\ UNCHANGED <<active, relay, out>>
    BY <1>11 DEF Reject, ClientStep, ClientReceive, ClientStreamEnd, ClientDrop, ReaderEnd, Kill,
                 masterVars, backendVars, pluginVars, Plugged
  <2> QED
    BY <1>10, <2>1
<1>12. ASSUME NEW g \in Guids, Close(g) PROVE FutureInv'
  <2>1. Plugged /\ UNCHANGED <<active, relay, out>>
    BY <1>12 DEF Close, masterVars, backendVars, pluginVars, Plugged
  <2> QED
    BY <1>10, <2>1
<1>13. ASSUME NEW d \in Doms, Rewire(d) PROVE FutureInv'
  <2>1. Plugged /\ UNCHANGED <<active, relay, out>>
    BY <1>13 DEF Rewire, masterVars, chanVars, backendVars, Plugged
  <2> QED
    BY <1>10, <2>1
<1>14. ASSUME UNCHANGED vars PROVE FutureInv'
  <2>1. Plugged /\ UNCHANGED <<active, relay, out>>
    BY <1>14 DEF vars, masterVars, chanVars, backendVars, pluginVars, Plugged
  <2> QED
    BY <1>10, <2>1
<1> QED
  BY <1>2, <1>3, <1>4, <1>5, <1>6, <1>7, <1>8, <1>9, <1>11, <1>12, <1>13, <1>14
     DEF Next, RunStep, DomStep

LEMMA FutureInit == Init => FutureInv
<1> SUFFICES ASSUME Init PROVE FutureInv
  OBVIOUS
<1>1. \A d \in Doms : Dialed(d)
  BY DEF Init, Dialed
<1> QED
  BY <1>1 DEF Init, FutureInv

\* The lanes hold the very messages the property names.
LEMMA StartedWait ==
    ASSUME TypeOK, FutureInv
    PROVE  StartedRunHasFuture
<1> SUFFICES ASSUME NEW r \in begun, active[r] # None, active[r].state = "running"
             PROVE  HasFuture(r)
  BY DEF StartedRunHasFuture
<1>1. r \in Runs /\ active[r] \in ActiveRun
  BY DEF TypeOK, PluginType, MasterType
<1>2. PICK d \in Doms : d = active[r].dom
  BY <1>1 DEF ActiveRun
<1>3. PICK b \in Backends : b = Home[d]
  BY DomsAssumption
<1>4. Future(r, d)
  BY <1>2 DEF FutureInv, Live
<1> DEFINE lane(m) == Contains(relay[b], m) \/ Contains(out[b], m)
           heard == \/ \E t \in {"done", "failed", "killed"} : lane([type |-> t, run |-> r])
                    \/ lane([type |-> "disconnect", dom |-> d])
<1>5. ASSUME NEW q \in Seq(UpMsg), Holds(q, r, d)
      PROVE  \/ \E t \in {"done", "failed", "killed"} : Contains(q, [type |-> t, run |-> r])
             \/ Contains(q, [type |-> "disconnect", dom |-> d])
  <2>1. PICK i \in 1..Len(q) : Word(q[i], r, d)
    BY <1>5 DEF Holds
  <2>2. q[i] \in UpMsg /\ Contains(q, q[i])
    BY <1>5, <2>1, LenProperties, ElementOfSeq DEF Contains
  <2>3. CASE q[i].type = "disconnect" /\ q[i].dom = d
    <3>1. q[i] = [type |-> "disconnect", dom |-> d]
      BY <2>2, <2>3 DEF UpMsg
    <3> QED
      BY <2>2, <3>1
  <2>4. CASE q[i].type \in {"done", "failed", "killed"} /\ q[i].run = r
    <3>1. q[i] = [type |-> q[i].type, run |-> r]
      BY <2>2, <2>4 DEF UpMsg
    <3> QED
      BY <2>2, <2>4, <3>1
  <2> QED
    BY <2>1, <2>3, <2>4 DEF Word
<1>6. Spoken(r, d) => heard
  <2>1. relay[b] \in Seq(UpMsg) /\ out[b] \in Seq(UpMsg)
    BY DEF TypeOK, ChanType
  <2> QED
    BY <1>3, <1>5, <2>1 DEF Spoken
<1>7. heard => HasFuture(r)
  BY <1>2, <1>3 DEF HasFuture
<1> HIDE DEF heard
<1> QED
  BY <1>2, <1>4, <1>6, <1>7 DEF Future, HasFuture

\* A run whose script a plugin has started is never forgotten: while the master has it as
\* running, its script can report, its report or the loss of its DOM is on the way, a dead
\* connection's loop will tell, or its backend's end will.
THEOREM StartedRunsHaveFuture == Spec => []StartedRunHasFuture
<1> DEFINE I == TypeOK /\ RouteInv /\ OnceInv /\ FutureInv
<1>1. Init => I
  BY TypeInit, RouteInit, OnceInit, FutureInit
<1>2. I /\ [Next]_vars => I'
  BY RouteStep, OnceStep, FutureStep DEF RouteInv
<1>3. I => StartedRunHasFuture
  BY StartedWait
<1> HIDE DEF I
<1> QED
  BY <1>1, <1>2, <1>3, PTL DEF Spec

=============================================================================
