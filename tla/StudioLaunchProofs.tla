------------------------- MODULE StudioLaunchProofs -------------------------
(***************************************************************************)
(* The safety of launch, save and close, for any number of Studios, lost   *)
(* keystrokes and orders of the tasks over one row of the session table.   *)
(***************************************************************************)
EXTENDS StudioLaunch, TLAPS

-----------------------------------------------------------------------------
(* Types, a group of variables at a time *)

Stages == {"idle", "launching", "running", "finish", "saving", "close", "closing", "done", "gave up", "interrupted"}
Openings == {"none", "fresh", "waiting", "ready", "error", "ended"}
Savings == {"none", "pending", "saved", "refused"}
Watches == [is : {"none", "fresh", "waiting", "closed", "ended"}, on : Backends]
Closers == {"none", "skip", "cleanup", "waiting", "restore", "kill", "drop", "over"}
Savers == {"none", "baseline", "fire", "poll", "blind", "over"}
Cmds == [kind : {"launch", "close", "save"}, of : Sessions, by : Callers, skip : BOOLEAN]

CliTypes ==
    /\ cfg \in [Sessions -> Configs] /\ cli \in [Sessions -> Stages]
    /\ failed \in [Sessions -> BOOLEAN] /\ verified \in [Sessions -> BOOLEAN]
ViewTypes == view \in [Sessions -> Statuses] /\ opening \in [Sessions -> Openings]
CallTypes == closing \in [Sessions -> [Callers -> Watches]] /\ saving \in [Sessions -> [Callers -> Savings]]
WireTypes ==
    /\ down \in [Backends -> Seq(Cmds)]
    /\ sent \in [Backends -> {<<>>} \union {<<v>> : v \in [Sessions -> Statuses]}]
    /\ replies \subseteq Sessions \X Callers \X BOOLEAN

\* The launch task stores a Studio it has started, in a row that is there.
TableTypes ==
    /\ row \in [Sessions -> Statuses] /\ handle \in [Sessions -> BOOLEAN]
    /\ task \in [Sessions -> {"none", "inserted", "spawning", "failing", "spawned", "stored", "over"}]
    /\ studio \in [Sessions -> {"none", "booting", "running", "dead"}]
    /\ \A s \in Sessions : handle[s] => row[s] # "none" /\ studio[s] # "none" /\ task[s] \in {"stored", "over"}
    /\ \A s \in Sessions : task[s] \in {"spawned", "stored"} => studio[s] # "none"
TaskTypes ==
    /\ closer \in [Sessions -> [Callers -> Closers]]
    /\ saver \in [Sessions -> [Callers -> Savers]]
    /\ exit \in [Sessions -> {"unset", "armed", "mark", "over"}]
DocTypes ==
    touched \in [Sessions -> SUBSET Waiters] /\ doc \in [Sessions -> BOOLEAN] /\ disk \in [Sessions -> BOOLEAN]

Types ==
    /\ CliTypes /\ ViewTypes /\ CallTypes /\ WireTypes /\ TableTypes /\ TaskTypes /\ DocTypes
    /\ alive \subseteq Backends

LEMMA TypesMean == Types => TypeOK
BY DEF Types, TypeOK, CliTypes, ViewTypes, CallTypes, TableTypes, DocTypes, Stages, Openings, Savings

\* Each group is kept by a step that leaves its variables alone.
LEMMA GroupsKept ==
    ASSUME Types,
           CliTypes' \/ UNCHANGED cliVars,
           ViewTypes' \/ UNCHANGED <<view, opening>>,
           CallTypes' \/ UNCHANGED <<closing, saving>>,
           WireTypes' \/ UNCHANGED <<down, sent, replies>>,
           TableTypes' \/ UNCHANGED <<row, handle, task, studio>>,
           TaskTypes' \/ UNCHANGED <<closer, saver, exit>>,
           DocTypes' \/ UNCHANGED <<touched, doc, disk>>,
           alive' \subseteq alive
    PROVE  Types'
<1>1. CliTypes' /\ ViewTypes'
    BY DEF Types, CliTypes, ViewTypes, cliVars
<1>2. CallTypes'
    BY DEF Types, CallTypes
<1>3. WireTypes'
    BY DEF Types, WireTypes
<1>4. TableTypes'
    BY DEF Types, TableTypes
<1>5. TaskTypes'
    BY DEF Types, TaskTypes
<1>6. DocTypes'
    BY DEF Types, DocTypes
<1> QED BY <1>1, <1>2, <1>3, <1>4, <1>5, <1>6 DEF Types

LEMMA Homes == \A s \in Sessions : Home[s] \in Backends
BY LaunchAssumption

LEMMA TypesStart == Init => Types
<1> SUFFICES ASSUME Init PROVE Types
    OBVIOUS
<1>1. CliTypes /\ ViewTypes
    BY DEF Init, CliTypes, ViewTypes, Stages, Statuses, Openings
<1>2. CallTypes
    BY Homes DEF Init, CallTypes, Watches, Watch, Savings
<1>3. WireTypes /\ TableTypes
    BY DEF Init, WireTypes, TableTypes, Statuses
<1>4. TaskTypes /\ DocTypes
    BY DEF Init, TaskTypes, DocTypes, Closers, Savers
<1> QED BY <1>1, <1>2, <1>3, <1>4 DEF Init, Types

\* A table of tables, and one whose entry is replaced.
LEMMA Entry ==
    ASSUME NEW S, NEW D, NEW E, NEW f \in [S -> [D -> E]], NEW s \in S, NEW d \in D, NEW e \in E
    PROVE  /\ [f EXCEPT ![s][d] = e] \in [S -> [D -> E]]
           /\ [f EXCEPT ![s][d] = e][s][d] = e
           /\ \A t \in S, g \in D : t # s \/ g # d => [f EXCEPT ![s][d] = e][t][g] = f[t][g]
<1>1. [f[s] EXCEPT ![d] = e] \in [D -> E]
    OBVIOUS
<1> QED BY <1>1

\* A command is appended to the channel of one backend.
LEMMA SendTypes ==
    ASSUME WireTypes, NEW b \in Backends, NEW cmd \in Cmds, Send(b, cmd)
    PROVE  down' \in [Backends -> Seq(Cmds)]
<1>1. Append(down[b], cmd) \in Seq(Cmds)
    BY DEF WireTypes
<1> QED BY <1>1 DEF WireTypes, Send

LEMMA CommandTypes ==
    \A kind \in {"launch", "close", "save"} : \A s \in Sessions, c \in Callers, skip \in BOOLEAN :
       Command(kind, s, c, skip) \in Cmds
BY DEF Command, Cmds

-----------------------------------------------------------------------------
\* The master's watches and calls keep the types.
LEMMA MasterTypes ==
    ASSUME Types, MasterStep PROVE Types'
<1> USE DEF cliVars, tableVars, taskVars, studioVars, wireVars
<1>1. ASSUME NEW b \in Backends, DeliverSnapshot(b) PROVE Types'
    <2>1. ViewTypes'
        <3>1. Head(sent[b]) \in [Sessions -> Statuses]
            BY <1>1 DEF DeliverSnapshot, Types, WireTypes
        <3> QED BY <1>1, <3>1 DEF DeliverSnapshot, Types, ViewTypes, Openings
    <2>2. WireTypes'
        BY <1>1 DEF DeliverSnapshot, Types, WireTypes
    <2>3. CallTypes'
        BY <1>1 DEF DeliverSnapshot, Types, CallTypes, Refresh, Watch, Watches
    <2> QED BY <1>1, <2>1, <2>2, <2>3, GroupsKept DEF DeliverSnapshot
<1>2. ASSUME NEW s \in Sessions, WatchOpening(s) PROVE Types'
    <2>1. ViewTypes'
        BY <1>2 DEF WatchOpening, Types, ViewTypes, Openings
    <2> QED BY <1>2, <2>1, GroupsKept DEF WatchOpening
<1>3. ASSUME NEW s \in Sessions, WatchesEnd(s) PROVE Types'
    <2>1. ViewTypes'
        BY <1>3 DEF WatchesEnd, Types, ViewTypes, Openings
    <2>2. CallTypes'
        BY <1>3 DEF WatchesEnd, Types, CallTypes, Watch, Watches
    <2> QED BY <1>3, <2>1, <2>2, GroupsKept DEF WatchesEnd
<1>4. ASSUME NEW s \in Sessions, NEW c \in Callers, WatchClosing(s, c) PROVE Types'
    <2>1. CallTypes'
        BY <1>4 DEF WatchClosing, Types, CallTypes, Watches
    <2> QED BY <1>4, <2>1, GroupsKept DEF WatchClosing
<1>5. ASSUME NEW s \in Sessions, NEW c \in Callers, DeliverReply(s, c) PROVE Types'
    <2>1. CallTypes'
        <3> DEFINE Now(ok) == IF saving[s][c] # "pending" THEN saving[s][c] ELSE IF ok THEN "saved" ELSE "refused"
        <3>1. PICK ok \in BOOLEAN : saving' = [saving EXCEPT ![s][c] = Now(ok)]
            BY <1>5 DEF DeliverReply
        <3>2. Now(ok) \in Savings
            BY DEF Types, CallTypes, Savings
        <3> HIDE DEF Now
        <3> QED BY <1>5, <3>1, <3>2, Entry DEF DeliverReply, Types, CallTypes
    <2>2. WireTypes'
        BY <1>5 DEF DeliverReply, Types, WireTypes
    <2> QED BY <1>5, <2>1, <2>2, GroupsKept DEF DeliverReply
<1>6. ASSUME NEW s \in Sessions, NEW c \in Callers, SaveTimeout(s, c) PROVE Types'
    <2>1. CallTypes'
        BY <1>6 DEF SaveTimeout, Types, CallTypes, Savings
    <2> QED BY <1>6, <2>1, GroupsKept DEF SaveTimeout
<1> QED BY <1>1, <1>2, <1>3, <1>4, <1>5, <1>6 DEF MasterStep

\* close_studio and save_place: what they send and what they wait for.
LEMMA ClosesTypes ==
    ASSUME Types, NEW s \in Sessions, NEW c \in Callers, NEW skip \in BOOLEAN, Closes(s, c, skip)
    PROVE  closing' \in [Sessions -> [Callers -> Watches]] /\ down' \in [Backends -> Seq(Cmds)]
<1>1. CASE alive = {}
    <2>0. closing[s][c] \in Watches
        BY DEF Types, CallTypes
    <2>1. closing' = [closing EXCEPT ![s][c] = Watch("ended", closing[s][c].on)] /\ UNCHANGED down
        <3>1. [closing[s][c] EXCEPT !.is = "ended"] = Watch("ended", closing[s][c].on)
            BY <2>0 DEF Watches, Watch
        <3>2. closing' = [closing EXCEPT ![s][c] = [closing[s][c] EXCEPT !.is = "ended"]] /\ UNCHANGED down
            BY <1>1 DEF Closes
        <3> QED BY <3>1, <3>2
    <2>2. Watch("ended", closing[s][c].on) \in Watches
        BY DEF Types, CallTypes, Watches, Watch
    <2> QED BY <2>1, <2>2, Entry DEF Types, CallTypes, WireTypes
<1>2. ASSUME NEW b \in alive, Send(b, Command("close", s, c, skip)),
             closing' = [closing EXCEPT ![s][c] = Watch("fresh", b)]
      PROVE  closing' \in [Sessions -> [Callers -> Watches]] /\ down' \in [Backends -> Seq(Cmds)]
    <2>1. b \in Backends
        BY DEF Types
    <2>2. Watch("fresh", b) \in Watches
        BY <2>1 DEF Watch, Watches
    <2>3. closing' \in [Sessions -> [Callers -> Watches]]
        BY <1>2, <2>2, Entry DEF Types, CallTypes
    <2> QED BY <1>2, <2>1, <2>3, SendTypes, CommandTypes DEF Types
<1> QED BY <1>1, <1>2 DEF Closes

LEMMA AsksTypes ==
    ASSUME Types, NEW s \in Sessions, NEW c \in Callers, AsksSave(s, c)
    PROVE  saving' \in [Sessions -> [Callers -> Savings]] /\ down' \in [Backends -> Seq(Cmds)]
<1>1. \E r \in Savings : saving' = [saving EXCEPT ![s][c] = r]
    BY DEF AsksSave, Savings
<1>2. saving' \in [Sessions -> [Callers -> Savings]]
    BY <1>1, Entry DEF Types, CallTypes
<1>3. CASE alive = {}
    BY <1>2, <1>3 DEF AsksSave, Types, WireTypes
<1>4. ASSUME NEW b \in alive, Send(b, Command("save", s, c, FALSE))
      PROVE  down' \in [Backends -> Seq(Cmds)]
    BY <1>4, SendTypes, CommandTypes DEF Types
<1> QED BY <1>2, <1>3, <1>4 DEF AsksSave

\* The command and the other terminal keep the types.
LEMMA CallerTypes ==
    ASSUME Types, NEW s \in Sessions,
           Launch(s) \/ CommandStep(s) \/ Interrupt(s) \/ UserSaves(s) \/ UserCloses(s)
    PROVE  Types'
<1> USE DEF cliVars, masterVars, tableVars, taskVars, studioVars, wireVars
<1>1. ASSUME Launch(s) PROVE Types'
    <2>1. WireTypes'
        BY <1>1, SendTypes, CommandTypes, Homes DEF Launch, Opens, Callers, Types, WireTypes
    <2>2. ViewTypes'
        BY <1>1 DEF Launch, Opens, Types, ViewTypes, Openings
    <2>3. CliTypes'
        BY <1>1 DEF Launch, CliGoes, Types, CliTypes, Stages
    <2> QED BY <1>1, <2>1, <2>2, <2>3, GroupsKept DEF Launch
<1>2. ASSUME Ready(s) \/ LaunchFails(s) \/ Closed(s) \/ Interrupt(s) \/ SaveAnswered(s) PROVE Types'
    <2>1. CliTypes'
        BY <1>2 DEF Ready, LaunchFails, Closed, Interrupt, SaveAnswered, CliGoes, Types, CliTypes, Stages
    <2> QED BY <1>2, <2>1, GroupsKept DEF Ready, LaunchFails, Closed, Interrupt, SaveAnswered
<1>3. ASSUME NEW ok \in BOOLEAN, RunEnds(s, ok) PROVE Types'
    <2>1. CliTypes' /\ DocTypes'
        BY <1>3 DEF RunEnds, CliGoes, Types, CliTypes, DocTypes, Stages
    <2> QED BY <1>3, <2>1, GroupsKept DEF RunEnds
<1>4. ASSUME Finish(s) PROVE Types'
    <2>1. CliTypes'
        BY <1>4 DEF Finish, CliGoes, Types, CliTypes, Stages
    <2>2. CASE Saves(s)
        <3>1. AsksSave(s, "run") /\ UNCHANGED <<sent, replies, closing>>
            BY <1>4, <2>2 DEF Finish
        <3>2. WireTypes' /\ CallTypes'
            BY <3>1, AsksTypes DEF Types, WireTypes, CallTypes, Callers
        <3> QED BY <1>4, <2>1, <3>2, GroupsKept DEF Finish
    <2>3. CASE ~Saves(s)
        BY <1>4, <2>1, <2>3, GroupsKept DEF Finish
    <2> QED BY <2>2, <2>3
<1>5. ASSUME Close(s) PROVE Types'
    <2>1. CliTypes'
        BY <1>5 DEF Close, CliGoes, Types, CliTypes, Stages
    <2>2. CASE ~cfg[s].detached
        <3>1. Closes(s, "run", verified[s]) /\ verified[s] \in BOOLEAN /\ UNCHANGED <<sent, replies, saving>>
            BY <1>5, <2>2 DEF Close, Types, CliTypes
        <3>2. WireTypes' /\ CallTypes'
            BY <3>1, ClosesTypes DEF Types, WireTypes, CallTypes, Callers
        <3> QED BY <1>5, <2>1, <3>2, GroupsKept DEF Close
    <2>3. CASE cfg[s].detached
        BY <1>5, <2>1, <2>3, GroupsKept DEF Close
    <2> QED BY <2>2, <2>3
<1>6. ASSUME UserSaves(s) PROVE Types'
    <2>1. AsksSave(s, "user") /\ UNCHANGED <<sent, replies, closing>>
        BY <1>6 DEF UserSaves
    <2>2. WireTypes' /\ CallTypes'
        BY <2>1, AsksTypes DEF Types, WireTypes, CallTypes, Callers
    <2> QED BY <1>6, <2>2, GroupsKept DEF UserSaves
<1>7. ASSUME UserCloses(s) PROVE Types'
    <2>1. Closes(s, "user", FALSE) /\ UNCHANGED <<sent, replies, saving>>
        BY <1>7 DEF UserCloses
    <2>2. WireTypes' /\ CallTypes'
        BY <2>1, ClosesTypes DEF Types, WireTypes, CallTypes, Callers
    <2> QED BY <1>7, <2>2, GroupsKept DEF UserCloses
<1> QED BY <1>1, <1>2, <1>3, <1>4, <1>5, <1>6, <1>7 DEF CommandStep

LEMMA RefusalTypes ==
    ASSUME Types, NEW s \in Sessions, NEW c \in Callers, replies' = replies \union {<<s, c, FALSE>>}
    PROVE  replies' \subseteq Sessions \X Callers \X BOOLEAN
<1>1. <<s, c, FALSE>> \in Sessions \X Callers \X BOOLEAN
    OBVIOUS
<1> QED BY <1>1 DEF Types, WireTypes

\* So do the backend's handlers and its snapshots.
LEMMA BackendTypes ==
    ASSUME Types, NEW b \in Backends, Receive(b) \/ TakeSnapshot(b)
    PROVE  Types'
<1> USE DEF cliVars, masterVars, tableVars, studioVars
<1>1. ASSUME TakeSnapshot(b) PROVE Types'
    <2>1. WireTypes'
        BY <1>1 DEF TakeSnapshot, Types, WireTypes, TableTypes
    <2> QED BY <1>1, <2>1, GroupsKept DEF TakeSnapshot, taskVars
<1>2. ASSUME Receive(b) PROVE Types'
    <2>1. /\ Head(down[b]) \in Cmds /\ down' \in [Backends -> Seq(Cmds)]
          /\ UNCHANGED <<sent, masterVars, cliVars, alive>>
        BY <1>2 DEF Receive, Types, WireTypes
    <2> DEFINE s == Head(down[b]).of
               c == Head(down[b]).by
    <2>2. s \in Sessions /\ c \in Callers
        BY <2>1 DEF Cmds
    <2>3. CASE ReceiveLaunch(s)
        <3>1. TableTypes'
            BY <2>2, <2>3 DEF ReceiveLaunch, TaskGoes, Types, TableTypes, Statuses
        <3>2. WireTypes'
            BY <2>1, <2>3 DEF ReceiveLaunch, Types, WireTypes
        <3> QED BY <2>1, <2>3, <3>1, <3>2, GroupsKept DEF ReceiveLaunch
    <2>4. CASE ReceiveClose(b, Head(down[b]))
        <3>1. TableTypes'
            BY <2>2, <2>4 DEF ReceiveClose, SetRow, Types, TableTypes, Statuses
        <3>2. WireTypes'
            BY <2>1, <2>4 DEF ReceiveClose, Types, WireTypes
        <3>3. \E r \in Closers : closer' = [closer EXCEPT ![s][c] = r]
            <4>1. closer[s][c] \in Closers /\ closer = [closer EXCEPT ![s][c] = closer[s][c]]
                BY <2>2 DEF Types, TaskTypes
            <4>2. {"skip", "cleanup"} \subseteq Closers
                BY DEF Closers
            <4> QED BY <2>4, <4>1, <4>2 DEF ReceiveClose
        <3>4. TaskTypes'
            BY <2>2, <2>4, <3>3, Entry DEF ReceiveClose, Types, TaskTypes
        <3> QED BY <2>1, <2>4, <3>1, <3>2, <3>4, GroupsKept DEF ReceiveClose
    <2>5. CASE ReceiveSave(b, Head(down[b]))
        <3>1. WireTypes'
            <4>1. replies' = replies \/ Reply(s, c, FALSE)
                BY <2>5 DEF ReceiveSave, Reply
            <4>2. replies' \subseteq Sessions \X Callers \X BOOLEAN
                <5>1. CASE Reply(s, c, FALSE)
                    <6>1. replies' = replies \union {<<s, c, FALSE>>}
                        BY <5>1 DEF Reply
                    <6> QED BY <2>2, <6>1, RefusalTypes
                <5>2. CASE replies' = replies
                    BY <5>2 DEF Types, WireTypes
                <5> QED BY <4>1, <5>1, <5>2
            <4> QED BY <2>1, <4>2 DEF Types, WireTypes
        <3>2. saver' \in [Sessions -> [Callers -> Savers]]
            <4>1. [saver EXCEPT ![s][c] = "baseline"] \in [Sessions -> [Callers -> Savers]]
                BY <2>2, Entry DEF Types, TaskTypes, Savers
            <4> QED BY <2>5, <4>1 DEF ReceiveSave, Types, TaskTypes
        <3>3. TaskTypes'
            BY <2>5, <3>2 DEF ReceiveSave, Types, TaskTypes
        <3> QED BY <2>1, <2>5, <3>1, <3>3, GroupsKept DEF ReceiveSave
    <2> QED BY <1>2, <2>3, <2>4, <2>5 DEF Receive
<1> QED BY <1>1, <1>2

\* The launch task, Studio and the exit callback.
LEMMA StudioTypes ==
    ASSUME Types, NEW s \in Sessions,
           LaunchTask(s) \/ ExitTask(s) \/ PluginDials(s) \/ Handshake(s) \/ StudioEnds(s) \/ KeyLands(s) \/ KeyDropped(s)
    PROVE  Types'
<1> USE DEF Elsewhere, cliVars, masterVars, tableVars, taskVars, studioVars
<1>1. ASSUME LaunchBegins(s) \/ SpawnFails(s) \/ FailLaunch(s) PROVE Types'
    <2>1. TableTypes'
        BY <1>1 DEF LaunchBegins, SpawnFails, FailLaunch, TaskGoes, SetRow, Types, TableTypes, Statuses
    <2> QED BY <1>1, <2>1, GroupsKept DEF LaunchBegins, SpawnFails, FailLaunch
<1>2. ASSUME Spawn(s) \/ SpawnDropped(s) PROVE Types'
    <2>1. TableTypes'
        BY <1>2 DEF Spawn, SpawnDropped, TaskGoes, Types, TableTypes
    <2> QED BY <1>2, <2>1, GroupsKept DEF Spawn, SpawnDropped
<1>3. ASSUME StoreHandle(s) PROVE Types'
    <2>1. TableTypes'
        BY <1>3 DEF StoreHandle, TaskGoes, Types, TableTypes
    <2> QED BY <1>3, <2>1, GroupsKept DEF StoreHandle
<1>4. ASSUME ArmExit(s) PROVE Types'
    <2>1. TableTypes' /\ TaskTypes'
        BY <1>4 DEF ArmExit, TaskGoes, Types, TableTypes, TaskTypes
    <2> QED BY <1>4, <2>1, GroupsKept DEF ArmExit
<1>5. ASSUME PluginDials(s) \/ Handshake(s) \/ StudioEnds(s) PROVE Types'
    <2>1. TableTypes'
        BY <1>5 DEF PluginDials, Handshake, StudioEnds, Kill, Types, TableTypes, Statuses
    <2> QED BY <1>5, <2>1, GroupsKept DEF PluginDials, Handshake, StudioEnds
<1>6. ASSUME KeyLands(s) PROVE Types'
    <2>1. Waiting(s) \subseteq Waiters
        BY DEF Waiting, Waiters
    <2>2. DocTypes'
        BY <1>6, <2>1 DEF KeyLands, Types, DocTypes
    <2> QED BY <1>6, <2>2, GroupsKept DEF KeyLands
<1>7. ASSUME KeyDropped(s) PROVE Types'
    BY <1>7, GroupsKept DEF KeyDropped
<1>8. ASSUME ExitCleans(s) \/ ExitMarks(s) PROVE Types'
    <2>1. TaskTypes'
        BY <1>8 DEF ExitCleans, ExitMarks, Types, TaskTypes
    <2>2. TableTypes'
        BY <1>8 DEF ExitCleans, ExitMarks, SetRow, Types, TableTypes, Statuses
    <2> QED BY <1>8, <2>1, <2>2, GroupsKept DEF ExitCleans, ExitMarks
<1> QED BY <1>1, <1>2, <1>3, <1>4, <1>5, <1>6, <1>7, <1>8 DEF LaunchTask, ExitTask

LEMMA ReplyTypes ==
    ASSUME Types, NEW s \in Sessions, NEW c \in Callers, NEW ok \in BOOLEAN, Reply(s, c, ok)
    PROVE  replies' \subseteq Sessions \X Callers \X BOOLEAN
BY DEF Reply, Types, WireTypes

\* The saves and closes.
LEMMA SaveCloseTypes ==
    ASSUME Types, NEW s \in Sessions, NEW c \in Callers, SaveTask(s, c) \/ CloseTask(s, c)
    PROVE  Types'
<1> USE DEF Elsewhere, cliVars, masterVars, tableVars, studioVars
<1>1. ASSUME SaveTask(s, c) PROVE Types'
    <2>1. PICK r \in Savers : saver' = [saver EXCEPT ![s][c] = r]
        BY <1>1 DEF SaveTask, SaveBaseline, SaveFires, SaveEnds, SaveBlind, SaverGoes, Savers
    <2>2. TaskTypes'
        BY <1>1, <2>1, Entry DEF SaveTask, SaveBaseline, SaveFires, SaveEnds, SaveBlind, Types, TaskTypes
    <2>3. DocTypes'
        BY <1>1 DEF SaveTask, SaveBaseline, SaveFires, SaveEnds, SaveBlind, Untouch, Types, DocTypes
    <2>4. WireTypes'
        <3>1. UNCHANGED <<down, sent>>
            BY <1>1 DEF SaveTask, SaveBaseline, SaveFires, SaveEnds, SaveBlind
        <3>2. CASE SaveEnds(s, c)
            <4> DEFINE ok == <<c, "save">> \in touched[s]
            <4>1. ok \in BOOLEAN
                OBVIOUS
            <4>2. Reply(s, c, ok)
                BY <3>2 DEF SaveEnds
            <4> HIDE DEF ok
            <4>3. replies' \subseteq Sessions \X Callers \X BOOLEAN
                BY <4>1, <4>2, ReplyTypes
            <4> QED BY <3>1, <4>3 DEF Types, WireTypes
        <3>3. CASE SaveBlind(s, c)
            <4>1. Live(s) \in BOOLEAN
                BY DEF Live
            <4>2. Reply(s, c, Live(s))
                BY <3>3 DEF SaveBlind
            <4> QED BY <3>1, <4>1, <4>2, ReplyTypes DEF Types, WireTypes
        <3>4. CASE SaveBaseline(s, c) \/ SaveFires(s, c)
            BY <3>1, <3>4 DEF SaveBaseline, SaveFires, Types, WireTypes
        <3> QED BY <1>1, <3>2, <3>3, <3>4 DEF SaveTask
    <2> QED BY <1>1, <2>2, <2>3, <2>4, GroupsKept DEF SaveTask, SaveBaseline, SaveFires, SaveEnds, SaveBlind
<1>2. ASSUME CloseTask(s, c) PROVE Types'
    <2>1. PICK r \in Closers : closer' = [closer EXCEPT ![s][c] = r]
        BY <1>2 DEF CloseTask, CloseSkips, CloseCleans, CloseWaits, CloseRestores, CloseKills, CloseDrops, CloserGoes,
            Closers
    <2>2. TaskTypes'
        BY <1>2, <2>1, Entry DEF CloseTask, CloseSkips, CloseCleans, CloseWaits, CloseRestores, CloseKills, CloseDrops,
            Types, TaskTypes
    <2>3. DocTypes'
        BY <1>2 DEF CloseTask, CloseSkips, CloseCleans, CloseWaits, CloseRestores, CloseKills, CloseDrops, Untouch,
            Types, DocTypes
    <2>4. TableTypes'
        <3>1. CASE CloseDrops(s, c)
            BY <3>1 DEF CloseDrops, Types, TableTypes, Statuses
        <3>2. CASE ~CloseDrops(s, c)
            BY <1>2, <3>2 DEF CloseTask, CloseSkips, CloseCleans, CloseWaits, CloseRestores, CloseKills, Kill,
                Types, TableTypes
        <3> QED BY <3>1, <3>2
    <2>5. UNCHANGED <<cliVars, masterVars, down, sent, replies, alive>>
        BY <1>2 DEF CloseTask, CloseSkips, CloseCleans, CloseWaits, CloseRestores, CloseKills, CloseDrops
    <2> QED BY <2>2, <2>3, <2>4, <2>5, GroupsKept
<1> QED BY <1>1, <1>2

LEMMA EndTypes ==
    ASSUME Types, NEW b \in Backends, ServeEnds(b) PROVE Types'
<1>1. TableTypes'
    BY DEF ServeEnds, Types, TableTypes, Statuses
<1>2. WireTypes'
    BY DEF ServeEnds, Types, WireTypes
<1> QED BY <1>1, <1>2, GroupsKept DEF ServeEnds, cliVars, masterVars

LEMMA TypesStep == Types /\ [Next]_vars => Types'
<1> SUFFICES ASSUME Types, [Next]_vars PROVE Types'
    OBVIOUS
<1>1. CASE UNCHANGED vars
    BY <1>1, GroupsKept DEF vars, cliVars
<1>2. ASSUME NEW s \in Sessions, ServeStopped(s) \/ OwnedServeEnds(s) PROVE Types'
    BY <1>2, EndTypes, Homes DEF ServeStopped, OwnedServeEnds
<1> QED BY <1>1, <1>2, MasterTypes, BackendTypes, CallerTypes, StudioTypes, SaveCloseTypes DEF Next

\* Every variable has its type: a row that holds a Studio is there, and its Studio
\* has been started.
THEOREM LaunchTypes == Spec => []TypeOK
BY TypesStart, TypesStep, TypesMean, PTL DEF Spec

LEMMA CommandRead ==
    ASSUME Types, NEW b \in Backends, Receive(b)
    PROVE  Head(down[b]) \in Cmds /\ Head(down[b]).of \in Sessions /\ Head(down[b]).by \in Callers
<1>1. Head(down[b]) \in Cmds
    BY DEF Receive, Types, WireTypes
<1> QED BY <1>1 DEF Cmds

-----------------------------------------------------------------------------
(* The row after the exit callback *)

\* The callback is armed by the last step of the launch task, and once it has marked
\* the row, nothing in the row can be promoted.
Marked ==
    \A s \in Sessions :
       /\ exit[s] # "unset" => task[s] = "over"
       /\ exit[s] = "over" => row[s] \in {"none", "closing", "error"}

LEMMA MarkedStep == Types /\ Marked /\ [Next]_vars => Marked'
<1> SUFFICES ASSUME Types, Marked, [Next]_vars PROVE Marked'
    OBVIOUS
<1> USE DEF Elsewhere, masterVars, cliVars, tableVars, taskVars, studioVars, wireVars, Types, TableTypes, TaskTypes
<1>1. CASE UNCHANGED <<row, exit, task>>
    BY <1>1 DEF Marked
<1>2. ASSUME NEW b \in Backends, Receive(b) PROVE Marked'
    <2> DEFINE s == Head(down[b]).of
    <2>1. s \in Sessions
        BY <1>2, CommandRead
    <2>2. CASE ReceiveLaunch(s)
        BY <2>1, <2>2 DEF ReceiveLaunch, TaskGoes, Marked
    <2>3. CASE ReceiveClose(b, Head(down[b]))
        BY <2>1, <2>3 DEF ReceiveClose, SetRow, Marked
    <2>4. CASE ReceiveSave(b, Head(down[b]))
        BY <2>4 DEF ReceiveSave, Marked
    <2> QED BY <1>2, <2>2, <2>3, <2>4 DEF Receive
<1>3. ASSUME NEW s \in Sessions, LaunchTask(s) PROVE Marked'
    BY <1>3 DEF LaunchTask, LaunchBegins, Spawn, SpawnFails, SpawnDropped, FailLaunch, StoreHandle, ArmExit,
        TaskGoes, SetRow, Marked
<1>4. ASSUME NEW s \in Sessions, Handshake(s) PROVE Marked'
    BY <1>4 DEF Handshake, Marked
<1>5. ASSUME NEW s \in Sessions, ExitTask(s) PROVE Marked'
    BY <1>5 DEF ExitTask, ExitCleans, ExitMarks, SetRow, Marked
<1>6. ASSUME NEW s \in Sessions, NEW c \in Callers, CloseTask(s, c) PROVE Marked'
    BY <1>6 DEF CloseTask, CloseSkips, CloseCleans, CloseWaits, CloseRestores, CloseKills, CloseDrops, Marked
<1>7. ASSUME NEW b \in Backends, ServeEnds(b) PROVE Marked'
    BY <1>7 DEF ServeEnds, Marked
<1>8. ASSUME MasterStep PROVE UNCHANGED <<row, exit, task>>
    BY <1>8 DEF MasterStep, DeliverSnapshot, WatchOpening, WatchesEnd, WatchClosing, DeliverReply, SaveTimeout
<1>9. ASSUME NEW b \in Backends, TakeSnapshot(b) PROVE UNCHANGED <<row, exit, task>>
    BY <1>9 DEF TakeSnapshot
<1>10. ASSUME NEW s \in Sessions, Launch(s) \/ CommandStep(s) \/ Interrupt(s) \/ UserSaves(s) \/ UserCloses(s)
       PROVE  UNCHANGED <<row, exit, task>>
    BY <1>10 DEF Launch, CommandStep, Ready, LaunchFails, RunEnds, Finish, SaveAnswered, Close, Closed, Interrupt,
        UserSaves, UserCloses
<1>11. ASSUME NEW s \in Sessions, PluginDials(s) \/ StudioEnds(s) \/ KeyLands(s) \/ KeyDropped(s)
       PROVE  UNCHANGED <<row, exit, task>>
    BY <1>11 DEF PluginDials, StudioEnds, KeyLands, KeyDropped
<1>12. ASSUME NEW s \in Sessions, NEW c \in Callers, SaveTask(s, c) PROVE UNCHANGED <<row, exit, task>>
    BY <1>12 DEF SaveTask, SaveBaseline, SaveFires, SaveEnds, SaveBlind
<1>13. ASSUME NEW s \in Sessions, ServeStopped(s) \/ OwnedServeEnds(s) PROVE Marked'
    BY <1>7, <1>13, Homes DEF ServeStopped, OwnedServeEnds
<1>14. CASE UNCHANGED vars
    BY <1>1, <1>14 DEF vars
<1> QED BY <1>1, <1>2, <1>3, <1>4, <1>5, <1>6, <1>8, <1>9, <1>10, <1>11, <1>12, <1>13, <1>14 DEF Next

\* Once the exit callback has run, no handshake handled late, launch task or close
\* makes the session count as connected again.
THEOREM DeadForGood == Spec => []DeadStaysDead
<1>1. Init => Marked
    BY DEF Init, Marked
<1>2. Marked => DeadStaysDead
    BY DEF Marked, DeadStaysDead
<1> QED BY <1>1, <1>2, TypesStart, TypesStep, MarkedStep, PTL DEF Spec

-----------------------------------------------------------------------------
(* Whose side a step is on *)

LEMMA MasterFrame ==
    ASSUME MasterStep PROVE UNCHANGED <<tableVars, taskVars, studioVars, cliVars, alive>>
BY DEF MasterStep, DeliverSnapshot, WatchOpening, WatchesEnd, WatchClosing, DeliverReply, SaveTimeout

LEMMA CallerFrame ==
    ASSUME NEW s \in Sessions, Launch(s) \/ CommandStep(s) \/ Interrupt(s) \/ UserSaves(s) \/ UserCloses(s)
    PROVE  UNCHANGED <<tableVars, taskVars, studio, view, sent, touched, disk, alive, replies>>
BY DEF Launch, CommandStep, Ready, LaunchFails, RunEnds, Finish, SaveAnswered, Close, Closed, Interrupt,
    UserSaves, UserCloses, wireVars, masterVars, studioVars

LEMMA TaskFrame ==
    ASSUME NEW s \in Sessions,
           \/ LaunchTask(s) \/ ExitTask(s) \/ PluginDials(s) \/ Handshake(s) \/ StudioEnds(s) \/ KeyLands(s) \/ KeyDropped(s)
           \/ \E c \in Callers : SaveTask(s, c) \/ CloseTask(s, c)
    PROVE  UNCHANGED <<down, sent, masterVars, cliVars, alive>>
<1> USE DEF Elsewhere
<1>1. CASE LaunchTask(s) \/ ExitTask(s)
    BY <1>1 DEF LaunchTask, LaunchBegins, Spawn, SpawnFails, SpawnDropped, FailLaunch, StoreHandle, ArmExit,
        ExitTask, ExitCleans, ExitMarks
<1>2. CASE PluginDials(s) \/ Handshake(s) \/ StudioEnds(s) \/ KeyLands(s) \/ KeyDropped(s)
    BY <1>2 DEF PluginDials, Handshake, StudioEnds, KeyLands, KeyDropped
<1>3. ASSUME NEW c \in Callers, SaveTask(s, c) \/ CloseTask(s, c)
      PROVE  UNCHANGED <<down, sent, masterVars, cliVars, alive>>
    BY <1>3 DEF SaveTask, SaveBaseline, SaveFires, SaveEnds, SaveBlind,
        CloseTask, CloseSkips, CloseCleans, CloseWaits, CloseRestores, CloseKills, CloseDrops
<1> QED BY <1>1, <1>2, <1>3

-----------------------------------------------------------------------------
(* What a session that is gone from the table says of its Studio *)

\* The Studio has ended, and the launch task is past starting another.
Dead(s) == studio[s] = "dead" /\ task[s] \in {"stored", "over"}

Late(s) == task[s] \in {"stored", "over"}
ClosersLate == \A s \in Sessions, c \in Callers : closer[s][c] # "none" => Late(s)
DropsDead == \A s \in Sessions, c \in Callers : closer[s][c] = "drop" => Dead(s)
GoneDead == \A s \in Sessions : row[s] = "none" /\ task[s] # "none" /\ Up(s) => Dead(s)
TableInv == ClosersLate /\ DropsDead /\ GoneDead

DeadStay == \A t \in Sessions : (Dead(t) => Dead(t)') /\ (Late(t) => Late(t)')
ClosersStay ==
    \A t \in Sessions, g \in Callers :
       closer'[t][g] = closer[t][g] \/ (Late(t)' /\ (closer'[t][g] = "drop" => Dead(t)'))
GoneStay ==
    \A t \in Sessions :
       row'[t] = "none" /\ task'[t] # "none" /\ Up(t)' => Dead(t)' \/ (row[t] = "none" /\ task[t] # "none" /\ Up(t))

LEMMA TableKept ==
    ASSUME TableInv, DeadStay, ClosersStay, GoneStay PROVE TableInv'
<1>1. ClosersLate' /\ DropsDead'
    BY DEF TableInv, ClosersLate, DropsDead, DeadStay, ClosersStay
<1>2. GoneDead'
    BY DEF TableInv, GoneDead, DeadStay, GoneStay
<1> QED BY <1>1, <1>2 DEF TableInv

\* The tasks of a session keep this, and do not revive a Studio.
LEMMA TasksTable ==
    ASSUME Types, TableInv, NEW s \in Sessions,
           \/ LaunchTask(s) \/ ExitTask(s) \/ PluginDials(s) \/ Handshake(s) \/ StudioEnds(s) \/ KeyLands(s) \/ KeyDropped(s)
           \/ \E c \in Callers : SaveTask(s, c) \/ CloseTask(s, c)
    PROVE  TableInv' /\ DeadStay
<1>0. TableTypes /\ alive' = alive
    BY TaskFrame DEF Types
<1>1. ASSUME LaunchTask(s) PROVE DeadStay /\ ClosersStay /\ GoneStay
    <2>1. \A t \in Sessions : t # s => task'[t] = task[t] /\ studio'[t] = studio[t] /\ row'[t] = row[t]
        BY <1>0, <1>1 DEF LaunchTask, LaunchBegins, SpawnFails, FailLaunch, Spawn, SpawnDropped, StoreHandle, ArmExit,
            TaskGoes, SetRow, TableTypes, studioVars, tableVars
    <2>2. task[s] \in {"inserted", "spawning", "failing", "spawned", "stored"} /\ UNCHANGED closer
        BY <1>1 DEF LaunchTask, LaunchBegins, SpawnFails, FailLaunch, Spawn, SpawnDropped, StoreHandle, ArmExit, TaskGoes
    <2>3. /\ task[s] = "stored" => task'[s] = "over" /\ studio'[s] = studio[s]
          /\ row'[s] = "none" => row[s] = "none"
        BY <1>0, <1>1 DEF LaunchTask, LaunchBegins, SpawnFails, FailLaunch, Spawn, SpawnDropped, StoreHandle, ArmExit,
            TaskGoes, SetRow, TableTypes, studioVars, tableVars
    <2> QED BY <1>0, <2>1, <2>2, <2>3 DEF DeadStay, ClosersStay, GoneStay, Dead, Late, Up
<1>2. ASSUME ExitTask(s) PROVE DeadStay /\ ClosersStay /\ GoneStay
    <2>1. UNCHANGED <<task, studio, closer>> /\ \A t \in Sessions : row'[t] = "none" => row[t] = "none"
        BY <1>0, <1>2 DEF ExitTask, ExitCleans, ExitMarks, SetRow, TableTypes, studioVars, tableVars
    <2> QED BY <1>0, <2>1 DEF DeadStay, ClosersStay, GoneStay, Dead, Late, Up
<1>3. ASSUME PluginDials(s) \/ Handshake(s) \/ StudioEnds(s) \/ KeyLands(s) \/ KeyDropped(s)
      PROVE  DeadStay /\ ClosersStay /\ GoneStay
    <2>1. UNCHANGED <<task, closer>> /\ \A t \in Sessions : row'[t] = "none" => row[t] = "none"
        BY <1>0, <1>3 DEF PluginDials, Handshake, StudioEnds, KeyLands, KeyDropped, TableTypes, tableVars, taskVars
    <2>2. \A t \in Sessions : studio[t] = "dead" => studio'[t] = "dead"
        BY <1>0, <1>3 DEF PluginDials, Handshake, StudioEnds, KeyLands, KeyDropped, Kill, TableTypes
    <2> QED BY <1>0, <2>1, <2>2 DEF DeadStay, ClosersStay, GoneStay, Dead, Late, Up
<1>4. ASSUME NEW c \in Callers, SaveTask(s, c) PROVE DeadStay /\ ClosersStay /\ GoneStay
    <2>1. UNCHANGED <<task, closer, row, studio>>
        BY <1>4 DEF SaveTask, SaveBaseline, SaveFires, SaveEnds, SaveBlind, tableVars, studioVars
    <2> QED BY <1>0, <2>1 DEF DeadStay, ClosersStay, GoneStay, Dead, Late, Up
<1>5. ASSUME NEW c \in Callers, CloseTask(s, c) PROVE DeadStay /\ ClosersStay /\ GoneStay
    <2>1. closer[s][c] # "none" /\ task' = task /\ Late(s)
        BY <1>5 DEF CloseTask, CloseSkips, CloseCleans, CloseWaits, CloseRestores, CloseKills, CloseDrops, CloserGoes,
            TableInv, ClosersLate
    <2>2. \A t \in Sessions : /\ studio[t] = "dead" => studio'[t] = "dead"
                              /\ t # s => row'[t] = row[t]
        BY <1>0, <1>5 DEF CloseTask, CloseSkips, CloseCleans, CloseWaits, CloseRestores, CloseKills, CloseDrops, Kill,
            TableTypes, tableVars, studioVars
    <2>3. row'[s] = row[s] \/ Dead(s)'
        BY <1>0, <1>5, <2>1, <2>2 DEF CloseTask, CloseSkips, CloseCleans, CloseWaits, CloseRestores, CloseKills, CloseDrops,
            CloserGoes, TableInv, DropsDead, Dead, tableVars
    <2>4. PICK r \in Closers : closer' = [closer EXCEPT ![s][c] = r]
        BY <1>5 DEF CloseTask, CloseSkips, CloseCleans, CloseWaits, CloseRestores, CloseKills, CloseDrops, CloserGoes,
            Closers
    <2>5. \A t \in Sessions, g \in Callers : t # s \/ g # c => closer'[t][g] = closer[t][g]
        BY <2>4, Entry DEF Types, TaskTypes
    <2>6. closer'[s][c] = "drop" => Dead(s)'
        <3>1. closer \in [Sessions -> [Callers -> Closers]]
            BY DEF Types, TaskTypes
        <3>2. closer'[s][c] = "drop" => CloseKills(s, c)
            BY <1>5, <3>1, Entry DEF CloseTask, CloseSkips, CloseCleans, CloseWaits, CloseRestores, CloseDrops, CloserGoes,
                Closers
        <3>3. CloseKills(s, c) => studio'[s] = "dead"
            BY <1>0 DEF CloseKills, Kill, TableTypes
        <3> QED BY <2>1, <3>2, <3>3 DEF Dead, Late
    <2> QED BY <1>0, <2>1, <2>2, <2>3, <2>5, <2>6 DEF DeadStay, ClosersStay, GoneStay, Dead, Late, Up
<1> QED BY <1>1, <1>2, <1>3, <1>4, <1>5, TableKept

LEMMA BackendTable ==
    ASSUME Types, TableInv, NEW b \in Backends, Receive(b) \/ ServeEnds(b)
    PROVE  TableInv' /\ DeadStay
<1>0. TableTypes
    BY DEF Types
<1>1. ASSUME ServeEnds(b) PROVE DeadStay /\ ClosersStay /\ GoneStay
    <2>1. /\ UNCHANGED closer
          /\ \A t \in Sessions : /\ studio[t] = "dead" => studio'[t] = "dead"
                                 /\ task'[t] = task[t] \/ task'[t] = "over"
        BY <1>0, <1>1 DEF ServeEnds, TableTypes
    <2>2. \A t \in Sessions : Up(t)' => Up(t) /\ row'[t] = row[t] /\ task'[t] = task[t]
        BY <1>0, <1>1 DEF ServeEnds, TableTypes, Up
    <2> QED BY <2>1, <2>2 DEF DeadStay, ClosersStay, GoneStay, Dead, Late
<1>2. ASSUME Receive(b) PROVE DeadStay /\ ClosersStay /\ GoneStay
    <2> DEFINE s == Head(down[b]).of
               c == Head(down[b]).by
    <2>1. s \in Sessions /\ c \in Callers /\ alive' = alive
        BY <1>2, CommandRead DEF Receive
    <2>2. CASE ReceiveLaunch(s)
        <3>1. /\ task[s] = "none" /\ row'[s] # "none" /\ UNCHANGED <<closer, studio>>
              /\ \A t \in Sessions : t # s => task'[t] = task[t] /\ row'[t] = row[t]
            BY <1>0, <2>1, <2>2 DEF ReceiveLaunch, TaskGoes, TableTypes, studioVars
        <3> QED BY <2>1, <3>1 DEF DeadStay, ClosersStay, GoneStay, Dead, Late, Up
    <2>3. CASE ReceiveClose(b, Head(down[b]))
        <3>1. UNCHANGED <<handle, task, studio>> /\ \A t \in Sessions : row'[t] = "none" => row[t] = "none"
            BY <1>0, <2>1, <2>3 DEF ReceiveClose, SetRow, TableTypes, studioVars
        <3>2. closer' # closer =>
                 handle[s] /\ \E r \in {"skip", "cleanup"} : closer' = [closer EXCEPT ![s][c] = r]
            <4>1. [closer EXCEPT ![s][c] = closer[s][c]] = closer
                BY <2>1 DEF Types, TaskTypes
            <4> QED BY <2>3, <4>1 DEF ReceiveClose
        <3>3. handle[s] => Late(s)
            BY <1>0, <2>1 DEF TableTypes, Late
        <3>4. ClosersStay
            BY <2>1, <3>1, <3>2, <3>3 DEF ClosersStay, Late, Types, TaskTypes
        <3> QED BY <2>1, <3>1, <3>4 DEF DeadStay, GoneStay, Dead, Late, Up
    <2>4. CASE ReceiveSave(b, Head(down[b]))
        BY <2>1, <2>4 DEF ReceiveSave, tableVars, studioVars, DeadStay, ClosersStay, GoneStay, Dead, Late, Up
    <2> QED BY <1>2, <2>2, <2>3, <2>4 DEF Receive
<1> QED BY <1>1, <1>2, TableKept

-----------------------------------------------------------------------------
(* What the master's snapshots say, and the calls that look at them *)

\* A session in a snapshot has been launched; one that was in the last snapshot and
\* is missing from the next has ended.
RowLaunched == \A s \in Sessions : row[s] # "none" => task[s] # "none"
SentRow(s) == Head(sent[Home[s]])[s]
SnapInv ==
    /\ RowLaunched
    /\ \A s \in Sessions :
          /\ view[s] # "none" => task[s] # "none"
          /\ sent[Home[s]] # <<>> =>
                /\ SentRow(s) # "none" => task[s] # "none"
                /\ SentRow(s) = "none" /\ view[s] # "none" => Dead(s)

\* The master has seen the session, or it is over.
Seen(s) == view[s] # "none" \/ Dead(s)
Ran == {"running", "finish", "saving", "close", "closing", "done"}
CallInv ==
    \A s \in Sessions :
       /\ opening[s] = "ready" \/ cli[s] \in Ran => Seen(s)
       /\ \A c \in Callers : /\ closing[s][c].is \in {"fresh", "waiting"} => Seen(s)
                             /\ closing[s][c].is = "closed" => Dead(s)

ClosedInv == Types /\ TableInv /\ SnapInv /\ CallInv
OneBackend == \A a, b \in Backends : a = b

LaunchedStay ==
    \A t \in Sessions : /\ task[t] # "none" => task'[t] # "none"
                        /\ row'[t] # "none" => row[t] # "none" \/ task'[t] # "none"

\* A step that leaves the master and the command alone and revives nobody.
LEMMA OutsideKept ==
    ASSUME SnapInv, CallInv, DeadStay, LaunchedStay, UNCHANGED <<view, opening, closing, cli>>,
           \A s \in Sessions : sent'[Home[s]] \in {sent[Home[s]], <<>>}
    PROVE  SnapInv' /\ CallInv'
<1>1. SnapInv'
    BY DEF SnapInv, RowLaunched, SentRow, DeadStay, LaunchedStay
<1>2. CallInv'
    BY DEF CallInv, Seen, DeadStay
<1> QED BY <1>1, <1>2

LEMMA TasksClosed ==
    ASSUME ClosedInv, NEW s \in Sessions,
           \/ LaunchTask(s) \/ ExitTask(s) \/ PluginDials(s) \/ Handshake(s) \/ StudioEnds(s) \/ KeyLands(s) \/ KeyDropped(s)
           \/ \E c \in Callers : SaveTask(s, c) \/ CloseTask(s, c)
    PROVE  SnapInv' /\ CallInv'
<1>1. UNCHANGED <<sent, view, opening, closing, cli>>
    BY TaskFrame DEF masterVars, cliVars
<1>2. DeadStay /\ TableTypes
    BY TasksTable DEF ClosedInv, Types
<1>3. LaunchedStay
    <2>1. CASE LaunchTask(s)
        BY <1>2, <2>1 DEF LaunchTask, LaunchBegins, SpawnFails, FailLaunch, Spawn, SpawnDropped, StoreHandle, ArmExit,
            TaskGoes, SetRow, TableTypes, LaunchedStay, studioVars, tableVars
    <2>2. CASE ExitTask(s)
        BY <1>2, <2>2 DEF ExitTask, ExitCleans, ExitMarks, SetRow, TableTypes, LaunchedStay, tableVars
    <2>3. CASE PluginDials(s) \/ Handshake(s) \/ StudioEnds(s) \/ KeyLands(s) \/ KeyDropped(s)
        BY <1>2, <2>3 DEF PluginDials, Handshake, StudioEnds, KeyLands, KeyDropped, TableTypes, LaunchedStay,
            tableVars, taskVars
    <2>4. ASSUME NEW c \in Callers, SaveTask(s, c) PROVE LaunchedStay
        BY <2>4 DEF SaveTask, SaveBaseline, SaveFires, SaveEnds, SaveBlind, LaunchedStay, tableVars
    <2>5. ASSUME NEW c \in Callers, CloseTask(s, c) PROVE LaunchedStay
        BY <1>2, <2>5 DEF CloseTask, CloseSkips, CloseCleans, CloseWaits, CloseRestores, CloseKills, CloseDrops,
            TableTypes, LaunchedStay, tableVars
    <2> QED BY <2>1, <2>2, <2>3, <2>4, <2>5
<1> QED BY <1>1, <1>2, <1>3, OutsideKept DEF ClosedInv

LEMMA BackendClosed ==
    ASSUME ClosedInv, NEW b \in Backends, Receive(b) \/ ServeEnds(b)
    PROVE  SnapInv' /\ CallInv'
<1>1. UNCHANGED <<view, opening, closing, cli>>
    BY DEF Receive, ServeEnds, masterVars, cliVars
<1>2. DeadStay /\ TableTypes
    BY BackendTable DEF ClosedInv, Types
<1>3. \A s \in Sessions : sent'[Home[s]] \in {sent[Home[s]], <<>>}
    BY Homes DEF Receive, ServeEnds, ClosedInv, Types, WireTypes
<1>4. LaunchedStay
    <2>1. CASE ServeEnds(b)
        BY <1>2, <2>1 DEF ServeEnds, TableTypes, LaunchedStay
    <2>2. CASE Receive(b)
        <3> DEFINE s == Head(down[b]).of
        <3>1. s \in Sessions
            BY <2>2, CommandRead DEF ClosedInv
        <3>2. CASE ReceiveLaunch(s)
            BY <1>2, <3>1, <3>2 DEF ReceiveLaunch, TaskGoes, TableTypes, LaunchedStay
        <3>3. CASE ReceiveClose(b, Head(down[b]))
            BY <1>2, <3>1, <3>3 DEF ReceiveClose, SetRow, TableTypes, LaunchedStay
        <3>4. CASE ReceiveSave(b, Head(down[b]))
            BY <3>4 DEF ReceiveSave, LaunchedStay, tableVars
        <3> QED BY <2>2, <3>2, <3>3, <3>4 DEF Receive
    <2> QED BY <2>1, <2>2
<1> QED BY <1>1, <1>2, <1>3, <1>4, OutsideKept DEF ClosedInv

LEMMA SnapshotClosed ==
    ASSUME ClosedInv, NEW b \in Backends, TakeSnapshot(b)
    PROVE  SnapInv' /\ CallInv'
<1>1. UNCHANGED <<view, opening, closing, cli, row, task, studio>> /\ b \in alive
    BY DEF TakeSnapshot, masterVars, cliVars, tableVars, taskVars, studioVars
<1>2. \A s \in Sessions : IF Home[s] = b THEN sent'[Home[s]] = <<row>> ELSE sent'[Home[s]] = sent[Home[s]]
    BY Homes DEF TakeSnapshot, ClosedInv, Types, WireTypes
<1>3. \A s \in Sessions : Home[s] = b => SentRow(s)' = row[s]
    BY <1>2 DEF SentRow
<1>4. \A s \in Sessions : Home[s] = b /\ row[s] = "none" /\ view[s] # "none" => Dead(s)
    BY <1>1 DEF ClosedInv, TableInv, GoneDead, SnapInv, Up
<1>5. SnapInv'
    BY <1>1, <1>2, <1>3, <1>4 DEF ClosedInv, SnapInv, RowLaunched, SentRow, Dead
<1>6. CallInv'
    BY <1>1 DEF ClosedInv, CallInv, Seen, Dead
<1> QED BY <1>5, <1>6

\* The master's watches: a watch that has seen its session go says so.
LEMMA MasterClosed ==
    ASSUME ClosedInv, OneBackend, MasterStep
    PROVE  SnapInv' /\ CallInv'
<1>0. UNCHANGED <<row, task, studio, cli>> /\ CallTypes /\ ViewTypes
    BY MasterFrame DEF tableVars, taskVars, studioVars, cliVars, ClosedInv, Types
<1>1. ASSUME NEW b \in Backends, DeliverSnapshot(b) PROVE SnapInv' /\ CallInv'
    <2>1. \A s \in Sessions : IF Home[s] = b THEN view'[s] = SentRow(s) /\ sent[b] # <<>> ELSE view'[s] = view[s]
        BY <1>1 DEF DeliverSnapshot, SentRow
    <2>2. \A s \in Sessions : sent'[Home[s]] \in {sent[Home[s]], <<>>} /\ (Home[s] = b => sent'[Home[s]] = <<>>)
        BY <1>1, Homes DEF DeliverSnapshot, ClosedInv, Types, WireTypes
    <2>3. SnapInv'
        BY <1>0, <2>1, <2>2 DEF ClosedInv, SnapInv, RowLaunched, SentRow, Dead
    <2>4. \A s \in Sessions : Seen(s) => Seen(s)'
        BY <1>0, <2>1 DEF ClosedInv, SnapInv, Seen, SentRow, Dead
    <2>5. \A s \in Sessions : opening'[s] = "ready" => opening[s] = "ready"
        BY <1>1 DEF DeliverSnapshot
    <2>6. \A s \in Sessions, c \in Callers :
             /\ closing'[s][c].is \in {"fresh", "waiting"} => closing[s][c].is \in {"fresh", "waiting"}
             /\ closing'[s][c].is = "closed" => closing[s][c].is = "closed"
        BY <1>1 DEF DeliverSnapshot, Refresh, Watch
    <2>7. CallInv'
        BY <1>0, <2>4, <2>5, <2>6 DEF ClosedInv, CallInv, Dead
    <2> QED BY <2>3, <2>7
<1>2. ASSUME UNCHANGED <<view, sent>> PROVE SnapInv' /\ \A s \in Sessions : Seen(s)' = Seen(s) /\ Dead(s)' = Dead(s)
    BY <1>0, <1>2 DEF ClosedInv, SnapInv, RowLaunched, SentRow, Seen, Dead
<1>3. ASSUME NEW s \in Sessions, WatchOpening(s) PROVE SnapInv' /\ CallInv'
    <2>1. /\ UNCHANGED <<view, sent, closing>>
          /\ opening'[s] = "ready" => view[s] = "connected"
          /\ \A t \in Sessions : t # s => opening'[t] = opening[t]
        BY <1>0, <1>3 DEF WatchOpening, ViewTypes, wireVars
    <2>2. \A t \in Sessions : opening'[t] = "ready" => Seen(t)
        BY <2>1 DEF ClosedInv, CallInv, Seen
    <2> QED BY <1>0, <1>2, <2>1, <2>2 DEF ClosedInv, CallInv
<1>4. ASSUME NEW s \in Sessions, WatchesEnd(s) PROVE SnapInv' /\ CallInv'
    <2>1. UNCHANGED <<view, sent>> /\ \A t \in Sessions : opening'[t] = "ready" => opening[t] = "ready"
        BY <1>0, <1>4 DEF WatchesEnd, ViewTypes, wireVars
    <2>2. \A t \in Sessions, c \in Callers : closing'[t][c] = closing[t][c] \/ closing'[t][c].is = "ended"
        BY <1>0, <1>4 DEF WatchesEnd, CallTypes, Watch
    <2> QED BY <1>0, <1>2, <2>1, <2>2 DEF ClosedInv, CallInv
<1>5. ASSUME NEW s \in Sessions, NEW c \in Callers, WatchClosing(s, c) PROVE SnapInv' /\ CallInv'
    <2>1. closing[s][c].on = Home[s]
        BY <1>0, Homes DEF CallTypes, Watches, OneBackend
    <2>2. /\ UNCHANGED <<view, sent, opening>> /\ closing[s][c].is = "fresh"
          /\ closing'[s][c].is = IF view[s] # "none" THEN "waiting" ELSE "closed"
          /\ \A t \in Sessions, g \in Callers : t # s \/ g # c => closing'[t][g] = closing[t][g]
        BY <1>0, <1>5, <2>1 DEF WatchClosing, CallTypes, Watches, wireVars
    <2> QED BY <1>0, <1>2, <2>2 DEF ClosedInv, CallInv, Seen
<1>6. ASSUME NEW s \in Sessions, NEW c \in Callers, DeliverReply(s, c) \/ SaveTimeout(s, c) PROVE SnapInv' /\ CallInv'
    <2>1. UNCHANGED <<view, sent, opening, closing>>
        BY <1>6 DEF DeliverReply, SaveTimeout, wireVars
    <2> QED BY <1>0, <1>2, <2>1 DEF ClosedInv, CallInv
<1> QED BY <1>1, <1>3, <1>4, <1>5, <1>6 DEF MasterStep

\* A close is asked for by somebody who has seen the session.
LEMMA AskedSeen ==
    ASSUME ClosedInv, NEW s \in Sessions, NEW c \in Callers, NEW skip \in BOOLEAN, Closes(s, c, skip), Seen(s)
    PROVE  \A t \in Sessions, g \in Callers :
              closing'[t][g].is \in {"fresh", "waiting", "closed"} => closing'[t][g].is = closing[t][g].is \/ (t = s /\ closing'[t][g].is = "fresh")
<1>1. closing \in [Sessions -> [Callers -> Watches]]
    BY DEF ClosedInv, Types, CallTypes
<1>2. CASE alive = {}
    <2>1. closing' = [closing EXCEPT ![s][c] = [closing[s][c] EXCEPT !.is = "ended"]]
        BY <1>2 DEF Closes
    <2>2. [closing[s][c] EXCEPT !.is = "ended"] \in Watches /\ [closing[s][c] EXCEPT !.is = "ended"].is = "ended"
        BY <1>1 DEF Watches
    <2>3. closing'[s][c].is = "ended"
        BY <1>1, <2>1, <2>2, Entry
    <2>4. \A t \in Sessions, g \in Callers : t # s \/ g # c => closing'[t][g] = closing[t][g]
        BY <1>1, <2>1
    <2> QED BY <2>3, <2>4
<1>3. ASSUME NEW b \in alive, closing' = [closing EXCEPT ![s][c] = Watch("fresh", b)]
      PROVE  \A t \in Sessions, g \in Callers :
                closing'[t][g].is \in {"fresh", "waiting", "closed"} => closing'[t][g].is = closing[t][g].is \/ (t = s /\ closing'[t][g].is = "fresh")
    BY <1>1, <1>3 DEF Watch
<1> QED BY <1>2, <1>3 DEF Closes

LEMMA CallerClosed ==
    ASSUME ClosedInv, NEW s \in Sessions,
           Launch(s) \/ CommandStep(s) \/ Interrupt(s) \/ UserSaves(s) \/ UserCloses(s)
    PROVE  SnapInv' /\ CallInv'
<1>1. UNCHANGED <<row, task, studio, view, sent>> /\ CallTypes /\ ViewTypes /\ CliTypes
    BY CallerFrame DEF tableVars, taskVars, ClosedInv, Types
<1>2. SnapInv' /\ \A t \in Sessions : Seen(t)' = Seen(t) /\ Dead(t)' = Dead(t)
    BY <1>1 DEF ClosedInv, SnapInv, RowLaunched, SentRow, Seen, Dead
<1>3. \A t \in Sessions : opening'[t] = "ready" => opening[t] = "ready"
    BY <1>1 DEF Launch, Opens, CommandStep, Ready, LaunchFails, RunEnds, Finish, SaveAnswered, Close, Closed, Interrupt,
        UserSaves, UserCloses, ViewTypes, masterVars
<1>4. \A t \in Sessions : cli'[t] \in Ran => cli[t] \in Ran \/ opening[t] = "ready"
    BY <1>1 DEF Launch, CommandStep, Ready, LaunchFails, RunEnds, Finish, SaveAnswered, Close, Closed, Interrupt,
        UserSaves, UserCloses, CliTypes, CliGoes, Ran, cliVars
<1>5. \A t \in Sessions, g \in Callers :
         closing'[t][g].is \in {"fresh", "waiting", "closed"} => closing'[t][g].is = closing[t][g].is \/ (Seen(t) /\ closing'[t][g].is = "fresh")
    <2>1. CASE UNCHANGED closing
        BY <2>1
    <2>2. CASE UserCloses(s)
        <3>1. Seen(s) /\ Closes(s, "user", FALSE)
            BY <2>2 DEF UserCloses, Seen
        <3> QED BY <3>1, AskedSeen DEF Callers
    <2>3. CASE Close(s)
        <3>1. Seen(s) /\ verified[s] \in BOOLEAN
            BY <1>1, <2>3 DEF Close, CliGoes, ClosedInv, CallInv, Ran, CliTypes
        <3>2. UNCHANGED closing \/ Closes(s, "run", verified[s])
            BY <2>3 DEF Close
        <3> QED BY <2>1, <3>1, <3>2, AskedSeen DEF Callers
    <2>4. CASE ~UserCloses(s) /\ ~Close(s)
        BY <2>1, <2>4 DEF Launch, CommandStep, Ready, LaunchFails, RunEnds, Finish, SaveAnswered, Closed, Interrupt,
            UserSaves, masterVars
    <2> QED BY <2>2, <2>3, <2>4
<1>6. CallInv'
    BY <1>2, <1>3, <1>4, <1>5 DEF ClosedInv, CallInv
<1> QED BY <1>2, <1>6

LEMMA ClosedStep == ClosedInv /\ OneBackend /\ [Next]_vars => ClosedInv'
<1> SUFFICES ASSUME ClosedInv, OneBackend, [Next]_vars PROVE ClosedInv'
    OBVIOUS
<1>1. Types'
    BY TypesStep DEF ClosedInv
<1>2. ASSUME UNCHANGED <<closer, task, studio, row, alive>> PROVE TableInv'
    BY <1>2 DEF ClosedInv, TableInv, ClosersLate, DropsDead, GoneDead, Dead, Late, Up
<1>3. CASE UNCHANGED vars
    BY <1>1, <1>2, <1>3 DEF vars, ClosedInv, SnapInv, RowLaunched, SentRow, CallInv, Seen, Dead
<1>4. CASE MasterStep
    BY <1>1, <1>2, <1>4, MasterFrame, MasterClosed DEF ClosedInv, tableVars, taskVars, studioVars
<1>5. ASSUME NEW b \in Backends, TakeSnapshot(b) PROVE ClosedInv'
    BY <1>1, <1>2, <1>5, SnapshotClosed DEF TakeSnapshot, ClosedInv, tableVars, taskVars, studioVars
<1>6. ASSUME NEW b \in Backends, Receive(b) \/ ServeEnds(b) PROVE ClosedInv'
    BY <1>1, <1>6, BackendClosed, BackendTable DEF ClosedInv
<1>7. ASSUME NEW s \in Sessions, Launch(s) \/ CommandStep(s) \/ Interrupt(s) \/ UserSaves(s) \/ UserCloses(s)
      PROVE  ClosedInv'
    BY <1>1, <1>2, <1>7, CallerFrame, CallerClosed DEF ClosedInv, tableVars, taskVars
<1>8. ASSUME NEW s \in Sessions,
             \/ LaunchTask(s) \/ ExitTask(s) \/ PluginDials(s) \/ Handshake(s) \/ StudioEnds(s) \/ KeyLands(s) \/ KeyDropped(s)
             \/ \E c \in Callers : SaveTask(s, c) \/ CloseTask(s, c)
      PROVE  ClosedInv'
    BY <1>1, <1>8, TasksTable, TasksClosed DEF ClosedInv
<1>9. ASSUME NEW s \in Sessions, ServeStopped(s) \/ OwnedServeEnds(s) PROVE ClosedInv'
    BY <1>6, <1>9, Homes DEF ServeStopped, OwnedServeEnds
<1> QED BY <1>3, <1>4, <1>5, <1>6, <1>7, <1>8, <1>9 DEF Next

\* With one backend, a Studio that the master reports closed has ended, whatever other
\* saves, closes, exits and interrupts met the close.
THEOREM ClosedMeansDead == OneBackend => (Spec => []ClosedIsDead)
<1> SUFFICES ASSUME OneBackend PROVE Spec => []ClosedIsDead
    OBVIOUS
<1>1. Init => ClosedInv
    <2> SUFFICES ASSUME Init PROVE ClosedInv
        OBVIOUS
    <2>1. TableInv
        BY DEF Init, TableInv, ClosersLate, DropsDead, GoneDead
    <2>2. SnapInv
        BY Homes DEF Init, SnapInv, RowLaunched
    <2>3. CallInv
        BY DEF Init, CallInv, Ran, Watch
    <2> QED BY <2>1, <2>2, <2>3, TypesStart DEF ClosedInv
<1>2. ClosedInv => ClosedIsDead
    BY DEF ClosedInv, CallInv, ClosedIsDead, Dead, Live
<1>3. ClosedInv /\ [Next]_vars => ClosedInv'
    BY ClosedStep
<1> QED BY <1>1, <1>2, <1>3, PTL DEF Spec

-----------------------------------------------------------------------------
(* A run that succeeds has been saved *)

Asked(s) == saving[s]["run"] # "none"
Answered == {"close", "closing", "done"}
Good(s) == Saves(s) /\ ~failed[s]
Moved(s) == <<"run", "save">> \in touched[s]

\* Whoever acts on the command's save acts after the run, so the document has its edits.
RunSaves(cmd, s) == cmd.kind = "save" /\ cmd.by = "run" /\ cmd.of = s
CmdsAsked == \A b \in Backends : \A i \in 1 .. Len(down[b]), s \in Sessions : RunSaves(down[b][i], s) => Asked(s)
SaveAsked ==
    \A s \in Sessions :
       /\ Asked(s) => cli[s] \in {"saving"} \union Answered
       /\ saver[s]["run"] # "none" => Asked(s) /\ (Saves(s) => HasFile(s))
       /\ \A ok \in BOOLEAN : <<s, "run", ok>> \in replies => Asked(s)
       /\ cli[s] \in {"finish", "saving"} \union Answered /\ ~failed[s] => doc[s]

\* Studio runs on a file when the place is to be saved, so the save watches the file.
Held(s) == handle[s] \/ task[s] \in {"spawned", "stored"}
SaveWatched ==
    \A s \in Sessions : Saves(s) =>
       /\ Held(s) => HasFile(s)
       /\ saver[s]["run"] # "blind"

\* A good answer, from the file that moved to the command that ends.
SaveDone ==
    \A s \in Sessions : Good(s) =>
       /\ saver[s]["run"] \in {"fire", "poll"} /\ Moved(s) => disk[s]
       /\ <<s, "run", TRUE>> \in replies => disk[s]
       /\ saving[s]["run"] = "saved" => disk[s]
       /\ cli[s] \in Answered => disk[s]

SaveInv == CmdsAsked /\ SaveAsked /\ SaveWatched /\ SaveDone

\* Channels: nothing new, or one command more that is nobody's save unasked for.
LEMMA CmdsKept ==
    ASSUME CmdsAsked, \A s \in Sessions : Asked(s) => Asked(s)',
           \A b \in Backends : \A i \in 1 .. Len(down'[b]) :
              \/ \E j \in 1 .. Len(down[b]) : down'[b][i] = down[b][j]
              \/ \A s \in Sessions : RunSaves(down'[b][i], s) => Asked(s)'
    PROVE  CmdsAsked'
BY DEF CmdsAsked, RunSaves

LEMMA CmdSent ==
    ASSUME Types, CmdsAsked, \A s \in Sessions : Asked(s) => Asked(s)',
           NEW b \in Backends, NEW cmd \in Cmds, Send(b, cmd), \A s \in Sessions : RunSaves(cmd, s) => Asked(s)'
    PROVE  CmdsAsked'
<1>1. ASSUME NEW d \in Backends, NEW i \in 1 .. Len(down'[d])
      PROVE  \/ \E j \in 1 .. Len(down[d]) : down'[d][i] = down[d][j]
             \/ \A s \in Sessions : RunSaves(down'[d][i], s) => Asked(s)'
    <2>1. CASE d # b
        BY <2>1 DEF Send, Types, WireTypes
    <2>2. CASE d = b
        <3>1. down'[d] = Append(down[d], cmd) /\ down[d] \in Seq(Cmds)
            BY <2>2 DEF Send, Types, WireTypes
        <3>2. i \in 1 .. Len(down[d]) => down'[d][i] = down[d][i]
            BY <3>1
        <3>3. i \notin 1 .. Len(down[d]) => down'[d][i] = cmd
            BY <3>1
        <3> QED BY <3>2, <3>3
    <2> QED BY <2>1, <2>2
<1> QED BY <1>1, CmdsKept

\* A step that leaves the command, its save and the document alone: the place is
\* written when the file moves, and Studios start as they must.
LEMMA SaveFrame ==
    ASSUME SaveInv, UNCHANGED <<cfg, cli, failed, saving, saver, replies, doc>>, CmdsAsked',
           \A s \in Sessions :
              /\ Held(s)' => Held(s) \/ HasFile(s) \/ ~Saves(s)
              /\ disk[s] => disk'[s]
              /\ Moved(s)' => Moved(s) \/ disk'[s] \/ ~doc[s]
    PROVE  SaveInv'
<1>1. SaveAsked'
    BY DEF SaveInv, SaveAsked, Asked, Saves, HasFile
<1>2. SaveWatched'
    BY DEF SaveInv, SaveWatched, Saves, HasFile
<1>3. \A s \in Sessions : saver[s]["run"] \in {"fire", "poll"} /\ ~failed[s] => doc[s]
    BY DEF SaveInv, SaveAsked
<1>4. SaveDone'
    BY <1>3 DEF SaveInv, SaveDone, Good, Saves
<1> QED BY <1>1, <1>2, <1>4 DEF SaveInv

LEMMA MasterSaves ==
    ASSUME Types, SaveInv, MasterStep PROVE SaveInv'
<1>1. UNCHANGED <<cfg, cli, failed, saver, doc, disk, touched, handle, task>>
    BY MasterFrame DEF tableVars, taskVars, studioVars, cliVars
<1>2. UNCHANGED down
    BY DEF MasterStep, DeliverSnapshot, WatchOpening, WatchesEnd, WatchClosing, DeliverReply, SaveTimeout, wireVars
<1>3. CASE UNCHANGED <<saving, replies>>
    <2>1. CmdsAsked'
        BY <1>2, <1>3 DEF SaveInv, CmdsAsked, Asked
    <2> QED BY <1>1, <1>3, <2>1, SaveFrame DEF Moved, Held
<1>4. ASSUME NEW s \in Sessions, NEW c \in Callers, DeliverReply(s, c) \/ SaveTimeout(s, c) PROVE SaveInv'
    <2>1. replies' \subseteq replies
        BY <1>4 DEF DeliverReply, SaveTimeout, wireVars
    <2>0. saving \in [Sessions -> [Callers -> Savings]]
        BY DEF Types, CallTypes
    <2>1a. \E r \in Savings :
             /\ saving' = [saving EXCEPT ![s][c] = r]
             /\ \/ r = saving[s][c]
                \/ saving[s][c] = "pending" /\ r = "refused"
                \/ saving[s][c] = "pending" /\ r = "saved" /\ <<s, c, TRUE>> \in replies
        <3>1. CASE SaveTimeout(s, c)
            BY <3>1 DEF SaveTimeout, Savings
        <3>2. CASE DeliverReply(s, c)
            <4>1. PICK ok \in BOOLEAN : /\ <<s, c, ok>> \in replies
                                       /\ saving' = [saving EXCEPT ![s][c] = IF saving[s][c] # "pending" THEN saving[s][c] ELSE IF ok THEN "saved" ELSE "refused"]
                BY <3>2 DEF DeliverReply
            <4>2. saving[s][c] \in Savings /\ {"saved", "refused"} \subseteq Savings
                BY <2>0 DEF Savings
            <4>3. CASE saving[s][c] # "pending"
                BY <4>1, <4>2, <4>3
            <4>4. CASE saving[s][c] = "pending" /\ ok
                <5>1. ok = TRUE
                    BY <4>4
                <5> QED BY <4>1, <4>2, <4>4, <5>1
            <4>5. CASE saving[s][c] = "pending" /\ ~ok
                BY <4>1, <4>2, <4>5
            <4> QED BY <4>3, <4>4, <4>5
        <3> QED BY <1>4, <3>1, <3>2
    <2>2. \A t \in Sessions, g \in Callers : t # s \/ g # c => saving'[t][g] = saving[t][g]
        BY <2>0, <2>1a, Entry
    <2>3. \/ saving'[s][c] = saving[s][c]
          \/ saving[s][c] = "pending" /\ saving'[s][c] = "refused"
          \/ saving[s][c] = "pending" /\ saving'[s][c] = "saved" /\ <<s, c, TRUE>> \in replies
        BY <2>0, <2>1a, Entry
    <2>4. \A t \in Sessions : /\ Asked(t)' = Asked(t)
                              /\ saving'[t]["run"] = "saved" => saving[t]["run"] = "saved" \/ <<t, "run", TRUE>> \in replies
        BY <2>2, <2>3 DEF Asked, Callers
    <2>5. CmdsAsked'
        BY <1>2, <2>4 DEF SaveInv, CmdsAsked
    <2>6. SaveAsked' /\ SaveWatched'
        BY <1>1, <2>1, <2>4 DEF SaveInv, SaveAsked, SaveWatched, Held, Saves, HasFile
    <2>7. SaveDone'
        BY <1>1, <2>1, <2>4 DEF SaveInv, SaveDone, Good, Saves, Moved
    <2> QED BY <2>5, <2>6, <2>7 DEF SaveInv
<1>5. ASSUME \A s \in Sessions, c \in Callers : ~DeliverReply(s, c) /\ ~SaveTimeout(s, c)
      PROVE  UNCHANGED <<saving, replies>>
    BY <1>5 DEF MasterStep, DeliverSnapshot, WatchOpening, WatchesEnd, WatchClosing, wireVars
<1> QED BY <1>3, <1>4, <1>5


\* The command: it asks once, and takes the answer for what it is.
LEMMA AsksPending ==
    ASSUME Types, NEW s \in Sessions, NEW c \in Callers, AsksSave(s, c)
    PROVE  /\ saving'[s][c] \in {"pending", "refused"}
           /\ \A t \in Sessions, g \in Callers : t # s \/ g # c => saving'[t][g] = saving[t][g]
           /\ down' = down \/ \E b \in Backends : Send(b, Command("save", s, c, FALSE))
<1>1. PICK r \in {"pending", "refused"} : saving' = [saving EXCEPT ![s][c] = r]
    BY DEF AsksSave
<1>2. saving \in [Sessions -> [Callers -> Savings]] /\ r \in Savings
    BY DEF Types, CallTypes, Savings
<1>3. saving'[s][c] = r /\ \A t \in Sessions, g \in Callers : t # s \/ g # c => saving'[t][g] = saving[t][g]
    BY <1>1, <1>2, Entry
<1>4. down' = down \/ \E b \in Backends : Send(b, Command("save", s, c, FALSE))
    BY DEF AsksSave, Types
<1> QED BY <1>3, <1>4

LEMMA CallerSaves ==
    ASSUME Types, SaveInv, NEW s \in Sessions,
           Launch(s) \/ CommandStep(s) \/ Interrupt(s) \/ UserSaves(s) \/ UserCloses(s)
    PROVE  SaveInv'
<1>1. UNCHANGED <<cfg, saver, replies, disk, touched, handle, task>> /\ CliTypes
    BY DEF Launch, CommandStep, Ready, LaunchFails, RunEnds, Finish, SaveAnswered, Close, Closed, Interrupt,
        UserSaves, UserCloses, cliVars, wireVars, tableVars, taskVars, studioVars, Types
<1>2. ASSUME CmdsAsked', UNCHANGED <<cli, failed, doc>>,
             \A t \in Sessions : saving'[t]["run"] = saving[t]["run"]
      PROVE  SaveInv'
    BY <1>1, <1>2 DEF SaveInv, SaveAsked, SaveWatched, Held, SaveDone, Asked, Good, Moved, Saves, HasFile
<1>3. ASSUME CmdsAsked', UNCHANGED <<failed, doc, saving>>, ~Asked(s), cli'[s] \notin {"finish", "saving"} \union Answered,
             \A t \in Sessions : t # s => cli'[t] = cli[t]
      PROVE  SaveInv'
    BY <1>1, <1>3 DEF SaveInv, SaveAsked, SaveWatched, Held, SaveDone, Asked, Good, Moved, Saves, HasFile
<1>4. ASSUME UNCHANGED <<down, saving>> PROVE CmdsAsked'
    BY <1>4 DEF SaveInv, CmdsAsked, Asked
<1>5. ASSUME NEW b \in Backends, NEW kind \in {"launch", "close"}, NEW c \in Callers, NEW skip \in BOOLEAN,
             Send(b, Command(kind, s, c, skip)), UNCHANGED saving
      PROVE  CmdsAsked'
    <2>1. \A t \in Sessions : ~RunSaves(Command(kind, s, c, skip), t)
        BY DEF RunSaves, Command
    <2> QED BY <1>5, <2>1, CmdSent, CommandTypes DEF SaveInv, Asked
<1>6. ASSUME NEW c \in Callers, NEW skip \in BOOLEAN, Closes(s, c, skip), UNCHANGED saving PROVE CmdsAsked'
    <2>1. CASE UNCHANGED down
        BY <1>4, <1>6, <2>1
    <2>2. ASSUME NEW b \in alive, Send(b, Command("close", s, c, skip)) PROVE CmdsAsked'
        BY <1>5, <1>6, <2>2 DEF Types
    <2> QED BY <1>6, <2>1, <2>2 DEF Closes
<1>7. CASE Launch(s)
    <2>1. CmdsAsked'
        BY <1>5, <1>7, Homes DEF Launch, Opens, Callers
    <2>2. cli[s] = "idle" /\ cli' = [cli EXCEPT ![s] = "launching"]
        BY <1>7 DEF Launch, CliGoes
    <2>3. ~Asked(s)
        BY <2>2 DEF SaveInv, SaveAsked, Answered
    <2> QED BY <1>1, <1>3, <1>7, <2>1, <2>2, <2>3 DEF Launch, CliTypes, Answered, taskVars, studioVars
<1>8. CASE Ready(s) \/ LaunchFails(s) \/ Interrupt(s)
    <2>1. CmdsAsked'
        BY <1>4, <1>8 DEF Ready, LaunchFails, Interrupt, wireVars, masterVars
    <2>2. /\ cli[s] \in {"launching", "running"}
          /\ \E to \in {"running", "gave up", "interrupted"} : cli' = [cli EXCEPT ![s] = to]
        BY <1>8 DEF Ready, LaunchFails, Interrupt, CliGoes
    <2>3. ~Asked(s)
        BY <2>2 DEF SaveInv, SaveAsked, Answered
    <2> QED BY <1>1, <1>3, <1>8, <2>1, <2>2, <2>3 DEF Ready, LaunchFails, Interrupt, CliTypes, Answered, masterVars, studioVars
<1>9. ASSUME NEW ok \in BOOLEAN, RunEnds(s, ok) PROVE SaveInv'
    <2>1. CmdsAsked'
        BY <1>4, <1>9 DEF RunEnds, wireVars, masterVars
    <2>2. /\ cli[s] = "running" /\ cli' = [cli EXCEPT ![s] = "finish"]
          /\ failed' = [failed EXCEPT ![s] = ~ok] /\ doc' = [doc EXCEPT ![s] = doc[s] \/ ok]
          /\ UNCHANGED saving
        BY <1>9 DEF RunEnds, CliGoes, masterVars
    <2>3. /\ cli'[s] = "finish" /\ (~failed'[s] => doc'[s])
          /\ \A t \in Sessions : t # s => cli'[t] = cli[t] /\ failed'[t] = failed[t] /\ doc'[t] = doc[t]
        BY <1>1, <2>2 DEF CliTypes, Types, DocTypes
    <2>4. ~Asked(s)
        BY <2>2 DEF SaveInv, SaveAsked, Answered
    <2>5. saver[s]["run"] = "none" /\ <<s, "run", TRUE>> \notin replies /\ saving[s]["run"] = "none"
        BY <2>4 DEF SaveInv, SaveAsked, Saves, HasFile, Asked
    <2>6. SaveAsked'
        BY <1>1, <2>2, <2>3, <2>4 DEF SaveInv, SaveAsked, Saves, HasFile, Asked, Answered
    <2>7. SaveWatched'
        BY <1>1 DEF SaveInv, SaveWatched, Held, Saves, HasFile
    <2>8. SaveDone'
        BY <1>1, <2>2, <2>3, <2>5 DEF SaveInv, SaveDone, Good, Moved, Saves, Answered
    <2> QED BY <2>1, <2>6, <2>7, <2>8 DEF SaveInv
<1>10. CASE Finish(s)
    <2>0. cli[s] = "finish" /\ UNCHANGED <<failed, doc>>
        BY <1>10 DEF Finish, CliGoes, studioVars
    <2>1. ~Asked(s) /\ (~failed[s] => doc[s])
        BY <2>0 DEF SaveInv, SaveAsked, Answered
    <2>2. saver[s]["run"] = "none" /\ <<s, "run", TRUE>> \notin replies
        BY <2>1 DEF SaveInv, SaveAsked
    <2>3. CASE Saves(s)
        <3>1. AsksSave(s, "run") /\ cli' = [cli EXCEPT ![s] = "saving"]
            BY <1>10, <2>3 DEF Finish, CliGoes
        <3>2. /\ saving'[s]["run"] \in {"pending", "refused"}
              /\ \A t \in Sessions : t # s => saving'[t]["run"] = saving[t]["run"]
              /\ down' = down \/ \E b \in Backends : Send(b, Command("save", s, "run", FALSE))
            BY <3>1, AsksPending DEF Callers
        <3>3. \A t \in Sessions : Asked(t) => Asked(t)'
            BY <3>2 DEF Asked
        <3>4. CmdsAsked'
            <4>1. CASE down' = down
                BY <3>3, <4>1 DEF SaveInv, CmdsAsked
            <4>2. ASSUME NEW b \in Backends, Send(b, Command("save", s, "run", FALSE)) PROVE CmdsAsked'
                <5>1. \A t \in Sessions : RunSaves(Command("save", s, "run", FALSE), t) => Asked(t)'
                    BY <3>2 DEF RunSaves, Command, Asked
                <5>2. Command("save", s, "run", FALSE) \in Cmds
                    BY CommandTypes DEF Callers
                <5> QED BY <3>3, <4>2, <5>1, <5>2, CmdSent DEF SaveInv
            <4> QED BY <3>2, <4>1, <4>2
        <3>5. cli'[s] = "saving" /\ \A t \in Sessions : t # s => cli'[t] = cli[t]
            BY <1>1, <3>1 DEF CliTypes
        <3>6. SaveAsked'
            BY <1>1, <2>0, <2>1, <2>2, <3>2, <3>5 DEF SaveInv, SaveAsked, Saves, HasFile, Asked, Answered
        <3>7. SaveWatched'
            BY <1>1 DEF SaveInv, SaveWatched, Held, Saves, HasFile
        <3>8. SaveDone'
            BY <1>1, <2>0, <2>2, <3>2, <3>5 DEF SaveInv, SaveDone, Good, Moved, Saves, Answered
        <3> QED BY <3>4, <3>6, <3>7, <3>8 DEF SaveInv
    <2>4. CASE ~Saves(s)
        <3>1. cli' = [cli EXCEPT ![s] = "close"] /\ UNCHANGED <<down, saving>>
            BY <1>10, <2>4 DEF Finish, CliGoes
        <3>2. cli'[s] = "close" /\ \A t \in Sessions : t # s => cli'[t] = cli[t]
            BY <1>1, <3>1 DEF CliTypes
        <3>3. SaveAsked'
            BY <1>1, <2>0, <2>1, <3>1, <3>2 DEF SaveInv, SaveAsked, Saves, HasFile, Asked, Answered
        <3>4. SaveWatched'
            BY <1>1 DEF SaveInv, SaveWatched, Held, Saves, HasFile
        <3>5. SaveDone'
            BY <1>1, <2>0, <2>4, <3>1, <3>2 DEF SaveInv, SaveDone, Good, Moved, Saves, Answered
        <3> QED BY <1>4, <3>1, <3>3, <3>4, <3>5 DEF SaveInv
    <2> QED BY <2>3, <2>4
<1>11. CASE SaveAnswered(s)
    <2>1. /\ saving[s]["run"] \in {"saved", "refused"} /\ cli[s] = "saving" /\ cli' = [cli EXCEPT ![s] = "close"]
          /\ failed' = [failed EXCEPT ![s] = failed[s] \/ saving[s]["run"] = "refused"]
          /\ UNCHANGED <<down, saving, doc>>
        BY <1>11 DEF SaveAnswered, CliGoes, wireVars, masterVars, studioVars
    <2>2. /\ cli'[s] = "close" /\ \A t \in Sessions : t # s => cli'[t] = cli[t]
          /\ \A t \in Sessions : ~failed'[t] => ~failed[t]
          /\ ~failed'[s] => saving[s]["run"] = "saved"
        BY <1>1, <2>1 DEF CliTypes
    <2>3. SaveAsked'
        BY <1>1, <2>1, <2>2 DEF SaveInv, SaveAsked, Saves, HasFile, Asked, Answered
    <2>4. SaveWatched'
        BY <1>1 DEF SaveInv, SaveWatched, Held, Saves, HasFile
    <2>5. SaveDone'
        BY <1>1, <2>1, <2>2 DEF SaveInv, SaveDone, Good, Moved, Saves
    <2> QED BY <1>4, <2>1, <2>3, <2>4, <2>5 DEF SaveInv
<1>12. CASE Close(s) \/ Closed(s)
    <2>1. /\ cli[s] \in {"close", "closing"} /\ \E to \in {"closing", "done"} : cli' = [cli EXCEPT ![s] = to]
          /\ UNCHANGED <<failed, doc, saving>>
        BY <1>12 DEF Close, Closed, CliGoes, masterVars, studioVars
    <2>2. CmdsAsked'
        <3>1. CASE UNCHANGED down
            BY <1>4, <2>1, <3>1
        <3>2. CASE Closes(s, "run", verified[s])
            BY <1>1, <1>6, <2>1, <3>2 DEF CliTypes, Callers
        <3> QED BY <1>12, <3>1, <3>2 DEF Close, Closed, wireVars
    <2>3. /\ cli[s] \in Answered /\ cli'[s] \in Answered
          /\ \A t \in Sessions : t # s => cli'[t] = cli[t]
        BY <1>1, <2>1 DEF CliTypes, Answered
    <2>4. SaveAsked'
        BY <1>1, <2>1, <2>3 DEF SaveInv, SaveAsked, Saves, HasFile, Asked
    <2>5. SaveWatched'
        BY <1>1 DEF SaveInv, SaveWatched, Held, Saves, HasFile
    <2>6. SaveDone'
        BY <1>1, <2>1, <2>3 DEF SaveInv, SaveDone, Good, Moved, Saves
    <2> QED BY <2>2, <2>4, <2>5, <2>6 DEF SaveInv
<1>13. CASE UserSaves(s)
    <2>1. AsksSave(s, "user") /\ UNCHANGED <<cli, failed, doc>>
        BY <1>13 DEF UserSaves, cliVars, studioVars
    <2>2. /\ \A t \in Sessions : saving'[t]["run"] = saving[t]["run"]
          /\ down' = down \/ \E b \in Backends : Send(b, Command("save", s, "user", FALSE))
        BY <2>1, AsksPending DEF Callers
    <2>3. CmdsAsked'
        <3>1. CASE down' = down
            BY <2>2, <3>1 DEF SaveInv, CmdsAsked, Asked
        <3>2. ASSUME NEW b \in Backends, Send(b, Command("save", s, "user", FALSE)) PROVE CmdsAsked'
            <4>1. \A t \in Sessions : ~RunSaves(Command("save", s, "user", FALSE), t)
                BY DEF RunSaves, Command
            <4>2. Command("save", s, "user", FALSE) \in Cmds
                BY CommandTypes DEF Callers
            <4> QED BY <2>2, <3>2, <4>1, <4>2, CmdSent DEF SaveInv, Asked
        <3> QED BY <2>2, <3>1, <3>2
    <2> QED BY <1>2, <2>1, <2>2, <2>3
<1>14. CASE UserCloses(s)
    <2>1. Closes(s, "user", FALSE) /\ UNCHANGED <<cli, failed, doc, saving>>
        BY <1>14 DEF UserCloses, cliVars, studioVars
    <2>2. CmdsAsked'
        BY <1>6, <2>1 DEF Callers
    <2> QED BY <1>2, <2>1, <2>2
<1> QED BY <1>7, <1>8, <1>9, <1>10, <1>11, <1>12, <1>13, <1>14 DEF CommandStep


\* The save tasks: only a file that moved after the run makes a good answer.
LEMMA SaverSaves ==
    ASSUME Types, SaveInv, NEW s \in Sessions, NEW c \in Callers, SaveTask(s, c)
    PROVE  SaveInv'
<1>1. UNCHANGED <<cfg, cli, failed, saving, doc, disk, handle, task, down>>
    BY DEF SaveTask, SaveBaseline, SaveFires, SaveEnds, SaveBlind, Elsewhere, cliVars, masterVars, tableVars, studioVars
<1>2. PICK r \in Savers : saver' = [saver EXCEPT ![s][c] = r] /\ saver[s][c] # "none"
    BY DEF SaveTask, SaveBaseline, SaveFires, SaveEnds, SaveBlind, SaverGoes, Savers
<1>3. saver'[s][c] = r /\ \A t \in Sessions, g \in Callers : t # s \/ g # c => saver'[t][g] = saver[t][g]
    BY <1>2, Entry DEF Types, TaskTypes
<1>4. \A t \in Sessions : Moved(t)' => Moved(t)
    BY DEF SaveTask, SaveBaseline, SaveFires, SaveEnds, SaveBlind, Untouch, Moved, Types, DocTypes, studioVars
<1>5. /\ r = "blind" => ~(HasFile(s) /\ Saves(s))
      /\ r \in {"fire", "poll"} => saver[s][c] \in {"fire", "poll"} \/ <<c, "save">> \notin touched'[s]
    <2>1. CASE SaveBaseline(s, c)
        <3>1. saver' = [saver EXCEPT ![s][c] = IF HasFile(s) /\ (Saves(s) \/ temp[s]) THEN "fire" ELSE "blind"]
            BY <2>1 DEF SaveBaseline, SaverGoes
        <3>2. r = IF HasFile(s) /\ (Saves(s) \/ temp[s]) THEN "fire" ELSE "blind"
            BY <1>3, <3>1 DEF Types, TaskTypes
        <3>3. <<c, "save">> \notin touched'[s]
            BY <2>1 DEF SaveBaseline, Untouch, Types, DocTypes
        <3> QED BY <3>2, <3>3
    <2>2. CASE SaveFires(s, c)
        <3>1. saver[s][c] \in {"fire", "poll"} /\ saver' = [saver EXCEPT ![s][c] = "poll"]
            BY <2>2 DEF SaveFires, SaverGoes
        <3> QED BY <1>3, <3>1 DEF Types, TaskTypes
    <2>3. CASE SaveEnds(s, c) \/ SaveBlind(s, c)
        <3>1. saver' = [saver EXCEPT ![s][c] = "over"]
            BY <2>3 DEF SaveEnds, SaveBlind, SaverGoes
        <3> QED BY <1>3, <3>1 DEF Types, TaskTypes
    <2> QED BY <2>1, <2>2, <2>3 DEF SaveTask
<1>6. \A t \in Sessions, g \in Callers, ok \in BOOLEAN : <<t, g, ok>> \in replies' =>
         \/ <<t, g, ok>> \in replies
         \/ t = s /\ g = c /\ (ok => saver[s][c] = "blind" \/ (saver[s][c] = "poll" /\ <<c, "save">> \in touched[s]))
    BY DEF SaveTask, SaveBaseline, SaveFires, SaveEnds, SaveBlind, SaverGoes, Reply
<1>7. CmdsAsked'
    BY <1>1 DEF SaveInv, CmdsAsked, Asked
<1>8. SaveAsked'
    BY <1>1, <1>2, <1>3, <1>6 DEF SaveInv, SaveAsked, Saves, HasFile, Asked, Callers
<1>9. SaveWatched'
    <2>1. Saves(s) /\ c = "run" => HasFile(s)
        BY <1>2 DEF SaveInv, SaveWatched, SaveAsked
    <2> QED BY <1>1, <1>3, <1>5, <2>1 DEF SaveInv, SaveWatched, Held, Saves, HasFile, Callers
<1>10. ASSUME NEW t \in Sessions, Good(t)
       PROVE  /\ saver'[t]["run"] \in {"fire", "poll"} /\ Moved(t)' => disk[t]
              /\ <<t, "run", TRUE>> \in replies' => disk[t]
    <2>1. /\ saver[t]["run"] \in {"fire", "poll"} /\ Moved(t) => disk[t]
          /\ <<t, "run", TRUE>> \in replies => disk[t]
          /\ saver[t]["run"] # "blind"
        BY <1>10 DEF SaveInv, SaveDone, SaveWatched, Good
    <2>2. <<t, "run", TRUE>> \in replies' => disk[t]
        BY <1>6, <2>1 DEF Moved, Callers
    <2>3. saver'[t]["run"] \in {"fire", "poll"} /\ Moved(t)' => disk[t]
        BY <1>3, <1>4, <1>5, <2>1 DEF Moved, Callers
    <2> QED BY <2>2, <2>3
<1>11. SaveDone'
    BY <1>1, <1>10 DEF SaveInv, SaveDone, Good, Saves
<1> QED BY <1>7, <1>8, <1>9, <1>11 DEF SaveInv

\* Studio, its launch and its closes: the place is written when the file moves.
LEMMA StudioSaves ==
    ASSUME Types, SaveInv, NEW s \in Sessions,
           \/ LaunchTask(s) \/ ExitTask(s) \/ PluginDials(s) \/ Handshake(s) \/ StudioEnds(s) \/ KeyDropped(s)
           \/ \E c \in Callers : CloseTask(s, c)
    PROVE  SaveInv'
<1>1. ASSUME UNCHANGED <<cfg, cli, failed, saving, saver, replies, doc, disk, down>>,
             \A t \in Sessions : /\ Held(t)' => Held(t) \/ HasFile(t) \/ ~Saves(t)
                                 /\ Moved(t)' => Moved(t)
      PROVE  SaveInv'
    <2>1. CmdsAsked'
        BY <1>1 DEF SaveInv, CmdsAsked, Asked
    <2> QED BY <1>1, <2>1, SaveFrame
<1> USE DEF Elsewhere, cliVars, masterVars, tableVars, studioVars, taskVars
<1>2. CASE LaunchTask(s)
    <2>1. UNCHANGED <<cfg, cli, failed, saving, saver, replies, doc, disk, down, touched>>
        BY <1>2 DEF LaunchTask, LaunchBegins, SpawnFails, FailLaunch, Spawn, SpawnDropped, StoreHandle, ArmExit
    <2>2. \A t \in Sessions : Held(t)' => Held(t) \/ HasFile(t) \/ ~Saves(t)
        BY <1>2 DEF LaunchTask, LaunchBegins, SpawnFails, FailLaunch, Spawn, SpawnDropped, StoreHandle, ArmExit,
            TaskGoes, Held, Types, TableTypes
    <2> QED BY <1>1, <2>1, <2>2 DEF Moved
<1>3. CASE ExitTask(s)
    BY <1>1, <1>3 DEF ExitTask, ExitCleans, ExitMarks, Moved, Held
<1>4. CASE PluginDials(s) \/ Handshake(s) \/ StudioEnds(s) \/ KeyDropped(s)
    <2>1. UNCHANGED <<cfg, cli, failed, saving, saver, replies, doc, disk, down, touched>>
        BY <1>4 DEF PluginDials, Handshake, StudioEnds, KeyDropped
    <2>2. UNCHANGED <<handle, task>>
        BY <1>4 DEF PluginDials, Handshake, StudioEnds, KeyDropped
    <2> QED BY <1>1, <2>1, <2>2 DEF Moved, Held
<1>5. ASSUME NEW c \in Callers, CloseTask(s, c) PROVE SaveInv'
    <2>1. UNCHANGED <<cfg, cli, failed, saving, saver, replies, doc, disk, down>>
        BY <1>5 DEF CloseTask, CloseSkips, CloseCleans, CloseWaits, CloseRestores, CloseKills, CloseDrops
    <2>2. \A t \in Sessions : Moved(t)' => Moved(t)
        BY <1>5 DEF CloseTask, CloseSkips, CloseCleans, CloseWaits, CloseRestores, CloseKills, CloseDrops, Untouch,
            Moved, Types, DocTypes
    <2>3. \A t \in Sessions : Held(t)' => Held(t)
        BY <1>5 DEF CloseTask, CloseSkips, CloseCleans, CloseWaits, CloseRestores, CloseKills, CloseDrops, Held,
            Types, TableTypes
    <2> QED BY <1>1, <2>1, <2>2, <2>3
<1> QED BY <1>2, <1>3, <1>4, <1>5

LEMMA KeySaves ==
    ASSUME Types, SaveInv, NEW s \in Sessions, KeyLands(s)
    PROVE  SaveInv'
<1>1. UNCHANGED <<cfg, cli, failed, saving, saver, replies, doc, down, handle, task>>
    BY DEF KeyLands, Elsewhere, cliVars, masterVars, tableVars, taskVars
<1>2. \A t \in Sessions : /\ disk[t] => disk'[t]
                          /\ Moved(t)' => Moved(t) \/ disk'[t] \/ ~doc[t]
    BY DEF KeyLands, Moved, Types, DocTypes
<1>3. CmdsAsked'
    BY <1>1 DEF SaveInv, CmdsAsked, Asked
<1> QED BY <1>1, <1>2, <1>3, SaveFrame DEF Held

LEMMA TailOf ==
    ASSUME NEW S, NEW q \in Seq(S), q # <<>>
    PROVE  \A i \in 1 .. Len(Tail(q)) : i + 1 \in 1 .. Len(q) /\ Tail(q)[i] = q[i + 1]
OBVIOUS

\* The backend: it takes a save only for a Studio it holds, and answers the others no.
LEMMA BackendSaves ==
    ASSUME Types, SaveInv, NEW b \in Backends, Receive(b) \/ TakeSnapshot(b) \/ ServeEnds(b)
    PROVE  SaveInv'
<1>1. UNCHANGED <<cfg, cli, failed, saving, doc, disk, touched>>
    BY DEF Receive, TakeSnapshot, ServeEnds, ReceiveLaunch, ReceiveClose, ReceiveSave, cliVars, masterVars, studioVars
<1>2. CASE TakeSnapshot(b)
    <2>1. UNCHANGED <<saver, replies, down, handle, task>>
        BY <1>2 DEF TakeSnapshot, tableVars, taskVars
    <2>2. CmdsAsked'
        BY <1>1, <2>1 DEF SaveInv, CmdsAsked, Asked
    <2> QED BY <1>1, <2>1, <2>2, SaveFrame DEF Moved, Held
<1>3. CASE ServeEnds(b)
    <2>1. UNCHANGED <<saver, replies>> /\ \A t \in Sessions : Held(t)' => Held(t)
        BY <1>3 DEF ServeEnds, Held, Types, TableTypes
    <2>2. \A d \in Backends : down'[d] = down[d] \/ down'[d] = <<>>
        BY <1>3 DEF ServeEnds, Types, WireTypes
    <2>3. CmdsAsked'
        BY <1>1, <2>2, CmdsKept DEF SaveInv, Asked
    <2> QED BY <1>1, <2>1, <2>3, SaveFrame DEF Moved
<1>4. CASE Receive(b)
    <2> DEFINE cmd == Head(down[b])
               s == cmd.of
               c == cmd.by
    <2>1. s \in Sessions /\ c \in Callers /\ cmd \in Cmds /\ down[b] # <<>> /\ down' = [down EXCEPT ![b] = Tail(down[b])]
        BY <1>4, CommandRead DEF Receive
    <2>2. CmdsAsked'
        <3>1. \A d \in Backends : \A i \in 1 .. Len(down'[d]) : \E j \in 1 .. Len(down[d]) : down'[d][i] = down[d][j]
            <4>1. ASSUME NEW i \in 1 .. Len(down'[b]) PROVE \E j \in 1 .. Len(down[b]) : down'[b][i] = down[b][j]
                <5>1. down[b] \in Seq(Cmds) /\ down'[b] = Tail(down[b])
                    BY <2>1 DEF Types, WireTypes
                <5>2. i + 1 \in 1 .. Len(down[b]) /\ down'[b][i] = down[b][i + 1]
                    BY <2>1, <4>1, <5>1, TailOf
                <5> QED BY <5>2
            <4>2. \A d \in Backends : d # b => down'[d] = down[d]
                BY <2>1 DEF Types, WireTypes
            <4> QED BY <4>1, <4>2
        <3> QED BY <1>1, <3>1, CmdsKept DEF SaveInv, Asked
    <2>3. CASE ReceiveLaunch(s)
        <3>1. UNCHANGED <<saver, replies>> /\ \A t \in Sessions : Held(t)' => Held(t)
            BY <2>1, <2>3 DEF ReceiveLaunch, TaskGoes, Held, Types, TableTypes
        <3> QED BY <1>1, <2>2, <3>1, SaveFrame DEF Moved
    <2>4. CASE ReceiveClose(b, cmd)
        <3>1. UNCHANGED <<saver, replies, handle, task>>
            BY <2>4 DEF ReceiveClose
        <3> QED BY <1>1, <2>2, <3>1, SaveFrame DEF Moved, Held
    <2>5. CASE cmd.kind = "save" /\ ReceiveSave(b, cmd)
        <3>1. c = "run" => Asked(s)
            <4>1. 1 \in 1 .. Len(down[b]) /\ down[b][1] = cmd
                BY <2>1 DEF Types, WireTypes
            <4>2. c = "run" => RunSaves(cmd, s)
                BY <2>5 DEF RunSaves
            <4>3. RunSaves(down[b][1], s) => Asked(s)
                BY <2>1, <4>1 DEF SaveInv, CmdsAsked
            <4> QED BY <4>1, <4>2, <4>3
        <3>2. UNCHANGED <<handle, task>>
            BY <2>5 DEF ReceiveSave, tableVars
        <3>3. saver' = saver \/ (handle[s] /\ saver' = [saver EXCEPT ![s][c] = "baseline"])
            BY <2>5 DEF ReceiveSave
        <3>4. \A t \in Sessions : \/ saver'[t]["run"] = saver[t]["run"]
                                  \/ t = s /\ c = "run" /\ handle[s] /\ saver'[t]["run"] = "baseline"
            BY <2>1, <3>3, Entry DEF Types, TaskTypes, Savers, Callers
        <3>5. \A t \in Sessions, ok \in BOOLEAN : <<t, "run", ok>> \in replies' =>
                 <<t, "run", ok>> \in replies \/ (t = s /\ c = "run" /\ ok = FALSE)
            BY <2>5 DEF ReceiveSave
        <3>6. handle[s] => (Saves(s) => HasFile(s))
            BY <2>1 DEF SaveInv, SaveWatched, Held
        <3>7. SaveAsked'
            BY <1>1, <3>1, <3>4, <3>5, <3>6 DEF SaveInv, SaveAsked, Saves, HasFile, Asked
        <3>8. SaveWatched'
            BY <1>1, <3>2, <3>4 DEF SaveInv, SaveWatched, Held, Saves, HasFile
        <3>9. SaveDone'
            BY <1>1, <3>4, <3>5 DEF SaveInv, SaveDone, Good, Moved, Saves
        <3> QED BY <2>2, <3>7, <3>8, <3>9 DEF SaveInv
    <2> QED BY <1>4, <2>3, <2>4, <2>5 DEF Receive
<1> QED BY <1>2, <1>3, <1>4

LEMMA SavesStep == Types /\ SaveInv /\ [Next]_vars => SaveInv'
<1> SUFFICES ASSUME Types, SaveInv, [Next]_vars PROVE SaveInv'
    OBVIOUS
<1>1. CASE UNCHANGED vars
    BY <1>1 DEF vars, SaveInv, CmdsAsked, SaveAsked, SaveWatched, SaveDone, Held, Good, Moved, Saves, HasFile, Asked
<1>2. ASSUME NEW s \in Sessions, ServeStopped(s) \/ OwnedServeEnds(s) PROVE SaveInv'
    BY <1>2, BackendSaves, Homes DEF ServeStopped, OwnedServeEnds
<1> QED BY <1>1, <1>2, MasterSaves, BackendSaves, CallerSaves, SaverSaves, StudioSaves, KeySaves DEF Next

\* A command that was told to save and succeeds has put the edits of its script in the
\* place file, for any number of sessions, backends, lost keystrokes and other saves.
THEOREM SuccessMeansSaved == Spec => []SuccessIsSaved
<1>1. Init => SaveInv
    BY Homes DEF Init, SaveInv, CmdsAsked, SaveAsked, SaveWatched, SaveDone, Held, Good, Moved, Asked, Answered, Callers
<1>2. SaveInv => SuccessIsSaved
    BY DEF SaveInv, SaveDone, SuccessIsSaved, Good, Answered
<1>3. Types /\ SaveInv /\ [Next]_vars => (Types /\ SaveInv)'
    BY TypesStep, SavesStep
<1> QED BY <1>1, <1>2, <1>3, TypesStart, PTL DEF Spec

=============================================================================
