---------------------------- MODULE ClientProofs ----------------------------
(***************************************************************************)
(* Proofs about the client: a stream of the JSON-RPC process has one end,  *)
(* a capture is finalized from a frame of its own time, a run hands on all *)
(* that its script wrote and leaves with the code it asked for, and every  *)
(* variable of the client keeps its type.                                  *)
(***************************************************************************)
EXTENDS MCClient, ScriptProofs, FiniteSetTheorems, TLAPS

-----------------------------------------------------------------------------
(* A stream has one end *)

RunLine(s) == [op |-> "run", stream |-> s]

\* The lines to come open no stream twice, and none that was opened before.
LinesFresh ==
    /\ lines \in Seq(Lines)
    /\ \A i, j \in 1 .. Len(lines) : lines[i] = lines[j] /\ lines[i].op = "run" => i = j
    /\ \A s \in Streams : \A i \in 1 .. Len(lines) : lines[i] = RunLine(s) => pump[s] = "none"

PumpTypes ==
    /\ pump \in [Streams -> {"none", "on", "leaving", "off"}]
    /\ feed \in [Streams -> Seq({"data", "done"})]
    /\ notes \in [Streams -> Seq({"data", "done", "canceled"})]

\* A pump that has not left its loop has sent output only.
OnlyData(s) == \A i \in 1 .. Len(notes[s]) : notes[s][i] = "data"
PumpTells == \A s \in Streams : pump[s] \in {"none", "on"} => OnlyData(s)

StreamInv == LinesFresh /\ PumpTypes /\ PumpTells /\ StreamEndsOnce

LEMMA StreamInit == DaemonInit => StreamInv
<1> SUFFICES ASSUME DaemonInit PROVE StreamInv
    OBVIOUS
<1>1. LinesFresh
    BY PlansAssumption, IdsAssumption DEF DaemonInit, LinesFresh
<1>2. PumpTypes
    BY DEF DaemonInit, PumpTypes
<1>3. PumpTells /\ StreamEndsOnce
    BY DEF DaemonInit, PumpTells, OnlyData, StreamEndsOnce
<1> QED BY <1>1, <1>2, <1>3 DEF StreamInv

\* An answered line leaves fresh lines behind.
LEMMA AnswerFresh ==
    ASSUME LinesFresh, lines # <<>>, Answer, pump' = pump
    PROVE  LinesFresh'
<1>1. lines' = Tail(lines) /\ lines' \in Seq(Lines) /\ Len(lines') = Len(lines) - 1
    BY DEF Answer, LinesFresh
<1>2. \A i \in 1 .. Len(lines') : lines'[i] = lines[i + 1] /\ i + 1 \in 1 .. Len(lines)
    BY <1>1 DEF LinesFresh
<1> QED BY <1>1, <1>2 DEF LinesFresh, RunLine

\* Steps that leave the streams alone and read no line.
LEMMA StreamsIdle ==
    ASSUME StreamInv, lines' = lines, UNCHANGED streamVars
    PROVE  StreamInv'
<1>1. UNCHANGED <<lines, pump, feed, notes>>
    BY DEF streamVars
<1>2. LinesFresh'
    BY <1>1 DEF StreamInv, LinesFresh
<1>3. PumpTypes'
    BY <1>1 DEF StreamInv, PumpTypes
<1>4. PumpTells' /\ StreamEndsOnce'
    BY <1>1 DEF StreamInv, PumpTells, OnlyData, StreamEndsOnce
<1> QED BY <1>2, <1>3, <1>4 DEF StreamInv

\* A line is answered that opens and cancels no stream.
LEMMA AnswerKeeps ==
    ASSUME StreamInv, lines # <<>>, Answer, UNCHANGED <<pump, feed, notes>>
    PROVE  StreamInv'
<1>1. LinesFresh'
    BY AnswerFresh DEF StreamInv
<1>2. (PumpTypes /\ PumpTells /\ StreamEndsOnce)'
    BY DEF StreamInv, PumpTypes, PumpTells, OnlyData, StreamEndsOnce
<1> QED BY <1>1, <1>2 DEF StreamInv

LEMMA TakeRunKeeps == StreamInv /\ TakeRun => StreamInv'
<1> SUFFICES ASSUME StreamInv, TakeRun PROVE StreamInv'
    OBVIOUS
<1>1. lines # <<>> /\ Answer
    BY DEF TakeRun, InHand
<1>2. CASE UNCHANGED <<streams, pump, run>>
    BY <1>1, <1>2, AnswerKeeps DEF TakeRun
<1>3. CASE pump' = [pump EXCEPT ![Line.stream] = "on"]
    <2> DEFINE new == Line.stream
    <2>1. lines[1] = Head(lines) /\ 1 \in 1 .. Len(lines) /\ lines[1] \in Lines
        BY <1>1 DEF StreamInv, LinesFresh
    <2>2. new \in Streams /\ lines[1] = RunLine(new) /\ lines[1].op = "run"
        BY <2>1 DEF TakeRun, InHand, Line, Lines, RunLine
    <2>3. pump[new] = "none"
        BY <2>1, <2>2 DEF StreamInv, LinesFresh
    <2>4. UNCHANGED <<feed, notes>>
        BY DEF TakeRun
    <2> HIDE DEF new
    <2>5. pump' = [pump EXCEPT ![new] = "on"]
        BY <1>3 DEF new
    <2>6. PumpTypes'
        BY <2>2, <2>4, <2>5 DEF StreamInv, PumpTypes
    <2>7. PumpTells' /\ StreamEndsOnce'
        <3>1. OnlyData(new)
            BY <2>2, <2>3 DEF StreamInv, PumpTells
        <3>2. \A s \in Streams : pump'[s] \in {"none", "on"} => OnlyData(s)
            BY <3>1, <2>5 DEF StreamInv, PumpTypes, PumpTells
        <3> QED BY <3>2, <2>4 DEF StreamInv, PumpTells, OnlyData, StreamEndsOnce
    <2>8. LinesFresh'
        <3>1. lines' = Tail(lines) /\ lines' \in Seq(Lines) /\ Len(lines') = Len(lines) - 1
            BY <1>1 DEF Answer, StreamInv, LinesFresh
        <3>2. \A i \in 1 .. Len(lines') : lines'[i] = lines[i + 1] /\ i + 1 \in 2 .. Len(lines)
            BY <3>1, <1>1 DEF StreamInv, LinesFresh
        <3>3. \A i, j \in 1 .. Len(lines') : lines'[i] = lines'[j] /\ lines'[i].op = "run" => i = j
            BY <3>1, <3>2 DEF StreamInv, LinesFresh
        <3>4. ASSUME NEW s \in Streams, NEW i \in 1 .. Len(lines'), lines'[i] = RunLine(s)
              PROVE  pump'[s] = "none"
            <4>1. lines[i + 1] = RunLine(s) /\ i + 1 \in 1 .. Len(lines) /\ i + 1 # 1
                BY <3>1, <3>2, <3>4 DEF StreamInv, LinesFresh
            <4>2. pump[s] = "none"
                BY <4>1 DEF StreamInv, LinesFresh
            <4>3. s # new
                BY <4>1, <2>1, <2>2 DEF StreamInv, LinesFresh
            <4> QED BY <4>2, <4>3, <2>5 DEF StreamInv, PumpTypes
        <3> QED BY <3>1, <3>3, <3>4 DEF LinesFresh
    <2> QED BY <2>6, <2>7, <2>8 DEF StreamInv
<1> QED BY <1>2, <1>3 DEF TakeRun

\* Steps of a run: its events only grow.
LEMMA RunKeeps ==
    ASSUME StreamInv, NEW s \in Streams, RunEmits(s) \/ RunFinishes(s)
    PROVE  StreamInv'
<1>1. PICK e \in {"data", "done"} : feed' = [feed EXCEPT ![s] = Append(@, e)]
    BY DEF RunEmits, RunFinishes
<1>2. UNCHANGED <<lines, pump, notes>>
    BY DEF RunEmits, RunFinishes, lineVars
<1>3. Append(feed[s], e) \in Seq({"data", "done"})
    BY DEF StreamInv, PumpTypes
<1>4. PumpTypes'
    BY <1>1, <1>2, <1>3 DEF StreamInv, PumpTypes
<1> QED BY <1>2, <1>4 DEF StreamInv, LinesFresh, PumpTells, OnlyData, StreamEndsOnce

\* A notification is appended while the pump is in its loop, which a last one ends.
LEMMA NotifyKeeps ==
    ASSUME StreamInv, NEW s \in Streams, NEW e \in {"data", "done", "canceled"}, NEW p \in {"on", "leaving"},
           pump[s] = "on", p = "on" => e = "data",
           notes' = [notes EXCEPT ![s] = Append(@, e)],
           pump' = [pump EXCEPT ![s] = p],
           UNCHANGED lines, feed' \in [Streams -> Seq({"data", "done"})]
    PROVE  StreamInv'
<1>1. OnlyData(s) /\ notes[s] \in Seq({"data", "done", "canceled"})
    BY DEF StreamInv, PumpTypes, PumpTells
<1>2. notes'[s] = Append(notes[s], e) /\ (\A t \in Streams : t # s => notes'[t] = notes[t])
    BY DEF StreamInv, PumpTypes
<1>3. pump'[s] = p /\ (\A t \in Streams : t # s => pump'[t] = pump[t])
    BY DEF StreamInv, PumpTypes
<1>4. /\ Len(notes'[s]) = Len(notes[s]) + 1
      /\ \A i \in 1 .. Len(notes[s]) : notes'[s][i] = "data"
      /\ notes'[s][Len(notes[s]) + 1] = e
    BY <1>1, <1>2 DEF OnlyData
<1>5. PumpTypes'
    <2>1. Append(notes[s], e) \in Seq({"data", "done", "canceled"})
        BY <1>1
    <2> QED BY <2>1 DEF StreamInv, PumpTypes
<1>6. PumpTells'
    <2>1. ASSUME p = "on" PROVE \A i \in 1 .. Len(notes'[s]) : notes'[s][i] = "data"
        BY <1>1, <1>4, <2>1
    <2>2. ASSUME NEW t \in Streams, pump'[t] \in {"none", "on"} PROVE OnlyData(t)'
        BY <2>1, <2>2, <1>2, <1>3 DEF StreamInv, PumpTells, OnlyData
    <2> QED BY <2>2 DEF PumpTells
<1>7. StreamEndsOnce'
    <2>1. \A i \in 1 .. Len(notes'[s]) - 1 : notes'[s][i] = "data"
        BY <1>1, <1>4
    <2> QED BY <2>1, <1>2 DEF StreamInv, StreamEndsOnce
<1>8. LinesFresh'
    <2>1. \A t \in Streams : pump[t] = "none" => pump'[t] = "none"
        BY <1>3
    <2> QED BY <2>1 DEF StreamInv, LinesFresh
<1> QED BY <1>5, <1>6, <1>7, <1>8 DEF StreamInv

LEMMA PumpKeeps ==
    ASSUME StreamInv, NEW s \in Streams, PumpCanceled(s) \/ PumpEvent(s) \/ PumpLeaves(s)
    PROVE  StreamInv'
<1>1. CASE PumpCanceled(s)
    <2>1. feed' \in [Streams -> Seq({"data", "done"})]
        BY <1>1 DEF PumpCanceled, StreamInv, PumpTypes
    <2> QED BY <1>1, <2>1, NotifyKeeps DEF PumpCanceled, lineVars
<1>2. CASE PumpEvent(s)
    <2>1. Head(feed[s]) \in {"data", "done"} /\ Tail(feed[s]) \in Seq({"data", "done"})
        BY <1>2 DEF PumpEvent, StreamInv, PumpTypes
    <2>2. feed' \in [Streams -> Seq({"data", "done"})]
        BY <1>2, <2>1 DEF PumpEvent, StreamInv, PumpTypes
    <2> DEFINE p == IF Head(feed[s]) = "done" THEN "leaving" ELSE "on"
    <2>3. p \in {"on", "leaving"} /\ (p = "on" => Head(feed[s]) = "data")
        BY <2>1
    <2>4. pump' = [pump EXCEPT ![s] = p]
        BY <1>2 DEF PumpEvent, StreamInv, PumpTypes
    <2> HIDE DEF p
    <2> QED BY <1>2, <2>1, <2>2, <2>3, <2>4, NotifyKeeps DEF PumpEvent, lineVars
<1>3. CASE PumpLeaves(s)
    <2>1. pump' = [pump EXCEPT ![s] = "off"] /\ pump[s] = "leaving" /\ UNCHANGED <<lines, feed, notes>>
        BY <1>3 DEF PumpLeaves, lineVars
    <2>2. PumpTypes'
        BY <2>1 DEF StreamInv, PumpTypes
    <2>3. \A t \in Streams : pump'[t] \in {"none", "on"} => pump'[t] = pump[t]
        BY <2>1 DEF StreamInv, PumpTypes
    <2>4. \A t \in Streams : pump[t] = "none" => pump'[t] = "none"
        BY <2>1 DEF StreamInv, PumpTypes
    <2>5. LinesFresh'
        BY <2>1, <2>4 DEF StreamInv, LinesFresh
    <2>6. PumpTells' /\ StreamEndsOnce'
        BY <2>1, <2>3 DEF StreamInv, PumpTells, OnlyData, StreamEndsOnce
    <2> QED BY <2>2, <2>5, <2>6 DEF StreamInv
<1> QED BY <1>1, <1>2, <1>3

\* Every other line, answered at once or left waiting.
LEMMA OtherLinesKeep ==
    ASSUME StreamInv,
           \/ TakeOpen \/ TakeMode \/ TakeMultiplayer \/ TakeConnect \/ TakeDisconnect \/ TakeEndTest
           \/ TakeClose \/ TakeOther \/ TakeCancel \/ CallReturns \/ WaitEnds \/ WaitTimesOut
    PROVE  StreamInv'
<1>1. UNCHANGED <<pump, feed, notes>>
    BY DEF TakeOpen, TakeMode, TakeMultiplayer, TakeConnect, TakeDisconnect, TakeEndTest, TakeClose,
           TakeOther, TakeCancel, CallReturns, LaunchAnswered, SnippetReturns, ClientLeft, TestEnded,
           StudioClosed, WaitEnds, WaitTimesOut, streamVars
<1>2. CASE lines' = lines
    BY <1>1, <1>2 DEF StreamInv, LinesFresh, PumpTypes, PumpTells, OnlyData, StreamEndsOnce
<1>3. CASE Answer
    <2>1. CASE lines = <<>>
        <3>1. lines' = <<>>
            BY <2>1, <1>3 DEF Answer
        <3>2. LinesFresh'
            BY <3>1 DEF LinesFresh
        <3> QED BY <1>1, <3>2 DEF StreamInv, PumpTypes, PumpTells, OnlyData, StreamEndsOnce
    <2>2. CASE lines # <<>>
        BY <1>1, <1>3, <2>2, AnswerKeeps
    <2> QED BY <2>1, <2>2
<1>4. lines' = lines \/ Answer
    BY DEF TakeOpen, TakeMode, TakeMultiplayer, TakeConnect, TakeDisconnect, TakeEndTest, TakeClose,
           TakeOther, TakeCancel, CallReturns, LaunchAnswered, SnippetReturns, ClientLeft, TestEnded,
           StudioClosed, WaitEnds, WaitTimesOut, Call, Wait
<1> QED BY <1>2, <1>3, <1>4

LEMMA StreamInvariant == DaemonSpec => []StreamInv
<1>1. StreamInv /\ [DaemonNext]_daemonVars => StreamInv'
    <2> SUFFICES ASSUME StreamInv, [DaemonNext]_daemonVars PROVE StreamInv'
        OBVIOUS
    <2>1. CASE TakeLine \/ CallReturns \/ WaitEnds \/ WaitTimesOut
        BY <2>1, TakeRunKeeps, OtherLinesKeep DEF TakeLine
    <2>2. CASE World \/ UNCHANGED daemonVars
        BY <2>2, StreamsIdle DEF World, daemonVars, lineVars
    <2>3. CASE \E s \in Streams :
                  RunEmits(s) \/ RunFinishes(s) \/ PumpCanceled(s) \/ PumpEvent(s) \/ PumpLeaves(s)
        BY <2>3, RunKeeps, PumpKeeps
    <2> QED BY <2>1, <2>2, <2>3 DEF DaemonNext
<1> QED BY <1>1, StreamInit, PTL DEF DaemonSpec

\* However lines, events and cancels cross, a stream's notifications end with one
\* terminal notification and nothing follows it.
THEOREM StreamsEndOnce == DaemonSpec => []StreamEndsOnce
<1>1. StreamInv => StreamEndsOnce
    BY DEF StreamInv
<1> QED BY <1>1, StreamInvariant, PTL

-----------------------------------------------------------------------------
(* A capture's frame *)

\* What a capture in progress may choose from has been written since it began.
NewIsRecent ==
    \A c \in Captures : stage[c] \in {"begun", "shot"} =>
        \A f \in frames \ before[c] : f.of \in since[c]

CaptureTypes ==
    /\ stage \in [Captures -> {"idle", "begun", "shot", "done", "failed"}]
    /\ frames \subseteq Frame
    /\ before \in [Captures -> SUBSET Frame]
    /\ got \in [Captures -> SUBSET Frame]
    /\ since \in [Captures -> SUBSET Captures]

\* A capture that is still under way has no frame yet.
NoneYet == \A c \in Captures : stage[c] \in {"idle", "begun", "shot"} => got[c] = {}

CaptureInv == CaptureTypes /\ NewIsRecent /\ NoneYet /\ FrameIsRecent

LEMMA CaptureInit == CapturesInit => CaptureInv
<1> SUFFICES ASSUME CapturesInit PROVE CaptureInv
    OBVIOUS
<1>1. CaptureTypes
    BY CapturesAssumption DEF CapturesInit, CaptureTypes, Frame, Own
<1>2. NewIsRecent /\ NoneYet /\ FrameIsRecent
    BY DEF CapturesInit, NewIsRecent, NoneYet, FrameIsRecent
<1> QED BY <1>1, <1>2 DEF CaptureInv

LEMMA BeginKeeps == ASSUME CaptureInv, NEW c \in Captures, CaptureBegin(c) PROVE CaptureInv'
BY DEF CaptureInv, CaptureTypes, NewIsRecent, NoneYet, FrameIsRecent, CaptureBegin

LEMMA ShootKeeps == ASSUME CaptureInv, NEW c \in Captures, Shoot(c) PROVE CaptureInv'
BY DEF CaptureInv, CaptureTypes, NewIsRecent, NoneYet, FrameIsRecent, Shoot

LEMMA GivesUpKeeps == ASSUME CaptureInv, NEW c \in Captures, CollectGivesUp(c) PROVE CaptureInv'
BY DEF CaptureInv, CaptureTypes, NewIsRecent, NoneYet, FrameIsRecent, CollectGivesUp

\* A scan settles on a candidate: new, whole and of the capture's size.
LEMMA ScansKeeps == ASSUME CaptureInv, NEW c \in Captures, CollectScans(c) PROVE CaptureInv'
<1>1. CASE got' = got
    BY <1>1 DEF CaptureInv, CaptureTypes, NewIsRecent, NoneYet, FrameIsRecent, CollectScans
<1>2. CASE /\ \A f \in Select(c) : f.whole
           /\ got' = [got EXCEPT ![c] = Select(c)]
           /\ stage' = [stage EXCEPT ![c] = "done"]
    <2>1. UNCHANGED <<frames, before, since>> /\ stage[c] = "shot"
        BY DEF CollectScans
    <2>2. Select(c) \subseteq Frame
        BY DEF Select, CaptureInv, CaptureTypes
    <2>3. \A f \in Select(c) : f.whole /\ f.of \in since[c] /\ SizeOf[f.of] = SizeOf[c]
        BY <1>2, <2>1 DEF Select, CaptureInv, NewIsRecent
    <2>4. CaptureTypes'
        BY <1>2, <2>1, <2>2 DEF CaptureInv, CaptureTypes
    <2> QED BY <1>2, <2>1, <2>3, <2>4 DEF CaptureInv, CaptureTypes, NewIsRecent, NoneYet, FrameIsRecent
<1> QED BY <1>1, <1>2 DEF CollectScans

\* A frame that is written counts for every capture under way.
LEMMA WritesKeeps ==
    ASSUME CaptureInv, NEW c \in Captures, NEW whole \in BOOLEAN, EngineWrites(c, whole)
    PROVE  CaptureInv'
<1>1. Own(c, whole) \in Frame /\ Own(c, whole).of = c
    BY DEF Frame, Own
<1>2. frames' \subseteq frames \cup {Own(c, whole)} /\ UNCHANGED <<stage, before, got>>
    BY DEF EngineWrites
<1>3. \A d \in Captures : /\ since'[d] \subseteq since[d] \cup {c} /\ since[d] \subseteq since'[d]
                          /\ stage[d] \in {"begun", "shot"} => c \in since'[d]
    BY DEF EngineWrites, CaptureInv, CaptureTypes
<1>4. CaptureTypes'
    BY <1>1, <1>2 DEF CaptureInv, CaptureTypes, EngineWrites
<1>5. NewIsRecent'
    BY <1>1, <1>2, <1>3 DEF CaptureInv, NewIsRecent
<1> QED BY <1>2, <1>3, <1>4, <1>5 DEF CaptureInv, NoneYet, FrameIsRecent

LEMMA CaptureInvariant == CapturesSpec => []CaptureInv
<1>1. CaptureInv /\ [CapturesNext]_captureVars => CaptureInv'
    <2> SUFFICES ASSUME CaptureInv, [CapturesNext]_captureVars PROVE CaptureInv'
        OBVIOUS
    <2>1. CASE UNCHANGED captureVars
        BY <2>1 DEF captureVars, CaptureInv, CaptureTypes, NewIsRecent, NoneYet, FrameIsRecent
    <2>2. CASE CapturesNext
        BY <2>2, BeginKeeps, ShootKeeps, ScansKeeps, GivesUpKeeps, WritesKeeps DEF CapturesNext
    <2> QED BY <2>1, <2>2
<1> QED BY <1>1, CaptureInit, PTL DEF CapturesSpec

\* A capture is finalized from a whole frame of its size, written while it was
\* under way, however many captures share the directory.
THEOREM FramesAreRecent == CapturesSpec => []FrameIsRecent
<1>1. CaptureInv => FrameIsRecent
    BY DEF CaptureInv
<1> QED BY <1>1, CaptureInvariant, PTL

-----------------------------------------------------------------------------
(* A run's client *)

EventTypes == {"call", "done", "failed", "killed", "complete", "disconnect"}
EndTypes == {"done", "failed", "killed"}

ClientTypes ==
    /\ RunTypeOK
    /\ script \in [Lanes -> Seq(Calls)]
    /\ events \in Seq([type : EventTypes, lane : Lanes \cup {None}])
    /\ responses \in Seq(Lanes \cup {"kill"})
    /\ captured \in Seq(Pieces) /\ seen \in Seq(Pieces) /\ written \in Seq(Pieces)
    /\ killing \in BOOLEAN

\* A lane's call is in one place: on its way, in its task, or answered.
AskedHasCall == \A l \in asked : script[l] # <<>>
CallOnItsWay ==
    \A i \in 1 .. Len(events) : events[i].type = "call" =>
        /\ events[i].lane \in asked /\ rpc[events[i].lane].pc = "idle"
        /\ \A k \in 1 .. Len(responses) : responses[k] # events[i].lane
        /\ \A j \in 1 .. Len(events) :
               events[j].type = "call" /\ events[j].lane = events[i].lane => j = i
TaskCalls(pc) ==
    CASE pc = "opening" -> {"open"} [] pc = "spawned" -> {"create"} [] pc = "reading" -> {"read"}
      [] pc = "feeding" -> {"feed"} [] pc = "typing" -> {"input"}
      [] pc = "waiting" -> {"run", "wait"} [] pc = "export" -> {"export"}
      [] OTHER -> {"open", "write", "close", "discard", "export", "read", "feed", "input", "create", "run",
                   "wait", "kill", "exit"}
CallInTask ==
    \A l \in Lanes : rpc[l].pc # "idle" =>
        /\ l \in asked /\ CallOf(l).op \in TaskCalls(rpc[l].pc)
        /\ \A k \in 1 .. Len(responses) : responses[k] # l
CallAnswered ==
    \A k \in 1 .. Len(responses) : responses[k] # "kill" =>
        /\ responses[k] \in asked
        /\ \A j \in 1 .. Len(responses) : responses[j] = responses[k] => j = k
CallPlaces == AskedHasCall /\ CallOnItsWay /\ CallInTask /\ CallAnswered

\* The stream: calls, the script's end, complete, and the end of the stream.
Follows(a, b) ==
    \/ a = "call"
    \/ a \in EndTypes /\ b \in {"complete", "disconnect"}
    \/ a = "complete" /\ b = "disconnect"
StreamOrdered ==
    /\ phase = "running" => \A i \in 1 .. Len(events) : events[i].type = "call"
    /\ \A i, j \in 1 .. Len(events) : i < j => Follows(events[i].type, events[j].type)
    /\ \A i \in 2 .. Len(events) : events[i].type = "complete" => events[i - 1].type \in EndTypes
    /\ \A i \in 1 .. Len(events) : events[i].type = "disconnect" => phase = "lost"
    /\ loop \in {"judge", "await"} =>
           /\ phase # "running"
           /\ \A i \in 1 .. Len(events) : events[i].type \in {"complete", "disconnect"}

\* No call is left to serve and no output to forward, and the code is an exit's
\* if an exit ended the run.
Exited(code) == \E l \in asked : CallOf(l).op = "exit" /\ CallOf(l).code = code
Settled ==
    /\ captured = <<>> /\ \A l \in Lanes : rpc[l].pc = "idle"
    /\ killing => Exited(result.code)
ExitKnown ==
    /\ exitAs.requested => Exited(exitAs.code)
    /\ (\E k \in 1 .. Len(responses) : responses[k] = "kill") => exitAs.requested
SettledAtEnd ==
    /\ loop = "await" /\ killing => Exited(result.code)
    /\ (\E i \in 1 .. Len(events) : i = 1 /\ events[i].type = "complete") /\ loop \notin {"judge", "await"} => Settled
    /\ result.how = "complete" => loop \in {"flush", "over"} /\ phase # "running" /\ Settled
OutputKept == written = seen \o captured

\* Who is calling, and what is answered, about a file.
Calling(l, ops, f) == l \in asked /\ CallOf(l).op \in ops /\ CallOf(l).on = f
Answers(i, ops, f) ==
    responses[i] # "kill" /\ CallOf(responses[i]).op \in ops /\ CallOf(responses[i]).on = f

\* A handle is opened once, and known before it is used.
OneOpener ==
    \A f \in Files :
        /\ owed[f].state # "unknown" => \A l \in Lanes : ~ Calling(l, {"open"}, f)
        /\ owed[f].state = "unknown" => \A l \in Lanes : ~ Calling(l, {"write", "close", "discard", "export"}, f)
        /\ \A l, m \in Lanes : Calling(l, {"open"}, f) /\ Calling(m, {"open"}, f) => l = m

Begun(c) == IF c.mode = "a" THEN contents[c.on] ELSE <<>>
Opening(l) ==
    /\ rpc[l].pc = "opening" => rpc[l].buf = Begun(CallOf(l))
    /\ l \in asked /\ CallOf(l).op = "open" /\ (\E i \in 1 .. Len(responses) : responses[i] = l) =>
           open[CallOf(l).on].state = CallOf(l).mode /\ open[CallOf(l).on].buf = Begun(CallOf(l))
HandleOpening == loop # "over" => \A l \in Lanes : Opening(l)
Taken(l) ==
    rpc[l].pc = "export" =>
        owed[CallOf(l).on].state \in {"w", "closed"} /\ ~ IsOpen(CallOf(l).on)
HandleTaken == loop # "over" => \A l \in Lanes : Taken(l)
HandleOpen(f) ==
    IsOpen(f) =>
        \/ owed[f].state = "unknown" /\ \E l \in Lanes : Calling(l, {"open"}, f)
        \/ /\ loop # "over" /\ owed[f].state = open[f].state
           /\ \A i \in 1 .. Len(responses) :
                  ~ Answers(i, {"close", "discard"}, f) /\ (open[f].state = "w" => ~ Answers(i, {"export"}, f))
\* What the script may not rely on for now.
Unsure(f) ==
    \E l \in Lanes : Calling(l, {"open", "discard"}, f) \/ (owed[f].state # "a" /\ Calling(l, {"export"}, f))
HandleShut(f) ==
    loop # "over" /\ phase = "running" /\ owed[f].state \in {"w", "a"} /\ ~ IsOpen(f) /\ ~ Unsure(f) =>
        \E i \in 1 .. Len(responses) : Answers(i, {"close"}, f)

\* What a file holds, or will once it is flushed.
Held(f) == IF IsOpen(f) THEN open[f].buf ELSE contents[f]
Within(s, t) == Len(s) <= Len(t) /\ \A n \in 1 .. Len(s) : s[n] = t[n]

\* The writes that were served and not answered yet, each at its place in the file.
Pending(i, f) == Answers(i, {"write"}, f) /\ \A j \in 1 .. i - 1 : ~ Answers(j, {"close"}, f)
Placed(at, f) ==
    /\ \A i \in 1 .. Len(responses) : Pending(i, f) =>
           /\ Len(owed[f].buf) < at[responses[i]]
           /\ Held(f)[at[responses[i]]] = CallOf(responses[i]).data
           /\ \A j \in 1 .. i - 1 : Pending(j, f) => at[responses[j]] < at[responses[i]]
    /\ \A n \in Len(owed[f].buf) + 1 .. Len(Held(f)) :
           \E i \in 1 .. Len(responses) : Pending(i, f) /\ at[responses[i]] = n
FileKept(f) ==
    loop # "over" /\ ~ Unsure(f) =>
        /\ Within(owed[f].buf, Held(f))
        /\ phase = "running" /\ owed[f].state \in {"w", "a"} =>
               \E at \in [Lanes -> 0 .. Len(Held(f))] : Placed(at, f)
FilesKept == \A f \in Files : HandleOpen(f) /\ HandleShut(f) /\ FileKept(f)

\* Inductive: what the properties say, where each call is, how the stream is
\* ordered, what is settled once the end has been judged, and what each open
\* handle holds against what its script has been told.
RunInv ==
    /\ ClientTypes /\ CallPlaces /\ StreamOrdered
    /\ ExitKnown /\ SettledAtEnd /\ OutputKept
    /\ OneOpener /\ HandleOpening /\ HandleTaken /\ FilesKept /\ FilesFlushed

-----------------------------------------------------------------------------
(* Calls and sequences *)

\* What a call carries.
LEMMA CallShape ==
    ASSUME NEW c \in Calls
    PROVE  /\ c.op \in TaskCalls("ready")
           /\ c.op = "open" => c.on \in Files /\ c.mode \in {"w", "a"}
           /\ c.op = "write" => c.data \in Pieces
           /\ c.op \in {"close", "discard", "export"} => c.on \in Files
           /\ c.op \in {"read", "feed", "create", "run", "wait", "kill"} => c.on \in Children
           /\ c.op = "exit" => c.code \in Codes
<1>1. CASE c \in [op : {"open"}, on : Files, mode : {"w", "a"}]
    BY <1>1 DEF TaskCalls
<1>2. CASE c \in [op : {"write"}, on : Files \cup {"stdout"}, data : Pieces]
    BY <1>2 DEF TaskCalls
<1>3. CASE c \in [op : {"close", "discard", "export"}, on : Files]
    BY <1>3 DEF TaskCalls
<1>4. CASE c \in [op : {"read", "feed", "create", "run", "wait", "kill"}, on : Children]
    BY <1>4 DEF TaskCalls
<1>5. CASE c \in [op : {"exit"}, code : Codes]
    BY <1>5 DEF TaskCalls
<1>6. CASE c \in [op : {"input"}]
    BY <1>6 DEF TaskCalls
<1> QED BY <1>1, <1>2, <1>3, <1>4, <1>5, <1>6 DEF Calls

LEMMA LaneCalls ==
    ASSUME NEW s \in Seq(Calls), s # <<>>
    PROVE  Head(s) \in Calls
OBVIOUS

\* The calls a task serves.
LEMMA TaskCall ==
    ASSUME ClientTypes, CallPlaces, NEW l \in Lanes, rpc[l].pc # "idle"
    PROVE  l \in asked /\ CallOf(l) \in Calls
BY LaneCalls DEF ClientTypes, CallPlaces, CallInTask, AskedHasCall, CallOf

\* The call of a lane suspended in one.
LEMMA AskedCall ==
    ASSUME ClientTypes, AskedHasCall, NEW l \in asked
    PROVE  l \in Lanes /\ CallOf(l) \in Calls
BY LaneCalls DEF ClientTypes, RunTypeOK, AskedHasCall, CallOf

\* Sequences that grow at the end, or lose their head.
LEMMA Appended ==
    ASSUME NEW S, NEW s \in Seq(S), NEW x \in S
    PROVE  /\ Append(s, x) \in Seq(S) /\ Len(Append(s, x)) = Len(s) + 1 /\ Len(s) \in Nat
           /\ \A i \in 1 .. Len(s) : Append(s, x)[i] = s[i]
           /\ Append(s, x)[Len(s) + 1] = x
OBVIOUS

LEMMA Appended2 ==
    ASSUME NEW S, NEW s \in Seq(S), NEW x \in S, NEW y \in S
    PROVE  /\ s \o <<x, y>> \in Seq(S) /\ Len(s \o <<x, y>>) = Len(s) + 2 /\ Len(s) \in Nat
           /\ \A i \in 1 .. Len(s) : (s \o <<x, y>>)[i] = s[i]
           /\ (s \o <<x, y>>)[Len(s) + 1] = x /\ (s \o <<x, y>>)[Len(s) + 2] = y
OBVIOUS

LEMMA Queued ==
    ASSUME NEW S, NEW s \in Seq(S), NEW x \in S, NEW y \in S
    PROVE  /\ s \o <<x>> \o <<>> = Append(s, x)
           /\ s \o <<x>> \o <<y>> = Append(Append(s, x), y)
<1>1. s \o <<x>> = Append(s, x)
    OBVIOUS
<1>2. \A t \in Seq(S) : t \o <<>> = t /\ t \o <<y>> = Append(t, y)
    OBVIOUS
<1> QED BY <1>1, <1>2, Appended

LEMMA Tailed ==
    ASSUME NEW S, NEW s \in Seq(S), s # <<>>
    PROVE  /\ Head(s) \in S /\ Head(s) = s[1] /\ Tail(s) \in Seq(S)
           /\ Len(Tail(s)) = Len(s) - 1 /\ Len(s) \in Nat \ {0}
           /\ \A i \in 1 .. Len(s) - 1 : Tail(s)[i] = s[i + 1]
OBVIOUS

LEMMA Truncated ==
    ASSUME NEW S, NEW s \in Seq(S), NEW n \in 0 .. Len(s), NEW x \in S
    PROVE  LET t == Append(SubSeq(s, 1, n), x)
           IN /\ t \in Seq(S) /\ Len(t) = n + 1 /\ t[n + 1] = x
              /\ \A i \in 1 .. n : t[i] = s[i]
<1>1. SubSeq(s, 1, n) \in Seq(S) /\ Len(SubSeq(s, 1, n)) = n /\ \A i \in 1 .. n : SubSeq(s, 1, n)[i] = s[i]
    OBVIOUS
<1> QED BY <1>1, Appended

-----------------------------------------------------------------------------
(* The types of a run *)

\* The types: the start, then each kind of step.
LEMMA TypesInit == RunInit => ClientTypes
<1> SUFFICES ASSUME RunInit PROVE ClientTypes
    OBVIOUS
<1>1. RunTypeOK
    BY ScriptsAssumption DEF RunInit, RunTypeOK, Idle, NotOpen, NoChild, NoResult, Pieces, Codes
<1>2. script \in [Lanes -> Seq(Calls)]
    BY ScriptsAssumption DEF RunInit
<1>3. \A S : <<>> \in Seq(S)
    OBVIOUS
<1>4. events \in Seq([type : EventTypes, lane : Lanes \cup {None}]) /\ responses \in Seq(Lanes \cup {"kill"})
    BY <1>3 DEF RunInit
<1>5. captured \in Seq(Pieces) /\ seen \in Seq(Pieces) /\ written \in Seq(Pieces) /\ killing \in BOOLEAN
    BY <1>3 DEF RunInit
<1> QED BY <1>1, <1>2, <1>4, <1>5 DEF ClientTypes

\* What a task does to its own state: it ends and its answer is queued, or it goes on.
Ends(l) ==
    /\ rpc' = [rpc EXCEPT ![l] = Idle]
    /\ responses' = Append(responses, l)
EndsRun(l) ==
    /\ CallOf(l).op = "exit"
    /\ rpc' = [rpc EXCEPT ![l] = Idle]
    /\ responses' = Append(Append(responses, l), "kill")
    /\ exitAs' = [code |-> CallOf(l).code, requested |-> TRUE]
Phases == {"idle", "ready", "opening", "spawned", "reading", "typing", "feeding", "waiting", "export"}
Stages == {"opening", "spawned", "reading", "typing", "feeding", "waiting", "export"}
GoesOn(l) ==
    /\ responses' = responses
    /\ \E pc \in Stages, buf \in Seq(Pieces) :
           CallOf(l).op \in TaskCalls(pc) /\ rpc' = [rpc EXCEPT ![l] = [pc |-> pc, buf |-> buf]]

LEMMA Answered ==
    ASSUME ClientTypes, NEW l \in Lanes, Respond(l, <<>>)
    PROVE  Ends(l)
BY Queued DEF Respond, Ends, ClientTypes

LEMMA Reached ==
    ASSUME ClientTypes, NEW l \in Lanes, NEW pc \in Stages, NEW buf \in Seq(Pieces),
           Reaches(l, pc, buf), CallOf(l).op \in TaskCalls(pc)
    PROVE  GoesOn(l)
BY DEF Reaches, GoesOn

\* How a task goes on: it waits, or it answers, and an exit also asks for the kill.
LEMMA TaskEffect ==
    ASSUME ClientTypes, CallPlaces, NEW l \in Lanes, TaskStep(l)
    PROVE  /\ rpc[l].pc # "idle"
           /\ EndsRun(l) \/ (exitAs' = exitAs /\ (Ends(l) \/ GoesOn(l)))
<1>0. \A m \in Lanes : rpc[m].pc # "idle" => CallOf(m) \in Calls
    BY TaskCall
<1>1. CASE OpenLoads(l)
    <2>1. rpc[l].pc = "ready" /\ CallOf(l).op = "open" /\ CallOf(l).on \in Files
        BY <1>0, <1>1, CallShape DEF OpenLoads, Serving
    <2>2. contents[CallOf(l).on] \in Seq(Pieces)
        BY <2>1 DEF ClientTypes, RunTypeOK
    <2> DEFINE buf == IF CallOf(l).mode = "a" THEN contents[CallOf(l).on] ELSE <<>>
    <2>3. buf \in Seq(Pieces) /\ Reaches(l, "opening", buf)
        BY <1>1, <2>2 DEF OpenLoads
    <2> HIDE DEF buf
    <2> QED BY <1>1, <2>1, <2>3, Reached DEF OpenLoads, Stages, TaskCalls
<1>2. CASE OpenEnters(l)
    BY <1>2, Answered DEF OpenEnters
<1>3. CASE Write(l)
    BY <1>3, Answered DEF Write, Serving
<1>4. CASE CloseHandle(l)
    BY <1>4, Answered DEF CloseHandle, Serving
<1>5. CASE ExportTakes(l)
    <2>1. rpc[l].pc = "ready" /\ CallOf(l).op = "export" /\ CallOf(l).on \in Files
        BY <1>0, <1>5, CallShape DEF ExportTakes, Serving
    <2>2. open[CallOf(l).on].buf \in Seq(Pieces)
        BY <2>1 DEF ClientTypes, RunTypeOK
    <2>3. Respond(l, <<>>) \/ \E buf \in Seq(Pieces) : Reaches(l, "export", buf)
        BY <1>5, <2>2 DEF ExportTakes
    <2> QED BY <1>5, <2>1, <2>3, Reached, Answered DEF ExportTakes, Stages, TaskCalls
<1>6. CASE ExportWrites(l)
    BY <1>6, Answered DEF ExportWrites
<1>7. CASE Read(l)
    <2>1. rpc[l].pc = "ready" /\ CallOf(l).op = "read"
        BY <1>7 DEF Read, Serving
    <2>2. Respond(l, <<>>) \/ Reaches(l, "reading", <<>>)
        BY <1>7 DEF Read
    <2>3. <<>> \in Seq(Pieces) /\ "reading" \in Stages /\ CallOf(l).op \in TaskCalls("reading")
        BY <2>1 DEF Stages, TaskCalls
    <2> QED BY <1>7, <2>1, <2>2, <2>3, Reached, Answered DEF Read
<1>8. CASE ReadReturns(l)
    BY <1>8, Answered DEF ReadReturns
<1>9. CASE CreateSpawns(l)
    <2>1. <<>> \in Seq(Pieces) /\ "spawned" \in Stages /\ CallOf(l).op \in TaskCalls("spawned")
        BY <1>9 DEF CreateSpawns, Serving, Stages, TaskCalls
    <2> QED BY <1>9, <2>1, Reached DEF CreateSpawns, Serving
<1>10. CASE CreateEnters(l)
    BY <1>10, Answered DEF CreateEnters
<1>11. CASE RunChild(l)
    <2>1. <<>> \in Seq(Pieces) /\ "waiting" \in Stages /\ CallOf(l).op \in TaskCalls("waiting")
        BY <1>11 DEF RunChild, Serving, Stages, TaskCalls
    <2> QED BY <1>11, <2>1, Reached DEF RunChild, Serving
<1>12. CASE WaitTakes(l)
    <2>1. rpc[l].pc = "ready" /\ CallOf(l).op = "wait"
        BY <1>12 DEF WaitTakes, Serving
    <2>2. Respond(l, <<>>) \/ Reaches(l, "waiting", <<>>)
        BY <1>12 DEF WaitTakes
    <2>3. <<>> \in Seq(Pieces) /\ "waiting" \in Stages /\ CallOf(l).op \in TaskCalls("waiting")
        BY <2>1 DEF Stages, TaskCalls
    <2> QED BY <1>12, <2>1, <2>2, <2>3, Reached, Answered DEF WaitTakes
<1>13. CASE WaitReturns(l)
    BY <1>13, Answered DEF WaitReturns
<1>14. CASE KillChild(l)
    BY <1>14, Answered DEF KillChild, Serving
<1>15. CASE Exit(l)
    <2>1. responses' = Append(Append(responses, l), "kill")
        BY <1>15, Queued DEF Exit, Respond, ClientTypes
    <2>2. rpc[l].pc = "ready" /\ CallOf(l).op = "exit" /\ rpc' = [rpc EXCEPT ![l] = Idle]
        BY <1>15 DEF Exit, Serving, Respond
    <2>3. exitAs' = [code |-> CallOf(l).code, requested |-> TRUE]
        BY <1>15 DEF Exit
    <2> QED BY <2>1, <2>2, <2>3 DEF EndsRun
<1>16. CASE Feed(l)
    <2>1. rpc[l].pc = "ready" /\ CallOf(l).op = "feed"
        BY <1>16 DEF Feed, Serving
    <2>2. Respond(l, <<>>) \/ Reaches(l, "feeding", <<>>)
        BY <1>16 DEF Feed
    <2>3. <<>> \in Seq(Pieces) /\ "feeding" \in Stages /\ CallOf(l).op \in TaskCalls("feeding")
        BY <2>1 DEF Stages, TaskCalls
    <2> QED BY <1>16, <2>1, <2>2, <2>3, Reached, Answered DEF Feed
<1>17. CASE FeedReturns(l)
    BY <1>17, Answered DEF FeedReturns
<1>18. CASE ReadInput(l)
    <2>1. <<>> \in Seq(Pieces) /\ "typing" \in Stages /\ CallOf(l).op \in TaskCalls("typing")
        BY <1>18 DEF ReadInput, Serving, Stages, TaskCalls
    <2> QED BY <1>18, <2>1, Reached DEF ReadInput, Serving
<1>19. CASE InputReturns(l)
    BY <1>19, Answered DEF InputReturns
<1> QED BY <1>1, <1>2, <1>3, <1>4, <1>5, <1>6, <1>7, <1>8, <1>9, <1>10, <1>11, <1>12, <1>13, <1>14, <1>15,
           <1>16, <1>17, <1>18, <1>19 DEF TaskStep

\* The file the call of a task is about, if it is about one.
LEMMA TaskFile ==
    ASSUME ClientTypes, CallPlaces, NEW l \in Lanes, rpc[l].pc # "idle"
    PROVE  /\ CallOf(l).op \in {"open", "close", "discard", "export"} => CallOf(l).on \in Files
           /\ CallOf(l).op = "open" => CallOf(l).mode \in {"w", "a"}
           /\ CallOf(l).op = "write" => CallOf(l).data \in Pieces
           /\ CallOf(l).op \in {"read", "feed", "create", "run", "wait", "kill"} => CallOf(l).on \in Children
           /\ CallOf(l).op = "exit" => CallOf(l).code \in Codes
BY TaskCall, CallShape

LEMMA TaskTypes ==
    ASSUME ClientTypes, CallPlaces, NEW l \in Lanes, TaskStep(l)
    PROVE  ClientTypes'
<1> DEFINE Files3 == /\ open' \in [Files -> [state : {"closed", "w", "a"}, buf : Seq(Pieces)]]
                     /\ contents' \in [Files -> Seq(Pieces)]
           Kids3 == kids' \in [Children -> [state : {"none", "alive", "ended"}, held : BOOLEAN,
                                            fed : BOOLEAN, out : {0, 1}]]
           Locks3 == lock' \in Lanes \cup {None} /\ \A m \in Lanes : lock' = m <=> rpc'[m].pc \in {"reading", "feeding"}
           Output3 == captured' \in Seq(Pieces) /\ written' \in Seq(Pieces)
<1>0. RunTypeOK /\ rpc[l].pc # "idle" /\ (EndsRun(l) \/ (exitAs' = exitAs /\ (Ends(l) \/ GoesOn(l))))
    BY TaskEffect DEF ClientTypes
<1>f. /\ CallOf(l).op \in {"open", "close", "discard", "export"} => CallOf(l).on \in Files
      /\ CallOf(l).op = "open" => CallOf(l).mode \in {"w", "a"}
      /\ CallOf(l).op = "write" => CallOf(l).data \in Pieces
      /\ CallOf(l).op \in {"read", "feed", "create", "run", "wait", "kill"} => CallOf(l).on \in Children
      /\ CallOf(l).op = "exit" => CallOf(l).code \in Codes
    BY <1>0, TaskFile
<1>c. CallOf(l).op \in TaskCalls(rpc[l].pc)
    BY <1>0 DEF CallPlaces, CallInTask
<1>r. rpc' \in [Lanes -> [pc : Phases, buf : Seq(Pieces)]]
    <2> DEFINE T == [pc : Phases, buf : Seq(Pieces)]
    <2>1. Idle \in T /\ \A pc \in Stages, buf \in Seq(Pieces) : [pc |-> pc, buf |-> buf] \in T
        BY DEF Idle, Stages, Phases
    <2>2. rpc \in [Lanes -> T]
        BY <1>0 DEF RunTypeOK, Phases
    <2>3. \E v \in T : rpc' = [rpc EXCEPT ![l] = v]
        <3> HIDE DEF T
        <3> QED BY <1>0, <2>1 DEF EndsRun, Ends, GoesOn
    <2> HIDE DEF T
    <2>4. rpc' \in [Lanes -> T]
        BY <2>2, <2>3
    <2> QED BY <2>4 DEF T
<1>s. responses' \in Seq(Lanes \cup {"kill"})
    <2>1. responses \in Seq(Lanes \cup {"kill"}) /\ l \in Lanes \cup {"kill"} /\ "kill" \in Lanes \cup {"kill"}
        BY DEF ClientTypes
    <2>2. Append(responses, l) \in Seq(Lanes \cup {"kill"})
        BY <2>1, Appended
    <2>3. Append(Append(responses, l), "kill") \in Seq(Lanes \cup {"kill"})
        BY <2>1, <2>2, Appended
    <2> QED BY <1>0, <2>1, <2>2, <2>3 DEF EndsRun, Ends, GoesOn
<1>e. exitAs' \in [code : Codes, requested : BOOLEAN] /\ (exitAs.requested => exitAs'.requested)
    <2>1. exitAs \in [code : Codes, requested : BOOLEAN]
        BY <1>0 DEF RunTypeOK
    <2>2. CASE EndsRun(l)
        BY <1>f, <2>1, <2>2 DEF EndsRun
    <2> QED BY <1>0, <2>1, <2>2
<1>1. Files3
    <2>1. CASE OpenEnters(l)
        BY <1>0, <1>c, <1>f, <2>1 DEF OpenEnters, TaskCalls, RunTypeOK
    <2>2. CASE Write(l)
        <3>1. CASE CallOf(l).on \in Files /\ IsOpen(CallOf(l).on)
            <4>1. open' = [open EXCEPT ![CallOf(l).on].buf = Append(@, CallOf(l).data)] /\ contents' = contents
                BY <2>2, <3>1 DEF Write
            <4>2. open[CallOf(l).on].buf \in Seq(Pieces) /\ CallOf(l).data \in Pieces
                BY <1>0, <1>f, <2>2, <3>1 DEF RunTypeOK, Write, Serving
            <4>3. Append(open[CallOf(l).on].buf, CallOf(l).data) \in Seq(Pieces)
                BY <4>2, Appended
            <4> DEFINE T == [state : {"closed", "w", "a"}, buf : Seq(Pieces)]
                       v == [open[CallOf(l).on] EXCEPT !.buf = Append(@, CallOf(l).data)]
            <4>4. open \in [Files -> T] /\ open' = [open EXCEPT ![CallOf(l).on] = v]
                BY <1>0, <4>1 DEF RunTypeOK
            <4>5. v \in T
                <5>1. open[CallOf(l).on] \in T
                    BY <3>1, <4>4
                <5> QED BY <4>3, <5>1
            <4> HIDE DEF T, v
            <4>6. open' \in [Files -> T]
                BY <3>1, <4>4, <4>5
            <4> QED BY <1>0, <4>1, <4>6 DEF RunTypeOK, T
        <3>2. CASE ~ (CallOf(l).on \in Files /\ IsOpen(CallOf(l).on))
            BY <1>0, <2>2, <3>2 DEF RunTypeOK, Write
        <3> QED BY <3>1, <3>2
    <2>3. CASE CloseHandle(l)
        <3>1. CallOf(l).on \in Files /\ NotOpen \in [state : {"closed", "w", "a"}, buf : Seq(Pieces)]
            BY <1>f, <2>3 DEF CloseHandle, Serving, NotOpen
        <3>2. open' = [open EXCEPT ![CallOf(l).on] = NotOpen]
            BY <2>3 DEF CloseHandle
        <3>3. contents' = contents \/ contents' = [contents EXCEPT ![CallOf(l).on] = open[CallOf(l).on].buf]
            BY <2>3 DEF CloseHandle
        <3>4. open \in [Files -> [state : {"closed", "w", "a"}, buf : Seq(Pieces)]] /\ contents \in [Files -> Seq(Pieces)]
            BY <1>0 DEF RunTypeOK
        <3>5. open[CallOf(l).on].buf \in Seq(Pieces)
            BY <3>1, <3>4
        <3>6. open' \in [Files -> [state : {"closed", "w", "a"}, buf : Seq(Pieces)]]
            BY <3>1, <3>2, <3>4
        <3>7. contents' \in [Files -> Seq(Pieces)]
            BY <3>1, <3>3, <3>4, <3>5
        <3> QED BY <3>6, <3>7
    <2>4. CASE ExportTakes(l)
        <3>1. CallOf(l).on \in Files /\ NotOpen \in [state : {"closed", "w", "a"}, buf : Seq(Pieces)]
            BY <1>f, <2>4 DEF ExportTakes, Serving, NotOpen
        <3>2. contents' = contents /\ (open' = open \/ open' = [open EXCEPT ![CallOf(l).on] = NotOpen])
            BY <2>4 DEF ExportTakes
        <3>3. open \in [Files -> [state : {"closed", "w", "a"}, buf : Seq(Pieces)]] /\ contents \in [Files -> Seq(Pieces)]
            BY <1>0 DEF RunTypeOK
        <3> QED BY <3>1, <3>2, <3>3
    <2>5. CASE ExportWrites(l)
        BY <1>0, <1>c, <1>f, <2>5 DEF ExportWrites, TaskCalls, RunTypeOK
    <2>6. CASE UNCHANGED <<open, contents>>
        BY <1>0, <2>6 DEF RunTypeOK
    <2> QED BY <2>1, <2>2, <2>3, <2>4, <2>5, <2>6
        DEF TaskStep, OpenLoads, Feed, FeedReturns, Read, ReadReturns, ReadInput, InputReturns, CreateSpawns,
            CreateEnters, RunChild, WaitTakes, WaitReturns, KillChild, Exit
<1>2. Kids3
    <2>0. kids \in [Children -> [state : {"none", "alive", "ended"}, held : BOOLEAN, fed : BOOLEAN, out : {0, 1}]]
        BY <1>0 DEF RunTypeOK
    <2>1. CASE kids' = kids
        BY <2>0, <2>1
    <2>2. CASE CallOf(l).on \in Children /\ (CreateSpawns(l) \/ RunChild(l))
        <3>1. kids' = Spawned(CallOf(l).on, FALSE)
            BY <2>2 DEF CreateSpawns, RunChild
        <3>2. [NoChild EXCEPT !.state = "alive", !.held = FALSE]
                  \in [state : {"none", "alive", "ended"}, held : BOOLEAN, fed : BOOLEAN, out : {0, 1}]
            BY DEF NoChild
        <3> QED BY <2>0, <2>2, <3>1, <3>2 DEF Spawned
    <2>3. CASE CallOf(l).on \in Children /\ TakesOutput(CallOf(l).on)
        <3>1. kids[CallOf(l).on].out \in {0, 1}
            BY <2>0, <2>3
        <3> QED BY <2>0, <2>3, <3>1 DEF TakesOutput
    <2>4. CASE CallOf(l).on \in Children /\ (FeedReturns(l) \/ KillChild(l) \/ CreateEnters(l) \/ WaitTakes(l))
        <3> DEFINE c == CallOf(l).on
                   K == [state : {"none", "alive", "ended"}, held : BOOLEAN, fed : BOOLEAN, out : {0, 1}]
        <3>0. c \in Children /\ kids[c] \in K
            BY <2>0, <2>4
        <3>1. \/ kids' = kids \/ \E b \in BOOLEAN : kids' = [kids EXCEPT ![c] = [@ EXCEPT !.fed = b]]
              \/ kids' = [kids EXCEPT ![c] = [@ EXCEPT !.state = "ended"]]
              \/ \E b \in BOOLEAN : kids' = [kids EXCEPT ![c] = [@ EXCEPT !.held = b]]
            BY <2>4, <3>0 DEF FeedReturns, KillChild, CreateEnters, WaitTakes
        <3>2. /\ \A b \in BOOLEAN : [kids[c] EXCEPT !.fed = b] \in K
              /\ [kids[c] EXCEPT !.state = "ended"] \in K
              /\ \A b \in BOOLEAN : [kids[c] EXCEPT !.held = b] \in K
            BY <3>0
        <3>3. \E v \in K : kids' = [kids EXCEPT ![c] = v] \/ kids' = kids
            BY <3>0, <3>1, <3>2
        <3> HIDE DEF K, c
        <3>4. kids' \in [Children -> K]
            BY <2>0, <3>0, <3>3 DEF K
        <3> QED BY <3>4 DEF K
    <2>5. CASE ReadReturns(l) \/ Read(l)
        <3>1. CallOf(l).on \in Children
            BY <1>c, <1>f, <2>5 DEF ReadReturns, Read, Serving, TaskCalls
        <3> QED BY <2>1, <2>3, <2>5, <3>1 DEF ReadReturns, Read
    <2>6. CASE CreateSpawns(l) \/ RunChild(l) \/ FeedReturns(l) \/ KillChild(l) \/ CreateEnters(l) \/ WaitTakes(l)
        <3>1. CallOf(l).on \in Children
            BY <1>c, <1>f, <2>6
               DEF CreateSpawns, RunChild, FeedReturns, KillChild, CreateEnters, WaitTakes, Serving, TaskCalls
        <3> QED BY <2>2, <2>4, <2>6, <3>1
    <2> QED BY <2>1, <2>5, <2>6
        DEF TaskStep, OpenLoads, OpenEnters, Write, CloseHandle, ExportTakes, ExportWrites, Feed, ReadInput,
            InputReturns, WaitReturns, Exit
<1>3. Locks3
    <2> DEFINE Holds == {"reading", "feeding"}
    <2>0. lock \in Lanes \cup {None} /\ \A m \in Lanes : lock = m <=> rpc[m].pc \in Holds
        BY <1>0 DEF RunTypeOK
    <2>r. rpc \in [Lanes -> [pc : Phases, buf : Seq(Pieces)]]
        BY <1>0 DEF RunTypeOK, Phases
    <2>1. CASE Read(l) \/ Feed(l)
        <3>1. \/ rpc' = [rpc EXCEPT ![l] = Idle] /\ lock' = lock
              \/ \E pc \in Holds : rpc' = [rpc EXCEPT ![l] = [pc |-> pc, buf |-> <<>>]] /\ lock' = l
            BY <2>1 DEF Read, Feed, Respond, Reaches
        <3>2. lock = None /\ None \notin Lanes
            BY <2>1, ScriptsAssumption DEF Read, Feed
        <3>3. \A m \in Lanes : rpc[m].pc \notin Holds
            BY <2>0, <3>2
        <3>5. CASE rpc' = [rpc EXCEPT ![l] = Idle] /\ lock' = lock
            <4>1. \A m \in Lanes : rpc'[m].pc \notin Holds
                BY <3>3, <2>r, <3>5 DEF Idle
            <4> QED BY <3>2, <3>5, <4>1
        <3>6. CASE \E pc \in Holds : rpc' = [rpc EXCEPT ![l] = [pc |-> pc, buf |-> <<>>]] /\ lock' = l
            <4>1. \A m \in Lanes : rpc'[m].pc \in Holds <=> m = l
                BY <3>3, <2>r, <3>6
            <4> QED BY <3>6, <4>1
        <3> QED BY <3>1, <3>5, <3>6
    <2>2. CASE ReadReturns(l) \/ FeedReturns(l)
        <3>1. rpc' = [rpc EXCEPT ![l] = Idle] /\ lock' = None /\ rpc[l].pc \in Holds /\ None \notin Lanes
            BY <2>2, ScriptsAssumption DEF ReadReturns, FeedReturns, Respond
        <3> QED BY <2>r, <2>0, <3>1 DEF Idle
    <2>3. ASSUME lock' = lock, rpc[l].pc \notin Holds,
                 \E v : v.pc \notin Holds /\ rpc' = [rpc EXCEPT ![l] = v]
          PROVE  Locks3
        BY <2>r, <2>0, <2>3
    <2>4. ASSUME NEW more, Respond(l, more), lock' = lock, rpc[l].pc \notin Holds PROVE Locks3
        BY <2>3, <2>4 DEF Respond, Idle
    <2>5. ASSUME NEW pc, NEW buf, pc \notin Holds, Reaches(l, pc, buf), lock' = lock, rpc[l].pc \notin Holds
          PROVE  Locks3
        BY <2>3, <2>5 DEF Reaches
    <2>6. CASE OpenLoads(l) \/ CreateSpawns(l) \/ RunChild(l) \/ ReadInput(l)
        <3>1. CASE OpenLoads(l)
            <4> DEFINE buf == IF CallOf(l).mode = "a" THEN contents[CallOf(l).on] ELSE <<>>
            <4>1. Reaches(l, "opening", buf) /\ lock' = lock /\ rpc[l].pc = "ready"
                BY <3>1 DEF OpenLoads, Serving
            <4> HIDE DEF buf
            <4> QED BY <2>5, <4>1
        <3>2. CASE CreateSpawns(l) \/ RunChild(l) \/ ReadInput(l)
            <4>1. PICK pc \in {"spawned", "waiting", "typing"} : Reaches(l, pc, <<>>)
                BY <3>2 DEF CreateSpawns, RunChild, ReadInput
            <4>2. lock' = lock /\ rpc[l].pc = "ready"
                BY <3>2 DEF CreateSpawns, RunChild, ReadInput, Serving
            <4> QED BY <2>5, <4>1, <4>2
        <3> QED BY <2>6, <3>1, <3>2
    <2>7. CASE \/ OpenEnters(l) \/ Write(l) \/ CloseHandle(l) \/ ExportWrites(l) \/ CreateEnters(l) \/ WaitReturns(l)
               \/ KillChild(l) \/ Exit(l) \/ InputReturns(l)
        BY <2>4, <2>7 DEF OpenEnters, Write, CloseHandle, ExportWrites, CreateEnters, WaitReturns, KillChild, Exit,
                          InputReturns, Serving
    <2>8. CASE ExportTakes(l) \/ WaitTakes(l)
        BY <2>4, <2>5, <2>8 DEF ExportTakes, WaitTakes, Serving
    <2> QED BY <2>1, <2>2, <2>6, <2>7, <2>8 DEF TaskStep
<1>4. Output3
    <2>0. captured \in Seq(Pieces) /\ written \in Seq(Pieces)
        BY DEF ClientTypes
    <2>1. CASE Write(l)
        <3>1. CallOf(l).data \in Pieces
            BY <1>f, <2>1 DEF Write, Serving
        <3>2. Append(captured, CallOf(l).data) \in Seq(Pieces) /\ Append(written, CallOf(l).data) \in Seq(Pieces)
            BY <2>0, <3>1, Appended
        <3>3. /\ captured' = captured \/ captured' = Append(captured, CallOf(l).data)
              /\ written' = written \/ written' = Append(written, CallOf(l).data)
            BY <2>1 DEF Write
        <3> QED BY <2>0, <3>2, <3>3
    <2>2. CASE UNCHANGED <<captured, written>>
        BY <2>0, <2>2
    <2> QED BY <2>1, <2>2
        DEF TaskStep, OpenLoads, OpenEnters, CloseHandle, ExportTakes, ExportWrites, Feed, FeedReturns, Read,
            ReadReturns, ReadInput, InputReturns, CreateSpawns, CreateEnters, RunChild, WaitTakes, WaitReturns,
            KillChild, Exit
<1>5. RunTypeOK'
    <2>1. UNCHANGED <<asked, phase, loop, result, owed, killing>>
        BY DEF TaskStep, scriptVars
    <2> QED BY <1>0, <1>r, <1>e, <1>1, <1>2, <1>3, <2>1 DEF RunTypeOK, Phases
<1>6. UNCHANGED <<script, events, seen, killing>>
    BY DEF TaskStep, scriptVars
<1> QED BY <1>s, <1>4, <1>5, <1>6 DEF ClientTypes

EventSet == [type : EventTypes, lane : Lanes \cup {None}]
\* The stream holds events and nothing else.
LEMMA EventsTyped ==
    /\ \A t \in EventTypes : Event(t) \in EventSet
    /\ \A l \in Lanes : [type |-> "call", lane |-> l] \in EventSet
    /\ ClientTypes => events \in Seq(EventSet)
BY DEF Event, EventSet, EventTypes, ClientTypes

\* What the script sees once the answer at the head of the queue is sent.
LEMMA OwedTyped ==
    ASSUME ClientTypes, NEW c \in Calls
    PROVE  OwedAfter(c) \in [Files -> [state : {"unknown", "w", "a", "closed"}, buf : Seq(Pieces)]]
<1> DEFINE T == [state : {"unknown", "w", "a", "closed"}, buf : Seq(Pieces)]
<1>1. owed \in [Files -> T] /\ contents \in [Files -> Seq(Pieces)]
    BY DEF ClientTypes, RunTypeOK
<1>c. /\ c.op = "open" => c.on \in Files /\ c.mode \in {"w", "a"}
      /\ c.op = "write" => c.data \in Pieces
      /\ c.op \in {"close", "discard", "export"} => c.on \in Files
    BY CallShape
<1>2. CASE c.op = "open"
    <2>1. [state |-> c.mode, buf |-> IF c.mode = "a" THEN contents[c.on] ELSE <<>>] \in T
        BY <1>1, <1>2, <1>c
    <2> QED BY <1>1, <1>2, <1>c, <2>1 DEF OwedAfter
<1>3. CASE c.op = "write"
    <2>1. CASE c.on \in Files /\ owed[c.on].state # "closed"
        <3>1. owed[c.on] \in T /\ Append(owed[c.on].buf, c.data) \in Seq(Pieces)
            BY <1>1, <1>3, <1>c, <2>1, Appended
        <3>2. [owed[c.on] EXCEPT !.buf = Append(@, c.data)] \in T
            BY <3>1
        <3>3. OwedAfter(c) = [owed EXCEPT ![c.on] = [owed[c.on] EXCEPT !.buf = Append(@, c.data)]]
            BY <1>1, <1>3, <2>1 DEF OwedAfter
        <3> HIDE DEF T
        <3> QED BY <1>1, <2>1, <3>2, <3>3 DEF T
    <2>2. CASE ~ (c.on \in Files /\ owed[c.on].state # "closed")
        BY <1>1, <1>3, <2>2 DEF OwedAfter
    <2> QED BY <2>1, <2>2
<1>4. CASE c.op = "close"
    <2>1. OwedAfter(c) = [owed EXCEPT ![c.on].state = "closed"]
        BY <1>4 DEF OwedAfter
    <2> QED BY <1>1, <1>4, <1>c, <2>1
<1>5. CASE c.op \in {"discard", "export"}
    <2>1. [state |-> "closed", buf |-> contents[c.on]] \in T
        BY <1>1, <1>5, <1>c
    <2>2. OwedAfter(c) = owed \/ OwedAfter(c) = [owed EXCEPT ![c.on] = [state |-> "closed", buf |-> contents[c.on]]]
        BY <1>5 DEF OwedAfter
    <2> QED BY <1>1, <2>1, <2>2
<1>6. CASE c.op \notin {"open", "write", "close", "discard", "export"}
    BY <1>1, <1>6 DEF OwedAfter
<1> QED BY <1>2, <1>3, <1>4, <1>5, <1>6

\* The answer at the head of the queue, when it is a lane's.
LEMMA HeadAnswer ==
    ASSUME ClientTypes, CallPlaces, responses # <<>>, Head(responses) # "kill"
    PROVE  /\ Head(responses) \in asked /\ Head(responses) \in Lanes
           /\ script[Head(responses)] # <<>> /\ CallOf(Head(responses)) \in Calls
<1>1. Head(responses) = responses[1] /\ 1 \in 1 .. Len(responses)
    BY Tailed DEF ClientTypes
<1>2. Head(responses) \in asked
    BY <1>1 DEF CallPlaces, CallAnswered
<1> QED BY <1>2, AskedCall DEF CallPlaces, AskedHasCall

LEMMA SendTypes ==
    ASSUME ClientTypes, CallPlaces, ExitKnown, SendResponse
    PROVE  ClientTypes'
<1> DEFINE r == Head(responses)
<1>1. RunTypeOK
    BY DEF ClientTypes
<1>2. killing' \in BOOLEAN /\ (killing' => exitAs.requested \/ r = "kill")
    <2>1. killing \in BOOLEAN /\ (killing => exitAs.requested)
        BY DEF ClientTypes, RunTypeOK
    <2>2. CASE r = "kill"
        BY <2>2 DEF SendResponse
    <2>3. CASE r # "kill"
        BY <2>1, <2>3 DEF SendResponse
    <2> QED BY <2>2, <2>3
<1>3. responses' \in Seq(Lanes \cup {"kill"})
    BY Tailed DEF SendResponse, ClientTypes
<1>4. \/ UNCHANGED <<script, asked, owed>>
      \/ /\ r # "kill" /\ script' = [script EXCEPT ![r] = Tail(@)]
         /\ asked' = asked \ {r} /\ owed' = OwedAfter(CallOf(r))
    <2>1. CASE r = "kill"
        BY <2>1 DEF SendResponse
    <2>2. CASE r # "kill"
        BY <2>2 DEF SendResponse, CallOf
    <2> QED BY <2>1, <2>2
<1>5. r # "kill" => r \in Lanes /\ script[r] # <<>> /\ CallOf(r) \in Calls
    BY HeadAnswer DEF SendResponse
<1>6. script' \in [Lanes -> Seq(Calls)]
    <2>1. script \in [Lanes -> Seq(Calls)]
        BY DEF ClientTypes
    <2>2. CASE r # "kill" /\ script' = [script EXCEPT ![r] = Tail(@)]
        <3>1. Tail(script[r]) \in Seq(Calls)
            BY <1>5, <2>1, <2>2, Tailed
        <3> QED BY <2>1, <2>2, <3>1
    <2> QED BY <1>4, <2>1, <2>2
<1>7. asked' \subseteq Lanes /\ owed' \in [Files -> [state : {"unknown", "w", "a", "closed"}, buf : Seq(Pieces)]]
    <2>1. asked \subseteq Lanes /\ owed \in [Files -> [state : {"unknown", "w", "a", "closed"}, buf : Seq(Pieces)]]
        BY <1>1 DEF RunTypeOK
    <2> QED BY <1>4, <1>5, <2>1, OwedTyped
<1>8. UNCHANGED <<phase, events, loop, rpc, captured, seen, result, stateVars, contents, env, written>>
    BY DEF SendResponse
<1>9. r = "kill" => exitAs.requested
    BY Tailed DEF SendResponse, ExitKnown, ClientTypes
<1>10. RunTypeOK'
    BY <1>1, <1>2, <1>7, <1>8, <1>9 DEF RunTypeOK, stateVars
<1> QED BY <1>2, <1>3, <1>6, <1>8, <1>10 DEF ClientTypes

LEMMA StreamTypes ==
    ASSUME ClientTypes, CallPlaces,
           \/ \E l \in Lanes : Ask(l)
           \/ \E type \in {"done", "failed"} : ScriptEnds(type)
           \/ Killed \/ Lost \/ Leave
    PROVE  ClientTypes'
<1>0. RunTypeOK /\ events \in Seq(EventSet)
    BY EventsTyped DEF ClientTypes
<1>1. CASE \E l \in Lanes : Ask(l)
    <2> PICK l \in Lanes : Ask(l)
        BY <1>1
    <2>1. events' \in Seq(EventSet)
        BY <1>0, EventsTyped, Appended DEF Ask
    <2>2. RunTypeOK'
        BY <1>0 DEF Ask, RunTypeOK, clientVars, stateVars, history
    <2> QED BY <2>1, <2>2 DEF Ask, ClientTypes, EventSet, clientVars, stateVars, history
<1>2. ASSUME NEW type \in EventTypes, events' = events \o <<Event(type), Event("complete")>>,
             phase' \in {"running", "done", "killed", "lost"},
             UNCHANGED <<script, asked, clientVars, stateVars, contents, env, history>>
      PROVE  ClientTypes'
    <2>1. Event(type) \in EventSet /\ Event("complete") \in EventSet
        BY EventsTyped DEF EventTypes
    <2>2. events' \in Seq(EventSet)
        BY <1>0, <1>2, <2>1, Appended2
    <2>3. RunTypeOK'
        BY <1>0, <1>2 DEF RunTypeOK, clientVars, stateVars, history
    <2> QED BY <1>2, <2>2, <2>3 DEF ClientTypes, EventSet, clientVars, stateVars, history
<1>3. CASE \E type \in {"done", "failed"} : ScriptEnds(type)
    BY <1>2, <1>3 DEF ScriptEnds, EventTypes
<1>4. CASE Killed
    BY <1>2, <1>4 DEF Killed, EventTypes
<1>5. CASE Lost
    <2>1. PICK n \in 0 .. Len(events) : events' = Append(SubSeq(events, 1, n), Event("disconnect"))
        BY <1>5 DEF Lost
    <2>2. Event("disconnect") \in EventSet
        BY EventsTyped DEF EventTypes
    <2>3. events' \in Seq(EventSet)
        BY <1>0, <2>1, <2>2, Truncated
    <2>4. RunTypeOK'
        BY <1>0, <1>5 DEF Lost, RunTypeOK, clientVars, stateVars, history
    <2> QED BY <1>5, <2>3, <2>4 DEF Lost, ClientTypes, EventSet, clientVars, stateVars, history
<1>6. CASE Leave
    <2>1. RunTypeOK'
        BY <1>0, <1>6 DEF Leave, RunTypeOK, scriptVars, stateVars, history
    <2> QED BY <1>6, <2>1 DEF Leave, ClientTypes, scriptVars, stateVars, history
<1> QED BY <1>1, <1>3, <1>4, <1>5, <1>6

LEMMA LoopTypes ==
    ASSUME ClientTypes, CallPlaces, ExitKnown, LoopStep
    PROVE  ClientTypes'
<1>0. RunTypeOK /\ events \in Seq(EventSet)
    BY EventsTyped DEF ClientTypes
<1>e. events # <<>> /\ events' = Tail(events) => events' \in Seq(EventSet)
    BY <1>0, Tailed
<1>1. CASE TakeCall
    <2>1. Head(events) = events[1] /\ events # <<>> /\ events[1].type = "call" /\ 1 \in 1 .. Len(events)
        BY <1>0, <1>1, Tailed DEF TakeCall, NextIs
    <2>2. Head(events).lane \in asked /\ rpc[Head(events).lane].pc = "idle"
        BY <2>1 DEF CallPlaces, CallOnItsWay
    <2>3. RunTypeOK'
        <3>1. PICK l \in Lanes : rpc[l].pc = "idle" /\ rpc' = [rpc EXCEPT ![l] = [pc |-> "ready", buf |-> <<>>]]
            <4>1. asked \subseteq Lanes
                BY <1>0 DEF RunTypeOK
            <4> QED BY <1>1, <2>2, <4>1 DEF TakeCall
        <3>2. rpc \in [Lanes -> [pc : Phases, buf : Seq(Pieces)]]
            BY <1>0 DEF RunTypeOK, Phases
        <3>3. rpc' \in [Lanes -> [pc : Phases, buf : Seq(Pieces)]]
            BY <3>1, <3>2 DEF Phases
        <3>4. \A m \in Lanes : lock = m <=> rpc'[m].pc \in {"reading", "feeding"}
            BY <1>0, <3>1, <3>2 DEF RunTypeOK
        <3> QED BY <1>0, <1>1, <3>3, <3>4 DEF TakeCall, RunTypeOK, Phases, scriptVars, stateVars, history
    <2>4. events' \in Seq(EventSet)
        BY <1>1, <1>e, <2>1 DEF TakeCall, Consume
    <2> QED BY <1>1, <2>3, <2>4 DEF TakeCall, ClientTypes, EventSet, scriptVars, stateVars, history
<1>2. CASE TakeEnd
    <2>1. RunTypeOK'
        <3>1. result' \in [how : {None, "complete", "disconnect"}, code : Codes \cup {1, 2}]
            BY <1>2 DEF TakeEnd, Codes
        <3> QED BY <1>0, <1>2, <3>1 DEF TakeEnd, RunTypeOK, scriptVars, stateVars, history
    <2>2. events' \in Seq(EventSet)
        BY <1>2, <1>e DEF TakeEnd, Consume, NextIs
    <2> QED BY <1>2, <2>1, <2>2 DEF TakeEnd, ClientTypes, EventSet, scriptVars, stateVars, history
<1>3. CASE Judge
    <2>1. RunTypeOK'
        <3>1. result' \in [how : {None, "complete", "disconnect"}, code : Codes \cup {1, 2}]
            BY <1>0, <1>3 DEF Judge, Judged, RunTypeOK
        <3> QED BY <1>0, <1>3, <3>1 DEF Judge, RunTypeOK, scriptVars, stateVars, history
    <2> QED BY <1>3, <2>1 DEF Judge, ClientTypes, scriptVars, stateVars, history
<1>4. CASE AwaitTasks
    <2>1. RunTypeOK'
        BY <1>0, <1>4 DEF AwaitTasks, RunTypeOK, scriptVars, stateVars, history
    <2>2. seen' \in Seq(Pieces) /\ captured' \in Seq(Pieces)
        BY <1>4 DEF AwaitTasks, ClientTypes
    <2> QED BY <1>4, <2>1, <2>2 DEF AwaitTasks, ClientTypes, scriptVars, stateVars, history
<1>5. CASE TakeLast
    <2>1. RunTypeOK'
        <3>1. result' \in [how : {None, "complete", "disconnect"}, code : Codes \cup {1, 2}]
            BY <1>0, <1>5 DEF TakeLast, RunTypeOK
        <3> QED BY <1>0, <1>5, <3>1 DEF TakeLast, RunTypeOK, scriptVars, stateVars, history
    <2>2. events' \in Seq(EventSet)
        BY <1>5, <1>e DEF TakeLast, Consume, NextIs
    <2> QED BY <1>5, <2>1, <2>2 DEF TakeLast, ClientTypes, EventSet, scriptVars, stateVars, history
<1>6. CASE ForwardCaptured
    <2>1. RunTypeOK'
        BY <1>0, <1>6 DEF ForwardCaptured, RunTypeOK, scriptVars, stateVars, history
    <2>2. seen' \in Seq(Pieces) /\ captured' \in Seq(Pieces)
        BY <1>6, Tailed, Appended DEF ForwardCaptured, ClientTypes
    <2> QED BY <1>6, <2>1, <2>2 DEF ForwardCaptured, ClientTypes, scriptVars, stateVars, history
<1>7. CASE SendResponse
    BY <1>7, SendTypes
<1>8. CASE Flush
    <2>1. RunTypeOK'
        <3>1. open' \in [Files -> [state : {"closed", "w", "a"}, buf : Seq(Pieces)]] /\ contents' \in [Files -> Seq(Pieces)]
            BY <1>0, <1>8 DEF Flush, RunTypeOK, NotOpen
        <3> QED BY <1>0, <1>8, <3>1 DEF Flush, RunTypeOK, scriptVars, history
    <2> QED BY <1>8, <2>1 DEF Flush, ClientTypes, scriptVars, history
<1> QED BY <1>1, <1>2, <1>3, <1>4, <1>5, <1>6, <1>7, <1>8 DEF LoopStep

LEMMA ChildTypes ==
    ASSUME ClientTypes, NEW c \in Children, ChildEnds(c)
    PROVE  ClientTypes'
<1>1. RunTypeOK
    BY DEF ClientTypes
<1> DEFINE K == [state : {"none", "alive", "ended"}, held : BOOLEAN, fed : BOOLEAN, out : {0, 1}]
           v == [kids[c] EXCEPT !.state = "ended", !.out = 1]
<1>2. kids \in [Children -> K] /\ kids' = [kids EXCEPT ![c] = v] /\ v \in K
    <2>1. kids \in [Children -> K]
        BY <1>1 DEF RunTypeOK
    <2>2. kids' = [kids EXCEPT ![c] = v]
        BY <2>1 DEF ChildEnds
    <2>3. v \in K
        <3>1. kids[c] \in K
            BY <2>1
        <3> QED BY <3>1
    <2> QED BY <2>1, <2>2, <2>3
<1> HIDE DEF K, v
<1>3. kids' \in [Children -> K]
    BY <1>2
<1>4. RunTypeOK'
    BY <1>1, <1>3 DEF ChildEnds, RunTypeOK, scriptVars, clientVars, history, K
<1> QED BY <1>4 DEF ChildEnds, ClientTypes, scriptVars, clientVars, history

LEMMA NextTypes ==
    ASSUME ClientTypes, CallPlaces, ExitKnown, RunNext
    PROVE  ClientTypes'
BY TaskTypes, StreamTypes, LoopTypes, ChildTypes DEF RunNext

-----------------------------------------------------------------------------
(* Each call is in one place *)

\* Steps that take no call out of the stream's order and put none in.
LEMMA PlacesKept ==
    ASSUME ClientTypes, CallPlaces, UNCHANGED <<script, asked, rpc, responses>>,
           NEW k \in {0, 1},
           \A i \in 1 .. Len(events') : events'[i].type = "call" =>
               i + k \in 1 .. Len(events) /\ events'[i] = events[i + k]
    PROVE  CallPlaces'
<1>1. CallOnItsWay'
    <2> SUFFICES ASSUME NEW i \in 1 .. Len(events'), events'[i].type = "call"
                 PROVE  /\ events'[i].lane \in asked /\ rpc[events'[i].lane].pc = "idle"
                        /\ \A n \in 1 .. Len(responses) : responses[n] # events'[i].lane
                        /\ \A j \in 1 .. Len(events') :
                               events'[j].type = "call" /\ events'[j].lane = events'[i].lane => j = i
        BY DEF CallOnItsWay
    <2>1. i + k \in 1 .. Len(events) /\ events[i + k].type = "call" /\ events[i + k].lane = events'[i].lane
        OBVIOUS
    <2>2. ASSUME NEW j \in 1 .. Len(events'), events'[j].type = "call", events'[j].lane = events'[i].lane
          PROVE  j = i
        <3>1. j + k \in 1 .. Len(events) /\ events[j + k].type = "call" /\ events[j + k].lane = events[i + k].lane
            BY <2>1, <2>2
        <3>2. j + k = i + k
            BY <2>1, <3>1 DEF CallPlaces, CallOnItsWay
        <3> QED BY <3>2
    <2> QED BY <2>1, <2>2 DEF CallPlaces, CallOnItsWay
<1>2. AskedHasCall'
    BY DEF CallPlaces, AskedHasCall
<1>3. CallInTask'
    BY DEF CallPlaces, CallInTask, CallOf
<1>4. CallAnswered'
    BY DEF CallPlaces, CallAnswered
<1> QED BY <1>1, <1>2, <1>3, <1>4 DEF CallPlaces

\* Each call stays in one place: the steps of the stream, of the loop and of the tasks.
LEMMA StreamPlaces ==
    ASSUME ClientTypes, CallPlaces,
           \/ \E type \in {"done", "failed"} : ScriptEnds(type)
           \/ Killed \/ Lost \/ Leave
    PROVE  CallPlaces'
<1>0. events \in Seq(EventSet)
    BY EventsTyped
<1>1. ASSUME NEW type \in EndTypes, events' = events \o <<Event(type), Event("complete")>>,
             UNCHANGED <<script, asked, rpc, responses>>
      PROVE  CallPlaces'
    <2>1. /\ Event(type) \in EventSet /\ Event("complete") \in EventSet
          /\ Event(type).type # "call" /\ Event("complete").type # "call"
        BY EventsTyped DEF EventTypes, EndTypes, Event
    <2>2. /\ Len(events') = Len(events) + 2 /\ Len(events) \in Nat
          /\ \A i \in 1 .. Len(events) : events'[i] = events[i]
          /\ events'[Len(events) + 1] = Event(type) /\ events'[Len(events) + 2] = Event("complete")
        BY <1>0, <1>1, <2>1, Appended2
    <2>3. \A i \in 1 .. Len(events') : events'[i].type = "call" =>
              i + 0 \in 1 .. Len(events) /\ events'[i] = events[i + 0]
        BY <2>1, <2>2
    <2> QED BY <1>1, <2>3, PlacesKept
<1>2. CASE \E type \in {"done", "failed"} : ScriptEnds(type)
    BY <1>1, <1>2 DEF ScriptEnds, EndTypes, clientVars
<1>3. CASE Killed
    BY <1>1, <1>3 DEF Killed, EndTypes, clientVars
<1>4. CASE Lost
    <2>1. PICK n \in 0 .. Len(events) : events' = Append(SubSeq(events, 1, n), Event("disconnect"))
        BY <1>4 DEF Lost
    <2>2. Event("disconnect") \in EventSet /\ Event("disconnect").type # "call"
        BY EventsTyped DEF EventTypes, Event
    <2>3. Len(events') = n + 1 /\ events'[n + 1] = Event("disconnect") /\ \A i \in 1 .. n : events'[i] = events[i]
        BY <1>0, <2>1, <2>2, Truncated
    <2>4. \A i \in 1 .. Len(events') : events'[i].type = "call" =>
              i + 0 \in 1 .. Len(events) /\ events'[i] = events[i + 0]
        BY <1>0, <2>2, <2>3
    <2>5. UNCHANGED <<script, asked, rpc, responses>>
        BY <1>4 DEF Lost, clientVars
    <2> QED BY <2>4, <2>5, PlacesKept
<1>5. CASE Leave
    <2>1. UNCHANGED <<script, asked, rpc, responses, events>>
        BY <1>5 DEF Leave, scriptVars
    <2>2. \A i \in 1 .. Len(events') : events'[i].type = "call" =>
              i + 0 \in 1 .. Len(events) /\ events'[i] = events[i + 0]
        BY <1>0, <2>1
    <2> QED BY <2>1, <2>2, PlacesKept
<1> QED BY <1>2, <1>3, <1>4, <1>5

LEMMA AskPlaces ==
    ASSUME ClientTypes, CallPlaces, NEW l \in Lanes, Ask(l)
    PROVE  CallPlaces'
<1>0. events \in Seq(EventSet) /\ [type |-> "call", lane |-> l] \in EventSet
    BY EventsTyped
<1>1. /\ l \notin asked /\ script[l] # <<>> /\ asked' = asked \cup {l}
      /\ UNCHANGED <<script, rpc, responses>> /\ events' = Append(events, [type |-> "call", lane |-> l])
    BY DEF Ask, clientVars
<1>2. /\ Len(events') = Len(events) + 1 /\ Len(events) \in Nat
      /\ \A i \in 1 .. Len(events) : events'[i] = events[i]
      /\ events'[Len(events) + 1] = [type |-> "call", lane |-> l]
    BY <1>0, <1>1, Appended
<1>3. \A n \in 1 .. Len(responses) : responses[n] # l
    BY <1>1, ScriptsAssumption DEF CallPlaces, CallAnswered
<1>4. rpc[l].pc = "idle"
    BY <1>1 DEF CallPlaces, CallInTask
<1>5. \A i \in 1 .. Len(events) : events[i].type = "call" => events[i].lane # l
    BY <1>1 DEF CallPlaces, CallOnItsWay
<1>6. CallOnItsWay'
    <2> SUFFICES ASSUME NEW i \in 1 .. Len(events'), events'[i].type = "call"
                 PROVE  /\ events'[i].lane \in asked' /\ rpc[events'[i].lane].pc = "idle"
                        /\ \A n \in 1 .. Len(responses) : responses[n] # events'[i].lane
                        /\ \A j \in 1 .. Len(events') :
                               events'[j].type = "call" /\ events'[j].lane = events'[i].lane => j = i
        BY <1>1 DEF CallOnItsWay
    <2>1. CASE i = Len(events) + 1
        <3>1. events'[i].lane = l
            BY <1>2, <2>1
        <3>2. \A j \in 1 .. Len(events') : events'[j].type = "call" /\ events'[j].lane = l => j = i
            BY <1>2, <1>5, <2>1
        <3> QED BY <1>1, <1>3, <1>4, <3>1, <3>2
    <2>2. CASE i # Len(events) + 1
        <3>1. i \in 1 .. Len(events) /\ events[i].type = "call" /\ events'[i] = events[i]
            BY <1>2, <2>2
        <3>2. \A j \in 1 .. Len(events') : events'[j].type = "call" /\ events'[j].lane = events[i].lane => j = i
            <4> TAKE j \in 1 .. Len(events')
            <4> HAVE events'[j].type = "call" /\ events'[j].lane = events[i].lane
            <4>1. j \in 1 .. Len(events)
                BY <1>2, <1>5, <3>1
            <4> QED BY <1>2, <3>1, <4>1 DEF CallPlaces, CallOnItsWay
        <3> QED BY <1>1, <3>1, <3>2 DEF CallPlaces, CallOnItsWay
    <2> QED BY <2>1, <2>2
<1>7. AskedHasCall'
    BY <1>1 DEF CallPlaces, AskedHasCall
<1>8. CallInTask'
    BY <1>1 DEF CallPlaces, CallInTask, CallOf
<1>9. CallAnswered'
    BY <1>1 DEF CallPlaces, CallAnswered
<1> QED BY <1>6, <1>7, <1>8, <1>9 DEF CallPlaces

LEMMA TakeCallPlaces ==
    ASSUME ClientTypes, CallPlaces, TakeCall
    PROVE  CallPlaces'
<1>0. events \in Seq(EventSet) /\ events # <<>>
    BY EventsTyped DEF TakeCall, NextIs
<1> DEFINE l == Head(events).lane
<1>1. /\ Head(events) = events[1] /\ 1 \in 1 .. Len(events) /\ events[1].type = "call"
      /\ events' = Tail(events) /\ Len(events') = Len(events) - 1 /\ Len(events) \in Nat
      /\ \A i \in 1 .. Len(events) - 1 : events'[i] = events[i + 1]
    BY <1>0, Tailed DEF TakeCall, NextIs, Consume
<1>2. /\ l \in asked /\ rpc[l].pc = "idle" /\ \A n \in 1 .. Len(responses) : responses[n] # l
      /\ \A j \in 1 .. Len(events) : events[j].type = "call" /\ events[j].lane = l => j = 1
    BY <1>1 DEF CallPlaces, CallOnItsWay
<1>3. UNCHANGED <<script, asked, responses>> /\ rpc' = [rpc EXCEPT ![l] = [pc |-> "ready", buf |-> <<>>]]
    BY DEF TakeCall, scriptVars
<1>4. l \in Lanes /\ CallOf(l) \in Calls
    BY <1>2, AskedCall DEF CallPlaces
<1> HIDE DEF l
<1>5. \A m \in Lanes : m # l => rpc'[m] = rpc[m]
    BY <1>3 DEF ClientTypes, RunTypeOK
<1>6. rpc'[l].pc = "ready"
    BY <1>3, <1>4 DEF ClientTypes, RunTypeOK
<1>7. CallOnItsWay'
    <2> SUFFICES ASSUME NEW i \in 1 .. Len(events'), events'[i].type = "call"
                 PROVE  /\ events'[i].lane \in asked /\ rpc'[events'[i].lane].pc = "idle"
                        /\ \A n \in 1 .. Len(responses) : responses[n] # events'[i].lane
                        /\ \A j \in 1 .. Len(events') :
                               events'[j].type = "call" /\ events'[j].lane = events'[i].lane => j = i
        BY <1>3 DEF CallOnItsWay
    <2>1. i + 1 \in 1 .. Len(events) /\ events'[i] = events[i + 1] /\ i + 1 # 1
        BY <1>1
    <2>2. events'[i].lane # l /\ events'[i].lane \in asked /\ rpc[events'[i].lane].pc = "idle"
        BY <1>2, <2>1 DEF CallPlaces, CallOnItsWay
    <2>3. \A n \in 1 .. Len(responses) : responses[n] # events'[i].lane
        BY <2>1 DEF CallPlaces, CallOnItsWay
    <2>4. ASSUME NEW j \in 1 .. Len(events'), events'[j].type = "call", events'[j].lane = events'[i].lane PROVE j = i
        <3>1. j + 1 \in 1 .. Len(events) /\ events[j + 1].type = "call" /\ events[j + 1].lane = events[i + 1].lane
            BY <1>1, <2>1, <2>4
        <3>2. j + 1 = i + 1
            BY <2>1, <3>1 DEF CallPlaces, CallOnItsWay
        <3> QED BY <3>2
    <2>5. events'[i].lane \in Lanes
        BY <2>2 DEF ClientTypes, RunTypeOK
    <2> QED BY <1>5, <2>2, <2>3, <2>4, <2>5
<1>8. CallInTask'
    <2> SUFFICES ASSUME NEW m \in Lanes, rpc'[m].pc # "idle"
                 PROVE  /\ m \in asked /\ CallOf(m).op \in TaskCalls(rpc'[m].pc)
                        /\ \A k \in 1 .. Len(responses) : responses[k] # m
        BY <1>3 DEF CallInTask, CallOf
    <2>1. CASE m = l
        BY <1>2, <1>4, <1>6, <2>1, CallShape
    <2>2. CASE m # l
        BY <1>5, <2>2 DEF CallPlaces, CallInTask
    <2> QED BY <2>1, <2>2
<1>9. AskedHasCall' /\ CallAnswered'
    BY <1>3 DEF CallPlaces, AskedHasCall, CallAnswered
<1> QED BY <1>7, <1>8, <1>9 DEF CallPlaces

LEMMA SendPlaces ==
    ASSUME ClientTypes, CallPlaces, SendResponse
    PROVE  CallPlaces'
<1> DEFINE r == Head(responses)
<1>1. /\ responses' = Tail(responses) /\ r = responses[1] /\ Len(responses) \in Nat \ {0}
      /\ Len(responses') = Len(responses) - 1
      /\ \A i \in 1 .. Len(responses) - 1 : responses'[i] = responses[i + 1]
    BY Tailed DEF SendResponse, ClientTypes
<1>2. UNCHANGED <<events, rpc>>
    BY DEF SendResponse
<1>3. \/ UNCHANGED <<script, asked>>
      \/ /\ r # "kill" /\ script' = [script EXCEPT ![r] = Tail(@)] /\ asked' = asked \ {r}
    BY DEF SendResponse
<1>4. r # "kill" => \A i \in 1 .. Len(responses') : responses'[i] # r
    BY <1>1 DEF CallPlaces, CallAnswered
<1> HIDE DEF r
<1>5. asked' \subseteq asked /\ \A m \in asked' : m \in Lanes /\ script'[m] = script[m]
    BY <1>3 DEF ClientTypes, RunTypeOK
<1>6. ASSUME NEW m \in asked, \A k \in 1 .. Len(responses) : responses[k] # m
      PROVE  m \in asked'
    <2>1. r # m
        BY <1>1, <1>6
    <2> QED BY <1>3, <2>1
<1>7. AskedHasCall'
    BY <1>5 DEF CallPlaces, AskedHasCall
<1>8. CallOnItsWay'
    BY <1>1, <1>2, <1>6 DEF CallPlaces, CallOnItsWay
<1>9. CallInTask'
    <2> SUFFICES ASSUME NEW m \in Lanes, rpc[m].pc # "idle"
                 PROVE  /\ m \in asked' /\ Head(script'[m]).op \in TaskCalls(rpc[m].pc)
                        /\ \A k \in 1 .. Len(responses') : responses'[k] # m
        BY <1>2 DEF CallInTask, CallOf
    <2>1. m \in asked' /\ script'[m] = script[m]
        BY <1>5, <1>6 DEF CallPlaces, CallInTask
    <2> QED BY <1>1, <2>1 DEF CallPlaces, CallInTask, CallOf
<1>10. CallAnswered'
    <2> SUFFICES ASSUME NEW k \in 1 .. Len(responses'), responses'[k] # "kill"
                 PROVE  /\ responses'[k] \in asked'
                        /\ \A j \in 1 .. Len(responses') : responses'[j] = responses'[k] => j = k
        BY DEF CallAnswered
    <2>1. k + 1 \in 1 .. Len(responses) /\ responses'[k] = responses[k + 1]
        BY <1>1
    <2>2. responses[k + 1] \in asked /\ \A j \in 1 .. Len(responses) : responses[j] = responses[k + 1] => j = k + 1
        BY <2>1 DEF CallPlaces, CallAnswered
    <2>3. responses[k + 1] # r
        BY <1>1, <2>1, <2>2
    <2>4. \A j \in 1 .. Len(responses') : j + 1 \in 1 .. Len(responses) /\ responses'[j] = responses[j + 1]
        BY <1>1
    <2> QED BY <1>3, <2>1, <2>2, <2>3, <2>4
<1> QED BY <1>7, <1>8, <1>9, <1>10 DEF CallPlaces

LEMMA LoopPlaces ==
    ASSUME ClientTypes, CallPlaces, LoopStep
    PROVE  CallPlaces'
<1>0. events \in Seq(EventSet)
    BY EventsTyped
<1>1. ASSUME events # <<>>, events' = Tail(events), UNCHANGED <<script, asked, rpc, responses>>
      PROVE  CallPlaces'
    <2>1. \A i \in 1 .. Len(events') : i + 1 \in 1 .. Len(events) /\ events'[i] = events[i + 1]
        BY <1>0, <1>1, Tailed
    <2> QED BY <1>1, <2>1, PlacesKept
<1>2. ASSUME UNCHANGED <<events, script, asked, rpc, responses>>
      PROVE  CallPlaces'
    <2>1. \A i \in 1 .. Len(events') : i + 0 \in 1 .. Len(events) /\ events'[i] = events[i + 0]
        BY <1>0, <1>2
    <2> QED BY <1>2, <2>1, PlacesKept
<1>3. CASE TakeEnd \/ TakeLast
    BY <1>1, <1>3 DEF TakeEnd, TakeLast, NextIs, Consume, scriptVars
<1>4. CASE Judge \/ AwaitTasks \/ ForwardCaptured \/ Flush
    BY <1>2, <1>4 DEF Judge, AwaitTasks, ForwardCaptured, Flush, scriptVars
<1> QED BY <1>3, <1>4, TakeCallPlaces, SendPlaces DEF LoopStep

LEMMA TaskPlaces ==
    ASSUME ClientTypes, CallPlaces, NEW l \in Lanes, TaskStep(l)
    PROVE  CallPlaces'
<1>1. rpc[l].pc # "idle" /\ (EndsRun(l) \/ (exitAs' = exitAs /\ (Ends(l) \/ GoesOn(l))))
    BY TaskEffect
<1>2. UNCHANGED <<script, asked, events>>
    BY DEF TaskStep, scriptVars
<1>3. l \in asked /\ \A k \in 1 .. Len(responses) : responses[k] # l
    BY <1>1 DEF CallPlaces, CallInTask
<1>4. responses \in Seq(Lanes \cup {"kill"}) /\ l # "kill" /\ l \in Lanes \cup {"kill"}
    BY ScriptsAssumption DEF ClientTypes
<1>5. \A m \in Lanes : m # l => rpc'[m] = rpc[m]
    BY <1>1 DEF EndsRun, Ends, GoesOn, ClientTypes, RunTypeOK
<1>6. CASE GoesOn(l)
    <2>1. PICK pc \in Stages, buf \in Seq(Pieces) :
              CallOf(l).op \in TaskCalls(pc) /\ rpc' = [rpc EXCEPT ![l] = [pc |-> pc, buf |-> buf]]
        BY <1>6 DEF GoesOn
    <2>2. rpc'[l].pc = pc /\ responses' = responses
        BY <1>6, <2>1 DEF GoesOn, ClientTypes, RunTypeOK
    <2>3. CallInTask'
        <3> SUFFICES ASSUME NEW m \in Lanes, rpc'[m].pc # "idle"
                     PROVE  /\ m \in asked /\ CallOf(m).op \in TaskCalls(rpc'[m].pc)
                            /\ \A k \in 1 .. Len(responses) : responses[k] # m
            BY <1>2, <2>2 DEF CallInTask, CallOf
        <3>1. CASE m = l
            BY <1>3, <2>1, <2>2, <3>1
        <3>2. CASE m # l
            BY <1>5, <3>2 DEF CallPlaces, CallInTask
        <3> QED BY <3>1, <3>2
    <2>4. CallOnItsWay'
        <3>1. \A i \in 1 .. Len(events) : events[i].type = "call" =>
                  events[i].lane \in Lanes /\ events[i].lane # l
            <4>1. asked \subseteq Lanes
                BY DEF ClientTypes, RunTypeOK
            <4> QED BY <1>1, <4>1 DEF CallPlaces, CallOnItsWay
        <3> QED BY <1>2, <1>5, <2>2, <3>1 DEF CallPlaces, CallOnItsWay
    <2>5. AskedHasCall' /\ CallAnswered'
        BY <1>2, <2>2 DEF CallPlaces, AskedHasCall, CallAnswered
    <2> QED BY <2>3, <2>4, <2>5 DEF CallPlaces
<1>7. ASSUME rpc'[l].pc = "idle", Len(responses) <= Len(responses'),
             \A k \in 1 .. Len(responses) : responses'[k] = responses[k],
             Len(responses) + 1 \in 1 .. Len(responses'), responses'[Len(responses) + 1] = l,
             \A k \in 1 .. Len(responses') : k > Len(responses) + 1 => responses'[k] = "kill"
      PROVE  CallPlaces'
    <2>0. Len(responses) \in Nat /\ Len(responses') \in Nat
        BY <1>4, <1>7
    <2>1. \A k \in 1 .. Len(responses') :
              \/ k \in 1 .. Len(responses) /\ responses'[k] = responses[k]
              \/ k = Len(responses) + 1 /\ responses'[k] = l
              \/ responses'[k] = "kill"
        BY <1>7, <2>0
    <2>2. CallInTask'
        <3> SUFFICES ASSUME NEW m \in Lanes, rpc'[m].pc # "idle"
                     PROVE  /\ m \in asked /\ CallOf(m).op \in TaskCalls(rpc'[m].pc)
                            /\ \A k \in 1 .. Len(responses') : responses'[k] # m
            BY <1>2 DEF CallInTask, CallOf
        <3>1. m # l /\ rpc'[m] = rpc[m] /\ m # "kill"
            BY <1>5, <1>7, ScriptsAssumption
        <3> QED BY <2>1, <3>1 DEF CallPlaces, CallInTask
    <2>3. CallOnItsWay'
        <3> SUFFICES ASSUME NEW i \in 1 .. Len(events), events[i].type = "call"
                     PROVE  /\ events[i].lane \in asked /\ rpc'[events[i].lane].pc = "idle"
                            /\ \A n \in 1 .. Len(responses') : responses'[n] # events[i].lane
                            /\ \A j \in 1 .. Len(events) :
                                   events[j].type = "call" /\ events[j].lane = events[i].lane => j = i
            BY <1>2 DEF CallOnItsWay
        <3>1. events[i].lane \in Lanes /\ events[i].lane # l /\ events[i].lane # "kill"
            BY <1>1, ScriptsAssumption DEF CallPlaces, CallOnItsWay, ClientTypes, RunTypeOK
        <3> QED BY <1>5, <2>1, <3>1 DEF CallPlaces, CallOnItsWay
    <2>4. CallAnswered'
        <3> SUFFICES ASSUME NEW k \in 1 .. Len(responses'), responses'[k] # "kill"
                     PROVE  /\ responses'[k] \in asked
                            /\ \A j \in 1 .. Len(responses') : responses'[j] = responses'[k] => j = k
            BY <1>2 DEF CallAnswered
        <3>1. CASE responses'[k] = l
            <4>1. \A j \in 1 .. Len(responses') : responses'[j] = l => j = Len(responses) + 1
                BY <1>3, <1>4, <2>1
            <4> QED BY <1>3, <3>1, <4>1
        <3>2. CASE responses'[k] # l
            <4>1. k \in 1 .. Len(responses) /\ responses'[k] = responses[k]
                BY <2>1, <3>2
            <4>2. responses[k] \in asked /\ \A j \in 1 .. Len(responses) : responses[j] = responses[k] => j = k
                BY <4>1 DEF CallPlaces, CallAnswered
            <4> QED BY <2>1, <3>2, <4>1, <4>2
        <3> QED BY <3>1, <3>2
    <2>5. AskedHasCall'
        BY <1>2 DEF CallPlaces, AskedHasCall
    <2> QED BY <2>2, <2>3, <2>4, <2>5 DEF CallPlaces
<1>8. ASSUME rpc' = [rpc EXCEPT ![l] = Idle] PROVE rpc'[l].pc = "idle"
    BY <1>8 DEF Idle, ClientTypes, RunTypeOK
<1>9. CASE Ends(l)
    <2>1. responses' = Append(responses, l)
        BY <1>9 DEF Ends
    <2>2. /\ Len(responses') = Len(responses) + 1 /\ responses'[Len(responses) + 1] = l /\ Len(responses) \in Nat
          /\ \A k \in 1 .. Len(responses) : responses'[k] = responses[k]
        BY <1>4, <2>1, Appended
    <2> QED BY <1>7, <1>8, <1>9, <2>2 DEF Ends
<1>10. CASE EndsRun(l)
    <2> DEFINE once == Append(responses, l)
    <2>1. responses' = Append(once, "kill")
        BY <1>10 DEF EndsRun
    <2>2. /\ Len(once) = Len(responses) + 1 /\ once[Len(responses) + 1] = l /\ Len(responses) \in Nat
          /\ \A k \in 1 .. Len(responses) : once[k] = responses[k]
          /\ once \in Seq(Lanes \cup {"kill"})
        BY <1>4, Appended
    <2>3. /\ Len(responses') = Len(once) + 1 /\ responses'[Len(once) + 1] = "kill"
          /\ \A k \in 1 .. Len(once) : responses'[k] = once[k]
        <3> HIDE DEF once
        <3> QED BY <2>1, <2>2, Appended
    <2> HIDE DEF once
    <2>4. /\ Len(responses') = Len(responses) + 2 /\ responses'[Len(responses) + 1] = l
          /\ responses'[Len(responses) + 2] = "kill"
          /\ \A k \in 1 .. Len(responses) : responses'[k] = responses[k]
        BY <2>2, <2>3
    <2> QED BY <1>7, <1>8, <1>10, <2>2, <2>4 DEF EndsRun
<1> QED BY <1>1, <1>6, <1>9, <1>10

LEMMA NextPlaces ==
    ASSUME ClientTypes, CallPlaces, RunNext
    PROVE  CallPlaces'
<1>1. ASSUME NEW c \in Children, ChildEnds(c) PROVE CallPlaces'
    <2>1. UNCHANGED <<events, script, asked, rpc, responses>>
        BY <1>1 DEF ChildEnds, scriptVars, clientVars
    <2>2. \A i \in 1 .. Len(events') : i + 0 \in 1 .. Len(events) /\ events'[i] = events[i + 0]
        BY <2>1, EventsTyped
    <2> QED BY <2>1, <2>2, PlacesKept
<1> QED BY <1>1, AskPlaces, TaskPlaces, StreamPlaces, LoopPlaces DEF RunNext

-----------------------------------------------------------------------------
(* The order of the stream *)

\* The loop has read the head of the stream.
LEMMA ConsumedOrder ==
    ASSUME ClientTypes, StreamOrdered, events # <<>>, events' = Tail(events), phase' = phase,
           loop' \in {"judge", "await"} => events[1].type \in EndTypes
    PROVE  StreamOrdered'
<1>0. events \in Seq(EventSet)
    BY EventsTyped
<1>1. /\ Len(events) \in Nat \ {0} /\ Len(events') = Len(events) - 1
      /\ \A i \in 1 .. Len(events') : events'[i] = events[i + 1]
    BY <1>0, Tailed
<1>2. \A i \in 1 .. Len(events') : i + 1 \in 1 .. Len(events)
    BY <1>1
<1>3. phase' = "running" => \A i \in 1 .. Len(events') : events'[i].type = "call"
    BY <1>1, <1>2 DEF StreamOrdered
<1>4. \A i, j \in 1 .. Len(events') : i < j => Follows(events'[i].type, events'[j].type)
    <2> TAKE i, j \in 1 .. Len(events')
    <2> HAVE i < j
    <2>1. i + 1 < j + 1
        BY <1>1
    <2> QED BY <1>1, <1>2, <2>1 DEF StreamOrdered
<1>5. \A i \in 2 .. Len(events') : events'[i].type = "complete" => events'[i - 1].type \in EndTypes
    <2> TAKE i \in 2 .. Len(events')
    <2>1. /\ i + 1 \in 2 .. Len(events) /\ events'[i] = events[i + 1] /\ i \in 1 .. Len(events')
          /\ events'[i - 1] = events[i] /\ (i + 1) - 1 = i
        BY <1>1
    <2> QED BY <2>1 DEF StreamOrdered
<1>6. ASSUME loop' \in {"judge", "await"}
      PROVE  phase' # "running" /\ \A i \in 1 .. Len(events') : events'[i].type \in {"complete", "disconnect"}
    <2>1. events[1].type \in EndTypes /\ 1 \in 1 .. Len(events)
        BY <1>1, <1>6
    <2>2. phase # "running"
        BY <2>1 DEF StreamOrdered, EndTypes
    <2>3. \A i \in 1 .. Len(events') : Follows(events[1].type, events'[i].type)
        <3> TAKE i \in 1 .. Len(events')
        <3>1. 1 < i + 1
            BY <1>1
        <3> QED BY <1>1, <1>2, <2>1, <3>1 DEF StreamOrdered
    <2> QED BY <2>1, <2>2, <2>3 DEF Follows, EndTypes
<1>7. \A i \in 1 .. Len(events') : events'[i].type = "disconnect" => phase' = "lost"
    BY <1>1, <1>2 DEF StreamOrdered
<1> QED BY <1>3, <1>4, <1>5, <1>6, <1>7 DEF StreamOrdered

\* The order of the stream: a call asked, the script's end, the loss of the stream.
LEMMA AskOrder ==
    ASSUME ClientTypes, StreamOrdered, NEW l \in Lanes, Ask(l)
    PROVE  StreamOrdered'
<1>0. events \in Seq(EventSet) /\ [type |-> "call", lane |-> l] \in EventSet
    BY EventsTyped
<1>1. /\ phase = "running" /\ phase' = phase /\ loop' = loop
      /\ events' = Append(events, [type |-> "call", lane |-> l])
    BY DEF Ask, clientVars
<1>2. /\ Len(events') = Len(events) + 1 /\ Len(events) \in Nat
      /\ \A i \in 1 .. Len(events) : events'[i] = events[i]
      /\ events'[Len(events) + 1] = [type |-> "call", lane |-> l]
    BY <1>0, <1>1, Appended
<1>3. \A i \in 1 .. Len(events') : events'[i].type = "call"
    BY <1>1, <1>2 DEF StreamOrdered
<1> QED BY <1>1, <1>2, <1>3 DEF StreamOrdered, Follows

LEMMA EndOrder ==
    ASSUME ClientTypes, StreamOrdered, NEW type \in EndTypes, phase = "running", phase' # "running", loop' = loop,
           events' = events \o <<Event(type), Event("complete")>>
    PROVE  StreamOrdered'
<1>0. events \in Seq(EventSet) /\ Event(type) \in EventSet /\ Event("complete") \in EventSet
    BY EventsTyped DEF EndTypes, EventTypes
<1>1. /\ Len(events') = Len(events) + 2 /\ Len(events) \in Nat
      /\ \A i \in 1 .. Len(events) : events'[i].type = "call"
      /\ events'[Len(events) + 1].type = type /\ events'[Len(events) + 2].type = "complete"
    BY <1>0, Appended2 DEF StreamOrdered, Event
<1>2. loop \notin {"judge", "await"}
    BY DEF StreamOrdered
<1>3. \A i, j \in 1 .. Len(events') : i < j => Follows(events'[i].type, events'[j].type)
    <2> TAKE i, j \in 1 .. Len(events')
    <2> HAVE i < j
    <2>1. i \in 1 .. Len(events) \/ (i = Len(events) + 1 /\ j = Len(events) + 2)
        BY <1>1
    <2> QED BY <1>1, <2>1 DEF Follows
<1>4. \A i \in 2 .. Len(events') : events'[i].type = "complete" => events'[i - 1].type \in EndTypes
    <2> TAKE i \in 2 .. Len(events')
    <2>1. i \in 1 .. Len(events) \/ i = Len(events) + 1 \/ (i = Len(events) + 2 /\ i - 1 = Len(events) + 1)
        BY <1>1
    <2> QED BY <1>1, <2>1 DEF EndTypes
<1>5. \A i \in 1 .. Len(events') : events'[i].type # "disconnect"
    BY <1>1 DEF EndTypes
<1> QED BY <1>2, <1>3, <1>4, <1>5 DEF StreamOrdered

LEMMA LostOrder ==
    ASSUME ClientTypes, StreamOrdered, Lost
    PROVE  StreamOrdered'
<1>0. events \in Seq(EventSet) /\ Event("disconnect") \in EventSet /\ Event("disconnect").type = "disconnect"
    BY EventsTyped DEF EventTypes, Event
<1>1. PICK n \in 0 .. Len(events) : events' = Append(SubSeq(events, 1, n), Event("disconnect"))
    BY DEF Lost
<1>2. /\ Len(events') = n + 1 /\ events'[n + 1].type = "disconnect" /\ n \in Nat /\ n <= Len(events)
      /\ \A i \in 1 .. n : events'[i] = events[i] /\ i \in 1 .. Len(events)
    BY <1>0, <1>1, Truncated
<1>3. \A i \in 1 .. n : \E j \in 1 .. Len(events) : i = j
    BY <1>2
<1>4. loop' = loop /\ phase' = "lost"
    BY DEF Lost, clientVars
<1>5. \A i, j \in 1 .. Len(events') : i < j => Follows(events'[i].type, events'[j].type)
    <2> TAKE i, j \in 1 .. Len(events')
    <2> HAVE i < j
    <2>1. CASE j \in 1 .. n
        BY <1>2, <2>1 DEF StreamOrdered
    <2>2. CASE j = n + 1
        <3>1. i \in 1 .. n /\ events'[i] = events[i] /\ events[i] \in EventSet
            BY <1>0, <1>2, <2>2
        <3>2. events[i].type # "disconnect"
            BY <1>2, <3>1 DEF Lost, StreamOrdered
        <3> QED BY <1>2, <2>2, <3>1, <3>2 DEF Follows, EventSet, EventTypes, EndTypes
    <2> QED BY <1>2, <2>1, <2>2
<1>6. \A i \in 2 .. Len(events') : events'[i].type = "complete" => events'[i - 1].type \in EndTypes
    <2> TAKE i \in 2 .. Len(events')
    <2> HAVE events'[i].type = "complete"
    <2>1. i \in 2 .. Len(events) /\ i \in 1 .. n /\ i - 1 \in 1 .. n
        BY <1>2
    <2> QED BY <1>2, <2>1 DEF StreamOrdered
<1>7. loop \in {"judge", "await"} => \A i \in 1 .. Len(events') : events'[i].type \in {"complete", "disconnect"}
    <2>1. \A i \in 1 .. Len(events') : i \in 1 .. n \/ i = n + 1
        BY <1>2
    <2> QED BY <1>2, <2>1 DEF StreamOrdered
<1> QED BY <1>4, <1>5, <1>6, <1>7 DEF StreamOrdered

LEMMA NextOrder ==
    ASSUME ClientTypes, StreamOrdered, RunNext
    PROVE  StreamOrdered'
<1>0. events \in Seq(EventSet) /\ \A i \in 1 .. Len(events) : events[i] \in EventSet
    BY EventsTyped
<1>1. ASSUME UNCHANGED <<events, phase>>, loop' \in {"judge", "await"} => loop \in {"judge", "await"}
      PROVE  StreamOrdered'
    BY <1>1 DEF StreamOrdered
<1>2. ASSUME NEW l \in Lanes, TaskStep(l) PROVE StreamOrdered'
    BY <1>1, <1>2 DEF TaskStep, scriptVars
<1>3. ASSUME NEW c \in Children, ChildEnds(c) PROVE StreamOrdered'
    BY <1>1, <1>3 DEF ChildEnds, scriptVars, clientVars
<1>4. CASE \E type \in {"done", "failed"} : ScriptEnds(type)
    BY <1>4, EndOrder DEF ScriptEnds, EndTypes, clientVars
<1>5. CASE Killed
    BY <1>5, EndOrder DEF Killed, EndTypes, clientVars
<1>6. CASE Leave \/ Judge \/ AwaitTasks \/ ForwardCaptured \/ SendResponse \/ Flush
    BY <1>1, <1>6 DEF Leave, Judge, AwaitTasks, ForwardCaptured, SendResponse, Flush, scriptVars
<1>7. CASE TakeCall \/ TakeLast
    BY <1>7, ConsumedOrder DEF TakeCall, TakeLast, NextIs, Consume, scriptVars
<1>8. CASE TakeEnd
    <2>1. Head(events) = events[1] /\ events # <<>> /\ events' = Tail(events) /\ phase' = phase
        BY <1>0, <1>8, Tailed DEF TakeEnd, NextIs, Consume, scriptVars
    <2>2. Head(events).type \in EndTypes
        BY <1>8 DEF TakeEnd, NextIs, EndTypes
    <2> QED BY <2>1, <2>2, ConsumedOrder
<1> QED BY <1>2, <1>3, <1>4, <1>5, <1>6, <1>7, <1>8, AskOrder, LostOrder DEF RunNext, LoopStep

-----------------------------------------------------------------------------
(* The exit's code and the output *)

\* A lane that called exit stays in that call.
LEMMA ExitStays ==
    ASSUME ClientTypes, CallPlaces, RunNext, NEW code, Exited(code)
    PROVE  Exited(code)'
<1> PICK l \in asked : CallOf(l).op = "exit" /\ CallOf(l).code = code
    BY DEF Exited
<1>1. l \in Lanes
    BY DEF ClientTypes, RunTypeOK
<1>2. ASSUME script' = script, l \in asked' PROVE Exited(code)'
    BY <1>2 DEF Exited, CallOf
<1>3. CASE SendResponse
    <2>1. UNCHANGED <<script, asked>> \/ (/\ script' = [script EXCEPT ![Head(responses)] = Tail(@)]
                                          /\ asked' = asked \ {Head(responses)} /\ Head(responses) # l)
        BY <1>3 DEF SendResponse, CallOf
    <2>2. l \in asked' /\ script'[l] = script[l]
        BY <1>1, <2>1 DEF ClientTypes
    <2> QED BY <2>2 DEF Exited, CallOf
<1>4. CASE ~ SendResponse
    <2>1. script' = script /\ asked \subseteq asked'
        BY <1>4 DEF RunNext, Ask, TaskStep, ScriptEnds, Killed, Lost, Leave, LoopStep, TakeCall, TakeEnd, Judge,
                    AwaitTasks, TakeLast, ForwardCaptured, Flush, ChildEnds, scriptVars
    <2> QED BY <1>2, <2>1
<1> QED BY <1>3, <1>4

\* What the tasks add to the answers.
LEMMA AnswersQueued ==
    ASSUME ClientTypes, CallPlaces, NEW l \in Lanes, TaskStep(l)
    PROVE  /\ Len(responses) \in Nat /\ Len(responses') \in Nat /\ Len(responses) <= Len(responses')
           /\ \A k \in 1 .. Len(responses) : responses'[k] = responses[k]
           /\ \A k \in 1 .. Len(responses') : k \notin 1 .. Len(responses) =>
                  \/ k = Len(responses) + 1 /\ responses'[k] = l
                  \/ responses'[k] = "kill" /\ EndsRun(l)
           /\ Ends(l) \/ EndsRun(l) => Len(responses) + 1 \in 1 .. Len(responses') /\ responses'[Len(responses) + 1] = l
<1>1. EndsRun(l) \/ Ends(l) \/ GoesOn(l)
    BY TaskEffect
<1>2. responses \in Seq(Lanes \cup {"kill"}) /\ l \in Lanes \cup {"kill"} /\ Len(responses) \in Nat
    BY DEF ClientTypes
<1>3. CASE GoesOn(l)
    <2>1. responses' = responses
        BY <1>3 DEF GoesOn
    <2>2. ~ Ends(l) /\ ~ EndsRun(l)
        BY <1>2, <2>1, Appended DEF Ends, EndsRun
    <2> QED BY <1>2, <2>1, <2>2
<1>4. CASE Ends(l)
    <2>1. responses' = Append(responses, l)
        BY <1>4 DEF Ends
    <2> QED BY <1>2, <2>1, Appended
<1>5. CASE EndsRun(l)
    <2> DEFINE once == Append(responses, l)
    <2>1. responses' = Append(once, "kill")
        BY <1>5 DEF EndsRun
    <2>2. /\ Len(once) = Len(responses) + 1 /\ once[Len(responses) + 1] = l
          /\ \A k \in 1 .. Len(responses) : once[k] = responses[k]
          /\ once \in Seq(Lanes \cup {"kill"})
        BY <1>2, Appended
    <2> HIDE DEF once
    <2>3. /\ Len(responses') = Len(once) + 1 /\ responses'[Len(once) + 1] = "kill"
          /\ \A k \in 1 .. Len(once) : responses'[k] = once[k]
        BY <2>1, <2>2, Appended
    <2> QED BY <1>2, <1>5, <2>2, <2>3
<1> QED BY <1>1, <1>3, <1>4, <1>5

\* The code the script asked for stays known.
LEMMA NextExit ==
    ASSUME ClientTypes, CallPlaces, ExitKnown, RunNext
    PROVE  ExitKnown'
<1>1. ASSUME exitAs' = exitAs,
             \A k \in 1 .. Len(responses') : responses'[k] = "kill" =>
                 \E j \in 1 .. Len(responses) : responses[j] = "kill"
      PROVE  ExitKnown'
    BY <1>1, ExitStays DEF ExitKnown, Exited
<1>2. CASE SendResponse
    <2>1. \A k \in 1 .. Len(responses') : k + 1 \in 1 .. Len(responses) /\ responses'[k] = responses[k + 1]
        BY <1>2, Tailed DEF SendResponse, ClientTypes
    <2>2. exitAs' = exitAs
        BY <1>2 DEF SendResponse, stateVars
    <2> QED BY <1>1, <2>1, <2>2
<1>3. ASSUME NEW l \in Lanes, TaskStep(l) PROVE ExitKnown'
    <2>1. EndsRun(l) \/ (exitAs' = exitAs /\ (Ends(l) \/ GoesOn(l)))
        BY <1>3, TaskEffect
    <2>2. CASE EndsRun(l)
        <3>1. exitAs' = [code |-> CallOf(l).code, requested |-> TRUE] /\ CallOf(l).op = "exit"
            BY <2>2 DEF EndsRun
        <3>2. l \in asked /\ script' = script /\ asked' = asked
            BY <1>3, TaskEffect, TaskCall DEF TaskStep, scriptVars
        <3> QED BY <3>1, <3>2 DEF ExitKnown, Exited, CallOf
    <2>3. CASE exitAs' = exitAs /\ ~ EndsRun(l)
        <3>1. \A k \in 1 .. Len(responses') : responses'[k] = "kill" => \E j \in 1 .. Len(responses) : responses[j] = "kill"
            BY <1>3, <2>3, AnswersQueued, ScriptsAssumption
        <3> QED BY <1>1, <2>3, <3>1
    <2> QED BY <2>1, <2>2, <2>3
<1>4. CASE UNCHANGED <<exitAs, responses>>
    BY <1>1, <1>4
<1> QED BY <1>2, <1>3, <1>4
    DEF RunNext, Ask, ScriptEnds, Killed, Lost, Leave, LoopStep, TakeCall, TakeEnd, Judge,
        AwaitTasks, TakeLast, ForwardCaptured, Flush, ChildEnds, scriptVars, clientVars, stateVars

\* No output is lost, repeated or put out of order.
LEMMA NextOutput ==
    ASSUME ClientTypes, CallPlaces, OutputKept, RunNext
    PROVE  OutputKept'
<1>0. captured \in Seq(Pieces) /\ seen \in Seq(Pieces) /\ written = seen \o captured
    BY DEF ClientTypes, OutputKept
<1>1. CASE UNCHANGED <<captured, seen, written>>
    BY <1>0, <1>1 DEF OutputKept
<1>2. ASSUME NEW l \in Lanes, Write(l), seen' = seen PROVE OutputKept'
    <2>1. CASE CallOf(l).on = "stdout"
        <3>1. captured' = Append(captured, CallOf(l).data) /\ written' = Append(written, CallOf(l).data)
            BY <1>2, <2>1 DEF Write
        <3>0. CallOf(l).data \in Pieces
            BY <1>2, TaskFile DEF Write, Serving
        <3>2. \A d \in Pieces : Append(seen \o captured, d) = seen \o Append(captured, d)
            <4>1. captured \in Seq(Pieces) /\ seen \in Seq(Pieces)
                BY <1>0
            <4> QED BY ONLY <4>1
        <3> QED BY <1>0, <1>2, <3>0, <3>1, <3>2 DEF OutputKept
    <2>2. CASE CallOf(l).on # "stdout"
        BY <1>1, <1>2, <2>2 DEF Write
    <2> QED BY <2>1, <2>2
<1>3. CASE ForwardCaptured
    <2>1. captured # <<>> /\ seen' = Append(seen, Head(captured)) /\ captured' = Tail(captured) /\ written' = written
        BY <1>3 DEF ForwardCaptured, history
    <2>2. Append(seen, Head(captured)) \o Tail(captured) = seen \o captured
        BY <1>0, <2>1
    <2> QED BY <1>0, <2>1, <2>2 DEF OutputKept
<1>4. CASE AwaitTasks
    <2>1. seen' = seen \o captured /\ captured' = <<>> /\ written' = written
        BY <1>4 DEF AwaitTasks, history
    <2>2. (seen \o captured) \o <<>> = seen \o captured
        BY <1>0
    <2> QED BY <1>0, <2>1, <2>2 DEF OutputKept
<1>5. ASSUME NEW l \in Lanes, TaskStep(l) PROVE OutputKept'
    BY <1>1, <1>2, <1>5
        DEF TaskStep, OpenLoads, OpenEnters, CloseHandle, ExportTakes, ExportWrites, Feed, FeedReturns, Read,
            ReadReturns, ReadInput, InputReturns, CreateSpawns, CreateEnters, RunChild, WaitTakes, WaitReturns,
            KillChild, Exit
<1>6. CASE UNCHANGED <<clientVars, history>>
    BY <1>1, <1>6 DEF clientVars, history
<1> QED BY <1>1, <1>3, <1>4, <1>5, <1>6
    DEF RunNext, Ask, ScriptEnds, Killed, Lost, Leave, LoopStep, TakeCall, TakeEnd, Judge, TakeLast, SendResponse,
        Flush, ChildEnds, history, clientVars

\* Once everything is settled it stays so, as long as no call comes off the stream.
LEMMA SettledStays ==
    ASSUME ClientTypes, CallPlaces, Settled, RunNext, ~ TakeCall, ~ TakeEnd, ~ Judge, ~ TakeLast,
           phase # "running" \/ ~ SendResponse
    PROVE  Settled'
<1>1. captured = <<>> /\ (\A l \in Lanes : rpc[l].pc = "idle") /\ (killing => Exited(result.code))
    BY DEF Settled
<1>2. ASSUME NEW l \in Lanes, TaskStep(l) PROVE FALSE
    BY <1>1, <1>2, TaskEffect
<1>3. ASSUME UNCHANGED <<captured, rpc, result>>, killing' => killing PROVE Settled'
    <2>1. killing' => Exited(result.code)'
        BY <1>1, <1>3, ExitStays DEF Exited
    <2> QED BY <1>1, <1>3, <2>1 DEF Settled
<1>4. CASE AwaitTasks
    <2>1. UNCHANGED <<rpc, result, killing>> /\ captured' = captured
        BY <1>1, <1>4 DEF AwaitTasks
    <2> QED BY <1>3, <2>1
<1>5. CASE SendResponse
    <2>1. killing' => killing
        BY <1>5 DEF SendResponse
    <2> QED BY <1>3, <1>5, <2>1 DEF SendResponse
<1>6. CASE ForwardCaptured
    BY <1>1, <1>6 DEF ForwardCaptured
<1>7. CASE UNCHANGED <<captured, rpc, result, killing>>
    BY <1>3, <1>7
<1> QED BY <1>2, <1>4, <1>5, <1>6, <1>7
    DEF RunNext, Ask, ScriptEnds, Killed, Lost, Leave, LoopStep, Flush, ChildEnds, scriptVars, clientVars

\* What is settled once a run's end has been judged stays so.
LEMMA NextSettled ==
    ASSUME ClientTypes, CallPlaces, StreamOrdered, ExitKnown, SettledAtEnd, RunNext
    PROVE  SettledAtEnd'
<1>0. events \in Seq(EventSet) /\ Len(events) \in Nat
    BY EventsTyped
<1> DEFINE First == \E i \in 1 .. Len(events) : i = 1 /\ events[i].type = "complete"
<1>a. ASSUME loop' = "await", killing' PROVE Exited(result.code)'
    <2>1. CASE loop = "await"
        <3>1. killing /\ result' = result
            BY <1>a, <2>1 DEF RunNext, Ask, TaskStep, ScriptEnds, Killed, Lost, Leave, LoopStep, TakeCall, TakeEnd, Judge,
                AwaitTasks, TakeLast, ForwardCaptured, SendResponse, Flush, ChildEnds, NextIs, clientVars
        <3>2. Exited(result.code)
            BY <2>1, <3>1 DEF SettledAtEnd
        <3> QED BY <3>1, <3>2, ExitStays DEF Exited
    <2>2. CASE loop # "await"
        <3>1. Judge
            BY <1>a, <2>2 DEF RunNext, Ask, TaskStep, ScriptEnds, Killed, Lost, Leave, LoopStep, TakeCall, TakeEnd,
                AwaitTasks, TakeLast, ForwardCaptured, SendResponse, Flush, ChildEnds, NextIs, clientVars
        <3>2. killing /\ result'.code = Judged(result.code)
            BY <1>a, <3>1 DEF Judge, ClientTypes, RunTypeOK
        <3>3. exitAs.requested /\ Exited(exitAs.code)
            BY <3>2 DEF ClientTypes, RunTypeOK, ExitKnown
        <3>4. result'.code = exitAs.code
            BY <3>2, <3>3 DEF Judged
        <3> QED BY <3>3, <3>4, ExitStays DEF Exited
    <2> QED BY <2>1, <2>2
<1>b. ASSUME First', loop' \notin {"judge", "await"} PROVE Settled'
    <2>0. Len(events') # 0 /\ events'[1].type = "complete" /\ 1 \in 1 .. Len(events')
        BY <1>b
    <2>1. CASE First
        <3>1. 1 \in 1 .. Len(events) /\ events[1].type = "complete" /\ Head(events) = events[1] /\ events # <<>>
            BY <1>0, <2>1, Tailed
        <3>2. phase # "running" /\ ~ TakeCall /\ ~ TakeEnd
            BY <3>1 DEF StreamOrdered, TakeCall, TakeEnd, NextIs
        <3>3. ~ TakeLast
            <4> SUFFICES ASSUME TakeLast PROVE FALSE
                OBVIOUS
            <4>1. events' = Tail(events)
                BY DEF TakeLast, Consume
            <4>2. 2 \in 1 .. Len(events) /\ events[2].type = "complete"
                BY <1>0, <2>0, <3>1, <4>1, Tailed
            <4>3. Follows(events[1].type, events[2].type)
                BY <3>1, <4>2 DEF StreamOrdered
            <4> QED BY <3>1, <4>2, <4>3 DEF Follows, EndTypes
        <3>4. CASE loop \notin {"judge", "await"}
            <4>1. Settled
                BY <2>1, <3>4 DEF SettledAtEnd
            <4>2. ~ Judge
                BY <3>4 DEF Judge
            <4> QED BY <3>2, <3>3, <4>1, <4>2, SettledStays
        <3>5. CASE loop \in {"judge", "await"}
            <4>1. AwaitTasks /\ loop = "await"
                BY <1>b, <3>5 DEF RunNext, Ask, TaskStep, ScriptEnds, Killed, Lost, Leave, LoopStep, TakeCall, TakeEnd,
                    Judge, AwaitTasks, TakeLast, ForwardCaptured, SendResponse, Flush, ChildEnds, NextIs, clientVars
            <4>2. captured' = <<>> /\ UNCHANGED <<rpc, killing, result>> /\ \A l \in Lanes : rpc[l].pc = "idle"
                BY <4>1 DEF AwaitTasks, Idle
            <4>3. killing => Exited(result.code)
                BY <4>1 DEF SettledAtEnd
            <4>4. killing' => Exited(result.code)'
                BY <4>2, <4>3, ExitStays DEF Exited
            <4> QED BY <4>2, <4>4 DEF Settled
        <3> QED BY <3>4, <3>5
    <2>2. CASE ~ First
        <3>1. events = <<>> \/ events[1].type # "complete"
            BY <1>0, <2>2
        <3>2. ASSUME events # <<>>, events' = Tail(events) PROVE events[1].type \in EndTypes
            <4>1. 2 \in 2 .. Len(events) /\ events[2].type = "complete" /\ events'[1] = events[2]
                BY <1>0, <2>0, <3>2, Tailed
            <4>2. events[2 - 1].type \in EndTypes
                BY <4>1 DEF StreamOrdered
            <4> QED BY <4>2
        <3>3. CASE TakeCall \/ TakeLast
            <4>1. events # <<>> /\ events' = Tail(events) /\ Head(events) = events[1]
                BY <1>0, <3>3, Tailed DEF TakeCall, TakeLast, NextIs, Consume
            <4>2. events[1].type \notin EndTypes
                BY <3>3, <4>1 DEF TakeCall, TakeLast, NextIs, EndTypes
            <4> QED BY <3>2, <4>1, <4>2
        <3>4. CASE TakeEnd
            BY <1>b, <3>4 DEF TakeEnd
        <3>5. CASE \E l \in Lanes : Ask(l)
            <4> PICK l \in Lanes : Ask(l)
                BY <3>5
            <4>1. events' = Append(events, [type |-> "call", lane |-> l]) /\ [type |-> "call", lane |-> l] \in EventSet
                BY EventsTyped DEF Ask
            <4>2. events'[1] = events[1] \/ events'[1] = [type |-> "call", lane |-> l]
                BY <1>0, <4>1, Appended
            <4>3. events = <<>> => events'[1] = [type |-> "call", lane |-> l]
                BY <1>0, <4>1
            <4> QED BY <2>0, <3>1, <4>2, <4>3
        <3>6. ASSUME NEW type \in EndTypes, events' = events \o <<Event(type), Event("complete")>> PROVE FALSE
            <4>1. Event(type) \in EventSet /\ Event("complete") \in EventSet /\ Event(type).type = type
                BY EventsTyped DEF EndTypes, EventTypes, Event
            <4>2. (events # <<>> => events'[1] = events[1]) /\ (events = <<>> => events'[1] = Event(type))
                BY <1>0, <3>6, <4>1, Appended2
            <4> QED BY <2>0, <3>1, <4>1, <4>2 DEF EndTypes
        <3>7. CASE Lost
            <4>1. PICK n \in 0 .. Len(events) : events' = Append(SubSeq(events, 1, n), Event("disconnect"))
                BY <3>7 DEF Lost
            <4>2. Event("disconnect") \in EventSet /\ Event("disconnect").type = "disconnect"
                BY EventsTyped DEF EventTypes, Event
            <4>3. events'[n + 1] = Event("disconnect") /\ \A i \in 1 .. n : events'[i] = events[i]
                BY <1>0, <4>1, <4>2, Truncated
            <4>4. n # 0 => 1 \in 1 .. n /\ events # <<>>
                BY <1>0
            <4> QED BY <2>0, <3>1, <4>2, <4>3, <4>4
        <3>8. CASE events' = events
            BY <2>2, <3>8, <1>b
        <3> QED BY <3>3, <3>4, <3>5, <3>6, <3>7, <3>8
            DEF RunNext, TaskStep, ScriptEnds, Killed, Leave, LoopStep, Judge, AwaitTasks, ForwardCaptured,
                SendResponse, Flush, ChildEnds, EndTypes, scriptVars, clientVars
    <2> QED BY <2>1, <2>2
<1>c. ASSUME result'.how = "complete" PROVE loop' \in {"flush", "over"} /\ phase' # "running" /\ Settled'
    <2>1. CASE result.how = "complete"
        <3>1. loop \in {"flush", "over"} /\ phase # "running" /\ Settled
            BY <2>1 DEF SettledAtEnd
        <3>2. ~ TakeCall /\ ~ TakeEnd /\ ~ Judge /\ ~ TakeLast
            BY <3>1 DEF TakeCall, TakeEnd, Judge, TakeLast, NextIs
        <3>3. loop' \in {"flush", "over"} /\ phase' # "running"
            BY <3>1, <3>2 DEF RunNext, Ask, TaskStep, ScriptEnds, Killed, Lost, Leave, LoopStep,
                    AwaitTasks, ForwardCaptured, SendResponse, Flush, ChildEnds, scriptVars, clientVars
        <3> QED BY <3>1, <3>2, <3>3, SettledStays
    <2>2. CASE result.how # "complete"
        <3>1. TakeLast
            <4>1. ~ TakeEnd
                BY <1>c, ScriptsAssumption DEF TakeEnd
            <4>2. ~ Judge
                BY <1>c, <2>2 DEF Judge, ClientTypes, RunTypeOK
            <4>3. result' # result
                BY <1>c, <2>2
            <4> QED BY <4>1, <4>2, <4>3 DEF RunNext, Ask, TaskStep, ScriptEnds, Killed, Lost, Leave, LoopStep, TakeCall,
                    AwaitTasks, ForwardCaptured, SendResponse, Flush, ChildEnds, clientVars
        <3>2. Head(events).type = "complete" /\ events # <<>> /\ loop = "select" /\ Head(events) = events[1]
            BY <1>0, <1>c, <3>1, Tailed DEF TakeLast, NextIs
        <3>3. First /\ phase # "running"
            BY <1>0, <3>2 DEF StreamOrdered
        <3>4. Settled
            BY <3>2, <3>3 DEF SettledAtEnd
        <3>5. loop' = "flush" /\ phase' = phase /\ UNCHANGED <<captured, rpc, killing>> /\ result'.code = result.code
            BY <3>1, <3>2 DEF TakeLast, scriptVars, ClientTypes, RunTypeOK
        <3>6. killing => Exited(result.code)'
            BY <3>4, <3>5, ExitStays DEF Settled, Exited
        <3> QED BY <3>3, <3>4, <3>5, <3>6 DEF Settled
    <2> QED BY <2>1, <2>2
<1> QED BY <1>a, <1>b, <1>c DEF SettledAtEnd

-----------------------------------------------------------------------------
(* The files *)

FileOps == {"open", "write", "close", "discard", "export"}

\* What the answer to a call tells the script of one file.
LEMMA OwedOfFile ==
    ASSUME ClientTypes, NEW c \in Calls, NEW f \in Files
    PROVE  \/ /\ c.op = "open" /\ c.on = f
              /\ OwedAfter(c)[f].state = c.mode /\ OwedAfter(c)[f].buf = Begun(c)
           \/ /\ c.op = "write" /\ c.on = f /\ owed[f].state # "closed"
              /\ OwedAfter(c)[f].state = owed[f].state /\ OwedAfter(c)[f].buf = Append(owed[f].buf, c.data)
           \/ /\ c.op = "close" /\ c.on = f
              /\ OwedAfter(c)[f].state = "closed" /\ OwedAfter(c)[f].buf = owed[f].buf
           \/ /\ c.op = "discard" \/ (c.op = "export" /\ owed[f].state # "a")
              /\ c.on = f
              /\ OwedAfter(c)[f].state = "closed" /\ OwedAfter(c)[f].buf = contents[f]
           \/ /\ \/ c.op \notin FileOps \/ c.on # f
                 \/ c.op = "write" /\ owed[f].state = "closed"
                 \/ c.op = "export" /\ owed[f].state = "a"
              /\ OwedAfter(c)[f] = owed[f]
<1>1. owed \in [Files -> [state : {"unknown", "w", "a", "closed"}, buf : Seq(Pieces)]]
    BY DEF ClientTypes, RunTypeOK
<1>2. CASE c.op = "open"
    <2>1. OwedAfter(c) = [owed EXCEPT ![c.on] = [state |-> c.mode, buf |-> Begun(c)]]
        BY <1>2 DEF OwedAfter, Begun
    <2> QED BY <1>1, <1>2, <2>1
<1>3. CASE c.op = "write"
    <2>1. CASE c.on \in Files /\ owed[c.on].state # "closed"
        <3>1. OwedAfter(c) = [owed EXCEPT ![c.on].buf = Append(@, c.data)]
            BY <1>3, <2>1 DEF OwedAfter
        <3> QED BY <1>1, <1>3, <2>1, <3>1
    <2>2. CASE ~ (c.on \in Files /\ owed[c.on].state # "closed")
        <3>1. OwedAfter(c) = owed
            BY <1>3, <2>2 DEF OwedAfter
        <3> QED BY <1>3, <2>2, <3>1
    <2> QED BY <2>1, <2>2
<1>4. CASE c.op = "close"
    <2>1. OwedAfter(c) = [owed EXCEPT ![c.on].state = "closed"]
        BY <1>4 DEF OwedAfter
    <2> QED BY <1>1, <1>4, <2>1
<1>5. CASE c.op \in {"discard", "export"}
    <2>1. CASE c.op = "discard" \/ owed[c.on].state # "a"
        <3>1. OwedAfter(c) = [owed EXCEPT ![c.on] = [state |-> "closed", buf |-> contents[c.on]]]
            BY <1>5, <2>1 DEF OwedAfter
        <3> QED BY <1>1, <1>5, <2>1, <3>1
    <2>2. CASE c.op = "export" /\ owed[c.on].state = "a"
        <3>1. OwedAfter(c) = owed
            BY <2>2 DEF OwedAfter
        <3> QED BY <2>2, <3>1
    <2> QED BY <1>5, <2>1, <2>2
<1>6. CASE c.op \notin FileOps
    BY <1>6 DEF OwedAfter, FileOps
<1> QED BY <1>2, <1>3, <1>4, <1>5, <1>6 DEF FileOps

\* An answer is sent: what is left of the calls, the answers and what the script sees.
LEMMA SendEffect ==
    ASSUME ClientTypes, CallPlaces, SendResponse
    PROVE  LET r == Head(responses)
           IN /\ r = responses[1] /\ Len(responses) \in Nat \ {0} /\ Len(responses') = Len(responses) - 1
              /\ \A i \in 1 .. Len(responses') : responses'[i] = responses[i + 1]
              /\ UNCHANGED <<open, contents, rpc, loop, phase>>
              /\ \/ UNCHANGED <<script, asked, owed>> /\ (phase = "running" /\ r # "kill" => CallOf(r).op = "exit")
                 \/ /\ phase = "running" /\ r # "kill" /\ r \in asked /\ r \in Lanes /\ CallOf(r) \in Calls
                    /\ owed' = OwedAfter(CallOf(r)) /\ asked' = asked \ {r}
                    /\ \A m \in asked' : CallOf(m)' = CallOf(m)
<1> DEFINE r == Head(responses)
<1>1. /\ r = responses[1] /\ Len(responses) \in Nat \ {0} /\ Len(responses') = Len(responses) - 1
      /\ \A i \in 1 .. Len(responses) - 1 : responses'[i] = responses[i + 1]
    BY Tailed DEF SendResponse, ClientTypes
<1>2. UNCHANGED <<open, contents, rpc, loop, phase>>
    BY DEF SendResponse, stateVars
<1>3. CASE r = "kill"
    BY <1>1, <1>2, <1>3 DEF SendResponse
<1>4. CASE r # "kill"
    <2>1. r \in asked /\ r \in Lanes /\ CallOf(r) \in Calls
        BY <1>4, HeadAnswer DEF SendResponse
    <2>2. CASE phase # "running" \/ CallOf(r).op = "exit"
        BY <1>1, <1>2, <1>4, <2>2 DEF SendResponse, CallOf
    <2>3. CASE ~ (phase # "running" \/ CallOf(r).op = "exit")
        <3>1. owed' = OwedAfter(CallOf(r)) /\ asked' = asked \ {r} /\ script' = [script EXCEPT ![r] = Tail(@)]
            BY <1>4, <2>3 DEF SendResponse, CallOf
        <3>2. \A m \in asked' : script'[m] = script[m]
            BY <3>1 DEF ClientTypes, RunTypeOK
        <3> QED BY <1>1, <1>2, <1>4, <2>1, <2>3, <3>1, <3>2 DEF CallOf
    <2> QED BY <2>2, <2>3
<1> QED BY <1>3, <1>4

\* A handle has one opener, and no user before it is known.
LEMMA NextOpener ==
    ASSUME ClientTypes, CallPlaces, OneOpener, RunNext
    PROVE  OneOpener'
<1>1. CASE UNCHANGED <<script, asked, owed>>
    BY <1>1 DEF OneOpener, Calling, CallOf
<1>2. ASSUME NEW l \in Lanes, Ask(l) PROVE OneOpener'
    <2>1. /\ UNCHANGED <<script, owed>> /\ asked' = asked \cup {l} /\ HasHandle(CallOf(l))
        BY <1>2 DEF Ask, history
    <2> SUFFICES ASSUME NEW f \in Files
                 PROVE  /\ owed[f].state # "unknown" => \A m \in Lanes : ~ Calling(m, {"open"}, f)'
                        /\ owed[f].state = "unknown" =>
                               \A m \in Lanes : ~ Calling(m, {"write", "close", "discard", "export"}, f)'
                        /\ \A m, n \in Lanes : Calling(m, {"open"}, f)' /\ Calling(n, {"open"}, f)' => m = n
        BY <2>1 DEF OneOpener
    <2>2. ASSUME NEW m \in Lanes, NEW ops, Calling(m, ops, f)', m # l PROVE Calling(m, ops, f)
        BY <2>1, <2>2 DEF Calling, CallOf
    <2>3. Calling(l, {"open"}, f)' =>
              owed[f].state = "unknown" /\ \A m \in Lanes : ~ Calling(m, {"open"}, f)
        BY <2>1 DEF Calling, CallOf, HasHandle
    <2>4. Calling(l, {"write", "close", "discard", "export"}, f)' => owed[f].state # "unknown"
        BY <2>1 DEF Calling, CallOf, HasHandle
    <2> QED BY <2>2, <2>3, <2>4 DEF OneOpener
<1>3. CASE SendResponse
    <2> DEFINE r == Head(responses)
    <2>1. \/ UNCHANGED <<script, asked, owed>>
          \/ /\ r \in asked /\ r \in Lanes /\ CallOf(r) \in Calls
             /\ owed' = OwedAfter(CallOf(r)) /\ asked' = asked \ {r} /\ \A m \in asked' : CallOf(m)' = CallOf(m)
        BY <1>3, SendEffect
    <2> HIDE DEF r
    <2> SUFFICES ASSUME /\ r \in asked /\ r \in Lanes /\ CallOf(r) \in Calls
                        /\ owed' = OwedAfter(CallOf(r)) /\ asked' = asked \ {r}
                        /\ \A m \in asked' : CallOf(m)' = CallOf(m),
                        NEW f \in Files
                 PROVE  /\ owed'[f].state # "unknown" => \A m \in Lanes : ~ Calling(m, {"open"}, f)'
                        /\ owed'[f].state = "unknown" =>
                               \A m \in Lanes : ~ Calling(m, {"write", "close", "discard", "export"}, f)'
                        /\ \A m, n \in Lanes : Calling(m, {"open"}, f)' /\ Calling(n, {"open"}, f)' => m = n
        BY <1>1, <2>1 DEF OneOpener
    <2>2. ASSUME NEW m \in Lanes, NEW ops, Calling(m, ops, f)' PROVE Calling(m, ops, f) /\ m # r
        BY <2>2 DEF Calling
    <2>3. CASE CallOf(r).op = "open" /\ CallOf(r).on = f
        <3>1. owed'[f].state = CallOf(r).mode /\ CallOf(r).mode \in {"w", "a"} /\ Calling(r, {"open"}, f)
            BY <2>3, OwedOfFile, CallShape DEF Calling, FileOps
        <3>2. \A m \in Lanes : ~ Calling(m, {"open"}, f)'
            BY <2>2, <3>1 DEF OneOpener
        <3> QED BY <3>1, <3>2
    <2>4. CASE ~ (CallOf(r).op = "open" /\ CallOf(r).on = f)
        <3>1. owed'[f].state = owed[f].state \/ (owed'[f].state = "closed" /\ CallOf(r).on = f /\ CallOf(r).op \in {"close", "discard", "export"})
            BY <2>4, OwedOfFile
        <3>2. owed'[f].state = "closed" /\ CallOf(r).on = f /\ CallOf(r).op \in {"close", "discard", "export"} =>
                  owed[f].state # "unknown"
            BY DEF OneOpener, Calling
        <3>3. owed'[f].state = "unknown" <=> owed[f].state = "unknown"
            BY <3>1, <3>2
        <3> QED BY <2>2, <3>3 DEF OneOpener
    <2> QED BY <2>3, <2>4
<1> QED BY <1>1, <1>2, <1>3
    DEF RunNext, TaskStep, ScriptEnds, Killed, Lost, Leave, LoopStep, TakeCall, TakeEnd, Judge, AwaitTasks, TakeLast,
        ForwardCaptured, Flush, ChildEnds, scriptVars, history

\* What a task does to one file, and how it goes on.
OnCall(l, op, f) == CallOf(l).op = op /\ CallOf(l).on = f
SameFile(f) == open'[f] = open[f] /\ contents'[f] = contents[f]
Elsewhere(l, f) == SameFile(f) /\ ~ (CallOf(l).op \in FileOps /\ CallOf(l).on = f)
                   /\ (rpc'[l].pc \notin {"opening", "export"} \/ CallOf(l).on # f)
Loads(l, f) == OnCall(l, "open", f) /\ SameFile(f) /\ GoesOn(l) /\ rpc'[l].pc = "opening" /\ rpc'[l].buf = Begun(CallOf(l))
Enters(l, f) ==
    /\ OnCall(l, "open", f) /\ Ends(l) /\ rpc[l].pc = "opening" /\ contents'[f] = contents[f]
    /\ open'[f].state = CallOf(l).mode /\ open'[f].buf = rpc[l].buf
Writes(l, f) ==
    /\ OnCall(l, "write", f) /\ Ends(l) /\ IsOpen(f) /\ contents'[f] = contents[f]
    /\ open'[f].state = open[f].state /\ open'[f].buf = Append(open[f].buf, CallOf(l).data)
Drops(l, f) == OnCall(l, "write", f) /\ Ends(l) /\ ~ IsOpen(f) /\ SameFile(f)
Commits(l, f) ==
    /\ OnCall(l, "close", f) /\ Ends(l) /\ open'[f].state = "closed"
    /\ contents'[f] = IF IsOpen(f) THEN open[f].buf ELSE contents[f]
Discards(l, f) == OnCall(l, "discard", f) /\ Ends(l) /\ open'[f].state = "closed" /\ contents'[f] = contents[f]
Takes(l, f) ==
    /\ OnCall(l, "export", f) /\ GoesOn(l) /\ open[f].state = "w"
    /\ open'[f].state = "closed" /\ contents'[f] = contents[f]
Refuses(l, f) == OnCall(l, "export", f) /\ Ends(l) /\ open[f].state # "w" /\ SameFile(f)
Exports(l, f) ==
    /\ OnCall(l, "export", f) /\ Ends(l) /\ rpc[l].pc = "export" /\ open'[f] = open[f]
    /\ contents'[f] = rpc[l].buf

\* Every task step does one of these to each file.
LEMMA FileEffect ==
    ASSUME ClientTypes, CallPlaces, NEW l \in Lanes, TaskStep(l), NEW f \in Files
    PROVE  /\ \/ Elsewhere(l, f) \/ Loads(l, f) \/ Enters(l, f) \/ Writes(l, f) \/ Drops(l, f)
              \/ Commits(l, f) \/ Discards(l, f) \/ Takes(l, f) \/ Refuses(l, f) \/ Exports(l, f)
           /\ CallOf(l).on = f /\ rpc'[l].pc = "export" => Takes(l, f)
<1>0. /\ open \in [Files -> [state : {"closed", "w", "a"}, buf : Seq(Pieces)]] /\ contents \in [Files -> Seq(Pieces)]
      /\ rpc \in [Lanes -> [pc : Phases, buf : Seq(Pieces)]]
    BY DEF ClientTypes, RunTypeOK, Phases
<1>1. rpc[l].pc # "idle" /\ CallOf(l).op \in TaskCalls(rpc[l].pc)
    BY TaskEffect DEF CallPlaces, CallInTask
<1>2. ASSUME NEW more, Respond(l, more) PROVE rpc'[l].pc = "idle"
    BY <1>0, <1>2 DEF Respond, Idle
<1>3. ASSUME NEW pc, NEW buf, Reaches(l, pc, buf) PROVE rpc'[l].pc = pc /\ rpc'[l].buf = buf
    BY <1>0, <1>3 DEF Reaches
<1>4. CASE OpenLoads(l)
    <2>1. CallOf(l).op = "open" /\ rpc'[l].pc = "opening" /\ rpc'[l].buf = Begun(CallOf(l))
        BY <1>3, <1>4 DEF OpenLoads, Serving, Begun
    <2>2. GoesOn(l)
        <3>1. Begun(CallOf(l)) \in Seq(Pieces)
            BY <1>0, <1>1, <2>1, TaskFile DEF Begun
        <3> QED BY <1>4, <2>1, <3>1, Reached DEF OpenLoads, Begun, Stages, TaskCalls
    <2>3. SameFile(f)
        BY <1>4 DEF OpenLoads, SameFile
    <2>4. CASE CallOf(l).on = f
        BY <2>1, <2>2, <2>3, <2>4 DEF Loads, OnCall
    <2>5. CASE CallOf(l).on # f
        BY <2>3, <2>5 DEF Elsewhere
    <2> QED BY <2>1, <2>4, <2>5
<1>5. CASE OpenEnters(l)
    <2>1. CallOf(l).op = "open" /\ rpc[l].pc = "opening" /\ Ends(l) /\ rpc'[l].pc = "idle"
        BY <1>1, <1>2, <1>5, Answered DEF OpenEnters, TaskCalls
    <2>2. contents' = contents /\ open' = [open EXCEPT ![CallOf(l).on] = [state |-> CallOf(l).mode, buf |-> rpc[l].buf]]
        BY <1>5 DEF OpenEnters
    <2>3. CASE CallOf(l).on = f
        BY <1>0, <2>1, <2>2, <2>3 DEF Enters, OnCall
    <2>4. CASE CallOf(l).on # f
        BY <1>0, <2>2, <2>4 DEF Elsewhere, SameFile
    <2> QED BY <2>1, <2>3, <2>4
<1>6. CASE Write(l)
    <2>1. CallOf(l).op = "write" /\ Ends(l) /\ rpc'[l].pc = "idle" /\ contents' = contents
        BY <1>2, <1>6, Answered DEF Write, Serving
    <2>2. CASE CallOf(l).on = f /\ IsOpen(f)
        <3>1. open' = [open EXCEPT ![f].buf = Append(@, CallOf(l).data)]
            BY <1>6, <2>2 DEF Write
        <3>2. open'[f].state = open[f].state /\ open'[f].buf = Append(open[f].buf, CallOf(l).data)
            BY <1>0, <3>1
        <3> QED BY <2>1, <2>2, <3>2 DEF Writes, OnCall
    <2>3. CASE CallOf(l).on = f /\ ~ IsOpen(f)
        <3>1. open' = open
            BY <1>6, <2>3 DEF Write
        <3> QED BY <2>1, <2>3, <3>1 DEF Drops, OnCall, SameFile
    <2>4. CASE CallOf(l).on # f
        <3>1. open'[f] = open[f]
            BY <1>0, <1>6, <2>4 DEF Write
        <3> QED BY <2>1, <2>4, <3>1 DEF Elsewhere, SameFile
    <2> QED BY <2>1, <2>2, <2>3, <2>4
<1>7. CASE CloseHandle(l)
    <2>1. CallOf(l).op \in {"close", "discard"} /\ Ends(l) /\ rpc'[l].pc = "idle"
        BY <1>2, <1>7, Answered DEF CloseHandle, Serving
    <2>2. open' = [open EXCEPT ![CallOf(l).on] = NotOpen]
        BY <1>7 DEF CloseHandle
    <2>3. contents' = IF IsOpen(CallOf(l).on) /\ CallOf(l).op = "close"
                      THEN [contents EXCEPT ![CallOf(l).on] = open[CallOf(l).on].buf] ELSE contents
        BY <1>7 DEF CloseHandle
    <2>4. CASE CallOf(l).on = f
        <3>1. open'[f].state = "closed"
            BY <1>0, <2>2, <2>4 DEF NotOpen
        <3>2. contents'[f] = IF IsOpen(f) /\ CallOf(l).op = "close" THEN open[f].buf ELSE contents[f]
            BY <1>0, <2>3, <2>4
        <3> QED BY <2>1, <2>4, <3>1, <3>2 DEF Commits, Discards, OnCall
    <2>5. CASE CallOf(l).on # f
        <3>1. open'[f] = open[f] /\ contents'[f] = contents[f]
            BY <1>0, <2>2, <2>3, <2>5
        <3> QED BY <2>1, <2>5, <3>1 DEF Elsewhere, SameFile
    <2> QED BY <2>1, <2>4, <2>5
<1>8. CASE ExportTakes(l)
    <2>1. CallOf(l).op = "export" /\ contents' = contents /\ CallOf(l).on \in Files
        BY <1>1, <1>8, TaskFile DEF ExportTakes, Serving
    <2>2. CASE open[CallOf(l).on].state = "w"
        <3>1. open' = [open EXCEPT ![CallOf(l).on] = NotOpen] /\ Reaches(l, "export", open[CallOf(l).on].buf)
            BY <1>8, <2>2 DEF ExportTakes
        <3>2. rpc'[l].pc = "export" /\ GoesOn(l)
            BY <1>0, <1>3, <2>1, <3>1, Reached DEF Stages, TaskCalls
        <3>3. CASE CallOf(l).on = f
            BY <1>0, <2>1, <2>2, <3>1, <3>2, <3>3 DEF Takes, OnCall, NotOpen
        <3>4. CASE CallOf(l).on # f
            BY <1>0, <2>1, <3>1, <3>4 DEF Elsewhere, SameFile
        <3> QED BY <3>3, <3>4
    <2>3. CASE open[CallOf(l).on].state # "w"
        <3>1. open' = open /\ Ends(l) /\ rpc'[l].pc = "idle"
            BY <1>2, <1>8, <2>3, Answered DEF ExportTakes
        <3>2. CASE CallOf(l).on = f
            BY <2>1, <2>3, <3>1, <3>2 DEF Refuses, OnCall, SameFile
        <3>3. CASE CallOf(l).on # f
            BY <2>1, <3>1, <3>3 DEF Elsewhere, SameFile
        <3> QED BY <3>1, <3>2, <3>3
    <2> QED BY <2>2, <2>3
<1>9. CASE ExportWrites(l)
    <2>1. /\ CallOf(l).op = "export" /\ rpc[l].pc = "export" /\ Ends(l) /\ rpc'[l].pc = "idle"
          /\ open' = open /\ contents' = [contents EXCEPT ![CallOf(l).on] = rpc[l].buf]
        BY <1>1, <1>2, <1>9, Answered DEF ExportWrites, TaskCalls
    <2>2. CASE CallOf(l).on = f
        BY <1>0, <2>1, <2>2 DEF Exports, OnCall
    <2>3. CASE CallOf(l).on # f
        BY <1>0, <2>1, <2>3 DEF Elsewhere, SameFile
    <2> QED BY <2>1, <2>2, <2>3
<1>10. CASE \/ Feed(l) \/ FeedReturns(l) \/ Read(l) \/ ReadReturns(l) \/ ReadInput(l) \/ InputReturns(l)
            \/ CreateSpawns(l) \/ CreateEnters(l) \/ RunChild(l)
            \/ WaitTakes(l) \/ WaitReturns(l) \/ KillChild(l) \/ Exit(l)
    <2>1. open' = open /\ contents' = contents
        BY <1>10 DEF Feed, FeedReturns, Read, ReadReturns, ReadInput, InputReturns, CreateSpawns, CreateEnters, RunChild,
                     WaitTakes, WaitReturns, KillChild, Exit
    <2>2. CallOf(l).op \notin FileOps
        BY <1>1, <1>10 DEF Feed, FeedReturns, Read, ReadReturns, ReadInput, InputReturns, CreateSpawns, CreateEnters,
                           RunChild, WaitTakes, WaitReturns, KillChild, Exit, Serving, TaskCalls, FileOps
    <2>3. rpc'[l].pc \notin {"opening", "export"}
        <3>1. \/ \E more : Respond(l, more)
              \/ \E pc \in {"reading", "feeding", "typing", "spawned", "waiting"} : \E buf : Reaches(l, pc, buf)
            BY <1>10 DEF Feed, FeedReturns, Read, ReadReturns, ReadInput, InputReturns, CreateSpawns, CreateEnters,
                         RunChild, WaitTakes, WaitReturns, KillChild, Exit
        <3> QED BY <1>2, <1>3, <3>1
    <2> QED BY <2>1, <2>2, <2>3 DEF Elsewhere, SameFile
<1> QED BY <1>4, <1>5, <1>6, <1>7, <1>8, <1>9, <1>10 DEF TaskStep

\* What a task adds to the answers about a file.
LEMMA AnswersAfter ==
    ASSUME ClientTypes, CallPlaces, NEW l \in Lanes, TaskStep(l), NEW f \in Files, NEW ops \in SUBSET FileOps
    PROVE  /\ \A i \in 1 .. Len(responses) : i \in 1 .. Len(responses') /\ (Answers(i, ops, f)' <=> Answers(i, ops, f))
           /\ \A i \in 1 .. Len(responses') : Answers(i, ops, f)' =>
                  i \in 1 .. Len(responses) \/ (i = Len(responses) + 1 /\ Ends(l) /\ CallOf(l).op \in ops /\ CallOf(l).on = f)
           /\ Ends(l) => \E k \in 1 .. Len(responses') :
                  /\ k = Len(responses) + 1 /\ responses'[k] = l
                  /\ (Answers(k, ops, f)' <=> CallOf(l).op \in ops /\ CallOf(l).on = f)
<1>1. script' = script /\ l # "kill"
    BY ScriptsAssumption DEF TaskStep, scriptVars
<1>2. \A i \in 1 .. Len(responses) : i \in 1 .. Len(responses') /\ (Answers(i, ops, f)' <=> Answers(i, ops, f))
    BY <1>1, AnswersQueued DEF Answers, CallOf
<1>3. Ends(l) => \E k \in 1 .. Len(responses') :
          /\ k = Len(responses) + 1 /\ responses'[k] = l
          /\ (Answers(k, ops, f)' <=> CallOf(l).op \in ops /\ CallOf(l).on = f)
    <2> SUFFICES ASSUME Ends(l), NEW k \in 1 .. Len(responses'), k = Len(responses) + 1
                 PROVE  /\ responses'[k] = l
                        /\ (Answers(k, ops, f)' <=> CallOf(l).op \in ops /\ CallOf(l).on = f)
        BY AnswersQueued
    <2>1. responses'[k] = l
        BY AnswersQueued
    <2> QED BY <1>1, <2>1 DEF Answers, CallOf
<1>4. ASSUME NEW i \in 1 .. Len(responses'), Answers(i, ops, f)', i \notin 1 .. Len(responses)
      PROVE  i = Len(responses) + 1 /\ Ends(l) /\ CallOf(l).op \in ops /\ CallOf(l).on = f
    <2>1. i = Len(responses) + 1 /\ responses'[i] = l
        BY <1>4, AnswersQueued DEF Answers
    <2>2. CallOf(l).op \in ops /\ CallOf(l).on = f
        BY <1>1, <1>4, <2>1 DEF Answers, CallOf
    <2>3. ~ EndsRun(l)
        BY <2>2 DEF EndsRun, FileOps
    <2>4. ~ GoesOn(l)
        BY <1>4, AnswersQueued DEF GoesOn
    <2> QED BY <2>1, <2>2, <2>3, <2>4, TaskEffect
<1> QED BY <1>2, <1>3, <1>4

-----------------------------------------------------------------------------
(* The files: a task goes on *)

\* A task and the file its call is about.
LEMMA TaskOwner ==
    ASSUME ClientTypes, CallPlaces, OneOpener, NEW l \in Lanes, TaskStep(l), NEW f \in Files
    PROVE  /\ UNCHANGED <<script, asked, owed, loop, phase>> /\ l \in asked
           /\ \A i \in 1 .. Len(responses) : responses[i] # l
           /\ \A m \in Lanes : CallOf(m)' = CallOf(m)
           /\ \A m \in Lanes : m # l => rpc'[m] = rpc[m]
           /\ Ends(l) => rpc'[l].pc = "idle"
           /\ OnCall(l, "open", f) => owed[f].state = "unknown" /\ \A m \in Lanes : Calling(m, {"open"}, f) => m = l
           /\ CallOf(l).op \in {"write", "close", "discard", "export"} /\ CallOf(l).on = f =>
                  owed[f].state # "unknown" /\ \A m \in Lanes : ~ Calling(m, {"open"}, f)
<1>1. UNCHANGED <<script, asked, owed, loop, phase>>
    BY DEF TaskStep, scriptVars
<1>2. l \in asked /\ (\A i \in 1 .. Len(responses) : responses[i] # l)
    BY TaskEffect DEF CallPlaces, CallInTask
<1>3. \A m \in Lanes : CallOf(m)' = CallOf(m)
    BY <1>1 DEF CallOf
<1>4. \A m \in Lanes : m # l => rpc'[m] = rpc[m]
    <2>1. \E v : rpc' = [rpc EXCEPT ![l] = v]
        BY TaskEffect DEF EndsRun, Ends, GoesOn
    <2> QED BY <2>1 DEF ClientTypes, RunTypeOK
<1>5. Ends(l) => rpc'[l].pc = "idle"
    BY DEF Ends, Idle, ClientTypes, RunTypeOK
<1>6. OnCall(l, "open", f) => owed[f].state = "unknown" /\ \A m \in Lanes : Calling(m, {"open"}, f) => m = l
    BY <1>2 DEF OneOpener, Calling, OnCall
<1>7. CallOf(l).op \in {"write", "close", "discard", "export"} /\ CallOf(l).on = f =>
          owed[f].state # "unknown" /\ \A m \in Lanes : ~ Calling(m, {"open"}, f)
    BY <1>2 DEF OneOpener, Calling
<1> QED BY <1>1, <1>2, <1>3, <1>4, <1>5, <1>6, <1>7

\* A file being opened stays as its opener found it.
LEMMA TaskOpening ==
    ASSUME ClientTypes, CallPlaces, OneOpener, HandleOpening, NEW l \in Lanes, TaskStep(l), CallPlaces', ClientTypes'
    PROVE  HandleOpening'
<1> SUFFICES ASSUME loop' # "over", NEW m \in Lanes
             PROVE  Opening(m)'
    BY DEF HandleOpening
<1>0. loop' = loop
    BY DEF TaskStep
<1>1. ASSUME NEW f \in Files, m # l, Calling(m, {"open"}, f) PROVE SameFile(f)
    <2>1. owed[f].state = "unknown" /\ ~ OnCall(l, "open", f) /\ ~ (CallOf(l).op \in {"write", "close", "discard", "export"} /\ CallOf(l).on = f)
        BY <1>1, TaskOwner DEF OneOpener
    <2>2. Elsewhere(l, f)
        BY <2>1, FileEffect DEF OnCall, Loads, Enters, Writes, Drops, Commits, Discards, Takes, Refuses, Exports
    <2> QED BY <2>2 DEF Elsewhere
<1>2. CASE rpc'[m].pc = "opening"
    <2> DEFINE f == CallOf(m).on
    <2>1. CallOf(m)' = CallOf(m) /\ CallOf(m).op = "open" /\ m \in asked
        BY <1>2 DEF CallPlaces, CallInTask, TaskCalls, TaskStep, CallOf, scriptVars
    <2>2. f \in Files
        BY <2>1, AskedCall, CallShape DEF CallPlaces
    <2>3. rpc'[m].buf = Begun(CallOf(m))'
        <3>1. CASE m = l
            <4>1. ~ Ends(l)
                BY <1>2, <2>2, <3>1, TaskOwner
            <4>2. Loads(l, f)
                BY <1>2, <2>1, <2>2, <3>1, <4>1, FileEffect
                DEF Elsewhere, OnCall, Enters, Writes, Drops, Commits, Discards, Takes, Refuses, Exports
            <4> QED BY <2>1, <3>1, <4>2 DEF Loads, SameFile, Begun
        <3>2. CASE m # l
            <4>1. SameFile(f) /\ rpc'[m] = rpc[m]
                BY <1>1, <2>1, <2>2, <3>2, TaskOwner DEF Calling
            <4>2. rpc[m].buf = Begun(CallOf(m))
                BY <1>0, <1>2, <4>1 DEF HandleOpening, Opening
            <4> QED BY <2>1, <4>1, <4>2 DEF SameFile, Begun
        <3> QED BY <3>1, <3>2
    <2>4. \A i \in 1 .. Len(responses') : responses'[i] # m
        BY <1>2 DEF CallPlaces, CallInTask
    <2> QED BY <2>3, <2>4 DEF Opening
<1>3. CASE m \in asked' /\ CallOf(m)'.op = "open" /\ \E i \in 1 .. Len(responses') : responses'[i] = m
    <2> DEFINE f == CallOf(m).on
    <2>1. CallOf(m)' = CallOf(m) /\ CallOf(m).op = "open" /\ m \in asked
        BY <1>3 DEF TaskStep, CallOf, scriptVars
    <2>2. f \in Files
        BY <2>1, AskedCall, CallShape DEF CallPlaces
    <2>3. open'[f].state = CallOf(m).mode /\ open'[f].buf = Begun(CallOf(m))'
        <3>1. CASE m = l
            <4>1. Ends(l)
                <5> PICK i \in 1 .. Len(responses') : responses'[i] = m
                    BY <1>3
                <5> QED BY <2>1, <2>2, <3>1, TaskEffect, TaskOwner DEF EndsRun, GoesOn
            <4>2. Enters(l, f)
                BY <2>1, <2>2, <3>1, <4>1, FileEffect, TaskOwner
                DEF Elsewhere, OnCall, Loads, Writes, Drops, Commits, Discards, Takes, Refuses, Exports, FileOps
            <4>3. rpc[l].buf = Begun(CallOf(l))
                BY <1>0, <4>2 DEF HandleOpening, Opening, Enters
            <4> QED BY <2>1, <3>1, <4>2, <4>3 DEF Enters, Begun
        <3>2. CASE m # l
            <4>1. SameFile(f)
                BY <1>1, <2>1, <2>2, <3>2 DEF Calling
            <4>2. \E i \in 1 .. Len(responses) : responses[i] = m
                BY <1>3, <3>2, AnswersQueued, ScriptsAssumption
            <4>3. open[f].state = CallOf(m).mode /\ open[f].buf = Begun(CallOf(m))
                BY <1>0, <2>1, <4>2 DEF HandleOpening, Opening
            <4> QED BY <2>1, <4>1, <4>3 DEF SameFile, Begun
        <3> QED BY <3>1, <3>2
    <2>4. rpc'[m].pc = "idle"
        BY <1>3 DEF CallPlaces, CallInTask
    <2> QED BY <2>1, <2>3, <2>4 DEF Opening
<1> QED BY <1>2, <1>3 DEF Opening

\* An export holds what it took from an open writer.
LEMMA TaskTaken ==
    ASSUME ClientTypes, CallPlaces, OneOpener, HandleTaken, FilesKept, NEW l \in Lanes, TaskStep(l), CallPlaces'
    PROVE  HandleTaken'
<1> SUFFICES ASSUME loop' # "over", NEW m \in Lanes, rpc'[m].pc = "export"
             PROVE  owed'[CallOf(m)'.on].state \in {"w", "closed"} /\ ~ (open'[CallOf(m)'.on].state # "closed")
    BY DEF HandleTaken, Taken, IsOpen
<1> DEFINE f == CallOf(m).on
<1>1. loop' = loop /\ owed' = owed /\ CallOf(m)' = CallOf(m) /\ CallOf(m).op = "export" /\ m \in asked
    BY DEF CallPlaces, CallInTask, TaskCalls, TaskStep, CallOf, scriptVars
<1>2. f \in Files
    BY <1>1, AskedCall, CallShape DEF CallPlaces
<1>3. owed[f].state # "unknown"
    BY <1>1, <1>2 DEF OneOpener, Calling
<1>4. CASE m = l
    <2>1. Takes(l, f)
        BY <1>2, <1>4, FileEffect
    <2>2. HandleOpen(f) /\ IsOpen(f)
        BY <1>2, <2>1 DEF FilesKept, IsOpen, Takes
    <2>3. owed[f].state = "w"
        BY <1>3, <2>1, <2>2 DEF HandleOpen, Takes
    <2> QED BY <1>1, <2>1, <2>3 DEF Takes
<1>5. CASE m # l
    <2>1. owed[f].state \in {"w", "closed"} /\ ~ IsOpen(f)
        BY <1>1, <1>2, <1>5, TaskOwner DEF HandleTaken, Taken
    <2>2. open'[f].state = "closed"
        BY <1>2, <1>3, <2>1, FileEffect, TaskOwner
        DEF IsOpen, Elsewhere, SameFile, Loads, Enters, Writes, Drops, Commits, Discards, Takes, Refuses, Exports
    <2> QED BY <1>1, <2>1, <2>2
<1> QED BY <1>4, <1>5

\* An open handle is its opener's, or the one the script knows.
LEMMA TaskHandle ==
    ASSUME ClientTypes, CallPlaces, OneOpener, HandleTaken, FilesKept, NEW l \in Lanes, TaskStep(l), NEW f \in Files
    PROVE  HandleOpen(f)'
<1> SUFFICES ASSUME IsOpen(f)'
             PROVE  \/ owed'[f].state = "unknown" /\ \E m \in Lanes : Calling(m, {"open"}, f)'
                    \/ /\ loop' # "over" /\ owed'[f].state = open'[f].state
                       /\ \A i \in 1 .. Len(responses') :
                              /\ ~ Answers(i, {"close", "discard"}, f)'
                              /\ open'[f].state = "w" => ~ Answers(i, {"export"}, f)'
    BY DEF HandleOpen
<1>1. /\ UNCHANGED <<script, asked, owed, loop>> /\ l \in asked
      /\ OnCall(l, "open", f) => owed[f].state = "unknown"
      /\ CallOf(l).op \in {"write", "close", "discard", "export"} /\ CallOf(l).on = f => owed[f].state # "unknown"
    BY TaskOwner
<1>2. HandleOpen(f)
    BY DEF FilesKept
<1>3. CASE Enters(l, f)
    BY <1>1, <1>3 DEF Enters, Calling, CallOf, OnCall
<1>4. ASSUME IsOpen(f), open'[f].state = open[f].state,
             Ends(l) => ~ (CallOf(l).op \in {"close", "discard"} /\ CallOf(l).on = f),
             Ends(l) /\ open[f].state = "w" => ~ (CallOf(l).op = "export" /\ CallOf(l).on = f)
      PROVE  \/ owed'[f].state = "unknown" /\ \E m \in Lanes : Calling(m, {"open"}, f)'
             \/ /\ loop' # "over" /\ owed'[f].state = open'[f].state
                /\ \A i \in 1 .. Len(responses') :
                       /\ ~ Answers(i, {"close", "discard"}, f)'
                       /\ open'[f].state = "w" => ~ Answers(i, {"export"}, f)'
    <2>1. CASE owed[f].state = "unknown" /\ \E m \in Lanes : Calling(m, {"open"}, f)
        BY <1>1, <2>1 DEF Calling, CallOf
    <2>2. CASE /\ loop # "over" /\ owed[f].state = open[f].state
               /\ \A i \in 1 .. Len(responses) :
                      /\ ~ Answers(i, {"close", "discard"}, f) 
                      /\ open[f].state = "w" => ~ Answers(i, {"export"}, f)
        <3>1. \A i \in 1 .. Len(responses') : ~ Answers(i, {"close", "discard"}, f)'
            <4>1. {"close", "discard"} \in SUBSET FileOps
                BY DEF FileOps
            <4>2. \A i \in 1 .. Len(responses) : Answers(i, {"close", "discard"}, f)' <=> Answers(i, {"close", "discard"}, f)
                BY <4>1, AnswersAfter
            <4>3. \A i \in 1 .. Len(responses') : Answers(i, {"close", "discard"}, f)' =>
                      \/ i \in 1 .. Len(responses)
                      \/ Ends(l) /\ CallOf(l).op \in {"close", "discard"} /\ CallOf(l).on = f
                BY <4>1, AnswersAfter
            <4> QED BY <1>4, <2>2, <4>2, <4>3
        <3>2. open[f].state = "w" => \A i \in 1 .. Len(responses') : ~ Answers(i, {"export"}, f)'
            <4>1. {"export"} \in SUBSET FileOps
                BY DEF FileOps
            <4>2. \A i \in 1 .. Len(responses) : Answers(i, {"export"}, f)' <=> Answers(i, {"export"}, f)
                BY <4>1, AnswersAfter
            <4>3. \A i \in 1 .. Len(responses') : Answers(i, {"export"}, f)' =>
                      \/ i \in 1 .. Len(responses)
                      \/ Ends(l) /\ CallOf(l).op \in {"export"} /\ CallOf(l).on = f
                BY <4>1, AnswersAfter
            <4> QED BY <1>4, <2>2, <4>2, <4>3
        <3> QED BY <1>1, <1>4, <2>2, <3>1, <3>2
    <2> QED BY <1>2, <1>4, <2>1, <2>2 DEF HandleOpen
<1>5. CASE Elsewhere(l, f)
    BY <1>4, <1>5 DEF Elsewhere, SameFile, IsOpen, FileOps
<1>6. CASE Loads(l, f) \/ Writes(l, f)
    BY <1>4, <1>6 DEF Loads, Writes, OnCall, SameFile, IsOpen
<1>7. CASE Drops(l, f) \/ Commits(l, f) \/ Discards(l, f) \/ Takes(l, f)
    BY <1>7 DEF Drops, Commits, Discards, Takes, SameFile, IsOpen
<1>8. CASE Refuses(l, f)
    BY <1>4, <1>8 DEF Refuses, OnCall, SameFile, IsOpen
<1>9. CASE Exports(l, f)
    <2>1. IsOpen(f)
        BY <1>9 DEF Exports, IsOpen
    <2>2. loop = "over"
        BY <1>9, <2>1 DEF HandleTaken, Taken, Exports, OnCall
    <2> QED BY <1>1, <1>2, <1>9, <2>1, <2>2 DEF HandleOpen, Exports, OnCall
<1> QED BY <1>3, <1>5, <1>6, <1>7, <1>8, <1>9, FileEffect

\* A task that may disturb what the script relies on makes it unsure.
LEMMA TaskUnsure ==
    ASSUME ClientTypes, CallPlaces, OneOpener, HandleTaken, FilesKept, loop # "over",
           NEW l \in Lanes, TaskStep(l), NEW f \in Files, ~ Unsure(f)
    PROVE  Elsewhere(l, f) \/ Writes(l, f) \/ Drops(l, f) \/ Commits(l, f) \/ Refuses(l, f)
<1>1. l \in asked
    BY TaskOwner
<1>2. ~ Loads(l, f) /\ ~ Enters(l, f) /\ ~ Discards(l, f)
    BY <1>1 DEF Loads, Enters, Discards, OnCall, Unsure, Calling
<1>3. ~ Takes(l, f)
    <2> SUFFICES ASSUME Takes(l, f) PROVE FALSE
        OBVIOUS
    <2>1. HandleOpen(f) /\ IsOpen(f) /\ open[f].state = "w" /\ owed[f].state # "unknown"
        BY TaskOwner DEF FilesKept, IsOpen, Takes, OnCall
    <2>2. owed[f].state = "w"
        BY <2>1 DEF HandleOpen
    <2> QED BY <1>1, <2>2 DEF Takes, OnCall, Unsure, Calling
<1>4. ~ Exports(l, f)
    <2> SUFFICES ASSUME Exports(l, f) PROVE FALSE
        OBVIOUS
    <2>1. owed[f].state \in {"w", "closed"}
        BY DEF Exports, OnCall, HandleTaken, Taken
    <2> QED BY <1>1, <2>1 DEF Exports, OnCall, Unsure, Calling
<1> QED BY <1>2, <1>3, <1>4, FileEffect

\* What the script may not rely on depends on its calls only.
LEMMA UnsureSame ==
    ASSUME UNCHANGED <<script, asked, owed>>, NEW f \in Files
    PROVE  Unsure(f)' <=> Unsure(f)
BY DEF Unsure, Calling, CallOf

\* A handle the script believes open is closed only by a close on its way.
LEMMA TaskShut ==
    ASSUME ClientTypes, CallPlaces, OneOpener, HandleTaken, FilesKept, NEW l \in Lanes, TaskStep(l), NEW f \in Files
    PROVE  HandleShut(f)'
<1> SUFFICES ASSUME loop' # "over", phase' = "running", owed'[f].state \in {"w", "a"}, ~ IsOpen(f)', ~ Unsure(f)'
             PROVE  \E i \in 1 .. Len(responses') : Answers(i, {"close"}, f)'
    BY DEF HandleShut
<1>1. UNCHANGED <<script, asked, owed, loop, phase>>
    BY TaskOwner
<1>2. ~ Unsure(f) /\ HandleShut(f) /\ {"close"} \in SUBSET FileOps
    BY <1>1, UnsureSame DEF FilesKept, FileOps
<1>3. CASE ~ IsOpen(f)
    <2> PICK i \in 1 .. Len(responses) : Answers(i, {"close"}, f)
        BY <1>1, <1>2, <1>3 DEF HandleShut
    <2>1. i \in 1 .. Len(responses') /\ Answers(i, {"close"}, f)'
        BY <1>2, AnswersAfter
    <2> QED BY <2>1
<1>4. CASE IsOpen(f)
    <2>1. Commits(l, f)
        BY <1>1, <1>2, <1>4, TaskUnsure DEF Elsewhere, Writes, Drops, Refuses, SameFile, IsOpen
    <2> QED BY <1>2, <2>1, AnswersAfter DEF Commits, OnCall
<1> QED BY <1>3, <1>4

\* A file holds pieces.
LEMMA HeldTyped ==
    ASSUME ClientTypes, NEW f \in Files
    PROVE  /\ Held(f) \in Seq(Pieces) /\ Len(Held(f)) \in Nat
           /\ owed[f].buf \in Seq(Pieces) /\ Len(owed[f].buf) \in Nat
<1>1. Held(f) \in Seq(Pieces) /\ owed[f].buf \in Seq(Pieces)
    BY DEF ClientTypes, RunTypeOK, Held
<1> QED BY <1>1

\* Of what a file holds, a task changes one write.
LEMMA TaskHeld ==
    ASSUME ClientTypes, CallPlaces, OneOpener, HandleTaken, FilesKept, loop # "over",
           NEW l \in Lanes, TaskStep(l), NEW f \in Files, ~ Unsure(f)
    PROVE  IF Writes(l, f) THEN Held(f)' = Append(Held(f), CallOf(l).data) ELSE Held(f)' = Held(f)
<1>1. CASE Writes(l, f)
    BY <1>1 DEF Writes, Held, IsOpen
<1>2. CASE Elsewhere(l, f) \/ Drops(l, f) \/ Refuses(l, f)
    <2>1. SameFile(f)
        BY <1>2 DEF Elsewhere, Drops, Refuses
    <2>2. ~ Writes(l, f)
        BY <1>2 DEF Elsewhere, Drops, Refuses, Writes, OnCall, FileOps
    <2> QED BY <2>1, <2>2 DEF SameFile, Held, IsOpen
<1>3. CASE Commits(l, f)
    BY <1>3 DEF Commits, Writes, OnCall, Held, IsOpen
<1> QED BY <1>1, <1>2, <1>3, TaskUnsure

\* Which writes wait for their answers once a task has gone on.
LEMMA TaskPending ==
    ASSUME ClientTypes, CallPlaces, NEW l \in Lanes, TaskStep(l), NEW f \in Files
    PROVE  /\ \A i \in 1 .. Len(responses) : i \in 1 .. Len(responses') /\ (Pending(i, f)' <=> Pending(i, f))
           /\ \A i \in 1 .. Len(responses') : Pending(i, f)' /\ i \notin 1 .. Len(responses) =>
                  /\ i = Len(responses) + 1 /\ Ends(l) /\ OnCall(l, "write", f) /\ responses'[i] = l
                  /\ \A j \in 1 .. Len(responses) : ~ Answers(j, {"close"}, f)
           /\ Ends(l) /\ OnCall(l, "write", f) /\ (\A j \in 1 .. Len(responses) : ~ Answers(j, {"close"}, f)) =>
                  \E k \in 1 .. Len(responses') : k = Len(responses) + 1 /\ responses'[k] = l /\ Pending(k, f)'
<1>0. {"write"} \in SUBSET FileOps /\ {"close"} \in SUBSET FileOps /\ Len(responses) \in Nat /\ Len(responses') \in Nat
    BY AnswersQueued DEF FileOps
<1>1. ASSUME NEW i \in 1 .. Len(responses)
      PROVE  i \in 1 .. Len(responses') /\ (Pending(i, f)' <=> Pending(i, f))
    <2>1. i \in 1 .. Len(responses') /\ (Answers(i, {"write"}, f)' <=> Answers(i, {"write"}, f))
        BY <1>0, AnswersAfter
    <2>2. \A j \in 1 .. i - 1 : Answers(j, {"close"}, f)' <=> Answers(j, {"close"}, f)
        <3>1. \A j \in 1 .. i - 1 : j \in 1 .. Len(responses)
            BY <1>0
        <3> QED BY <1>0, <3>1, AnswersAfter
    <2> QED BY <2>1, <2>2 DEF Pending
<1>2. ASSUME NEW i \in 1 .. Len(responses'), Pending(i, f)', i \notin 1 .. Len(responses)
      PROVE  /\ i = Len(responses) + 1 /\ Ends(l) /\ OnCall(l, "write", f) /\ responses'[i] = l
             /\ \A j \in 1 .. Len(responses) : ~ Answers(j, {"close"}, f)
    <2>1. Answers(i, {"write"}, f)'
        BY <1>2 DEF Pending
    <2>0. i = Len(responses) + 1 /\ Ends(l) /\ CallOf(l).op \in {"write"} /\ CallOf(l).on = f
        BY <1>0, <1>2, <2>1, AnswersAfter
    <2>2. i = Len(responses) + 1 /\ Ends(l) /\ OnCall(l, "write", f)
        BY <2>0 DEF OnCall
    <2>3. responses'[i] = l
        BY <2>2, AnswersQueued DEF Ends
    <2>4. ASSUME NEW j \in 1 .. Len(responses) PROVE ~ Answers(j, {"close"}, f)
        <3>1. j \in 1 .. i - 1
            BY <1>0, <2>2
        <3>2. ~ Answers(j, {"close"}, f)'
            BY <1>2, <3>1 DEF Pending
        <3> QED BY <1>0, <3>2, AnswersAfter
    <2> QED BY <2>2, <2>3, <2>4
<1>3. ASSUME Ends(l), OnCall(l, "write", f), \A j \in 1 .. Len(responses) : ~ Answers(j, {"close"}, f)
      PROVE  \E k \in 1 .. Len(responses') : k = Len(responses) + 1 /\ responses'[k] = l /\ Pending(k, f)'
    <2>1. PICK k \in 1 .. Len(responses') :
              k = Len(responses) + 1 /\ responses'[k] = l /\ (Answers(k, {"write"}, f)' <=> CallOf(l).op \in {"write"} /\ CallOf(l).on = f)
        BY <1>0, <1>3, AnswersAfter
    <2>2. \A j \in 1 .. k - 1 : ~ Answers(j, {"close"}, f)'
        <3>1. \A j \in 1 .. k - 1 : j \in 1 .. Len(responses)
            BY <1>0, <2>1
        <3> QED BY <1>0, <1>3, <3>1, AnswersAfter
    <2>3. Answers(k, {"write"}, f)'
        BY <1>3, <2>1 DEF OnCall
    <2>4. Pending(k, f)'
        BY <2>2, <2>3 DEF Pending
    <2> QED BY <2>1, <2>4
<1> QED BY <1>1, <1>2, <1>3

\* What the script saw written stays in the file when a task goes on.
LEMMA TaskKept ==
    ASSUME ClientTypes, CallPlaces, OneOpener, HandleTaken, FilesKept, NEW l \in Lanes, TaskStep(l), NEW f \in Files
    PROVE  FileKept(f)'
<1> SUFFICES ASSUME loop' # "over", ~ Unsure(f)'
             PROVE  /\ Within(owed'[f].buf, Held(f)')
                    /\ phase' = "running" /\ owed'[f].state \in {"w", "a"} =>
                           \E at \in [Lanes -> 0 .. Len(Held(f)')] : Placed(at, f)'
    BY DEF FileKept
<1>1. UNCHANGED <<script, asked, owed, loop, phase>> /\ (\A i \in 1 .. Len(responses) : responses[i] # l)
    BY TaskOwner
<1>2. ~ Unsure(f) /\ FileKept(f) /\ HandleOpen(f) /\ HandleShut(f)
    BY <1>1, UnsureSame DEF FilesKept
<1>3. /\ Held(f) \in Seq(Pieces) /\ Len(Held(f)) \in Nat /\ owed[f].buf \in Seq(Pieces) /\ Len(owed[f].buf) \in Nat
    BY HeldTyped
<1>4. Within(owed[f].buf, Held(f))
    BY <1>1, <1>2 DEF FileKept
<1> DEFINE data == CallOf(l).data
<1>5. Writes(l, f) => /\ data \in Pieces /\ Held(f)' = Append(Held(f), data)
                      /\ Len(Held(f)') = Len(Held(f)) + 1 /\ Held(f)'[Len(Held(f)) + 1] = data
                      /\ \A n \in 1 .. Len(Held(f)) : Held(f)'[n] = Held(f)[n]
    <2> SUFFICES ASSUME Writes(l, f)
                 PROVE  /\ data \in Pieces /\ Held(f)' = Append(Held(f), data)
                        /\ Len(Held(f)') = Len(Held(f)) + 1 /\ Held(f)'[Len(Held(f)) + 1] = data
                        /\ \A n \in 1 .. Len(Held(f)) : Held(f)'[n] = Held(f)[n]
        OBVIOUS
    <2>1. data \in Pieces
        BY TaskEffect, TaskFile DEF Writes, OnCall
    <2>2. Held(f)' = Append(Held(f), data)
        BY <1>1, <1>2, TaskHeld
    <2> QED BY <1>3, <2>1, <2>2, Appended
<1>6. ~ Writes(l, f) => Held(f)' = Held(f)
    BY <1>1, <1>2, TaskHeld
<1>7. Within(owed'[f].buf, Held(f)')
    <2>1. CASE Writes(l, f)
        BY <1>1, <1>3, <1>4, <1>5, <2>1 DEF Within
    <2>2. CASE ~ Writes(l, f)
        BY <1>1, <1>4, <1>6, <2>2
    <2> QED BY <2>1, <2>2
<1>8. ASSUME phase' = "running", owed'[f].state \in {"w", "a"}
      PROVE  \E at \in [Lanes -> 0 .. Len(Held(f)')] : Placed(at, f)'
    <2>1. PICK at \in [Lanes -> 0 .. Len(Held(f))] : Placed(at, f)
        BY <1>1, <1>2, <1>8 DEF FileKept
    <2>2. \A i \in 1 .. Len(responses) : i \in 1 .. Len(responses') /\ (Pending(i, f)' <=> Pending(i, f)) /\ responses'[i] = responses[i]
        BY TaskPending, AnswersQueued
    <2>3. \A i \in 1 .. Len(responses) : Pending(i, f) => responses[i] \in Lanes
        BY DEF Pending, Answers, ClientTypes
    <2>6. \A m : CallOf(m)' = CallOf(m)
        BY <1>1 DEF CallOf
    <2>4. CASE Writes(l, f)
        <3>0. /\ [at EXCEPT ![l] = Len(Held(f)) + 1] \in [Lanes -> 0 .. Len(Held(f)')]
              /\ [at EXCEPT ![l] = Len(Held(f)) + 1][l] = Len(Held(f)) + 1
              /\ \A m \in Lanes : m # l => [at EXCEPT ![l] = Len(Held(f)) + 1][m] = at[m]
            BY <1>3, <1>5, <2>1, <2>4
        <3>1. PICK new \in [Lanes -> 0 .. Len(Held(f)')] :
                  new[l] = Len(Held(f)) + 1 /\ \A m \in Lanes : m # l => new[m] = at[m]
            BY <3>0
        <3>2. \A j \in 1 .. Len(responses) : ~ Answers(j, {"close"}, f)
            <4>1. IsOpen(f) /\ owed[f].state # "unknown"
                BY <2>4, TaskOwner DEF Writes, OnCall
            <4>2. \A j \in 1 .. Len(responses) : ~ Answers(j, {"close", "discard"}, f)
                BY <1>2, <4>1 DEF HandleOpen
            <4> QED BY <4>2 DEF Answers
        <3>3. PICK k \in 1 .. Len(responses') : k = Len(responses) + 1 /\ responses'[k] = l /\ Pending(k, f)'
            BY <2>4, <3>2, TaskPending DEF Writes
        <3>4. \A i \in 1 .. Len(responses') : i \in 1 .. Len(responses) \/ i = k
            BY <2>4, <3>3, Queued DEF Writes, Ends, ClientTypes
        <3>5. ASSUME NEW i \in 1 .. Len(responses), Pending(i, f)
              PROVE  /\ new[responses[i]] = at[responses[i]] /\ at[responses[i]] \in 0 .. Len(Held(f))
                     /\ Len(owed[f].buf) < at[responses[i]] /\ Held(f)[at[responses[i]]] = CallOf(responses[i]).data
                     /\ at[responses[i]] \in 1 .. Len(Held(f))
            <4>1. responses[i] \in Lanes /\ responses[i] # l
                BY <1>1, <2>3, <3>5
            <4>2. Len(owed[f].buf) < at[responses[i]] /\ Held(f)[at[responses[i]]] = CallOf(responses[i]).data
                BY <2>1, <3>5 DEF Placed
            <4>3. at[responses[i]] \in 0 .. Len(Held(f))
                BY <2>1, <4>1
            <4> QED BY <1>3, <3>1, <4>1, <4>2, <4>3
        <3> HIDE DEF data
        <3>6. ASSUME NEW i \in 1 .. Len(responses'), Pending(i, f)'
              PROVE  /\ Len(owed[f].buf) < new[responses'[i]]
                     /\ Held(f)'[new[responses'[i]]] = CallOf(responses'[i]).data
                     /\ \A j \in 1 .. i - 1 : Pending(j, f)' => new[responses'[j]] < new[responses'[i]]
            <4>1. CASE i \in 1 .. Len(responses)
                <5>1. Pending(i, f) /\ responses'[i] = responses[i]
                    BY <2>2, <3>6, <4>1
                <5>2. \A j \in 1 .. i - 1 : j \in 1 .. Len(responses)
                    BY <4>1, AnswersQueued
                <5>3. \A j \in 1 .. i - 1 : Pending(j, f) => at[responses[j]] < at[responses[i]]
                    BY <2>1, <4>1, <5>1 DEF Placed
                <5>4. /\ new[responses[i]] = at[responses[i]] /\ at[responses[i]] \in 1 .. Len(Held(f))
                      /\ Len(owed[f].buf) < at[responses[i]] /\ Held(f)[at[responses[i]]] = CallOf(responses[i]).data
                    BY <3>5, <4>1, <5>1
                <5>5. Held(f)'[at[responses[i]]] = Held(f)[at[responses[i]]]
                    BY <1>5, <2>4, <5>4
                <5>6. \A j \in 1 .. i - 1 : Pending(j, f)' => new[responses'[j]] < new[responses'[i]]
                    BY <2>2, <3>5, <5>1, <5>2, <5>3, <5>4
                <5> QED BY <5>1, <5>4, <5>5, <5>6
            <4>2. CASE i = k
                <5>1. responses'[i] = l
                    BY <3>3, <4>2
                <5>2. \A j \in 1 .. i - 1 : j \in 1 .. Len(responses)
                    BY <3>3, <4>2, AnswersQueued
                <5>3. \A j \in 1 .. i - 1 : Pending(j, f)' => new[responses'[j]] < Len(Held(f)) + 1
                    <6> SUFFICES ASSUME NEW j \in 1 .. i - 1, Pending(j, f)'
                                 PROVE  new[responses'[j]] < Len(Held(f)) + 1
                        OBVIOUS
                    <6>1. j \in 1 .. Len(responses) /\ Pending(j, f) /\ responses'[j] = responses[j]
                        BY <2>2, <5>2
                    <6>2. new[responses[j]] = at[responses[j]] /\ at[responses[j]] \in 1 .. Len(Held(f))
                        BY <3>5, <6>1
                    <6>3. new[responses'[j]] = at[responses[j]]
                        BY <6>1, <6>2
                    <6>4. Len(Held(f)) \in Nat
                        BY <1>3
                    <6> HIDE DEF Held
                    <6> QED BY <6>2, <6>3, <6>4
                <5>4. Len(owed[f].buf) < Len(Held(f)) + 1
                    BY <1>3, <1>4 DEF Within
                <5>5. Held(f)'[Len(Held(f)) + 1] = CallOf(l).data
                    BY <1>5, <2>4 DEF data
                <5> QED BY <3>1, <5>1, <5>3, <5>4, <5>5
            <4> QED BY <3>4, <4>1, <4>2
        <3>7. ASSUME NEW n \in Len(owed[f].buf) + 1 .. Len(Held(f)')
              PROVE  \E i \in 1 .. Len(responses') : Pending(i, f)' /\ new[responses'[i]] = n
            <4>1. CASE n = Len(Held(f)) + 1
                BY <3>1, <3>3, <4>1
            <4>2. CASE n # Len(Held(f)) + 1
                <5>1. n \in Len(owed[f].buf) + 1 .. Len(Held(f))
                    BY <1>3, <1>5, <2>4, <4>2
                <5>2. PICK i \in 1 .. Len(responses) : Pending(i, f) /\ at[responses[i]] = n
                    BY <2>1, <5>1 DEF Placed
                <5> QED BY <2>2, <3>5, <5>2
            <4> QED BY <4>1, <4>2
        <3>8. Placed(new, f)'
            BY <1>1, <2>6, <3>6, <3>7 DEF Placed
        <3> QED BY <3>1, <3>8
    <2>5. CASE ~ Writes(l, f)
        <3>1. Held(f)' = Held(f)
            BY <1>6, <2>5
        <3>2. ASSUME NEW i \in 1 .. Len(responses'), Pending(i, f)' PROVE i \in 1 .. Len(responses)
            <4> SUFFICES ASSUME i \notin 1 .. Len(responses) PROVE FALSE
                OBVIOUS
            <4>1. OnCall(l, "write", f) /\ \A j \in 1 .. Len(responses) : ~ Answers(j, {"close"}, f)
                BY <3>2, TaskPending
            <4>2. Drops(l, f)
                BY <1>1, <1>2, <2>5, <4>1, TaskUnsure DEF Elsewhere, Commits, Refuses, OnCall, FileOps
            <4> QED BY <1>1, <1>2, <1>8, <4>1, <4>2 DEF HandleShut, Drops
        <3>3. Placed(at, f)'
            <4>1. ASSUME NEW i \in 1 .. Len(responses'), Pending(i, f)'
                  PROVE  /\ Len(owed[f].buf) < at[responses'[i]]
                         /\ Held(f)[at[responses'[i]]] = CallOf(responses'[i]).data
                         /\ \A j \in 1 .. i - 1 : Pending(j, f)' => at[responses'[j]] < at[responses'[i]]
                <5>1. i \in 1 .. Len(responses) /\ Pending(i, f) /\ responses'[i] = responses[i]
                    BY <2>2, <3>2, <4>1
                <5>2. \A j \in 1 .. i - 1 : j \in 1 .. Len(responses)
                    BY <5>1, AnswersQueued
                <5>3. /\ Len(owed[f].buf) < at[responses[i]] /\ Held(f)[at[responses[i]]] = CallOf(responses[i]).data
                      /\ \A j \in 1 .. i - 1 : Pending(j, f) => at[responses[j]] < at[responses[i]]
                    BY <2>1, <5>1 DEF Placed
                <5> QED BY <2>2, <5>1, <5>2, <5>3
            <4>2. ASSUME NEW n \in Len(owed[f].buf) + 1 .. Len(Held(f))
                  PROVE  \E i \in 1 .. Len(responses') : Pending(i, f)' /\ at[responses'[i]] = n
                <5>1. PICK i \in 1 .. Len(responses) : Pending(i, f) /\ at[responses[i]] = n
                    BY <2>1, <4>2 DEF Placed
                <5> QED BY <2>2, <5>1
            <4> QED BY <1>1, <2>6, <3>1, <4>1, <4>2 DEF Placed
        <3> QED BY <2>1, <3>1, <3>3
    <2> QED BY <2>4, <2>5
<1> QED BY <1>7, <1>8

-----------------------------------------------------------------------------
(* The files: an answer is sent *)

\* The answers left once one has been sent.
LEMMA SendShift ==
    ASSUME ClientTypes, CallPlaces, SendResponse, NEW f \in Files
    PROVE  \A i \in 1 .. Len(responses') :
               /\ i + 1 \in 1 .. Len(responses) /\ responses'[i] = responses[i + 1]
               /\ responses[i + 1] # "kill" =>
                      /\ responses[i + 1] \in Lanes /\ responses[i + 1] \in asked' /\ responses[i + 1] # responses[1]
                      /\ CallOf(responses[i])' = CallOf(responses[i + 1])
               /\ \A ops \in SUBSET FileOps : Answers(i, ops, f)' <=> Answers(i + 1, ops, f)
<1>1. /\ Len(responses) \in Nat \ {0} /\ Len(responses') = Len(responses) - 1 /\ Head(responses) = responses[1]
      /\ \A i \in 1 .. Len(responses') : responses'[i] = responses[i + 1]
      /\ \/ script' = script /\ asked' = asked
         \/ asked' = asked \ {responses[1]} /\ \A m \in asked' : CallOf(m)' = CallOf(m)
    BY SendEffect
<1> SUFFICES ASSUME NEW i \in 1 .. Len(responses')
             PROVE  /\ i + 1 \in 1 .. Len(responses) /\ responses'[i] = responses[i + 1]
                    /\ responses[i + 1] # "kill" =>
                           /\ responses[i + 1] \in Lanes /\ responses[i + 1] \in asked' /\ responses[i + 1] # responses[1]
                           /\ CallOf(responses[i])' = CallOf(responses[i + 1])
                    /\ \A ops \in SUBSET FileOps : Answers(i, ops, f)' <=> Answers(i + 1, ops, f)
    OBVIOUS
<1>2. i + 1 \in 1 .. Len(responses) /\ responses'[i] = responses[i + 1] /\ 1 \in 1 .. Len(responses) /\ i + 1 # 1
    BY <1>1
<1>3. ASSUME responses[i + 1] # "kill"
      PROVE  /\ responses[i + 1] \in Lanes /\ responses[i + 1] \in asked' /\ responses[i + 1] # responses[1]
             /\ CallOf(responses[i])' = CallOf(responses[i + 1])
    <2>1. responses[i + 1] \in asked /\ responses[i + 1] # responses[1] /\ responses[i + 1] \in Lanes
        BY <1>2, <1>3 DEF CallPlaces, CallAnswered, ClientTypes, RunTypeOK
    <2>2. responses[i + 1] \in asked'
        BY <1>1, <2>1
    <2>3. CASE script' = script /\ asked' = asked
        BY <1>2, <2>1, <2>2, <2>3 DEF CallOf
    <2>4. CASE \A m \in asked' : CallOf(m)' = CallOf(m)
        <3>1. \A m \in asked' : Head(script'[m]) = Head(script[m])
            BY <2>4 DEF CallOf
        <3> QED BY <1>2, <2>1, <2>2, <3>1 DEF CallOf
    <2> QED BY <1>1, <2>3, <2>4
<1>4. \A ops \in SUBSET FileOps : Answers(i, ops, f)' <=> Answers(i + 1, ops, f)
    BY <1>2, <1>3 DEF Answers
<1> QED BY <1>2, <1>3, <1>4

\* What the answer's call says of one file, by what the script then sees of it.
LEMMA SendFile ==
    ASSUME ClientTypes, CallPlaces, SendResponse, OneOpener, NEW f \in Files
    PROVE  /\ UNCHANGED <<open, contents, rpc, loop, phase>> /\ loop = "select" /\ Held(f)' = Held(f)
           /\ \A m \in asked' : m \in asked /\ CallOf(m)' = CallOf(m)
           /\ 1 \in 1 .. Len(responses)
           /\ \/ /\ owed'[f] = owed[f] /\ (Unsure(f) => Unsure(f)')
                 /\ phase = "running" => ~ Answers(1, {"open", "close", "discard"}, f)
                 /\ phase = "running" /\ owed[f].state # "closed" => ~ Answers(1, {"write"}, f)
                 /\ phase = "running" /\ owed[f].state # "a" => ~ Answers(1, {"export"}, f)
              \/ \E r \in asked :
                     /\ r = responses[1] /\ r # "kill" /\ r \notin asked' /\ phase = "running" /\ CallOf(r) \in Calls
                     /\ \/ /\ OnCall(r, "open", f) /\ owed[f].state = "unknown"
                           /\ owed'[f].state = CallOf(r).mode /\ owed'[f].buf = Begun(CallOf(r))
                        \/ /\ OnCall(r, "write", f) /\ owed[f].state \in {"w", "a"} /\ (Unsure(f) => Unsure(f)')
                           /\ owed'[f].state = owed[f].state /\ owed'[f].buf = Append(owed[f].buf, CallOf(r).data)
                        \/ /\ OnCall(r, "close", f) /\ owed[f].state # "unknown"
                           /\ owed'[f].state = "closed" /\ owed'[f].buf = owed[f].buf
                        \/ /\ OnCall(r, "discard", f) \/ (OnCall(r, "export", f) /\ owed[f].state # "a")
                           /\ owed[f].state # "unknown"
                           /\ owed'[f].state = "closed" /\ owed'[f].buf = contents[f]
<1> DEFINE r == Head(responses)
<1>1. /\ r = responses[1] /\ Len(responses) \in Nat \ {0} /\ UNCHANGED <<open, contents, rpc, loop, phase>>
      /\ \/ UNCHANGED <<script, asked, owed>> /\ (phase = "running" /\ r # "kill" => CallOf(r).op = "exit")
         \/ /\ phase = "running" /\ r # "kill" /\ r \in asked /\ r \in Lanes /\ CallOf(r) \in Calls
            /\ owed' = OwedAfter(CallOf(r)) /\ asked' = asked \ {r}
            /\ \A m \in asked' : CallOf(m)' = CallOf(m)
    BY SendEffect
<1>2. loop = "select" /\ Held(f)' = Held(f) /\ 1 \in 1 .. Len(responses)
    BY <1>1 DEF SendResponse, Held, IsOpen
<1> HIDE DEF r
<1>3. CASE UNCHANGED <<script, asked, owed>> /\ (phase = "running" /\ r # "kill" => CallOf(r).op = "exit")
    <2>1. \A m \in asked' : m \in asked /\ CallOf(m)' = CallOf(m)
        BY <1>3 DEF CallOf
    <2>2. owed'[f] = owed[f] /\ (Unsure(f) => Unsure(f)')
        BY <1>3, UnsureSame
    <2>3. \A ops \in SUBSET FileOps : phase = "running" => ~ Answers(1, ops, f)
        BY <1>1, <1>3 DEF Answers, FileOps
    <2>4. /\ {"open", "close", "discard"} \in SUBSET FileOps /\ {"write"} \in SUBSET FileOps
          /\ {"export"} \in SUBSET FileOps
        BY DEF FileOps
    <2> QED BY <1>1, <1>2, <2>1, <2>2, <2>3, <2>4
<1>4. CASE /\ phase = "running" /\ r # "kill" /\ r \in asked /\ r \in Lanes /\ CallOf(r) \in Calls
           /\ owed' = OwedAfter(CallOf(r)) /\ asked' = asked \ {r}
           /\ \A m \in asked' : CallOf(m)' = CallOf(m)
    <2>1. \A m \in asked' : m \in asked /\ CallOf(m)' = CallOf(m)
        BY <1>4
    <2>2. \A m \in Lanes, ops \in SUBSET FileOps : m # r /\ Calling(m, ops, f) => Calling(m, ops, f)'
        BY <1>4 DEF Calling
    <2>3. /\ OnCall(r, "open", f) => owed[f].state = "unknown"
          /\ OnCall(r, "write", f) \/ OnCall(r, "close", f) \/ OnCall(r, "discard", f) \/ OnCall(r, "export", f) =>
                 owed[f].state # "unknown"
        BY <1>4 DEF OneOpener, Calling, OnCall
    <2>4. owed[f].state \in {"unknown", "w", "a", "closed"}
        BY DEF ClientTypes, RunTypeOK
    <2>5. ASSUME owed'[f].state = owed[f].state, ~ Calling(r, {"open", "discard"}, f),
                 owed[f].state # "a" => ~ Calling(r, {"export"}, f)
          PROVE  Unsure(f) => Unsure(f)'
        <3>1. {"open", "discard"} \in SUBSET FileOps /\ {"export"} \in SUBSET FileOps
            BY DEF FileOps
        <3> SUFFICES ASSUME NEW m \in Lanes,
                            Calling(m, {"open", "discard"}, f) \/ (owed[f].state # "a" /\ Calling(m, {"export"}, f))
                     PROVE  Unsure(f)'
            BY DEF Unsure
        <3>2. m # r
            BY <2>5
        <3>3. Calling(m, {"open", "discard"}, f)' \/ (owed[f].state # "a" /\ Calling(m, {"export"}, f)')
            BY <2>2, <3>1, <3>2
        <3> QED BY <2>5, <3>3 DEF Unsure
    <2>6. CASE OnCall(r, "open", f)
        <3>1. owed'[f].state = CallOf(r).mode /\ owed'[f].buf = Begun(CallOf(r))
            BY <1>4, <2>6, OwedOfFile DEF OnCall, FileOps
        <3> QED BY <1>1, <1>2, <1>4, <2>1, <2>3, <2>6, <3>1
    <2>7. CASE OnCall(r, "write", f) /\ owed[f].state # "closed"
        <3>1. owed'[f].state = owed[f].state /\ owed'[f].buf = Append(owed[f].buf, CallOf(r).data)
            BY <1>4, <2>7, OwedOfFile DEF OnCall, FileOps
        <3>2. Unsure(f) => Unsure(f)'
            BY <2>5, <2>7, <3>1 DEF Calling, OnCall
        <3> QED BY <1>1, <1>2, <1>4, <2>1, <2>3, <2>4, <2>7, <3>1, <3>2
    <2>8. CASE OnCall(r, "close", f)
        <3>1. owed'[f].state = "closed" /\ owed'[f].buf = owed[f].buf
            BY <1>4, <2>8, OwedOfFile DEF OnCall, FileOps
        <3> QED BY <1>1, <1>2, <1>4, <2>1, <2>3, <2>8, <3>1
    <2>9. CASE OnCall(r, "discard", f) \/ (OnCall(r, "export", f) /\ owed[f].state # "a")
        <3>1. owed'[f].state = "closed" /\ owed'[f].buf = contents[f]
            BY <1>4, <2>9, OwedOfFile DEF OnCall, FileOps
        <3> QED BY <1>1, <1>2, <1>4, <2>1, <2>3, <2>9, <3>1
    <2>10. CASE \/ CallOf(r).op \notin FileOps \/ CallOf(r).on # f
                \/ CallOf(r).op = "write" /\ owed[f].state = "closed"
                \/ CallOf(r).op = "export" /\ owed[f].state = "a"
        <3>1. owed'[f] = owed[f]
            BY <1>4, <2>10, OwedOfFile DEF FileOps
        <3>2. Unsure(f) => Unsure(f)'
            BY <2>5, <2>10, <3>1 DEF Calling, FileOps
        <3>3. /\ ~ Answers(1, {"open", "close", "discard"}, f)
              /\ owed[f].state # "closed" => ~ Answers(1, {"write"}, f)
              /\ owed[f].state # "a" => ~ Answers(1, {"export"}, f)
            BY <1>1, <2>10 DEF Answers, FileOps
        <3> QED BY <1>1, <1>2, <2>1, <3>1, <3>2, <3>3
    <2>11. \/ CallOf(r).op \notin FileOps \/ CallOf(r).on # f
           \/ OnCall(r, "open", f) \/ OnCall(r, "write", f) \/ OnCall(r, "close", f) \/ OnCall(r, "discard", f) \/ OnCall(r, "export", f)
        BY DEF OnCall, FileOps
    <2> QED BY <2>6, <2>7, <2>8, <2>9, <2>10, <2>11 DEF OnCall
<1> QED BY <1>1, <1>3, <1>4

\* The same facts when an answer is sent.
LEMMA SendOpening ==
    ASSUME ClientTypes, CallPlaces, SendResponse, OneOpener, HandleOpening
    PROVE  HandleOpening'
<1> SUFFICES ASSUME NEW m \in Lanes PROVE Opening(m)'
    BY DEF HandleOpening
<1>1. /\ UNCHANGED <<open, contents, rpc, loop, phase>> /\ loop = "select"
      /\ \A n \in asked : n \in asked' \/ (n = responses[1] /\ 1 \in 1 .. Len(responses))
      /\ \A n \in asked' : n \in asked /\ CallOf(n)' = CallOf(n)
    <2>1. /\ Len(responses) \in Nat \ {0} /\ UNCHANGED <<open, contents, rpc, loop, phase>>
          /\ \/ UNCHANGED <<script, asked, owed>>
             \/ asked' = asked \ {responses[1]} /\ \A n \in asked' : CallOf(n)' = CallOf(n)
        BY SendEffect
    <2>2. CASE UNCHANGED <<script, asked, owed>>
        BY <2>1, <2>2 DEF CallOf, SendResponse
    <2>3. CASE asked' = asked \ {responses[1]} /\ \A n \in asked' : CallOf(n)' = CallOf(n)
        BY <2>1, <2>3 DEF SendResponse
    <2> QED BY <2>1, <2>2, <2>3
<1>2. Opening(m)
    BY <1>1 DEF HandleOpening
<1>3. ASSUME rpc[m].pc = "opening" PROVE rpc[m].buf = Begun(CallOf(m))'
    <2>1. m \in asked /\ \A i \in 1 .. Len(responses) : responses[i] # m
        BY <1>3 DEF CallPlaces, CallInTask
    <2>2. CallOf(m)' = CallOf(m)
        BY <1>1, <2>1
    <2> QED BY <1>1, <1>2, <1>3, <2>2 DEF Opening, Begun
<1>4. ASSUME m \in asked', CallOf(m)'.op = "open", NEW i \in 1 .. Len(responses'), responses'[i] = m
      PROVE  open[CallOf(m)'.on].state = CallOf(m)'.mode /\ open[CallOf(m)'.on].buf = Begun(CallOf(m))'
    <2>1. CallOf(m)' = CallOf(m) /\ m \in asked
        BY <1>1, <1>4
    <2>2. \E k \in 1 .. Len(responses) : responses[k] = m
        <3>1. Len(responses') = Len(responses) - 1 /\ Len(responses) \in Nat \ {0} /\ responses'[i] = responses[i + 1]
            BY SendEffect
        <3> QED BY <1>4, <3>1
    <2>3. open[CallOf(m).on].state = CallOf(m).mode /\ open[CallOf(m).on].buf = Begun(CallOf(m))
        BY <1>2, <1>4, <2>1, <2>2 DEF Opening
    <2> QED BY <1>1, <2>1, <2>3 DEF Begun
<1> QED BY <1>1, <1>3, <1>4 DEF Opening

LEMMA SendTaken ==
    ASSUME ClientTypes, CallPlaces, SendResponse, OneOpener, HandleTaken
    PROVE  HandleTaken'
<1> SUFFICES ASSUME NEW m \in Lanes, rpc'[m].pc = "export"
             PROVE  owed'[CallOf(m)'.on].state \in {"w", "closed"} /\ open'[CallOf(m)'.on].state = "closed"
    BY DEF HandleTaken, Taken, IsOpen
<1> DEFINE f == CallOf(m).on
<1>1. UNCHANGED <<open, rpc, loop>> /\ loop = "select"
    BY SendEffect DEF SendResponse
<1>2. m \in asked /\ CallOf(m).op = "export" /\ \A i \in 1 .. Len(responses) : responses[i] # m
    BY <1>1 DEF CallPlaces, CallInTask, TaskCalls
<1>3. f \in Files
    BY <1>2, AskedCall, CallShape DEF CallPlaces
<1>4. owed[f].state \in {"w", "closed"} /\ open[f].state = "closed"
    BY <1>1 DEF HandleTaken, Taken, IsOpen
<1>5. m \in asked'
    <2>1. Len(responses) \in Nat \ {0} /\ (asked' = asked \/ asked' = asked \ {responses[1]})
        BY SendEffect
    <2> QED BY <1>2, <2>1
<1>6. CallOf(m)' = CallOf(m)
    BY <1>3, <1>5, SendFile
<1>7. owed'[f] = owed[f] \/ owed'[f].state = owed[f].state \/ owed'[f].state = "closed" \/ owed[f].state = "unknown"
    BY <1>3, SendFile
<1> QED BY <1>1, <1>4, <1>6, <1>7

LEMMA SendHandle ==
    ASSUME ClientTypes, CallPlaces, SendResponse, OneOpener, HandleOpening, FilesKept, NEW f \in Files
    PROVE  HandleOpen(f)'
<1> DEFINE Sure(state) == \A i \in 1 .. Len(responses) :
                              /\ ~ Answers(i, {"close", "discard"}, f)
                              /\ state = "w" => ~ Answers(i, {"export"}, f)
<1>1. /\ UNCHANGED <<open, contents, rpc, loop, phase>> /\ loop = "select" /\ 1 \in 1 .. Len(responses)
      /\ \A m \in asked' : m \in asked /\ CallOf(m)' = CallOf(m)
    BY SendFile
<1> SUFFICES ASSUME IsOpen(f)
             PROVE  \/ owed'[f].state = "unknown" /\ \E m \in Lanes : Calling(m, {"open"}, f)'
                    \/ /\ owed'[f].state = open[f].state
                       /\ \A i \in 1 .. Len(responses') :
                              /\ ~ Answers(i, {"close", "discard"}, f)'
                              /\ open[f].state = "w" => ~ Answers(i, {"export"}, f)'
    BY <1>1 DEF HandleOpen, IsOpen
<1>2. HandleOpen(f)
    BY DEF FilesKept
<1>3. ASSUME NEW state, Sure(state)
      PROVE  \A i \in 1 .. Len(responses') :
                 ~ Answers(i, {"close", "discard"}, f)' /\ (state = "w" => ~ Answers(i, {"export"}, f)')
    <2>1. {"close", "discard"} \in SUBSET FileOps /\ {"export"} \in SUBSET FileOps
        BY DEF FileOps
    <2> QED BY <1>3, <2>1, SendShift
<1>4. CASE owed[f].state = "unknown"
    <2>1. Sure(open[f].state)
        <3>1. \A m \in Lanes : ~ Calling(m, {"write", "close", "discard", "export"}, f)
            BY <1>4 DEF OneOpener
        <3>2. \A i \in 1 .. Len(responses) : responses[i] # "kill" => responses[i] \in asked /\ responses[i] \in Lanes
            BY DEF CallPlaces, CallAnswered, ClientTypes, RunTypeOK
        <3> QED BY <3>1, <3>2 DEF Answers, Calling
    <2>2. CASE owed'[f] = owed[f] /\ (phase = "running" => ~ Answers(1, {"open", "close", "discard"}, f))
        <3> PICK m \in Lanes : Calling(m, {"open"}, f)
            BY <1>2, <1>4 DEF HandleOpen, ClientTypes, RunTypeOK
        <3>1. m \in asked'
            <4>1. \/ asked' = asked
                  \/ phase = "running" /\ responses[1] # "kill" /\ asked' = asked \ {responses[1]}
                BY SendEffect
            <4> QED BY <2>2, <4>1 DEF Answers, Calling
        <3> QED BY <1>1, <1>4, <2>2, <3>1 DEF Calling
    <2>3. CASE \E r \in asked : /\ r = responses[1] /\ OnCall(r, "open", f)
                                /\ owed'[f].state = CallOf(r).mode
        <3> PICK r \in asked : r = responses[1] /\ OnCall(r, "open", f) /\ owed'[f].state = CallOf(r).mode
            BY <2>3
        <3>1. Opening(r)
            BY <1>1 DEF HandleOpening, ClientTypes, RunTypeOK
        <3>2. open[f].state = CallOf(r).mode
            BY <1>1, <3>1 DEF Opening, OnCall
        <3> QED BY <1>3, <2>1, <3>2
    <2> QED BY <1>4, <2>2, <2>3, SendFile
<1>5. CASE owed[f].state # "unknown"
    <2>1. owed[f].state = open[f].state /\ Sure(open[f].state)
        BY <1>2, <1>5 DEF HandleOpen
    <2>2. ASSUME NEW r \in asked, r = responses[1], r # "kill"
          PROVE  ~ OnCall(r, "close", f) /\ ~ OnCall(r, "discard", f) /\ ~ (OnCall(r, "export", f) /\ owed[f].state # "a")
        <3>1. ~ Answers(1, {"close", "discard"}, f) /\ (open[f].state = "w" => ~ Answers(1, {"export"}, f))
            BY <1>1, <2>1
        <3>2. open[f].state \in {"w", "a"}
            BY DEF ClientTypes, RunTypeOK, IsOpen
        <3> QED BY <2>1, <2>2, <3>1, <3>2 DEF Answers, OnCall
    <2>3. owed'[f].state = owed[f].state
        BY <1>5, <2>2, SendFile
    <2> QED BY <1>3, <2>1, <2>3
<1> QED BY <1>4, <1>5

LEMMA SendShut ==
    ASSUME ClientTypes, CallPlaces, SendResponse, OneOpener, HandleOpening, FilesKept, NEW f \in Files
    PROVE  HandleShut(f)'
<1>1. /\ UNCHANGED <<open, contents, rpc, loop, phase>> /\ loop = "select"
      /\ Len(responses) \in Nat \ {0} /\ Len(responses') = Len(responses) - 1
    BY SendFile, SendEffect
<1> SUFFICES ASSUME phase = "running", owed'[f].state \in {"w", "a"}, ~ IsOpen(f), ~ Unsure(f)'
             PROVE  \E i \in 1 .. Len(responses') : Answers(i, {"close"}, f)'
    BY <1>1 DEF HandleShut, IsOpen
<1>2. HandleShut(f) /\ {"close"} \in SUBSET FileOps
    BY DEF FilesKept, FileOps
<1>3. ASSUME owed'[f].state = owed[f].state, Unsure(f) => Unsure(f)', ~ Answers(1, {"close"}, f)
      PROVE  \E i \in 1 .. Len(responses') : Answers(i, {"close"}, f)'
    <2> PICK i \in 1 .. Len(responses) : Answers(i, {"close"}, f)
        BY <1>1, <1>2, <1>3 DEF HandleShut
    <2>1. i # 1
        BY <1>3
    <2> PICK k \in 1 .. Len(responses') : k + 1 = i
        <3>1. i - 1 \in 1 .. Len(responses') /\ (i - 1) + 1 = i
            BY <1>1, <2>1
        <3> QED BY <3>1
    <2>2. Answers(k, {"close"}, f)'
        BY <1>2, SendShift
    <2> QED BY <2>2
<1>4. CASE /\ owed'[f] = owed[f] /\ (Unsure(f) => Unsure(f)')
           /\ ~ Answers(1, {"open", "close", "discard"}, f)
    BY <1>3, <1>4 DEF Answers
<1>5. CASE \E r \in asked :
               /\ r = responses[1] /\ r # "kill"
               /\ \/ OnCall(r, "open", f) /\ owed'[f].state = CallOf(r).mode
                  \/ OnCall(r, "write", f) /\ (Unsure(f) => Unsure(f)') /\ owed'[f].state = owed[f].state
                  \/ owed'[f].state = "closed"
    <2> PICK r \in asked : /\ r = responses[1] /\ r # "kill"
                           /\ \/ OnCall(r, "open", f) /\ owed'[f].state = CallOf(r).mode
                              \/ OnCall(r, "write", f) /\ (Unsure(f) => Unsure(f)') /\ owed'[f].state = owed[f].state
                              \/ owed'[f].state = "closed"
        BY <1>5
    <2>1. CASE OnCall(r, "open", f) /\ owed'[f].state = CallOf(r).mode
        <3>1. Opening(r) /\ 1 \in 1 .. Len(responses)
            BY <1>1 DEF HandleOpening, ClientTypes, RunTypeOK
        <3> QED BY <2>1, <3>1 DEF Opening, OnCall, IsOpen
    <2>2. CASE OnCall(r, "write", f) /\ (Unsure(f) => Unsure(f)') /\ owed'[f].state = owed[f].state
        <3>1. ~ Answers(1, {"close"}, f)
            BY <2>2 DEF Answers, OnCall
        <3> QED BY <1>3, <2>2, <3>1
    <2> QED BY <2>1, <2>2
<1>6. \/ /\ owed'[f] = owed[f] /\ (Unsure(f) => Unsure(f)')
         /\ ~ Answers(1, {"open", "close", "discard"}, f)
      \/ \E r \in asked :
             /\ r = responses[1] /\ r # "kill"
             /\ \/ OnCall(r, "open", f) /\ owed'[f].state = CallOf(r).mode
                \/ OnCall(r, "write", f) /\ (Unsure(f) => Unsure(f)') /\ owed'[f].state = owed[f].state
                \/ owed'[f].state = "closed"
    BY SendFile
<1> QED BY <1>4, <1>5, <1>6

\* The writes still waiting keep their places once the first answer is sent.
LEMMA PlacesShift ==
    ASSUME ClientTypes, CallPlaces, SendResponse, OneOpener, NEW f \in Files,
           NEW at \in [Lanes -> 0 .. Len(Held(f))], Placed(at, f), ~ Answers(1, {"close"}, f),
           Len(owed[f].buf) <= Len(owed'[f].buf), Len(owed'[f].buf) \in Nat,
           \A i \in 2 .. Len(responses) : Pending(i, f) => Len(owed'[f].buf) < at[responses[i]],
           Pending(1, f) => at[responses[1]] <= Len(owed'[f].buf)
    PROVE  Placed(at, f)'
<1>1. /\ Len(responses) \in Nat \ {0} /\ Len(responses') = Len(responses) - 1 /\ Held(f)' = Held(f)
      /\ Len(owed[f].buf) \in Nat /\ Len(Held(f)) \in Nat
    BY SendFile, SendEffect, HeldTyped
<1>2. {"close"} \in SUBSET FileOps /\ {"write"} \in SUBSET FileOps
    BY DEF FileOps
<1>3. ASSUME NEW i \in 1 .. Len(responses')
      PROVE  /\ i + 1 \in 2 .. Len(responses) /\ responses'[i] = responses[i + 1]
             /\ Pending(i, f)' <=> Pending(i + 1, f)
             /\ Pending(i + 1, f) => CallOf(responses[i])' = CallOf(responses[i + 1])
    <2>1. i + 1 \in 2 .. Len(responses) /\ responses'[i] = responses[i + 1]
        BY <1>1, SendShift
    <2>2. Answers(i, {"write"}, f)' <=> Answers(i + 1, {"write"}, f)
        BY <1>2, SendShift
    <2>3. \A j \in 1 .. i - 1 : Answers(j, {"close"}, f)' <=> Answers(j + 1, {"close"}, f)
        <3>1. \A j \in 1 .. i - 1 : j \in 1 .. Len(responses')
            BY <1>1
        <3> QED BY <1>2, <3>1, SendShift
    <2>4. (\A j \in 1 .. i - 1 : ~ Answers(j + 1, {"close"}, f)) <=> (\A j \in 1 .. (i + 1) - 1 : ~ Answers(j, {"close"}, f))
        <3>1. \A j \in 1 .. (i + 1) - 1 : j = 1 \/ (j - 1 \in 1 .. i - 1 /\ (j - 1) + 1 = j)
            BY <1>1
        <3>2. \A j \in 1 .. i - 1 : j + 1 \in 1 .. (i + 1) - 1
            BY <1>1
        <3> QED BY <3>1, <3>2
    <2>5. Pending(i, f)' <=> Pending(i + 1, f)
        BY <2>2, <2>3, <2>4 DEF Pending
    <2>6. Pending(i + 1, f) => CallOf(responses[i])' = CallOf(responses[i + 1])
        BY SendShift DEF Pending, Answers
    <2> QED BY <2>1, <2>5, <2>6
<1>4. ASSUME NEW i \in 1 .. Len(responses'), Pending(i, f)'
      PROVE  /\ Len(owed'[f].buf) < at[responses'[i]]
             /\ Held(f)'[at[responses'[i]]] = CallOf(responses[i])'.data
             /\ \A j \in 1 .. i - 1 : Pending(j, f)' => at[responses'[j]] < at[responses'[i]]
    <2>1. /\ Pending(i + 1, f) /\ i + 1 \in 1 .. Len(responses) /\ responses'[i] = responses[i + 1]
          /\ CallOf(responses[i])' = CallOf(responses[i + 1]) /\ i + 1 \in 2 .. Len(responses)
        BY <1>1, <1>3, <1>4
    <2>2. /\ Held(f)[at[responses[i + 1]]] = CallOf(responses[i + 1]).data
          /\ \A j \in 1 .. (i + 1) - 1 : Pending(j, f) => at[responses[j]] < at[responses[i + 1]]
        BY <2>1 DEF Placed
    <2>3. ASSUME NEW j \in 1 .. i - 1, Pending(j, f)' PROVE at[responses'[j]] < at[responses'[i]]
        <3>1. j \in 1 .. Len(responses') /\ j + 1 \in 1 .. (i + 1) - 1
            BY <1>1
        <3>2. Pending(j + 1, f) /\ responses'[j] = responses[j + 1]
            BY <1>3, <2>3, <3>1
        <3> QED BY <2>1, <2>2, <3>1, <3>2
    <2> QED BY <1>1, <2>1, <2>2, <2>3
<1>5. ASSUME NEW n \in Len(owed'[f].buf) + 1 .. Len(Held(f))
      PROVE  \E i \in 1 .. Len(responses') : Pending(i, f)' /\ at[responses'[i]] = n
    <2>1. n \in Len(owed[f].buf) + 1 .. Len(Held(f))
        BY <1>1
    <2> PICK i \in 1 .. Len(responses) : Pending(i, f) /\ at[responses[i]] = n
        BY <2>1 DEF Placed
    <2>2. i # 1
        BY <1>1
    <2> PICK k \in 1 .. Len(responses') : k + 1 = i
        <3>1. i - 1 \in 1 .. Len(responses') /\ (i - 1) + 1 = i
            BY <1>1, <2>2
        <3> QED BY <3>1
    <2> QED BY <1>3
<1> QED BY <1>1, <1>4, <1>5 DEF Placed

\* What the script now sees written is in the file: its oldest unanswered write comes next.
LEMMA SendKept ==
    ASSUME ClientTypes, CallPlaces, SendResponse, OneOpener, HandleOpening, FilesKept, NEW f \in Files
    PROVE  FileKept(f)'
<1>1. /\ UNCHANGED <<open, contents, rpc, loop, phase>> /\ loop = "select" /\ Held(f)' = Held(f)
      /\ 1 \in 1 .. Len(responses)
    BY SendFile
<1> SUFFICES ASSUME ~ Unsure(f)'
             PROVE  /\ Within(owed'[f].buf, Held(f))
                    /\ phase = "running" /\ owed'[f].state \in {"w", "a"} =>
                           \E at \in [Lanes -> 0 .. Len(Held(f))] : Placed(at, f)'
    BY <1>1 DEF FileKept
<1>2. /\ Held(f) \in Seq(Pieces) /\ Len(Held(f)) \in Nat /\ owed[f].buf \in Seq(Pieces) /\ Len(owed[f].buf) \in Nat
      /\ owed[f].state \in {"unknown", "w", "a", "closed"}
    BY HeldTyped DEF ClientTypes, RunTypeOK
<1>3. ~ Unsure(f) => /\ Within(owed[f].buf, Held(f))
                     /\ phase = "running" /\ owed[f].state \in {"w", "a"} =>
                            \E at \in [Lanes -> 0 .. Len(Held(f))] : Placed(at, f)
    BY <1>1 DEF FilesKept, FileKept
<1>4. CASE /\ owed'[f] = owed[f] /\ (Unsure(f) => Unsure(f)')
           /\ phase = "running" => ~ Answers(1, {"open", "close", "discard"}, f)
           /\ phase = "running" /\ owed[f].state # "closed" => ~ Answers(1, {"write"}, f)
    <2>1. ASSUME phase = "running", owed'[f].state \in {"w", "a"}
          PROVE  \E at \in [Lanes -> 0 .. Len(Held(f))] : Placed(at, f)'
        <3> PICK at \in [Lanes -> 0 .. Len(Held(f))] : Placed(at, f)
            BY <1>3, <1>4, <2>1
        <3>1. ~ Answers(1, {"close"}, f) /\ ~ Pending(1, f)
            BY <1>4, <2>1 DEF Answers, Pending
        <3>2. \A i \in 2 .. Len(responses) : Pending(i, f) => Len(owed'[f].buf) < at[responses[i]]
            <4>1. \A i \in 2 .. Len(responses) : i \in 1 .. Len(responses)
                BY <1>1
            <4> QED BY <1>4, <4>1 DEF Placed
        <3>3. Placed(at, f)'
            BY <1>2, <1>4, <3>1, <3>2, PlacesShift
        <3> QED BY <3>3
    <2> QED BY <1>3, <1>4, <2>1
<1>5. ASSUME NEW r \in asked, r = responses[1], r # "kill", OnCall(r, "open", f), owed[f].state = "unknown",
             owed'[f].state = CallOf(r).mode, owed'[f].buf = Begun(CallOf(r)), CallOf(r) \in Calls
      PROVE  /\ Within(owed'[f].buf, Held(f))
             /\ \E at \in [Lanes -> 0 .. Len(Held(f))] : Placed(at, f)'
    <2>1. Opening(r)
        BY <1>1 DEF HandleOpening, ClientTypes, RunTypeOK
    <2>2. Held(f) = owed'[f].buf
        <3>1. open[f].state = CallOf(r).mode /\ open[f].buf = Begun(CallOf(r)) /\ CallOf(r).mode \in {"w", "a"}
            BY <1>1, <1>5, <2>1, CallShape DEF Opening, OnCall
        <3> QED BY <1>5, <3>1 DEF Held, IsOpen
    <2>3. \A i \in 1 .. Len(responses') : ~ Pending(i, f)'
        <3> SUFFICES ASSUME NEW i \in 1 .. Len(responses'), Answers(i, {"write"}, f)' PROVE FALSE
            BY DEF Pending
        <3>1. Answers(i + 1, {"write"}, f) /\ i + 1 \in 1 .. Len(responses)
            BY SendShift DEF FileOps
        <3>2. responses[i + 1] \in asked /\ responses[i + 1] \in Lanes
            BY <3>1 DEF Answers, CallPlaces, CallAnswered, ClientTypes, RunTypeOK
        <3> QED BY <1>5, <3>1, <3>2 DEF Answers, OneOpener, Calling
    <2>4. [m \in Lanes |-> 0] \in [Lanes -> 0 .. Len(Held(f))]
        BY <1>2
    <2> PICK at \in [Lanes -> 0 .. Len(Held(f))] : TRUE
        BY <2>4
    <2>5. Placed(at, f)'
        <3>1. \A n \in Len(owed'[f].buf) + 1 .. Len(Held(f)) : FALSE
            BY <1>2, <2>2
        <3> QED BY <1>1, <2>3, <3>1 DEF Placed
    <2> QED BY <1>2, <2>2, <2>5 DEF Within
<1>6. ASSUME NEW r \in asked, r = responses[1], r # "kill", OnCall(r, "write", f), owed[f].state \in {"w", "a"}, phase = "running",
             ~ Unsure(f), owed'[f].buf = Append(owed[f].buf, CallOf(r).data), CallOf(r) \in Calls
      PROVE  /\ Within(owed'[f].buf, Held(f))
             /\ \E at \in [Lanes -> 0 .. Len(Held(f))] : Placed(at, f)'
    <2> PICK at \in [Lanes -> 0 .. Len(Held(f))] : Placed(at, f)
        BY <1>3, <1>6
    <2>1. CallOf(r).data \in Pieces /\ r \in Lanes
        BY <1>6, CallShape DEF OnCall, ClientTypes, RunTypeOK
    <2>2. /\ Len(owed'[f].buf) = Len(owed[f].buf) + 1 /\ owed'[f].buf[Len(owed[f].buf) + 1] = CallOf(r).data
          /\ \A n \in 1 .. Len(owed[f].buf) : owed'[f].buf[n] = owed[f].buf[n]
        BY <1>2, <1>6, <2>1, Appended
    <2>3. Pending(1, f) /\ ~ Answers(1, {"close"}, f)
        BY <1>6 DEF Pending, Answers, OnCall
    <2>4. /\ Len(owed[f].buf) < at[r] /\ Held(f)[at[r]] = CallOf(r).data /\ at[r] \in 0 .. Len(Held(f))
          /\ \A i \in 1 .. Len(responses) : Pending(i, f) => (\A j \in 1 .. i - 1 : Pending(j, f) => at[responses[j]] < at[responses[i]])
        BY <1>1, <1>6, <2>1, <2>3 DEF Placed
    <2>5. \A i \in 2 .. Len(responses) : Pending(i, f) => at[r] < at[responses[i]]
        <3>1. \A i \in 2 .. Len(responses) : i \in 1 .. Len(responses) /\ 1 \in 1 .. i - 1
            BY <1>1
        <3> QED BY <1>6, <2>3, <2>4, <3>1
    <2>6. at[r] = Len(owed[f].buf) + 1
        <3>1. Len(owed[f].buf) + 1 \in Len(owed[f].buf) + 1 .. Len(Held(f))
            BY <1>2, <2>4
        <3> PICK i \in 1 .. Len(responses) : Pending(i, f) /\ at[responses[i]] = Len(owed[f].buf) + 1
            BY <3>1 DEF Placed
        <3>2. CASE i = 1
            BY <1>6, <3>2
        <3>3. CASE i # 1
            <4>1. i \in 2 .. Len(responses)
                BY <3>3
            <4>2. at[r] < Len(owed[f].buf) + 1
                BY <2>5, <4>1
            <4> QED BY <1>2, <2>4, <4>2
        <3> QED BY <3>2, <3>3
    <2>7. Within(owed'[f].buf, Held(f))
        <3>1. Within(owed[f].buf, Held(f)) /\ Len(owed[f].buf) + 1 <= Len(Held(f))
            BY <1>2, <1>3, <1>6, <2>4
        <3>2. owed'[f].buf[Len(owed[f].buf) + 1] = Held(f)[Len(owed[f].buf) + 1]
            BY <2>2, <2>4, <2>6
        <3>3. ASSUME NEW n \in 1 .. Len(owed[f].buf) + 1 PROVE owed'[f].buf[n] = Held(f)[n]
            <4>1. n \in 1 .. Len(owed[f].buf) \/ n = Len(owed[f].buf) + 1
                BY <1>2
            <4> QED BY <2>2, <3>1, <3>2, <4>1 DEF Within
        <3> QED BY <2>2, <3>1, <3>3 DEF Within
    <2>8. Placed(at, f)'
        <3>1. /\ Len(owed[f].buf) <= Len(owed'[f].buf) /\ Len(owed'[f].buf) \in Nat
              /\ at[responses[1]] <= Len(owed'[f].buf)
            BY <1>2, <1>6, <2>2, <2>6
        <3>2. \A i \in 2 .. Len(responses) : Pending(i, f) => Len(owed'[f].buf) < at[responses[i]]
            BY <2>2, <2>5, <2>6
        <3> QED BY <2>3, <3>1, <3>2, PlacesShift
    <2> QED BY <2>7, <2>8
<1>7. ASSUME NEW r \in asked, r = responses[1], OnCall(r, "close", f), owed[f].state # "unknown",
             owed'[f].state = "closed", owed'[f].buf = owed[f].buf, phase = "running",
             \A m \in asked' : m \in asked /\ CallOf(m)' = CallOf(m)
      PROVE  Within(owed'[f].buf, Held(f))
    <2>1. ~ Unsure(f)
        <3> SUFFICES ASSUME NEW m \in Lanes,
                            Calling(m, {"open", "discard"}, f) \/ (owed[f].state # "a" /\ Calling(m, {"export"}, f))
                     PROVE  FALSE
            BY DEF Unsure
        <3>1. m # r /\ m \in asked
            BY <1>7 DEF Calling, OnCall
        <3>2. m \in asked' /\ CallOf(m)' = CallOf(m)
            <4>1. asked' = asked \/ asked' = asked \ {responses[1]}
                BY SendEffect
            <4> QED BY <1>7, <3>1, <4>1
        <3> QED BY <1>7, <3>2 DEF Calling, Unsure
    <2> QED BY <1>3, <1>7, <2>1
<1>8. ASSUME NEW r \in asked, r = responses[1], r # "kill",
             OnCall(r, "discard", f) \/ (OnCall(r, "export", f) /\ owed[f].state # "a"),
             owed[f].state # "unknown", owed'[f].buf = contents[f]
      PROVE  Within(owed'[f].buf, Held(f))
    <2>1. ~ IsOpen(f)
        <3> SUFFICES ASSUME IsOpen(f) PROVE FALSE
            OBVIOUS
        <3>1. /\ owed[f].state = open[f].state /\ open[f].state \in {"w", "a"}
              /\ ~ Answers(1, {"close", "discard"}, f) /\ (open[f].state = "w" => ~ Answers(1, {"export"}, f))
            BY <1>1, <1>8 DEF FilesKept, HandleOpen, ClientTypes, RunTypeOK, IsOpen
        <3> QED BY <1>8, <3>1 DEF Answers, OnCall
    <2> QED BY <1>2, <1>8, <2>1 DEF Held, Within
<1>9. \/ /\ owed'[f] = owed[f] /\ (Unsure(f) => Unsure(f)')
         /\ phase = "running" => ~ Answers(1, {"open", "close", "discard"}, f)
         /\ phase = "running" /\ owed[f].state # "closed" => ~ Answers(1, {"write"}, f)
      \/ \E r \in asked :
             /\ r = responses[1] /\ r # "kill" /\ phase = "running" /\ CallOf(r) \in Calls
             /\ \/ /\ OnCall(r, "open", f) /\ owed[f].state = "unknown"
                   /\ owed'[f].state = CallOf(r).mode /\ owed'[f].buf = Begun(CallOf(r))
                \/ /\ OnCall(r, "write", f) /\ owed[f].state \in {"w", "a"} /\ (Unsure(f) => Unsure(f)')
                   /\ owed'[f].buf = Append(owed[f].buf, CallOf(r).data)
                \/ /\ OnCall(r, "close", f) /\ owed[f].state # "unknown"
                   /\ owed'[f].state = "closed" /\ owed'[f].buf = owed[f].buf
                \/ /\ OnCall(r, "discard", f) \/ (OnCall(r, "export", f) /\ owed[f].state # "a")
                   /\ owed[f].state # "unknown"
                   /\ owed'[f].state = "closed" /\ owed'[f].buf = contents[f]
    BY SendFile
<1>10. \A m \in asked' : m \in asked /\ CallOf(m)' = CallOf(m)
    BY SendFile
<1> QED BY <1>4, <1>5, <1>6, <1>7, <1>8, <1>9, <1>10

-----------------------------------------------------------------------------
(* The files: the other steps, and the theorems *)

\* A step that leaves the files, and what the script sees of them, alone.
Quiet ==
    /\ UNCHANGED <<script, owed, open, contents, responses>>
    /\ \A l \in asked : l \in asked'
    /\ loop' = "over" <=> loop = "over"
    /\ phase' = "running" => phase = "running"
    /\ \A l \in Lanes : rpc'[l].pc \in {"opening", "export"} => rpc'[l] = rpc[l]

LEMMA QuietKept ==
    ASSUME ClientTypes, CallPlaces, HandleOpening, HandleTaken, FilesKept, FilesFlushed, Quiet
    PROVE  HandleOpening' /\ HandleTaken' /\ FilesKept' /\ FilesFlushed'
<1>1. \A m : CallOf(m)' = CallOf(m)
    BY DEF Quiet, CallOf
<1>2. HandleOpening'
    <2> SUFFICES ASSUME loop' # "over", NEW m \in Lanes PROVE Opening(m)'
        BY DEF HandleOpening
    <2>1. Opening(m)
        BY DEF HandleOpening, Quiet
    <2>2. (\E i \in 1 .. Len(responses) : responses[i] = m) => m \in asked
        BY ScriptsAssumption DEF CallPlaces, CallAnswered
    <2> QED BY <1>1, <2>1, <2>2 DEF Opening, Begun, Quiet
<1>3. HandleTaken'
    BY <1>1 DEF HandleTaken, Taken, IsOpen, Quiet
<1>4. ASSUME NEW f \in Files PROVE HandleOpen(f)'
    <2>1. HandleOpen(f)
        BY DEF FilesKept
    <2>2. \A m \in Lanes : Calling(m, {"open"}, f) => Calling(m, {"open"}, f)'
        BY <1>1 DEF Calling, Quiet
    <2>3. \A i \in 1 .. Len(responses), ops \in SUBSET FileOps : Answers(i, ops, f)' <=> Answers(i, ops, f)
        BY DEF Answers, CallOf, Quiet
    <2>4. {"close", "discard"} \in SUBSET FileOps /\ {"export"} \in SUBSET FileOps
        BY DEF FileOps
    <2> QED BY <2>1, <2>2, <2>3, <2>4 DEF HandleOpen, IsOpen, Quiet
<1>5. ASSUME NEW f \in Files PROVE Unsure(f) => Unsure(f)'
    BY <1>1 DEF Unsure, Calling, Quiet
<1>6. ASSUME NEW f \in Files PROVE HandleShut(f)'
    <2>1. HandleShut(f)
        BY DEF FilesKept
    <2>2. \A i \in 1 .. Len(responses) : Answers(i, {"close"}, f)' <=> Answers(i, {"close"}, f)
        BY DEF Answers, CallOf, Quiet
    <2> QED BY <1>5, <2>1, <2>2 DEF HandleShut, IsOpen, Quiet
<1>7. ASSUME NEW f \in Files PROVE FileKept(f)'
    <2> SUFFICES ASSUME loop' # "over", ~ Unsure(f)'
                 PROVE  /\ Within(owed'[f].buf, Held(f)')
                        /\ phase' = "running" /\ owed'[f].state \in {"w", "a"} =>
                               \E at \in [Lanes -> 0 .. Len(Held(f)')] : Placed(at, f)'
        BY DEF FileKept
    <2>1. FileKept(f) /\ ~ Unsure(f) /\ Held(f)' = Held(f) /\ loop # "over"
        BY <1>5 DEF FilesKept, Held, IsOpen, Quiet
    <2>2. \A i \in 1 .. Len(responses) : Pending(i, f)' <=> Pending(i, f)
        BY DEF Pending, Answers, CallOf, Quiet
    <2>3. ASSUME NEW at \in [Lanes -> 0 .. Len(Held(f))], Placed(at, f) PROVE Placed(at, f)'
        <3>1. \A i \in 1 .. Len(responses) : \A j \in 1 .. i - 1 : j \in 1 .. Len(responses)
            BY DEF ClientTypes
        <3> QED BY <1>1, <2>1, <2>2, <2>3, <3>1 DEF Placed, Quiet
    <2> QED BY <2>1, <2>3 DEF FileKept, Quiet
<1>8. FilesFlushed'
    BY <1>1 DEF FilesFlushed, Quiet
<1> QED BY <1>2, <1>3, <1>4, <1>6, <1>7, <1>8 DEF FilesKept

\* Every step but a task's, an answer and the flush is such a step.
LEMMA NextQuiet ==
    ASSUME ClientTypes, CallPlaces, RunNext,
           \A l \in Lanes : ~ TaskStep(l), ~ SendResponse, ~ Flush
    PROVE  Quiet
<1>1. CASE UNCHANGED <<script, owed, open, contents, responses, asked, rpc>>
    <2>1. /\ loop' = "over" <=> loop = "over"
          /\ phase' = "running" => phase = "running"
        BY DEF RunNext, Ask, ScriptEnds, Killed, Lost, Leave, LoopStep, TakeCall, TakeEnd, Judge, AwaitTasks, TakeLast,
               ForwardCaptured, ChildEnds, NextIs, clientVars, scriptVars
    <2> QED BY <1>1, <2>1 DEF Quiet
<1>2. ASSUME NEW l \in Lanes, Ask(l) PROVE Quiet
    BY <1>2 DEF Ask, Quiet, clientVars, stateVars, history
<1>3. CASE TakeCall
    <2>1. UNCHANGED <<script, owed, open, contents, responses, asked, loop, phase>>
        BY <1>3 DEF TakeCall, scriptVars, stateVars, history
    <2>2. \A l \in Lanes : rpc'[l].pc \in {"opening", "export"} => rpc'[l] = rpc[l]
        <3>1. rpc' = [rpc EXCEPT ![Head(events).lane] = [pc |-> "ready", buf |-> <<>>]]
            BY <1>3 DEF TakeCall
        <3> QED BY <3>1 DEF ClientTypes, RunTypeOK
    <2> QED BY <2>1, <2>2 DEF Quiet
<1> QED BY <1>1, <1>2, <1>3
    DEF RunNext, ScriptEnds, Killed, Lost, Leave, LoopStep, TakeEnd, Judge, AwaitTasks, TakeLast,
        ForwardCaptured, ChildEnds, scriptVars, clientVars, stateVars, history

\* The flush writes what each file holds.
LEMMA FlushKept ==
    ASSUME ClientTypes, FilesKept, Flush
    PROVE  HandleOpening' /\ HandleTaken' /\ FilesKept' /\ FilesFlushed'
<1>1. /\ loop' = "over" /\ loop = "flush" /\ UNCHANGED <<script, asked, owed>>
      /\ \A f \in Files : open'[f].state = "closed" /\ contents'[f] = Held(f)
    BY DEF Flush, Held, NotOpen, scriptVars, history
<1>2. HandleOpening' /\ HandleTaken' /\ FilesKept'
    BY <1>1 DEF HandleOpening, HandleTaken, FilesKept, HandleOpen, HandleShut, FileKept, IsOpen
<1>3. ASSUME NEW f \in Files,
             \A l \in asked' : ~ (CallOf(l)'.op \in {"open", "discard", "export"} /\ CallOf(l)'.on = f)
      PROVE  IsPrefix(owed'[f].buf, contents'[f])
    <2>1. ~ Unsure(f)
        BY <1>1, <1>3 DEF Unsure, Calling, CallOf
    <2>2. Within(owed[f].buf, Held(f))
        BY <1>1, <2>1 DEF FilesKept, FileKept
    <2>3. Held(f) \in Seq(Pieces) /\ owed[f].buf \in Seq(Pieces)
        BY HeldTyped
    <2>4. ASSUME NEW s \in Seq(Pieces), NEW t \in Seq(Pieces), Within(s, t) PROVE IsPrefix(s, t)
        BY <2>4 DEF Within, IsPrefix
    <2> QED BY <1>1, <2>2, <2>3, <2>4
<1> QED BY <1>2, <1>3 DEF FilesFlushed

\* Once the loop is over only a close or an export touches a file, and there is nothing to close.
LEMMA TaskFlushed ==
    ASSUME ClientTypes, CallPlaces, OneOpener, FilesKept, FilesFlushed, NEW l \in Lanes, TaskStep(l)
    PROVE  FilesFlushed'
<1> SUFFICES ASSUME loop' = "over", NEW f \in Files,
                    \A m \in asked' : ~ (CallOf(m)'.op \in {"open", "discard", "export"} /\ CallOf(m)'.on = f)
             PROVE  IsPrefix(owed'[f].buf, contents'[f])
    BY DEF FilesFlushed
<1>1. UNCHANGED <<script, asked, owed, loop>> /\ l \in asked
    BY TaskOwner
<1>2. \A m \in asked : ~ (CallOf(m).op \in {"open", "discard", "export"} /\ CallOf(m).on = f)
    BY <1>1 DEF CallOf
<1>3. IsPrefix(owed[f].buf, contents[f])
    BY <1>1, <1>2 DEF FilesFlushed
<1>4. contents'[f] = contents[f]
    <2>1. CASE Commits(l, f)
        <3>1. owed[f].state # "unknown" /\ HandleOpen(f)
            BY <2>1, TaskOwner DEF Commits, OnCall, FilesKept
        <3>2. ~ IsOpen(f)
            BY <1>1, <3>1 DEF HandleOpen
        <3> QED BY <2>1, <3>2 DEF Commits
    <2>2. CASE Exports(l, f)
        BY <1>1, <1>2, <2>2 DEF Exports, OnCall
    <2> QED BY <2>1, <2>2, FileEffect
        DEF Elsewhere, SameFile, Loads, Enters, Writes, Drops, Discards, Takes, Refuses
<1> QED BY <1>1, <1>3, <1>4

\* The facts about the files hold whatever the step.
LEMMA NextFiles ==
    ASSUME ClientTypes, CallPlaces, OneOpener, HandleOpening, HandleTaken, FilesKept, FilesFlushed, RunNext
    PROVE  HandleOpening' /\ HandleTaken' /\ FilesKept' /\ FilesFlushed'
<1>1. ASSUME NEW l \in Lanes, TaskStep(l)
      PROVE  HandleOpening' /\ HandleTaken' /\ FilesKept' /\ FilesFlushed'
    <2>1. ClientTypes' /\ CallPlaces'
        BY <1>1, TaskTypes, NextPlaces
    <2>2. HandleOpening' /\ HandleTaken' /\ FilesFlushed'
        BY <1>1, <2>1, TaskOpening, TaskTaken, TaskFlushed
    <2>3. ASSUME NEW f \in Files PROVE HandleOpen(f)' /\ HandleShut(f)' /\ FileKept(f)'
        BY <1>1, TaskHandle, TaskShut, TaskKept
    <2> QED BY <2>2, <2>3 DEF FilesKept
<1>2. CASE SendResponse
    <2>1. HandleOpening' /\ HandleTaken'
        BY <1>2, SendOpening, SendTaken
    <2>2. ASSUME NEW f \in Files PROVE HandleOpen(f)' /\ HandleShut(f)' /\ FileKept(f)'
        BY <1>2, SendHandle, SendShut, SendKept
    <2>3. FilesFlushed'
        BY <1>2 DEF SendResponse, FilesFlushed
    <2> QED BY <2>1, <2>2, <2>3 DEF FilesKept
<1>3. CASE Flush
    BY <1>3, FlushKept
<1>4. CASE (\A l \in Lanes : ~ TaskStep(l)) /\ ~ SendResponse /\ ~ Flush
    <2>1. Quiet
        BY <1>4, NextQuiet
    <2> QED BY <2>1, QuietKept
<1> QED BY <1>1, <1>2, <1>3, <1>4

\* The invariant of a run: the start, a step, the whole run.
LEMMA RunStart == RunInit => RunInv
<1> SUFFICES ASSUME RunInit PROVE RunInv
    OBVIOUS
<1>1. ClientTypes
    BY TypesInit
<1>2. asked = {} /\ events = <<>> /\ responses = <<>> /\ (\A l \in Lanes : rpc[l].pc = "idle")
    BY DEF RunInit, Idle
<1>3. CallPlaces
    BY <1>2 DEF CallPlaces, AskedHasCall, CallOnItsWay, CallInTask, CallAnswered
<1>4. StreamOrdered
    BY <1>2 DEF StreamOrdered, RunInit
<1>5. ExitKnown /\ SettledAtEnd
    BY <1>2, ScriptsAssumption DEF ExitKnown, SettledAtEnd, RunInit, NoResult
<1>6. OutputKept
    BY DEF OutputKept, RunInit
<1>7. OneOpener
    BY <1>2 DEF OneOpener, Calling
<1>8. HandleOpening /\ HandleTaken
    BY <1>2 DEF HandleOpening, HandleTaken, Opening, Taken
<1>9. ASSUME NEW f \in Files PROVE HandleOpen(f) /\ HandleShut(f) /\ FileKept(f)
    <2>1. ~ IsOpen(f) /\ owed[f].state = "unknown" /\ owed[f].buf = contents[f] /\ contents[f] \in Seq(Pieces)
        BY <1>1 DEF RunInit, NotOpen, IsOpen, ClientTypes, RunTypeOK
    <2>2. Within(owed[f].buf, Held(f))
        BY <2>1 DEF Within, Held
    <2> QED BY <2>1, <2>2 DEF HandleOpen, HandleShut, FileKept
<1>10. FilesFlushed
    BY DEF FilesFlushed, RunInit
<1> QED BY <1>1, <1>3, <1>4, <1>5, <1>6, <1>7, <1>8, <1>9, <1>10 DEF RunInv, FilesKept

LEMMA RunStays == RunInv /\ [RunNext]_runVars => RunInv'
<1> SUFFICES ASSUME RunInv, [RunNext]_runVars PROVE RunInv'
    OBVIOUS
<1>1. CASE RunNext
    <2>1. ClientTypes' /\ CallPlaces'
        BY <1>1, NextTypes, NextPlaces DEF RunInv
    <2>2. StreamOrdered'
        BY <1>1, NextOrder DEF RunInv
    <2>3. ExitKnown' /\ SettledAtEnd'
        BY <1>1, NextExit, NextSettled DEF RunInv
    <2>4. OutputKept'
        BY <1>1, NextOutput DEF RunInv
    <2>5. OneOpener'
        BY <1>1, NextOpener DEF RunInv
    <2>6. HandleOpening' /\ HandleTaken' /\ FilesKept' /\ FilesFlushed'
        BY <1>1, NextFiles DEF RunInv
    <2> QED BY <2>1, <2>2, <2>3, <2>4, <2>5, <2>6 DEF RunInv
<1>2. CASE UNCHANGED runVars
    <2>1. /\ UNCHANGED <<script, asked, phase, events, loop, rpc, captured, responses, killing, seen, result>>
          /\ UNCHANGED <<lock, open, kids, exitAs, contents, env, written, owed>>
        BY <1>2 DEF runVars, scriptVars, clientVars, stateVars, history
    <2>2. ClientTypes' /\ CallPlaces'
        BY <2>1 DEF RunInv, ClientTypes, RunTypeOK, CallPlaces, AskedHasCall, CallOnItsWay, CallInTask, CallAnswered, CallOf
    <2>3. StreamOrdered' /\ ExitKnown' /\ SettledAtEnd' /\ OutputKept'
        BY <2>1 DEF RunInv, StreamOrdered, ExitKnown, SettledAtEnd, Settled, Exited, OutputKept, CallOf
    <2>4. OneOpener'
        BY <2>1 DEF RunInv, OneOpener, Calling, CallOf
    <2>5. HandleOpening' /\ HandleTaken' /\ FilesKept' /\ FilesFlushed'
        <3>1. Quiet
            BY <2>1 DEF Quiet
        <3> QED BY <3>1, QuietKept DEF RunInv
    <2> QED BY <2>2, <2>3, <2>4, <2>5 DEF RunInv
<1> QED BY <1>1, <1>2

LEMMA RunInvariant == RunSpec => []RunInv
BY RunStart, RunStays, PTL DEF RunSpec

\* The client hands on all of the script's output before it reports the run
\* complete, and every file it leaves behind, however the run ended, holds what
\* the script saw written: run_message_loop's wait for the tasks in flight and
\* the flush after the loop, for any script that opens a handle once.
THEOREM WritesArrive == RunSpec => []WrittenArrives
<1>1. RunInv => WrittenArrives
    <2> SUFFICES ASSUME RunInv PROVE OutputWhole /\ FilesFlushed
        BY DEF WrittenArrives
    <2>1. OutputWhole
        <3> SUFFICES ASSUME result.how = "complete" PROVE seen = written
            BY DEF OutputWhole
        <3>1. captured = <<>> /\ written = seen \o captured /\ seen \in Seq(Pieces)
            BY DEF RunInv, SettledAtEnd, Settled, OutputKept, ClientTypes
        <3> QED BY <3>1
    <2> QED BY <2>1 DEF RunInv
<1> QED BY <1>1, RunInvariant, PTL

\* A script whose process.exit ended the run leaves with a code it asked for,
\* however its calls, their answers and the run's end were interleaved.
THEOREM ExitsHonoured == RunSpec => []ExitHonoured
<1>1. RunInv => ExitHonoured
    BY DEF RunInv, SettledAtEnd, Settled, Exited, ExitHonoured
<1> QED BY <1>1, RunInvariant, PTL

-----------------------------------------------------------------------------
(* Types *)

\* A line is taken in hand only when there is one, and what it names is a stream.
LEMMA DaemonTypesKept == DaemonSpec => []DaemonTypeOK
<1>1. ASSUME DaemonInit PROVE DaemonTypeOK
    <2>1. test \in [on : BOOLEAN, clients : SUBSET Players]
        <3>1. test = [on |-> FALSE, clients |-> {}]
            BY <1>1 DEF DaemonInit
        <3> QED BY <3>1
    <2>2. waiting = "no" /\ holds = FALSE /\ known = {} /\ streams = {} /\ fired = {} /\ doms = {} /\ due = {}
        BY <1>1 DEF DaemonInit
    <2>3. pump \in [Streams -> {"none", "on", "leaving", "off"}]
        BY <1>1 DEF DaemonInit
    <2>4. run \in [Streams -> {"none", "open", "ended", "dropped"}]
        BY <1>1 DEF DaemonInit
    <2> QED BY <2>1, <2>2, <2>3, <2>4 DEF DaemonTypeOK
<1>2. ASSUME StreamInv, DaemonTypeOK, [DaemonNext]_daemonVars PROVE DaemonTypeOK'
    <2> USE DEF lineVars, handleVars, streamVars, worldVars
    <2>1. CASE UNCHANGED daemonVars
        BY <1>2, <2>1 DEF daemonVars, DaemonTypeOK
    <2>w. ASSUME lines # <<>> \/ Answer, Answer \/ Call \/ Wait
          PROVE  waiting' \in {"no", "call", "state"} /\ (waiting' # "no" => lines' # <<>>)
        BY <2>w DEF Answer, Call, Wait
    <2>2. CASE TakeOpen \/ TakeOther \/ TakeClose \/ WaitTimesOut \/ LaunchAnswered \/ SnippetReturns
        <3>1. UNCHANGED <<holds, test, known, streams, fired, pump, run, doms, due>>
            BY <2>2 DEF TakeOpen, TakeOther, TakeClose, WaitTimesOut, LaunchAnswered, SnippetReturns
        <3>2. (lines # <<>> \/ Answer) /\ (Answer \/ Call \/ Wait)
            BY <2>2 DEF TakeOpen, TakeOther, TakeClose, WaitTimesOut, LaunchAnswered, SnippetReturns,
                        InHand, InCall
        <3> QED BY <1>2, <2>w, <3>1, <3>2 DEF DaemonTypeOK
    <2>3. CASE TakeMode
        <3>1. due' \subseteq Doms
            BY <1>2, <2>3 DEF TakeMode, Doms, DaemonTypeOK
        <3>2. (lines # <<>> \/ Answer) /\ (Answer \/ Call \/ Wait)
            BY <2>3 DEF TakeMode, InHand
        <3> QED BY <1>2, <2>w, <2>3, <3>1, <3>2 DEF TakeMode, DaemonTypeOK
    <2>4. CASE TakeMultiplayer \/ TakeEndTest
        <3>1. due' \subseteq Doms
            BY <1>2, <2>4 DEF TakeMultiplayer, TakeEndTest, Doms, DaemonTypeOK
        <3>2. (lines # <<>> \/ Answer) /\ (Answer \/ Call \/ Wait)
            BY <2>4 DEF TakeMultiplayer, TakeEndTest, InHand
        <3>3. UNCHANGED <<holds, test, known, streams, fired, pump, run, doms>>
            BY <2>4 DEF TakeMultiplayer, TakeEndTest
        <3> QED BY <1>2, <2>w, <3>1, <3>2, <3>3 DEF DaemonTypeOK
    <2>5. CASE TakeConnect \/ TakeDisconnect
        <3>1. due' \subseteq Doms
            <4>1. due' \subseteq due \/ \E p \in Players : due' = due \cup {p}
                BY <2>5 DEF TakeConnect, TakeDisconnect
            <4>2. due \subseteq Doms /\ Players \subseteq Doms
                BY <1>2 DEF DaemonTypeOK, Doms
            <4> QED BY <4>1, <4>2
        <3>2. (lines # <<>> \/ Answer) /\ (Answer \/ Call \/ Wait)
            BY <2>5 DEF TakeConnect, TakeDisconnect, InHand
        <3>3. known' \subseteq Players
            BY <1>2, <2>5 DEF TakeConnect, TakeDisconnect, DaemonTypeOK
        <3>4. UNCHANGED <<holds, test, streams, fired, pump, run, doms>>
            BY <2>5 DEF TakeConnect, TakeDisconnect
        <3> QED BY <1>2, <2>w, <3>1, <3>2, <3>3, <3>4 DEF DaemonTypeOK
    <2>6. CASE ClientLeft \/ TestEnded
        <3>1. test' \in [on : BOOLEAN, clients : SUBSET Players]
            <4>1. CASE ClientLeft
                <5>1. known \subseteq Players /\ test' = [test EXCEPT !.clients = known]
                    BY <1>2, <4>1 DEF ClientLeft, DaemonTypeOK
                <5> QED BY <1>2, <5>1 DEF DaemonTypeOK
            <4>2. CASE TestEnded
                <5>1. test' = [on |-> FALSE, clients |-> {}]
                    BY <4>2 DEF TestEnded
                <5> QED BY <5>1
            <4> QED BY <2>6, <4>1, <4>2
        <3>2. waiting' = "no" /\ UNCHANGED <<holds, known, streams, fired, pump, run, doms, due>>
            BY <2>6 DEF ClientLeft, TestEnded, Answer
        <3> QED BY <1>2, <3>1, <3>2 DEF DaemonTypeOK
    <2>7. CASE StudioClosed
        BY <1>2, <2>7 DEF StudioClosed, Answer, DaemonTypeOK
    <2>8. CASE WaitEnds
        <3>1. test' \in [on : BOOLEAN, clients : SUBSET Players]
            BY <1>2, <2>8 DEF WaitEnds, DaemonTypeOK
        <3>2. holds' \in BOOLEAN /\ waiting' = "no"
            BY <1>2, <2>8 DEF WaitEnds, Answer, DaemonTypeOK
        <3> QED BY <1>2, <2>8, <3>1, <3>2 DEF WaitEnds, DaemonTypeOK
    <2>9. CASE TakeRun
        <3>1. Line.stream \in Streams
            <4>1. lines \in Seq(Lines) /\ lines # <<>> /\ Head(lines).op = "run"
                BY <1>2, <2>9 DEF TakeRun, InHand, StreamInv, LinesFresh
            <4>2. Head(lines) \in Lines
                BY <4>1
            <4> QED BY <4>1, <4>2 DEF Lines, Line
        <3> HIDE DEF Line
        <3>2. CASE streams' = streams /\ pump' = pump /\ run' = run
            BY <1>2, <2>9, <3>2 DEF TakeRun, Answer, DaemonTypeOK
        <3>3. CASE /\ streams' = streams \cup {Line.stream}
                   /\ pump' = [pump EXCEPT ![Line.stream] = "on"]
                   /\ run' = [run EXCEPT ![Line.stream] = "open"]
            <4> DEFINE s == Line.stream
            <4>1. s \in Streams /\ streams' = streams \cup {s}
                  /\ pump' = [pump EXCEPT ![s] = "on"] /\ run' = [run EXCEPT ![s] = "open"]
                BY <3>1, <3>3
            <4> HIDE DEF s
            <4>2. pump' \in [Streams -> {"none", "on", "leaving", "off"}]
                BY <1>2, <4>1 DEF DaemonTypeOK
            <4>3. run' \in [Streams -> {"none", "open", "ended", "dropped"}]
                BY <1>2, <4>1 DEF DaemonTypeOK
            <4>4. streams' \subseteq Streams /\ \A x \in streams' : pump'[x] \in {"on", "leaving"}
                BY <1>2, <4>1 DEF DaemonTypeOK
            <4>5. waiting' = "no" /\ UNCHANGED <<holds, test, known, fired, doms, due>>
                BY <2>9 DEF TakeRun, Answer
            <4> QED BY <1>2, <4>2, <4>3, <4>4, <4>5 DEF DaemonTypeOK, Doms
        <3> QED BY <2>9, <3>2, <3>3 DEF TakeRun
    <2>10. CASE TakeCancel
        <3>1. fired' \subseteq Streams /\ streams' \subseteq streams /\ waiting' = "no"
            BY <1>2, <2>10 DEF TakeCancel, Answer, DaemonTypeOK
        <3> QED BY <1>2, <2>10, <3>1 DEF TakeCancel, DaemonTypeOK
    <2>11. CASE World
        BY <1>2, <2>11 DEF World, WorldMoves, DaemonTypeOK
    <2>12. ASSUME NEW s \in Streams,
                  RunEmits(s) \/ RunFinishes(s) \/ PumpCanceled(s) \/ PumpEvent(s) \/ PumpLeaves(s)
           PROVE  DaemonTypeOK'
        <3>1. CASE RunEmits(s) \/ RunFinishes(s)
            <4>1. run' = run \/ run' = [run EXCEPT ![s] = "ended"]
                BY <3>1 DEF RunEmits, RunFinishes
            <4>2. run' \in [Streams -> {"none", "open", "ended", "dropped"}]
                BY <1>2, <4>1 DEF DaemonTypeOK
            <4>3. UNCHANGED <<lines, waiting, holds, test, known, streams, fired, pump, doms, due>>
                BY <3>1 DEF RunEmits, RunFinishes
            <4> QED BY <1>2, <4>2, <4>3 DEF DaemonTypeOK, Doms
        <3>2. CASE PumpCanceled(s)
            BY <1>2, <3>2 DEF PumpCanceled, DaemonTypeOK
        <3>3. CASE PumpEvent(s)
            BY <1>2, <3>3 DEF PumpEvent, DaemonTypeOK
        <3>4. CASE PumpLeaves(s)
            BY <1>2, <3>4 DEF PumpLeaves, DaemonTypeOK
        <3> QED BY <2>12, <3>1, <3>2, <3>3, <3>4
    <2>13. CASE TakeLine
        BY <2>2, <2>3, <2>4, <2>5, <2>9, <2>10, <2>13 DEF TakeLine
    <2>14. CASE CallReturns
        BY <2>2, <2>6, <2>7, <2>14 DEF CallReturns
    <2> QED BY <1>2, <2>1, <2>2, <2>8, <2>11, <2>12, <2>13, <2>14 DEF DaemonNext
<1> QED BY <1>1, <1>2, StreamInvariant, PTL DEF DaemonSpec

\* A capture has a frame only once it is done, and then one.
OneFrame == \A c \in Captures : Cardinality(got[c]) <= 1 /\ (got[c] # {} => stage[c] = "done")

LEMMA CaptureTypesKept == CapturesSpec => []CapturesTypeOK
<1>1. CapturesInit => OneFrame
    <2>1. Cardinality({}) = 0
        BY FS_EmptySet
    <2> QED BY <2>1 DEF CapturesInit, OneFrame
<1>2. ASSUME CaptureInv, OneFrame, [CapturesNext]_captureVars PROVE OneFrame'
    <2>1. CASE UNCHANGED captureVars
        BY <1>2, <2>1 DEF captureVars, OneFrame
    <2>2. ASSUME NEW c \in Captures, stage[c] \in {"idle", "begun", "shot"}, got' = got,
                 NEW s, stage' = [stage EXCEPT ![c] = s]
          PROVE  OneFrame'
        <3>1. got[c] = {} /\ stage \in [Captures -> {"idle", "begun", "shot", "done", "failed"}]
            BY <1>2, <2>2 DEF CaptureInv, NoneYet, CaptureTypes
        <3> QED BY <1>2, <2>2, <3>1 DEF OneFrame
    <2>3. ASSUME NEW c \in Captures, CollectScans(c) PROVE OneFrame'
        <3>1. CASE got' = got
            BY <2>2, <2>3, <3>1 DEF CollectScans
        <3>2. CASE Cardinality(Select(c)) = 1 /\ got' = [got EXCEPT ![c] = Select(c)]
                   /\ stage' = [stage EXCEPT ![c] = "done"]
            <4>1. stage \in [Captures -> {"idle", "begun", "shot", "done", "failed"}]
                  /\ got \in [Captures -> SUBSET Frame]
                BY <1>2 DEF CaptureInv, CaptureTypes
            <4> QED BY <1>2, <3>2, <4>1 DEF OneFrame
        <3> QED BY <2>3, <3>1, <3>2 DEF CollectScans
    <2>4. ASSUME NEW c \in Captures, CaptureBegin(c) \/ Shoot(c) \/ CollectGivesUp(c) PROVE OneFrame'
        BY <2>2, <2>4 DEF CaptureBegin, Shoot, CollectGivesUp
    <2>5. ASSUME NEW c \in Captures, NEW whole \in BOOLEAN, EngineWrites(c, whole) PROVE OneFrame'
        BY <1>2, <2>5 DEF EngineWrites, OneFrame
    <2> QED BY <1>2, <2>1, <2>3, <2>4, <2>5 DEF CapturesNext
<1>3. CaptureInv /\ OneFrame => CapturesTypeOK
    BY DEF CaptureInv, CaptureTypes, OneFrame, CapturesTypeOK
<1> QED BY <1>1, <1>2, <1>3, CaptureInvariant, PTL DEF CapturesSpec

\* Whatever the client's instance does is done by one of its four parts, and the others
\* stand still.
LEMMA PartsBehave == ClientSpec => RunSpec /\ DaemonSpec /\ CapturesSpec /\ ScriptSpec
<1>1. ClientInit => RunInit /\ DaemonInit /\ CapturesInit /\ ScriptInit
    BY DEF ClientInit
<1>2. [ClientNext]_allVars =>
          /\ [RunNext]_runVars /\ [DaemonNext]_daemonVars
          /\ [CapturesNext]_captureVars /\ [ScriptNext]_transferVars
    BY DEF ClientNext, allVars
<1> QED BY <1>1, <1>2, PTL DEF ClientSpec, RunSpec, DaemonSpec, CapturesSpec, ScriptSpec

\* Every variable of the client keeps its type, whatever script, lines, captures and uploads
\* it is given: calls and their tasks, handles and streams, frames and pieces.
THEOREM ClientTypesKept == ClientSpec => []ClientTypeOK
<1>1. RunInv => RunTypeOK
    BY DEF RunInv, ClientTypes
<1>2. TransferInv => ScriptTypeOK
    BY TransferTypesOK DEF TransferInv
<1>3. RunTypeOK /\ DaemonTypeOK /\ CapturesTypeOK /\ ScriptTypeOK => ClientTypeOK
    BY DEF ClientTypeOK
<1> QED
    BY <1>1, <1>2, <1>3, PartsBehave, RunInvariant, DaemonTypesKept, CaptureTypesKept, TransferSafe, PTL
=============================================================================
