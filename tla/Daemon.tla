------------------------------- MODULE Daemon -------------------------------
(***************************************************************************)
(* `rodeo __spawn_canonical_client`: the JSON-RPC process behind the        *)
(* TypeScript, Lune and Lute clients.  It reads one line after the other    *)
(* and answers a line before it reads the next; a run is pumped to the      *)
(* caller by a task of its own, until it is done or a later line cancels    *)
(* it.  Lines about a Studio wait: for the stream of a launch or a close or *)
(* for a snippet run in it, without a deadline, and for the master's view   *)
(* of its DOMs, with the line's deadline if it has one.                     *)
(***************************************************************************)
EXTENDS Naturals, Sequences, FiniteSets

CONSTANTS
    Streams,     \* stream ids, allocated by the caller, each used once
    Players,     \* the client DOMs a multiplayer test may get
    Plans,       \* the sequences of lines considered
    Server,      \* the server DOM of a play session
    MaxOutput    \* bound: output of a run

Lines ==
    [op : {"run", "cancel"}, stream : Streams]
        \cup [op : {"open", "run mode", "play", "connect"}, timed : BOOLEAN]
        \cup [op : {"multiplayer"}, players : 0 .. Cardinality(Players), timed : BOOLEAN]
        \cup [op : {"edit", "close", "disconnect", "end", "other"}]

ASSUME PlansAssumption == Plans \subseteq Seq(Lines) /\ Server \notin Players

\* The caller gives every run a stream id of its own.
ASSUME IdsAssumption ==
    \A plan \in Plans : \A i, j \in DOMAIN plan :
        plan[i] = plan[j] /\ plan[i].op = "run" => i = j

VARIABLES
    lines,     \* standard input, the line in hand first
    waiting,   \* what the line in hand waits for: a call, the Studio's state, or nothing
    holds,     \* the Studio handle is in the table
    test,      \* the multiplayer test: in the table, and its clients
    known,     \* connect_client's snapshot of them, what disconnect_client leaves of them
    streams,   \* the cancel channels in the table
    fired,     \* cancel channels that have fired
    pump,      \* the task of each stream
    feed,      \* the events of each run, on their way to its pump
    run,       \* the run behind each stream
    notes,     \* the notifications of each stream, on standard output
    listed,    \* the Studio is in the master's state
    doms,      \* its server and client DOMs there
    due        \* those that have been asked for

lineVars == <<lines, waiting>>
handleVars == <<holds, test, known>>
streamVars == <<streams, fired, pump, feed, run, notes>>
worldVars == <<listed, doms, due>>
daemonVars == <<lineVars, handleVars, streamVars, worldVars>>

Doms == Players \cup {Server}

DaemonTypeOK ==
    /\ waiting \in {"no", "call", "state"} /\ holds \in BOOLEAN
    /\ test \in [on : BOOLEAN, clients : SUBSET Players]
    /\ known \subseteq Players
    /\ streams \subseteq Streams /\ fired \subseteq Streams
    /\ pump \in [Streams -> {"none", "on", "leaving", "off"}]
    /\ run \in [Streams -> {"none", "open", "ended", "dropped"}]
    /\ \A s \in streams : pump[s] \in {"on", "leaving"}
    /\ doms \subseteq Doms /\ due \subseteq Doms
    /\ waiting # "no" => lines # <<>>

DaemonInit ==
    /\ lines \in Plans /\ waiting = "no"
    /\ holds = FALSE /\ test = [on |-> FALSE, clients |-> {}] /\ known = {}
    /\ streams = {} /\ fired = {}
    /\ pump = [s \in Streams |-> "none"]
    /\ feed = [s \in Streams |-> <<>>]
    /\ run = [s \in Streams |-> "none"]
    /\ notes = [s \in Streams |-> <<>>]
    /\ listed = FALSE /\ doms = {} /\ due = {}

-----------------------------------------------------------------------------
(* Reading and answering lines *)

InHand(op) == lines # <<>> /\ waiting = "no" /\ Head(lines).op = op
InCall(op) == lines # <<>> /\ waiting = "call" /\ Head(lines).op = op
Line == Head(lines)

Answer ==
    /\ lines' = Tail(lines)
    /\ waiting' = "no"

\* The rest of the line waits for the end of a stream or of a snippet: no deadline.
Call == waiting' = "call" /\ lines' = lines

\* The rest of the line waits in wait_for_instance.
Wait == waiting' = "state" /\ lines' = lines

\* studio.open*: a launch (StudioLaunch) is asked for, or refused.
TakeOpen ==
    /\ InHand("open")
    /\ Call \/ Answer
    /\ UNCHANGED <<handleVars, streamVars, worldVars>>

\* Its stream tells that the Studio is ready, and the edit DOM is waited for; or it
\* tells of an error, or ends.
LaunchAnswered ==
    /\ InCall("open")
    /\ Wait \/ Answer
    /\ UNCHANGED <<handleVars, streamVars, worldVars>>

\* studio.setMode: the master refuses, or, but for edit, the DOMs of the mode are
\* waited for.
TakeMode ==
    /\ InHand("edit") \/ InHand("run mode") \/ InHand("play")
    /\ \/ Answer /\ due' = due
       \/ /\ holds /\ listed
          /\ \/ Line.op = "edit" /\ Answer /\ due' = {}
             \/ Line.op = "run mode" /\ Wait /\ due' = {Server}
             \/ Line.op = "play" /\ Wait /\ \E p \in Players : due' = {Server, p}
    /\ UNCHANGED <<handleVars, streamVars, listed, doms>>

\* studio.startMultiplayerTest: a snippet in the edit DOM asks for a server and so
\* many clients, if it gets to run; or it cannot be submitted.
TakeMultiplayer ==
    /\ InHand("multiplayer")
    /\ \/ Answer /\ due' = due
       \/ /\ holds /\ Call
          /\ \/ due' = due
             \/ \E P \in SUBSET Players : Cardinality(P) = Line.players /\ due' = P \cup {Server}
    /\ UNCHANGED <<handleVars, streamVars, listed, doms>>

\* mp.connectClient: a snippet on the server asks for one more player, whose DOM is
\* the one not known before.
TakeConnect ==
    /\ InHand("connect")
    /\ \/ Answer /\ UNCHANGED <<known, due>>
       \/ /\ test.on /\ Call /\ known' = test.clients
          /\ due' \in {due \cup {p} : p \in Players \ doms} \cup {due}
    /\ UNCHANGED <<holds, test, streamVars, listed, doms>>

\* The snippet of either is over, well or not: its DOMs are waited for.
SnippetReturns ==
    /\ InCall("multiplayer") \/ InCall("connect")
    /\ Wait
    /\ UNCHANGED <<handleVars, streamVars, worldVars>>

\* mp.disconnectClient: a snippet on the client makes it leave; or the test has no
\* such client.
TakeDisconnect ==
    /\ InHand("disconnect")
    /\ \/ Answer /\ UNCHANGED <<known, due>>
       \/ \E p \in test.clients :
              Call /\ known' = test.clients \ {p} /\ due' \in {due, due \ {p}}
    /\ UNCHANGED <<holds, test, streamVars, listed, doms>>

ClientLeft ==
    /\ InCall("disconnect") /\ Answer
    /\ test' = [test EXCEPT !.clients = known]
    /\ UNCHANGED <<holds, known, streamVars, worldVars>>

\* mp.close: a snippet on the server ends the test, which leaves the table with it.
TakeEndTest ==
    /\ InHand("end")
    /\ \/ Answer /\ due' = due
       \/ test.on /\ Call /\ due' \in {due, {}}
    /\ UNCHANGED <<handleVars, streamVars, listed, doms>>

TestEnded ==
    /\ InCall("end") /\ Answer
    /\ test' = [on |-> FALSE, clients |-> {}]
    /\ UNCHANGED <<holds, known, streamVars, worldVars>>

\* studio.close: the master is asked, and refuses or opens a stream.
TakeClose ==
    /\ InHand("close")
    /\ Answer \/ (holds /\ Call)
    /\ UNCHANGED <<handleVars, streamVars, worldVars>>

\* The stream tells that the Studio is gone, or ends: the handle goes either way.
StudioClosed ==
    /\ InCall("close") /\ Answer
    /\ holds' = FALSE
    /\ UNCHANGED <<test, known, streamVars, worldVars>>

CallReturns == LaunchAnswered \/ SnippetReturns \/ ClientLeft \/ TestEnded \/ StudioClosed

\* Every other method, and a line that does not parse: a call that the master answers
\* by itself (a save within its 70 s).
TakeOther ==
    /\ InHand("other") /\ Answer
    /\ UNCHANGED <<handleVars, streamVars, worldVars>>

\* What wait_for_instance waits for.
Arrived ==
    CASE Line.op = "open" -> TRUE
      [] Line.op = "run mode" -> Server \in doms
      [] Line.op = "play" -> Server \in doms /\ doms \cap Players # {}
      [] Line.op = "multiplayer" -> Server \in doms /\ Cardinality(doms \cap Players) = Line.players
      [] OTHER -> (doms \cap Players) \ known # {}

\* A poll finds it: the handle is entered and the line answered.
WaitEnds ==
    /\ waiting = "state" /\ listed /\ Arrived /\ Answer
    /\ holds' = (holds \/ Line.op = "open")
    /\ test' = CASE Line.op = "multiplayer" -> [on |-> TRUE, clients |-> doms \cap Players]
                 [] Line.op = "connect" -> [test EXCEPT !.clients = doms \cap Players]
                 [] OTHER -> test
    /\ UNCHANGED <<known, streamVars, worldVars>>

\* The line's deadline passes, if it has one, or the master cannot be reached: an
\* error.
WaitTimesOut ==
    /\ waiting = "state" /\ Answer
    /\ UNCHANGED <<handleVars, streamVars, worldVars>>

-----------------------------------------------------------------------------
(* Runs *)

\* *.runCode: the stream is opened and its cancel channel entered, a task pumps
\* it, and the line is answered; or the run is refused.
TakeRun ==
    /\ InHand("run") /\ Answer
    /\ \/ /\ streams' = streams \cup {Line.stream}
          /\ pump' = [pump EXCEPT ![Line.stream] = "on"]
          /\ run' = [run EXCEPT ![Line.stream] = "open"]
       \/ UNCHANGED <<streams, pump, run>>
    /\ UNCHANGED <<fired, feed, notes, handleVars, worldVars>>

\* (Mutant: a cancel that forgets the channel and does not fire it.)
CancelForgets ==
    /\ InHand("cancel") /\ Answer
    /\ streams' = streams \ {Line.stream}
    /\ UNCHANGED <<fired, pump, feed, run, notes, handleVars, worldVars>>

\* dom.cancelRun.
TakeCancel ==
    /\ InHand("cancel") /\ Answer
    /\ streams' = streams \ {Line.stream}
    /\ fired' = IF Line.stream \in streams THEN fired \cup {Line.stream} ELSE fired
    /\ UNCHANGED <<pump, feed, run, notes, handleVars, worldVars>>

\* The run's message loop (ClientRun) hands an event over: output, or the Done
\* that every run ends with.
RunEmits(s) ==
    /\ run[s] = "open" /\ Len(feed[s]) + Len(notes[s]) < MaxOutput
    /\ feed' = [feed EXCEPT ![s] = Append(@, "data")]
    /\ UNCHANGED <<lineVars, handleVars, streams, fired, pump, run, notes, worldVars>>

RunFinishes(s) ==
    /\ run[s] = "open"
    /\ run' = [run EXCEPT ![s] = "ended"]
    /\ feed' = [feed EXCEPT ![s] = Append(@, "done")]
    /\ UNCHANGED <<lineVars, handleVars, streams, fired, pump, notes, worldVars>>

\* (Mutant: the cancellation notified, the run pumped on.)
PumpCanceledOn(s) ==
    /\ pump[s] = "on" /\ s \in fired
    /\ notes' = [notes EXCEPT ![s] = Append(@, "canceled")]
    /\ fired' = fired \ {s}
    /\ UNCHANGED <<lineVars, handleVars, streams, pump, feed, run, worldVars>>

\* The cancel branch: the run's stream is dropped, and with it the run.
PumpCanceled(s) ==
    /\ pump[s] = "on" /\ s \in fired
    /\ notes' = [notes EXCEPT ![s] = Append(@, "canceled")]
    /\ pump' = [pump EXCEPT ![s] = "leaving"]
    /\ run' = [run EXCEPT ![s] = IF @ = "open" THEN "dropped" ELSE @]
    /\ UNCHANGED <<lineVars, handleVars, streams, fired, feed, worldVars>>

\* The event branch.
PumpEvent(s) ==
    /\ pump[s] = "on" /\ feed[s] # <<>>
    /\ notes' = [notes EXCEPT ![s] = Append(@, Head(feed[s]))]
    /\ feed' = [feed EXCEPT ![s] = Tail(@)]
    /\ pump' = [pump EXCEPT ![s] = IF Head(feed[s]) = "done" THEN "leaving" ELSE @]
    /\ UNCHANGED <<lineVars, handleVars, streams, fired, run, worldVars>>

\* The task leaves the table of streams.
PumpLeaves(s) ==
    /\ pump[s] = "leaving"
    /\ pump' = [pump EXCEPT ![s] = "off"]
    /\ streams' = streams \ {s}
    /\ UNCHANGED <<lineVars, handleVars, fired, feed, run, notes, worldVars>>

-----------------------------------------------------------------------------
(* The Studio, as the master lists it *)

WorldMoves ==
    \/ \* A launched Studio is listed, or the user quits one.
       /\ listed' = ~ listed /\ (~ listed => waiting # "no" /\ Line.op = "open")
       /\ doms' = {} /\ due' = {}
    \/ \* A DOM asked for connects.
       /\ listed /\ listed' = listed
       /\ \E d \in due \ doms : doms' = doms \cup {d} /\ due' = due
    \/ \* One that was asked to leave is gone.
       /\ listed /\ listed' = listed
       /\ \E d \in doms \ due : doms' = doms \ {d} /\ due' = due

World == WorldMoves /\ UNCHANGED <<lineVars, handleVars, streamVars>>

-----------------------------------------------------------------------------
TakeLine ==
    \/ TakeOpen \/ TakeMode \/ TakeMultiplayer \/ TakeConnect \/ TakeDisconnect \/ TakeEndTest
    \/ TakeClose \/ TakeOther \/ TakeRun \/ TakeCancel

DaemonNext ==
    \/ TakeLine \/ CallReturns \/ WaitEnds \/ WaitTimesOut \/ World
    \/ \E s \in Streams :
           RunEmits(s) \/ RunFinishes(s) \/ PumpCanceled(s) \/ PumpEvent(s) \/ PumpLeaves(s)

DaemonSpec == DaemonInit /\ [][DaemonNext]_daemonVars

\* Lines are read, the deadlines that lines carry pass and the pumps are scheduled.
\* Nothing is assumed of the runs and the Studio, nor of the master's answers to a
\* launch, a close and a snippet.
DaemonFairness ==
    /\ WF_daemonVars(TakeLine) /\ WF_daemonVars(WaitTimesOut /\ Line.timed)
    /\ \A s \in Streams :
           WF_daemonVars(PumpCanceled(s)) /\ WF_daemonVars(PumpEvent(s)) /\ WF_daemonVars(PumpLeaves(s))

-----------------------------------------------------------------------------
(* Properties *)

\* A stream's notifications end with one terminal notification and nothing follows
\* it, however a cancel and the run's own end cross.
StreamEndsOnce ==
    \A s \in Streams : \A i \in 1 .. Len(notes[s]) - 1 : notes[s][i] = "data"

Asked(op, s) == \E i \in 1 .. Len(lines) : lines[i] = [op |-> op, stream |-> s]

\* The line in hand waits for something that no deadline bounds.
Unbounded == waiting = "call" \/ (waiting = "state" /\ ~ Line.timed)

\* A run whose cancel is on standard input does not run on behind the lines before it,
\* unless one of those waits for ever: for a launch, a close or a snippet that is never
\* answered, or, without a timeoutMs, for DOMs that never come.
CanceledRunStops ==
    \A s \in Streams :
        run[s] = "open" /\ Asked("cancel", s) ~> (run[s] # "open" \/ []Unbounded)
==============================================================================
