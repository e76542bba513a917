------------------------------ MODULE ClientRun ------------------------------
(***************************************************************************)
(* One run as its client sees it: the message loop that reads the run's    *)
(* events, the tasks it spawns to serve the script's calls on the client's *)
(* files, processes and standard streams, the lock on the state they share *)
(* and the result the loop hands to its consumer.                          *)
(*                                                                         *)
(* The script is a set of coroutines ("lanes"), each a sequence of calls,  *)
(* and ends with its main lane.  The master and the plugin are the stream  *)
(* of events they produce (RunLifecycle models them).                      *)
(***************************************************************************)
EXTENDS Naturals, Sequences, SequencesExt

CONSTANTS
    Lanes,        \* the script's coroutines
    Main,         \* the one whose return ends the script
    Scripts,      \* the programs considered: functions from lanes to calls
    Files,        \* the file handles the script opens, each on its own path
    Children,     \* the processes it may start
    Echo,         \* those that print only once something was written to them
    Disturbances, \* what may happen to a run, as sets of disturbances
    None

Pieces == {"a", "b", "old"}
Codes == {0, 3}
Calls ==
    [op : {"open"}, on : Files, mode : {"w", "a"}]
        \cup [op : {"write"}, on : Files \cup {"stdout"}, data : Pieces]
        \cup [op : {"close", "discard", "export"}, on : Files]
        \cup [op : {"read", "feed", "create", "run", "wait", "kill"}, on : Children]
        \cup [op : {"input"}]
        \cup [op : {"exit"}, code : Codes]

ASSUME ScriptsAssumption ==
    /\ Main \in Lanes /\ Scripts \subseteq [Lanes -> Seq(Calls)] /\ Echo \subseteq Children
    /\ None \notin Lanes \cup {"complete", "disconnect"} /\ "kill" \notin Lanes

VARIABLES
    script,     \* what each lane has still to call, the call in flight included
    asked,      \* lanes suspended in a call
    phase,      \* the script's end as the master knows it
    events,     \* the run's event stream, on its way to the client
    loop,       \* where the message loop is
    rpc,        \* the RPC task serving each lane's call
    lock,       \* the lane whose task holds the RpcState across an await
    open,       \* stream_handlers: the open file writers and appenders
    kids,       \* the child processes and their streams
    exitAs,     \* exit_code and exit_requested
    captured,   \* the capture channel
    responses,  \* the response channel
    killing,    \* the kill that ends an exiting script has found it running
    seen,       \* output handed to the consumer
    result,     \* the Done event handed to the consumer
    contents,   \* the files' contents
    env,        \* what may happen to this run
    written,    \* history: output in the order the script's writes were served
    owed        \* history: the files as the answers to its calls show them to the script

scriptVars == <<script, asked, phase>>
stateVars == <<lock, open, kids, exitAs>>
clientVars == <<loop, rpc, captured, responses, killing, seen, result>>
history == <<written, owed>>
runVars == <<scriptVars, events, clientVars, stateVars, contents, env, history>>

Idle == [pc |-> "idle", buf |-> <<>>]
NoChild == [state |-> "none", held |-> FALSE, fed |-> FALSE, out |-> 0]
IsOpen(f) == open[f].state # "closed"
NotOpen == [state |-> "closed", buf |-> <<>>]
NoResult == [how |-> None, code |-> 0]

RunTypeOK ==
    /\ asked \subseteq Lanes
    /\ phase \in {"running", "done", "killed", "lost"}
    /\ loop \in {"select", "judge", "await", "flush", "over"}
    /\ rpc \in [Lanes -> [pc : {"idle", "ready", "opening", "spawned", "reading", "typing", "feeding",
                                 "waiting", "export"},
                           buf : Seq(Pieces)]]
    /\ lock \in Lanes \cup {None}
    /\ \A l \in Lanes : lock = l <=> rpc[l].pc \in {"reading", "feeding"}
    /\ open \in [Files -> [state : {"closed", "w", "a"}, buf : Seq(Pieces)]]
    /\ kids \in [Children -> [state : {"none", "alive", "ended"}, held : BOOLEAN,
                              fed : BOOLEAN, out : {0, 1}]]
    /\ exitAs \in [code : Codes, requested : BOOLEAN]
    /\ result \in [how : {None, "complete", "disconnect"}, code : Codes \cup {1, 2}]
    /\ contents \in [Files -> Seq(Pieces)]
    /\ owed \in [Files -> [state : {"unknown", "w", "a", "closed"}, buf : Seq(Pieces)]]
    /\ killing => exitAs.requested

RunInit ==
    /\ script \in Scripts
    /\ env \in Disturbances
    /\ asked = {} /\ phase = "running"
    /\ events = <<>>
    /\ loop = "select" /\ rpc = [l \in Lanes |-> Idle]
    /\ captured = <<>> /\ responses = <<>> /\ killing = FALSE
    /\ seen = <<>> /\ result = NoResult
    /\ lock = None
    /\ open = [f \in Files |-> NotOpen]
    /\ kids = [c \in Children |-> NoChild]
    /\ exitAs = [code |-> 0, requested |-> FALSE]
    /\ contents = [f \in Files |-> <<"old">>]
    /\ written = <<>>
    /\ owed = [f \in Files |-> [state |-> "unknown", buf |-> contents[f]]]

-----------------------------------------------------------------------------
(* The script and the master's side of the stream *)

Event(type) == [type |-> type, lane |-> None]

CallOf(l) == Head(script[l])

\* Every open has a handle of its own, which the script holds once it is answered.
HasHandle(c) ==
    /\ c.op = "open" =>
           /\ owed[c.on].state = "unknown"
           /\ \A m \in asked : CallOf(m).op = "open" => CallOf(m).on # c.on
    /\ (c.op \in {"write", "close", "discard", "export"} /\ c.on \in Files) => owed[c.on].state # "unknown"

\* A lane calls the client and suspends.
Ask(l) ==
    /\ phase = "running" /\ l \notin asked /\ script[l] # <<>> /\ HasHandle(CallOf(l))
    /\ asked' = asked \cup {l}
    /\ events' = Append(events, [type |-> "call", lane |-> l])
    /\ UNCHANGED <<script, phase, clientVars, stateVars, contents, env, history>>

\* The main lane returns, or fails: the runner reports the result and hears no
\* other lane any more.
ScriptEnds(type) ==
    /\ phase = "running" /\ Main \notin asked /\ script[Main] = <<>>
    /\ phase' = "done"
    /\ events' = events \o <<Event(type), Event("complete")>>
    /\ UNCHANGED <<script, asked, clientVars, stateVars, contents, env, history>>

\* A kill: the one that ends an exiting script, or `rodeo kill`.
Killed ==
    /\ phase = "running" /\ (killing \/ "kill" \in env)
    /\ phase' = "killed"
    /\ events' = events \o <<Event("killed"), Event("complete")>>
    /\ UNCHANGED <<script, asked, clientVars, stateVars, contents, env, history>>

\* The stream dies, with any of the events still in it.
Lost ==
    /\ "lose" \in env /\ phase # "lost" /\ loop \notin {"flush", "over"}
    /\ phase' = "lost"
    /\ \E n \in 0 .. Len(events) :
           events' = Append(SubSeq(events, 1, n), Event("disconnect"))
    /\ UNCHANGED <<script, asked, clientVars, stateVars, contents, env, history>>

\* The consumer drops its RunStream: nobody reads the events any more.
Leave ==
    /\ "leave" \in env /\ loop = "select"
    /\ loop' = "flush"
    /\ UNCHANGED <<scriptVars, events, rpc, captured, responses, killing, seen, result>>
    /\ UNCHANGED <<stateVars, contents, env, history>>

-----------------------------------------------------------------------------
(* The message loop *)

NextIs(type) == loop = "select" /\ events # <<>> /\ Head(events).type = type
Consume == events' = Tail(events)

\* RpcCall: a task of its own serves the call.
TakeCall ==
    /\ NextIs("call") /\ Consume
    /\ rpc' = [rpc EXCEPT ![Head(events).lane] = [pc |-> "ready", buf |-> <<>>]]
    /\ UNCHANGED <<scriptVars, loop, captured, responses, killing, seen, result>>
    /\ UNCHANGED <<stateVars, contents, env, history>>

\* ExecutionDone and ExecutionKilled: the code the script asked for, if it did,
\* is read before the calls in flight have been served.
TakeEnd ==
    /\ NextIs("done") \/ NextIs("failed") \/ NextIs("killed")
    /\ Consume
    /\ loop' = "judge"
    /\ result' = [how |-> None, code |-> IF Head(events).type = "done" THEN 0 ELSE 1]
    /\ UNCHANGED <<scriptVars, rpc, captured, responses, killing, seen>>
    /\ UNCHANGED <<stateVars, contents, env, history>>

\* (Mutant: a code of 0 taken for "none asked for".)
JudgeNonZero(code) == IF exitAs.code # 0 THEN exitAs.code ELSE code

Judged(code) == IF exitAs.requested THEN exitAs.code ELSE code

Judge ==
    /\ loop = "judge" /\ lock = None
    /\ result' = [result EXCEPT !.code = Judged(result.code)]
    /\ loop' = "await"
    /\ UNCHANGED <<scriptVars, events, rpc, captured, responses, killing, seen>>
    /\ UNCHANGED <<stateVars, contents, env, history>>

\* (Mutant: the captured output drained, the calls in flight not waited for.)
AwaitNothing ==
    /\ loop = "await"
    /\ seen' = seen \o captured /\ captured' = <<>>
    /\ loop' = "select"
    /\ UNCHANGED <<scriptVars, events, rpc, responses, killing, result>>
    /\ UNCHANGED <<stateVars, contents, env, history>>

\* Every call in flight is waited for, then its output forwarded.
AwaitTasks ==
    /\ loop = "await" /\ \A l \in Lanes : rpc[l] = Idle
    /\ seen' = seen \o captured /\ captured' = <<>>
    /\ loop' = "select"
    /\ UNCHANGED <<scriptVars, events, rpc, responses, killing, result>>
    /\ UNCHANGED <<stateVars, contents, env, history>>

\* (Mutant: complete ends the loop, the end of the stream does not.)
TakeCompleteOnly ==
    /\ NextIs("complete") \/ NextIs("disconnect")
    /\ Consume
    /\ result' = [result EXCEPT !.how = Head(events).type]
    /\ loop' = IF Head(events).type = "complete" THEN "flush" ELSE loop
    /\ UNCHANGED <<scriptVars, rpc, captured, responses, killing, seen>>
    /\ UNCHANGED <<stateVars, contents, env, history>>

\* Complete, or the end of the stream: the consumer gets its Done.
TakeLast ==
    /\ NextIs("complete") \/ NextIs("disconnect")
    /\ Consume
    /\ result' = IF Head(events).type = "complete" THEN [result EXCEPT !.how = "complete"]
                 ELSE [how |-> "disconnect", code |-> 2]
    /\ loop' = "flush"
    /\ UNCHANGED <<scriptVars, rpc, captured, responses, killing, seen>>
    /\ UNCHANGED <<stateVars, contents, env, history>>

ForwardCaptured ==
    /\ loop = "select" /\ captured # <<>>
    /\ seen' = Append(seen, Head(captured)) /\ captured' = Tail(captured)
    /\ UNCHANGED <<scriptVars, events, loop, rpc, responses, killing, result>>
    /\ UNCHANGED <<stateVars, contents, env, history>>

\* What the script may rely on once it sees the answer to call c.  A write after
\* the close is answered all the same; an appender cannot be exported.
OwedAfter(c) ==
    CASE c.op = "open" ->
             [owed EXCEPT ![c.on] = [state |-> c.mode, buf |-> IF c.mode = "a" THEN contents[c.on] ELSE <<>>]]
      [] c.op = "write" /\ c.on \in Files /\ owed[c.on].state # "closed" ->
             [owed EXCEPT ![c.on].buf = Append(@, c.data)]
      [] c.op = "close" -> [owed EXCEPT ![c.on].state = "closed"]
      [] c.op = "discard" \/ (c.op = "export" /\ owed[c.on].state # "a") ->
             [owed EXCEPT ![c.on] = [state |-> "closed", buf |-> contents[c.on]]]
      [] OTHER -> owed

\* A response goes out.  The lane goes on, if the script still runs; one that
\* called exit stays suspended, and the kill that follows its answer ends it.
SendResponse ==
    /\ loop = "select" /\ responses # <<>>
    /\ responses' = Tail(responses)
    /\ LET r == Head(responses)
       IN IF r = "kill" THEN killing' = (phase = "running") /\ UNCHANGED <<script, asked, owed>>
          ELSE /\ killing' = killing
               /\ IF phase # "running" \/ Head(script[r]).op = "exit"
                  THEN UNCHANGED <<script, asked, owed>>
                  ELSE /\ script' = [script EXCEPT ![r] = Tail(@)]
                       /\ asked' = asked \ {r}
                       /\ owed' = OwedAfter(Head(script[r]))
    /\ UNCHANGED <<phase, events, loop, rpc, captured, seen, result>>
    /\ UNCHANGED <<stateVars, contents, env, written>>

\* (Mutant: only the writers are flushed.)
FlushWriters ==
    /\ loop = "flush" /\ lock = None
    /\ contents' = [f \in Files |-> IF open[f].state = "w" THEN open[f].buf ELSE contents[f]]
    /\ open' = [f \in Files |-> NotOpen]
    /\ loop' = "over"
    /\ UNCHANGED <<scriptVars, events, rpc, captured, responses, killing, seen, result>>
    /\ UNCHANGED <<lock, kids, exitAs, env, history>>

\* The files still open are flushed to disk once the loop is over.
Flush ==
    /\ loop = "flush" /\ lock = None
    /\ contents' = [f \in Files |-> IF IsOpen(f) THEN open[f].buf ELSE contents[f]]
    /\ open' = [f \in Files |-> NotOpen]
    /\ loop' = "over"
    /\ UNCHANGED <<scriptVars, events, rpc, captured, responses, killing, seen, result>>
    /\ UNCHANGED <<lock, kids, exitAs, env, history>>

LoopStep ==
    \/ TakeCall \/ TakeEnd \/ Judge \/ AwaitTasks \/ TakeLast
    \/ ForwardCaptured \/ SendResponse \/ Flush

-----------------------------------------------------------------------------
(* The calls: one task per call, beside the loop *)

Serving(l, op) == rpc[l].pc = "ready" /\ CallOf(l).op = op

\* The task ends and its response is queued for the loop to send.
Respond(l, more) ==
    /\ rpc' = [rpc EXCEPT ![l] = Idle]
    /\ responses' = responses \o <<l>> \o more

Reaches(l, pc, buf) ==
    /\ rpc' = [rpc EXCEPT ![l] = [pc |-> pc, buf |-> buf]]
    /\ UNCHANGED responses

\* stream.open: an appender reads what the file holds, then the handle is
\* entered under the lock.
OpenLoads(l) ==
    /\ Serving(l, "open")
    /\ Reaches(l, "opening", IF CallOf(l).mode = "a" THEN contents[CallOf(l).on] ELSE <<>>)
    /\ UNCHANGED <<lock, open, kids, exitAs, captured, contents, written>>

OpenEnters(l) ==
    /\ rpc[l].pc = "opening" /\ lock = None
    /\ open' = [open EXCEPT ![CallOf(l).on] = [state |-> CallOf(l).mode, buf |-> rpc[l].buf]]
    /\ Respond(l, <<>>)
    /\ UNCHANGED <<lock, kids, exitAs, captured, contents, written>>

\* stream.write and stream.writeBytes: to the capture channel or a file's buffer;
\* a handle that is not open swallows the data.
Write(l) ==
    /\ Serving(l, "write") /\ lock = None
    /\ LET c == CallOf(l)
       IN /\ captured' = IF c.on = "stdout" THEN Append(captured, c.data) ELSE captured
          /\ written' = IF c.on = "stdout" THEN Append(written, c.data) ELSE written
          /\ open' = IF c.on \in Files /\ IsOpen(c.on)
                     THEN [open EXCEPT ![c.on].buf = Append(@, c.data)] ELSE open
    /\ Respond(l, <<>>)
    /\ UNCHANGED <<lock, kids, exitAs, contents>>

\* stream.write to a child's standard input: the lock is held until the child has
\* taken all in, which it need not do, or has gone.
Feed(l) ==
    /\ Serving(l, "feed") /\ lock = None
    /\ IF kids[CallOf(l).on].state = "alive"
       THEN Reaches(l, "feeding", <<>>) /\ lock' = l
       ELSE Respond(l, <<>>) /\ lock' = lock
    /\ UNCHANGED <<open, kids, exitAs, captured, contents, written>>

FeedReturns(l) ==
    /\ rpc[l].pc = "feeding"
    /\ kids' = [kids EXCEPT ![CallOf(l).on].fed = @ \/ kids[CallOf(l).on].state = "alive"]
    /\ lock' = None
    /\ Respond(l, <<>>)
    /\ UNCHANGED <<open, exitAs, captured, contents, written>>

\* stream.close, with or without committing what was written.
CloseHandle(l) ==
    /\ Serving(l, "close") \/ Serving(l, "discard")
    /\ lock = None
    /\ LET f == CallOf(l).on
       IN /\ contents' = IF IsOpen(f) /\ CallOf(l).op = "close"
                     THEN [contents EXCEPT ![f] = open[f].buf] ELSE contents
          /\ open' = [open EXCEPT ![f] = NotOpen]
    /\ Respond(l, <<>>)
    /\ UNCHANGED <<lock, kids, exitAs, captured, written>>

\* roblox.exportInstances: a writer's handle is taken under the lock, what it
\* holds is written beside the path and renamed over it.
ExportTakes(l) ==
    /\ Serving(l, "export") /\ lock = None
    /\ LET f == CallOf(l).on
       IN IF open[f].state = "w"
          THEN /\ open' = [open EXCEPT ![f] = NotOpen]
               /\ Reaches(l, "export", open[f].buf)
          ELSE Respond(l, <<>>) /\ open' = open
    /\ UNCHANGED <<lock, kids, exitAs, captured, contents, written>>

ExportWrites(l) ==
    /\ rpc[l].pc = "export"
    /\ contents' = [contents EXCEPT ![CallOf(l).on] = rpc[l].buf]
    /\ Respond(l, <<>>)
    /\ UNCHANGED <<lock, open, kids, exitAs, captured, written>>

\* The child's output can be read: a line, or the end of the stream.
HasOutput(c) == kids[c].out > 0 \/ kids[c].state = "ended"

TakesOutput(c) == kids' = [kids EXCEPT ![c].out = IF @ > 0 THEN @ - 1 ELSE 0]

\* stream.read* on a child's output: the lock is held until there is some.
Read(l) ==
    /\ Serving(l, "read") /\ lock = None
    /\ LET c == CallOf(l).on
       IN IF kids[c].state = "none" THEN Respond(l, <<>>) /\ UNCHANGED <<lock, kids>>
          ELSE IF HasOutput(c) THEN TakesOutput(c) /\ Respond(l, <<>>) /\ lock' = lock
          ELSE Reaches(l, "reading", <<>>) /\ lock' = l /\ kids' = kids
    /\ UNCHANGED <<open, exitAs, captured, contents, written>>

ReadReturns(l) ==
    /\ rpc[l].pc = "reading" /\ HasOutput(CallOf(l).on)
    /\ TakesOutput(CallOf(l).on)
    /\ lock' = None
    /\ Respond(l, <<>>)
    /\ UNCHANGED <<open, exitAs, captured, contents, written>>

\* stream.read* on the client's own standard input: a thread reads it, outside the
\* lock, until whoever is at its other end has typed a line or closed it.
ReadInput(l) ==
    /\ Serving(l, "input")
    /\ Reaches(l, "typing", <<>>)
    /\ UNCHANGED <<lock, open, kids, exitAs, captured, contents, written>>

InputReturns(l) ==
    /\ rpc[l].pc = "typing"
    /\ Respond(l, <<>>)
    /\ UNCHANGED <<lock, open, kids, exitAs, captured, contents, written>>

Spawned(c, held) == [kids EXCEPT ![c] = [NoChild EXCEPT !.state = "alive", !.held = held]]

\* process.create: the child is started, then entered under the lock.
CreateSpawns(l) ==
    /\ Serving(l, "create")
    /\ kids' = Spawned(CallOf(l).on, FALSE)
    /\ Reaches(l, "spawned", <<>>)
    /\ UNCHANGED <<lock, open, exitAs, captured, contents, written>>

CreateEnters(l) ==
    /\ rpc[l].pc = "spawned" /\ lock = None
    /\ kids' = [kids EXCEPT ![CallOf(l).on].held = TRUE]
    /\ Respond(l, <<>>)
    /\ UNCHANGED <<lock, open, exitAs, captured, contents, written>>

\* process.run and process.system: started and waited for, outside the lock.
RunChild(l) ==
    /\ Serving(l, "run")
    /\ kids' = Spawned(CallOf(l).on, FALSE)
    /\ Reaches(l, "waiting", <<>>)
    /\ UNCHANGED <<lock, open, exitAs, captured, contents, written>>

\* process.run on a handle: the child leaves the table, then is waited for.
WaitTakes(l) ==
    /\ Serving(l, "wait") /\ lock = None
    /\ LET c == CallOf(l).on
       IN IF kids[c].held
          THEN kids' = [kids EXCEPT ![c].held = FALSE] /\ Reaches(l, "waiting", <<>>)
          ELSE Respond(l, <<>>) /\ kids' = kids
    /\ UNCHANGED <<lock, open, exitAs, captured, contents, written>>

WaitReturns(l) ==
    /\ rpc[l].pc = "waiting" /\ kids[CallOf(l).on].state = "ended"
    /\ Respond(l, <<>>)
    /\ UNCHANGED <<lock, open, kids, exitAs, captured, contents, written>>

\* process.kill: only a child still in the table.
KillChild(l) ==
    /\ Serving(l, "kill") /\ lock = None
    /\ LET c == CallOf(l).on
       IN kids' = IF kids[c].held THEN [kids EXCEPT ![c].state = "ended"] ELSE kids
    /\ Respond(l, <<>>)
    /\ UNCHANGED <<lock, open, exitAs, captured, contents, written>>

\* (Mutant: the code is recorded, not that it was asked for.)
ExitCodeOnly(l) ==
    /\ Serving(l, "exit") /\ lock = None
    /\ exitAs' = [exitAs EXCEPT !.code = CallOf(l).code]
    /\ Respond(l, <<"kill">>)
    /\ UNCHANGED <<lock, open, kids, captured, contents, written>>

\* process.exit: the code is recorded, the script answered, the run killed.
Exit(l) ==
    /\ Serving(l, "exit") /\ lock = None
    /\ exitAs' = [code |-> CallOf(l).code, requested |-> TRUE]
    /\ Respond(l, <<"kill">>)
    /\ UNCHANGED <<lock, open, kids, captured, contents, written>>

TaskStep(l) ==
    /\ \/ OpenLoads(l) \/ OpenEnters(l) \/ Write(l) \/ CloseHandle(l) \/ ExportTakes(l) \/ ExportWrites(l)
       \/ Feed(l) \/ FeedReturns(l) \/ Read(l) \/ ReadReturns(l) \/ ReadInput(l) \/ InputReturns(l)
       \/ CreateSpawns(l) \/ CreateEnters(l) \/ RunChild(l)
       \/ WaitTakes(l) \/ WaitReturns(l) \/ KillChild(l) \/ Exit(l)
    /\ UNCHANGED <<scriptVars, events, loop, killing, seen, result, env, owed>>

\* A child prints a line and ends.
ChildEnds(c) ==
    /\ kids[c].state = "alive" /\ (c \in Echo => kids[c].fed)
    /\ kids' = [kids EXCEPT ![c].state = "ended", ![c].out = 1]
    /\ UNCHANGED <<scriptVars, events, clientVars, lock, open, exitAs, contents, env, history>>

-----------------------------------------------------------------------------
RunNext ==
    \/ \E l \in Lanes : Ask(l) \/ TaskStep(l)
    \/ \E type \in {"done", "failed"} : ScriptEnds(type)
    \/ Killed \/ Lost \/ Leave \/ LoopStep
    \/ \E c \in Children : ChildEnds(c)

RunSpec == RunInit /\ [][RunNext]_runVars

\* It is for others to let l's task go on: a child to read what it is sent, or
\* whoever is at the client's own standard input.
Outside(l) ==
    \/ rpc[l].pc = "typing"
    \/ rpc[l].pc = "feeding" /\ kids[CallOf(l).on].state = "alive"

\* The client and its children go on; the script and the disturbances need not.
RunFairness ==
    /\ WF_runVars(TakeCall) /\ WF_runVars(TakeEnd) /\ WF_runVars(TakeLast)
    /\ WF_runVars(Judge) /\ WF_runVars(AwaitTasks) /\ WF_runVars(Flush)
    /\ WF_runVars(ForwardCaptured) /\ WF_runVars(SendResponse)
    /\ WF_runVars(Killed /\ killing)
    /\ \A l \in Lanes : WF_runVars(TaskStep(l) /\ ~ Outside(l))
    /\ \A c \in Children : WF_runVars(ChildEnds(c))

-----------------------------------------------------------------------------
(* Properties *)

\* When a run completes, its consumer has seen every byte the script wrote, in
\* the order it was written, before the Done event.
OutputWhole == result.how = "complete" => seen = written

\* A script whose process.exit ended the run leaves with a code it asked for, 0
\* included, however the run's end is reported.
ExitHonoured ==
    result.how = "complete" /\ killing =>
        \E l \in asked : CallOf(l).op = "exit" /\ CallOf(l).code = result.code

\* Once the loop is over, however it ended, every file holds at least what the
\* script saw written to it, unless the script was just opening, discarding or exporting it.
FilesFlushed ==
    loop = "over" =>
        \A f \in Files :
            (\A l \in asked : ~ (CallOf(l).op \in {"open", "discard", "export"} /\ CallOf(l).on = f))
                => IsPrefix(owed[f].buf, contents[f])

\* Nothing the script has written is lost on the way to its consumer or to the disk.
WrittenArrives == OutputWhole /\ FilesFlushed

\* A task waits for a child that has not ended, to print, to read or to end, or
\* for the client's own standard input.
OnOthers ==
    \E l \in Lanes :
        \/ rpc[l].pc = "typing"
        \/ rpc[l].pc \in {"reading", "feeding", "waiting"} /\ kids[CallOf(l).on].state = "alive"

\* The client of a run that has ended returns, unless calls of the script wait
\* for ever on a child process or on the client's own standard input.
EndedRunReturns == phase # "running" \/ loop = "flush" ~> (loop = "over" \/ []OnOthers)
==============================================================================
