---------------------------- MODULE StudioLaunch ----------------------------
(***************************************************************************)
(* `rodeo run --place`: the command line launches a Studio through the     *)
(* master and a studio backend, runs its script there, saves the place and *)
(* closes the Studio, while somebody else saves or closes the same Studio, *)
(* the user quits it, it crashes, or the serve is stopped.                 *)
(*                                                                         *)
(* The master answers launch and close from the backend's state snapshots, *)
(* which are taken and delivered on their own; in the backend the launch,  *)
(* every save, every close and the exit callback are tasks of their own    *)
(* over one row of the session table.                                      *)
(***************************************************************************)
EXTENDS Naturals, Sequences, FiniteSets

CONSTANTS
    Sessions,   \* Studios, each launched by one command
    Backends,   \* the registered studio backends
    Home,       \* the backend each Studio is launched on
    Configs     \* how the command was called (a save to a path is one in place, on the copy
                \* that was opened), and what else may happen: another
                \* terminal saves or closes the Studio, or the serve is stopped

\* Who asks for a save or a close: the command, or another terminal.
Callers == {"run", "user"}

ASSUME LaunchAssumption ==
    /\ Home \in [Sessions -> Backends]
    /\ Configs \subseteq [save: {"no", "in place"}, target: {"file", "place id"},
                          detached: BOOLEAN, owned: BOOLEAN, other: {"save", "close", "stop"}]

VARIABLES
    cfg,       \* how each command was called
    cli,       \* where the command is
    failed,    \* the run, or the save after it, has failed
    verified,  \* the command's save was confirmed
    down,      \* [Backends -> commands on the way to it]
    news,      \* [Backends -> a snapshot is due]
    sent,      \* [Backends -> a snapshot is on its way]
    view,      \* the row of each session in the last snapshot the master got
    opening,   \* launch_studio's watch of each session
    closing,   \* close_studio's watches
    saving,    \* save_place's calls
    row,       \* StudioInstanceInfo.status, or "none"
    handle,    \* the row holds the Studio
    task,      \* the launch task
    exit,      \* the exit callback
    closer,    \* the close tasks
    saver,     \* the save tasks
    replies,   \* SaveResults on their way
    studio,    \* the Studio process
    hello,     \* the plugin's handshake is on its way
    cleaned,   \* Studio.cleaned
    saved,     \* Studio.saved
    patched,   \* its settings patches are in force
    temp,      \* its temporary place file exists
    key,       \* a save keystroke is on its way to Studio
    touched,   \* the waiting tasks for whom the place file's mtime has moved
    doc,       \* the document in Studio has the script's edits
    disk,      \* the place file has them
    alive      \* the backends that still run

vars == <<cfg, cli, failed, verified, down, news, sent, view, opening, closing, saving, row, handle,
          task, exit, closer, saver, replies, studio, hello, cleaned, saved, patched, temp, key,
          touched, doc, disk, alive>>

cliVars == <<cfg, cli, failed, verified>>
masterVars == <<view, opening, closing, saving>>
wireVars == <<down, news, sent, replies>>
tableVars == <<row, handle>>
taskVars == <<task, exit, closer, saver>>
studioVars == <<studio, hello, cleaned, saved, patched, temp, key, touched, doc, disk>>

Waiters == Callers \X {"save", "close"}
Watch(is, on) == [is |-> is, on |-> on]
Statuses == {"none", "pending", "launching", "connected", "closing", "error"}

Init ==
    /\ cfg \in [Sessions -> Configs]
    /\ cli = [s \in Sessions |-> "idle"]
    /\ failed = [s \in Sessions |-> FALSE]
    /\ verified = [s \in Sessions |-> FALSE]
    /\ down = [b \in Backends |-> <<>>]
    /\ news = [b \in Backends |-> FALSE]
    /\ sent = [b \in Backends |-> <<>>]
    /\ view = [s \in Sessions |-> "none"]
    /\ opening = [s \in Sessions |-> "none"]
    /\ closing = [s \in Sessions |-> [c \in Callers |-> Watch("none", Home[s])]]
    /\ saving = [s \in Sessions |-> [c \in Callers |-> "none"]]
    /\ row = [s \in Sessions |-> "none"]
    /\ handle = [s \in Sessions |-> FALSE]
    /\ task = [s \in Sessions |-> "none"]
    /\ exit = [s \in Sessions |-> "unset"]
    /\ closer = [s \in Sessions |-> [c \in Callers |-> "none"]]
    /\ saver = [s \in Sessions |-> [c \in Callers |-> "none"]]
    /\ replies = {}
    /\ studio = [s \in Sessions |-> "none"]
    /\ hello = [s \in Sessions |-> FALSE]
    /\ cleaned = [s \in Sessions |-> FALSE]
    /\ saved = [s \in Sessions |-> FALSE]
    /\ patched = [s \in Sessions |-> FALSE]
    /\ temp = [s \in Sessions |-> FALSE]
    /\ key = [s \in Sessions |-> FALSE]
    /\ touched = [s \in Sessions |-> {}]
    /\ doc = [s \in Sessions |-> FALSE]
    /\ disk = [s \in Sessions |-> FALSE]
    /\ alive = Backends

------------------------------------------------------------------------------
(* Small updates the actions are made of.                                  *)

CliGoes(s, from, to) == cli[s] = from /\ cli' = [cli EXCEPT ![s] = to]
TaskGoes(s, from, to) == task[s] = from /\ task' = [task EXCEPT ![s] = to]
CloserGoes(s, c, from, to) == closer[s][c] = from /\ closer' = [closer EXCEPT ![s][c] = to]
SaverGoes(s, c, from, to) == saver[s][c] = from /\ saver' = [saver EXCEPT ![s][c] = to]

Command(kind, s, c, skip) == [kind |-> kind, of |-> s, by |-> c, skip |-> skip]
Send(b, cmd) == down' = [down EXCEPT ![b] = Append(@, cmd)]
Notify(s) == news' = [news EXCEPT ![Home[s]] = TRUE]
SetRow(s, status) == row' = [row EXCEPT ![s] = IF @ = "none" THEN @ ELSE status]

Saves(s) == cfg[s].save # "no"
Live(s) == studio[s] \in {"booting", "running"}
Up(s) == Home[s] \in alive

\* Place files: a copy is opened unless the place is saved where it is.
HasFile(s) == cfg[s].target = "file"
Temporary(s) == HasFile(s) /\ ~Saves(s)

------------------------------------------------------------------------------
(* The master's side of launch, close and save.  Cloned watch receivers    *)
(* have not seen the current snapshot: a watch looks at it first.          *)

Opens(s) ==
    /\ Send(Home[s], Command("launch", s, "run", FALSE))
    /\ opening' = [opening EXCEPT ![s] = "fresh"]

\* close_studio takes whichever backend comes first.
Closes(s, c, skip) ==
    IF alive = {}
    THEN closing' = [closing EXCEPT ![s][c].is = "ended"] /\ UNCHANGED down
    ELSE \E b \in alive :
            /\ Send(b, Command("close", s, c, skip))
            /\ closing' = [closing EXCEPT ![s][c] = Watch("fresh", b)]

\* The reply channel is registered before the command is sent.
AsksSave(s, c) ==
    IF alive = {}
    THEN saving' = [saving EXCEPT ![s][c] = "refused"] /\ UNCHANGED down
    ELSE \E b \in alive :
            /\ Send(b, Command("save", s, c, FALSE))
            /\ saving' = [saving EXCEPT ![s][c] = "pending"]

Refresh(watch, b) == IF watch = Watch("waiting", b) THEN Watch("fresh", b) ELSE watch

DeliverSnapshot(b) ==
    LET here == {s \in Sessions : Home[s] = b} IN
    /\ sent[b] # <<>>
    /\ sent' = [sent EXCEPT ![b] = <<>>]
    /\ view' = [s \in Sessions |-> IF s \in here THEN Head(sent[b])[s] ELSE view[s]]
    /\ opening' = [s \in Sessions |-> IF s \in here /\ opening[s] = "waiting" THEN "fresh" ELSE opening[s]]
    /\ closing' = [s \in Sessions |-> [c \in Callers |-> Refresh(closing[s][c], b)]]
    /\ UNCHANGED <<down, news, replies, saving, cliVars, tableVars, taskVars, studioVars, alive>>

WatchOpening(s) ==
    /\ opening[s] = "fresh"
    /\ opening' = [opening EXCEPT ![s] = CASE view[s] = "connected" -> "ready"
                                           [] view[s] = "error" -> "error"
                                           [] OTHER -> "waiting"]
    /\ UNCHANGED <<wireVars, view, closing, saving, cliVars, tableVars, taskVars, studioVars, alive>>

WatchClosing(s, c) ==
    /\ closing[s][c].is = "fresh"
    /\ closing' = [closing EXCEPT ![s][c].is =
                      IF closing[s][c].on = Home[s] /\ view[s] # "none" THEN "waiting" ELSE "closed"]
    /\ UNCHANGED <<wireVars, view, opening, saving, cliVars, tableVars, taskVars, studioVars, alive>>

\* The sender of the watch is gone with its backend.
Stranded(watch) == watch.is = "waiting" /\ watch.on \notin alive

WatchesEnd(s) ==
    /\ \/ opening[s] = "waiting" /\ ~Up(s)
       \/ \E c \in Callers : Stranded(closing[s][c])
    /\ opening' = [opening EXCEPT ![s] = IF @ = "waiting" /\ ~Up(s) THEN "ended" ELSE @]
    /\ closing' = [closing EXCEPT ![s] =
          [c \in Callers |-> IF Stranded(@[c]) THEN Watch("ended", @[c].on) ELSE @[c]]]
    /\ UNCHANGED <<wireVars, view, saving, cliVars, tableVars, taskVars, studioVars, alive>>

\* A result is given to the call that waits for it; a late one is dropped.
DeliverReply(s, c) ==
    \E ok \in BOOLEAN :
       /\ <<s, c, ok>> \in replies
       /\ replies' = replies \ {<<s, c, ok>>}
       /\ saving' = [saving EXCEPT ![s][c] =
                        IF @ # "pending" THEN @ ELSE IF ok THEN "saved" ELSE "refused"]
       /\ UNCHANGED <<down, news, sent, view, opening, closing, cliVars, tableVars, taskVars, studioVars, alive>>

SaveTimeout(s, c) ==
    /\ saving[s][c] = "pending"
    /\ saving' = [saving EXCEPT ![s][c] = "refused"]
    /\ UNCHANGED <<wireVars, view, opening, closing, cliVars, tableVars, taskVars, studioVars, alive>>

------------------------------------------------------------------------------
(* The command.                                                            *)

Launch(s) ==
    /\ Up(s) /\ CliGoes(s, "idle", "launching")
    /\ Opens(s)
    /\ UNCHANGED <<cfg, failed, verified, news, sent, replies, view, closing, saving, tableVars, taskVars,
                   studioVars, alive>>

\* The launch ends without a Studio, or the master turns out to be of another
\* build: the command fails and leaves what it launched.
LaunchFails(s) ==
    /\ opening[s] \in {"ready", "error", "ended"}
    /\ opening[s] = "ready" => ~cfg[s].owned
    /\ CliGoes(s, "launching", "gave up")
    /\ UNCHANGED <<cfg, failed, verified, wireVars, masterVars, tableVars, taskVars, studioVars, alive>>

Ready(s) ==
    /\ opening[s] = "ready" /\ CliGoes(s, "launching", "running")
    /\ UNCHANGED <<cfg, failed, verified, wireVars, masterVars, tableVars, taskVars, studioVars, alive>>

\* The run is over; when it succeeded, its edits are in the document.
RunEnds(s, ok) ==
    /\ CliGoes(s, "running", "finish")
    /\ ok => studio[s] = "running"
    /\ doc' = [doc EXCEPT ![s] = @ \/ ok]
    /\ failed' = [failed EXCEPT ![s] = ~ok]
    /\ UNCHANGED <<cfg, verified, wireVars, masterVars, tableVars, taskVars, studio, hello, cleaned, saved,
                   patched, temp, key, touched, disk, alive>>

Finish(s) ==
    /\ IF Saves(s) THEN CliGoes(s, "finish", "saving") /\ AsksSave(s, "run")
                   ELSE CliGoes(s, "finish", "close") /\ UNCHANGED <<down, saving>>
    /\ UNCHANGED <<cfg, failed, verified, news, sent, replies, view, opening, closing, tableVars, taskVars,
                   studioVars, alive>>

SaveAnswered(s) ==
    /\ saving[s]["run"] \in {"saved", "refused"} /\ CliGoes(s, "saving", "close")
    /\ verified' = [verified EXCEPT ![s] = saving[s]["run"] = "saved"]
    /\ failed' = [failed EXCEPT ![s] = @ \/ saving[s]["run"] = "refused"]
    /\ UNCHANGED <<cfg, wireVars, masterVars, tableVars, taskVars, studioVars, alive>>

Close(s) ==
    /\ IF cfg[s].detached THEN CliGoes(s, "close", "done") /\ UNCHANGED <<down, closing>>
                          ELSE CliGoes(s, "close", "closing") /\ Closes(s, "run", verified[s])
    /\ UNCHANGED <<cfg, failed, verified, news, sent, replies, view, opening, saving, tableVars, taskVars,
                   studioVars, alive>>

Closed(s) ==
    /\ closing[s]["run"].is \in {"closed", "ended"} /\ CliGoes(s, "closing", "done")
    /\ UNCHANGED <<cfg, failed, verified, wireVars, masterVars, tableVars, taskVars, studioVars, alive>>

\* Ctrl-C is raced with the launch and the run only when the command has
\* started the serve; otherwise it just kills the command.
Interrupt(s) ==
    /\ cli[s] \in {"launching", "running"}
    /\ cli' = [cli EXCEPT ![s] = "interrupted"]
    /\ UNCHANGED <<cfg, failed, verified, wireVars, masterVars, tableVars, taskVars, studioVars, alive>>

\* Another terminal saves or closes a Studio it sees in `rodeo state`.
UserSaves(s) ==
    /\ cfg[s].other = "save" /\ view[s] # "none" /\ saving[s]["user"] = "none"
    /\ AsksSave(s, "user")
    /\ UNCHANGED <<cliVars, news, sent, replies, view, opening, closing, tableVars, taskVars, studioVars, alive>>

UserCloses(s) ==
    /\ cfg[s].other = "close" /\ view[s] # "none" /\ closing[s]["user"].is = "none"
    /\ Closes(s, "user", FALSE)
    /\ UNCHANGED <<cliVars, news, sent, replies, view, opening, saving, tableVars, taskVars, studioVars, alive>>

------------------------------------------------------------------------------
(* The backend's handlers: what each does before it spawns a task.         *)

ReceiveLaunch(s) ==
    /\ row' = [row EXCEPT ![s] = "pending"]
    /\ TaskGoes(s, "none", "inserted")
    /\ UNCHANGED <<handle, exit, closer, saver, replies, studioVars>>

\* A row without its Studio is marked, and that is all.
ReceiveClose(b, cmd) ==
    LET s == cmd.of IN
    /\ IF b # Home[s] THEN UNCHANGED <<row, closer>>
       ELSE /\ SetRow(s, "closing")
            /\ closer' = [closer EXCEPT ![s][cmd.by] =
                             IF ~handle[s] THEN @ ELSE IF cmd.skip THEN "skip" ELSE "cleanup"]
    /\ UNCHANGED <<handle, task, exit, saver, replies, studioVars>>

\* Only a connected Studio is saved; anything else is refused at once.
ReceiveSave(b, cmd) ==
    LET s == cmd.of
        found == b = Home[s] /\ row[s] = "connected" /\ handle[s]
    IN /\ saver' = IF found THEN [saver EXCEPT ![s][cmd.by] = "baseline"] ELSE saver
       /\ replies' = IF found THEN replies ELSE replies \union {<<s, cmd.by, FALSE>>}
       /\ UNCHANGED <<tableVars, task, exit, closer, studioVars>>

Receive(b) ==
    /\ b \in alive /\ down[b] # <<>>
    /\ down' = [down EXCEPT ![b] = Tail(@)]
    /\ news' = [news EXCEPT ![b] = @ \/ Head(down[b]).kind # "save"]
    /\ \/ Head(down[b]).kind = "launch" /\ ReceiveLaunch(Head(down[b]).of)
       \/ Head(down[b]).kind = "close" /\ ReceiveClose(b, Head(down[b]))
       \/ Head(down[b]).kind = "save" /\ ReceiveSave(b, Head(down[b]))
    /\ UNCHANGED <<sent, masterVars, cliVars, alive>>

TakeSnapshot(b) ==
    /\ b \in alive /\ news[b] /\ sent[b] = <<>>
    /\ news' = [news EXCEPT ![b] = FALSE]
    /\ sent' = [sent EXCEPT ![b] = <<row>>]
    /\ UNCHANGED <<down, replies, masterVars, cliVars, tableVars, taskVars, studioVars, alive>>

Elsewhere == <<down, sent, masterVars, cliVars, alive>>

------------------------------------------------------------------------------
(* The launch task.                                                        *)

LaunchBegins(s) ==
    /\ Up(s) /\ TaskGoes(s, "inserted", "spawning")
    /\ SetRow(s, "launching")
    /\ Notify(s)
    /\ UNCHANGED <<handle, exit, closer, saver, replies, studioVars>> /\ UNCHANGED Elsewhere

\* The place is prepared and checked, the settings are patched, the process
\* is started.  Whatever fails takes back the patches already made.
SpawnFails(s) ==
    /\ TaskGoes(s, "spawning", IF Up(s) THEN "failing" ELSE "over")
    /\ UNCHANGED <<tableVars, exit, closer, saver, news, replies, studioVars>> /\ UNCHANGED Elsewhere

Spawn(s) ==
    /\ HasFile(s) \/ ~Saves(s)
    /\ Up(s) /\ TaskGoes(s, "spawning", "spawned")
    /\ studio' = [studio EXCEPT ![s] = "booting"]
    /\ patched' = [patched EXCEPT ![s] = TRUE]
    /\ temp' = [temp EXCEPT ![s] = Temporary(s)]
    /\ UNCHANGED <<tableVars, exit, closer, saver, news, replies, hello, cleaned, saved, key, touched, doc, disk>>
    /\ UNCHANGED Elsewhere

\* The backend went away while the blocking call was under way: the Studio it
\* returns is dropped, which kills it unless it is detached.
SpawnDropped(s) ==
    /\ HasFile(s) \/ ~Saves(s)
    /\ ~Up(s) /\ TaskGoes(s, "spawning", "over")
    /\ studio' = [studio EXCEPT ![s] = IF cfg[s].detached THEN "booting" ELSE "dead"]
    /\ cleaned' = [cleaned EXCEPT ![s] = TRUE]
    /\ temp' = [temp EXCEPT ![s] = Temporary(s) /\ cfg[s].detached]
    /\ UNCHANGED <<tableVars, exit, closer, saver, news, replies, patched, hello, saved, key, touched, doc, disk>>
    /\ UNCHANGED Elsewhere

\* (Mutant: no snapshot is asked for.)
FailLaunchQuietly(s) ==
    /\ Up(s) /\ TaskGoes(s, "failing", "over")
    /\ SetRow(s, "error")
    /\ UNCHANGED <<handle, exit, closer, saver, news, replies, studioVars>> /\ UNCHANGED Elsewhere

FailLaunch(s) ==
    /\ Up(s) /\ TaskGoes(s, "failing", "over")
    /\ SetRow(s, "error")
    /\ Notify(s)
    /\ UNCHANGED <<handle, exit, closer, saver, replies, studioVars>> /\ UNCHANGED Elsewhere

StoreHandle(s) ==
    /\ Up(s) /\ TaskGoes(s, "spawned", "stored")
    /\ handle' = [handle EXCEPT ![s] = row[s] # "none"]
    /\ UNCHANGED <<row, exit, closer, saver, news, replies, studioVars>> /\ UNCHANGED Elsewhere

ArmExit(s) ==
    /\ Up(s) /\ TaskGoes(s, "stored", "over")
    /\ exit' = [exit EXCEPT ![s] = "armed"]
    /\ UNCHANGED <<tableVars, closer, saver, news, replies, studioVars>> /\ UNCHANGED Elsewhere

------------------------------------------------------------------------------
(* The Studio process.  It takes seconds to load its plugin, long after    *)
(* the launch task has stored its handle.                                  *)

PluginDials(s) ==
    /\ studio[s] = "booting" /\ task[s] \in {"stored", "over"}
    /\ studio' = [studio EXCEPT ![s] = "running"]
    /\ hello' = [hello EXCEPT ![s] = Up(s)]
    /\ UNCHANGED <<tableVars, taskVars, news, replies, cleaned, saved, patched, temp, key, touched, doc, disk>>
    /\ UNCHANGED Elsewhere

\* (Mutant: the handshake promotes the row whatever became of it.)
HandshakeAlways(s) ==
    /\ hello[s] /\ Up(s)
    /\ hello' = [hello EXCEPT ![s] = FALSE]
    /\ SetRow(s, "connected")
    /\ news' = [news EXCEPT ![Home[s]] = @ \/ row[s] # "none"]
    /\ UNCHANGED <<handle, taskVars, replies, studio, cleaned, saved, patched, temp, key, touched, doc, disk>>
    /\ UNCHANGED Elsewhere

\* The handshake claims the row of its session; it may be handled after the
\* Studio that sent it has gone.
Handshake(s) ==
    /\ hello[s] /\ Up(s)
    /\ hello' = [hello EXCEPT ![s] = FALSE]
    /\ row' = [row EXCEPT ![s] = IF @ = "launching" THEN "connected" ELSE @]
    /\ news' = [news EXCEPT ![Home[s]] = @ \/ row[s] # "none"]
    /\ UNCHANGED <<handle, taskVars, replies, studio, cleaned, saved, patched, temp, key, touched, doc, disk>>
    /\ UNCHANGED Elsewhere

Kill(s) ==
    /\ studio' = [studio EXCEPT ![s] = "dead"]
    /\ key' = [key EXCEPT ![s] = FALSE]

\* It crashes, or its user quits it.
StudioEnds(s) ==
    /\ Live(s) /\ Kill(s)
    /\ UNCHANGED <<tableVars, taskVars, news, replies, hello, cleaned, saved, patched, temp, touched, doc, disk>>
    /\ UNCHANGED Elsewhere

Waiting(s) ==
    {<<c, "save">> : c \in {x \in Callers : saver[s][x] \in {"fire", "poll"}}}
    \union {<<c, "close">> : c \in {x \in Callers : closer[s][x] = "waiting"}}

\* The place is written; a keystroke may also be dropped.
KeyLands(s) ==
    /\ key[s] /\ studio[s] = "running"
    /\ key' = [key EXCEPT ![s] = FALSE]
    /\ disk' = [disk EXCEPT ![s] = @ \/ doc[s]]
    /\ touched' = [touched EXCEPT ![s] = Waiting(s)]
    /\ UNCHANGED <<tableVars, taskVars, news, replies, studio, hello, cleaned, saved, patched, temp, doc>>
    /\ UNCHANGED Elsewhere

KeyDropped(s) ==
    /\ key[s]
    /\ key' = [key EXCEPT ![s] = FALSE]
    /\ UNCHANGED <<tableVars, taskVars, news, replies, studio, hello, cleaned, saved, patched, temp, touched, doc, disk>>
    /\ UNCHANGED Elsewhere

------------------------------------------------------------------------------
(* The tasks over a running Studio: saves, closes, the exit callback.      *)

Reply(s, c, ok) == replies' = replies \union {<<s, c, ok>>}
Untouch(s, w) == touched' = [touched EXCEPT ![s] = @ \ {w}]

\* The mtime to compare with is read before the first keystroke.
SaveBaseline(s, c) ==
    /\ Up(s) /\ SaverGoes(s, c, "baseline", IF HasFile(s) /\ (Saves(s) \/ temp[s]) THEN "fire" ELSE "blind")
    /\ Untouch(s, <<c, "save">>)
    /\ UNCHANGED <<tableVars, task, exit, closer, news, replies, studio, hello, cleaned, saved, patched, temp, key, doc, disk>>
    /\ UNCHANGED Elsewhere

\* The keystroke is sent again for as long as the file has not moved.
SaveFires(s, c) ==
    /\ Up(s)
    /\ SaverGoes(s, c, "fire", "poll") \/ SaverGoes(s, c, "poll", "poll")
    /\ key' = [key EXCEPT ![s] = Live(s)]
    /\ UNCHANGED <<tableVars, task, exit, closer, news, replies, studio, hello, cleaned, saved, patched, temp, touched, doc, disk>>
    /\ UNCHANGED Elsewhere

\* (Mutant: a save that has run out of time counts as saved.)
SaveEndsWell(s, c) ==
    /\ Up(s) /\ SaverGoes(s, c, "poll", "over")
    /\ Reply(s, c, TRUE)
    /\ UNCHANGED <<tableVars, task, exit, closer, news, studioVars>> /\ UNCHANGED Elsewhere

SaveEnds(s, c) ==
    /\ Up(s) /\ SaverGoes(s, c, "poll", "over")
    /\ Reply(s, c, <<c, "save">> \in touched[s])
    /\ UNCHANGED <<tableVars, task, exit, closer, news, studioVars>> /\ UNCHANGED Elsewhere

\* Without a file to watch, the keystroke's own result is reported.
SaveBlind(s, c) ==
    /\ Up(s) /\ SaverGoes(s, c, "blind", "over")
    /\ key' = [key EXCEPT ![s] = Live(s)]
    /\ Reply(s, c, Live(s))
    /\ UNCHANGED <<tableVars, task, exit, closer, news, studio, hello, cleaned, saved, patched, temp, touched, doc, disk>>
    /\ UNCHANGED Elsewhere

CloseSkips(s, c) ==
    /\ CloserGoes(s, c, "skip", "cleanup")
    /\ saved' = [saved EXCEPT ![s] = TRUE]
    /\ UNCHANGED <<tableVars, task, exit, saver, news, replies, studio, hello, cleaned, patched, temp, key, touched, doc, disk>>
    /\ UNCHANGED Elsewhere

\* (Mutant: whoever comes second takes the first one's kill for granted.)
CloseCleansOnce(s, c) ==
    LET backstop == Saves(s) /\ ~saved[s] /\ Live(s) IN
    /\ CloserGoes(s, c, "cleanup", IF cleaned[s] THEN "drop" ELSE IF backstop THEN "waiting" ELSE "restore")
    /\ cleaned' = [cleaned EXCEPT ![s] = TRUE]
    /\ saved' = [saved EXCEPT ![s] = @ \/ (~cleaned[s] /\ Saves(s))]
    /\ key' = [key EXCEPT ![s] = @ \/ (~cleaned[s] /\ backstop)]
    /\ Untouch(s, <<c, "close">>)
    /\ UNCHANGED <<tableVars, task, exit, saver, news, replies, studio, hello, patched, temp, doc, disk>>
    /\ UNCHANGED Elsewhere

\* cleanup runs once; whoever comes second goes straight on to the kill.
CloseCleans(s, c) ==
    LET backstop == Saves(s) /\ ~saved[s] /\ Live(s) IN
    /\ CloserGoes(s, c, "cleanup", IF cleaned[s] THEN "kill" ELSE IF backstop THEN "waiting" ELSE "restore")
    /\ cleaned' = [cleaned EXCEPT ![s] = TRUE]
    /\ saved' = [saved EXCEPT ![s] = @ \/ (~cleaned[s] /\ Saves(s))]
    /\ key' = [key EXCEPT ![s] = @ \/ (~cleaned[s] /\ backstop)]
    /\ Untouch(s, <<c, "close">>)
    /\ UNCHANGED <<tableVars, task, exit, saver, news, replies, studio, hello, patched, temp, doc, disk>>
    /\ UNCHANGED Elsewhere

\* The backstop save is waited for, with a time limit.
CloseWaits(s, c) ==
    /\ CloserGoes(s, c, "waiting", "restore")
    /\ UNCHANGED <<tableVars, task, exit, saver, news, replies, studioVars>> /\ UNCHANGED Elsewhere

CloseRestores(s, c) ==
    /\ CloserGoes(s, c, "restore", "kill")
    /\ patched' = [patched EXCEPT ![s] = FALSE]
    /\ temp' = [temp EXCEPT ![s] = FALSE]
    /\ Kill(s)
    /\ UNCHANGED <<tableVars, task, exit, saver, news, replies, hello, cleaned, saved, touched, doc, disk>>
    /\ UNCHANGED Elsewhere

CloseKills(s, c) ==
    /\ CloserGoes(s, c, "kill", "drop")
    /\ Kill(s)
    /\ UNCHANGED <<tableVars, task, exit, saver, news, replies, hello, cleaned, saved, patched, temp, touched, doc, disk>>
    /\ UNCHANGED Elsewhere

\* (Mutant: the row goes, its Studio stays in the table.)
CloseDropsRow(s, c) ==
    /\ Up(s) /\ CloserGoes(s, c, "drop", "over")
    /\ row' = [row EXCEPT ![s] = "none"]
    /\ Notify(s)
    /\ UNCHANGED <<handle, task, exit, saver, replies, studioVars>> /\ UNCHANGED Elsewhere

\* (Mutant: no snapshot is asked for.)
CloseDropsQuietly(s, c) ==
    /\ Up(s) /\ CloserGoes(s, c, "drop", "over")
    /\ row' = [row EXCEPT ![s] = "none"]
    /\ handle' = [handle EXCEPT ![s] = FALSE]
    /\ UNCHANGED <<news, task, exit, saver, replies, studioVars>> /\ UNCHANGED Elsewhere

CloseDrops(s, c) ==
    /\ Up(s) /\ CloserGoes(s, c, "drop", "over")
    /\ row' = [row EXCEPT ![s] = "none"]
    /\ handle' = [handle EXCEPT ![s] = FALSE]
    /\ Notify(s)
    /\ UNCHANGED <<task, exit, saver, replies, studioVars>> /\ UNCHANGED Elsewhere

\* (Mutant: the exit callback leaves the settings patched.)
ExitForgets(s) ==
    /\ Up(s) /\ exit[s] = "armed" /\ studio[s] = "dead"
    /\ exit' = [exit EXCEPT ![s] = "mark"]
    /\ cleaned' = [cleaned EXCEPT ![s] = TRUE]
    /\ temp' = [temp EXCEPT ![s] = @ /\ cleaned[s]]
    /\ UNCHANGED <<tableVars, task, closer, saver, news, replies, studio, hello, saved, patched, key, touched, doc, disk>>
    /\ UNCHANGED Elsewhere

\* The exit callback cleans up (nothing is saved: the process is gone), and
\* only then marks the row, if it is still there.
ExitCleans(s) ==
    /\ Up(s) /\ exit[s] = "armed" /\ studio[s] = "dead"
    /\ exit' = [exit EXCEPT ![s] = "mark"]
    /\ cleaned' = [cleaned EXCEPT ![s] = TRUE]
    /\ patched' = [patched EXCEPT ![s] = @ /\ cleaned[s]]
    /\ temp' = [temp EXCEPT ![s] = @ /\ cleaned[s]]
    /\ UNCHANGED <<tableVars, task, closer, saver, news, replies, studio, hello, saved, key, touched, doc, disk>>
    /\ UNCHANGED Elsewhere

ExitMarks(s) ==
    /\ Up(s) /\ exit[s] = "mark"
    /\ exit' = [exit EXCEPT ![s] = "over"]
    /\ SetRow(s, "error")
    /\ Notify(s)
    /\ UNCHANGED <<handle, task, closer, saver, replies, studioVars>> /\ UNCHANGED Elsewhere

------------------------------------------------------------------------------
(* A backend stops: the rows are drained, Studios that are not detached    *)
(* are killed, and the launch task drops what only it holds.               *)

ServeEnds(b) ==
    LET here == {s \in Sessions : Home[s] = b}
        dropped == {s \in here : task[s] \in {"spawned", "stored"}}
        killed == {s \in here : ~cfg[s].detached /\ (handle[s] \/ s \in dropped)}
    IN
    /\ b \in alive
    /\ alive' = alive \ {b}
    /\ row' = [s \in Sessions |-> IF s \in here THEN "none" ELSE row[s]]
    /\ handle' = [s \in Sessions |-> handle[s] /\ s \notin here]
    /\ task' = [s \in Sessions |-> IF s \in here /\ task[s] # "spawning" THEN "over" ELSE task[s]]
    /\ studio' = [s \in Sessions |-> IF s \in killed THEN "dead" ELSE studio[s]]
    /\ key' = [s \in Sessions |-> key[s] /\ s \notin killed]
    /\ patched' = [s \in Sessions |-> patched[s] /\ s \notin dropped]
    /\ down' = [down EXCEPT ![b] = <<>>]
    /\ news' = [news EXCEPT ![b] = FALSE]
    /\ sent' = [sent EXCEPT ![b] = <<>>]
    /\ UNCHANGED <<replies, masterVars, cliVars, exit, closer, saver, hello, cleaned, saved, temp, touched, doc, disk>>

\* Somebody stops the serve.
ServeStopped(s) == cfg[s].other = "stop" /\ ServeEnds(Home[s])

\* A command that started the serve takes it with it.
OwnedServeEnds(s) ==
    /\ cfg[s].owned /\ cli[s] \in {"done", "gave up", "interrupted"}
    /\ ServeEnds(Home[s])

------------------------------------------------------------------------------
MasterStep ==
    \/ \E b \in Backends : DeliverSnapshot(b)
    \/ \E s \in Sessions : WatchOpening(s) \/ WatchesEnd(s)
    \/ \E s \in Sessions, c \in Callers : WatchClosing(s, c) \/ DeliverReply(s, c) \/ SaveTimeout(s, c)

CommandStep(s) ==
    \/ Ready(s) \/ LaunchFails(s) \/ (\E ok \in BOOLEAN : RunEnds(s, ok))
    \/ Finish(s) \/ SaveAnswered(s) \/ Close(s) \/ Closed(s)

LaunchTask(s) ==
    LaunchBegins(s) \/ Spawn(s) \/ SpawnFails(s) \/ SpawnDropped(s) \/ FailLaunch(s) \/ StoreHandle(s) \/ ArmExit(s)

SaveTask(s, c) == SaveBaseline(s, c) \/ SaveFires(s, c) \/ SaveEnds(s, c) \/ SaveBlind(s, c)

CloseTask(s, c) ==
    \/ CloseSkips(s, c) \/ CloseCleans(s, c) \/ CloseWaits(s, c) \/ CloseRestores(s, c)
    \/ CloseKills(s, c) \/ CloseDrops(s, c)

ExitTask(s) == ExitCleans(s) \/ ExitMarks(s)

Next ==
    \/ MasterStep
    \/ \E b \in Backends : Receive(b) \/ TakeSnapshot(b)
    \/ \E s \in Sessions :
          \/ Launch(s) \/ CommandStep(s) \/ Interrupt(s) \/ UserSaves(s) \/ UserCloses(s)
          \/ LaunchTask(s) \/ ExitTask(s) \/ ServeStopped(s) \/ OwnedServeEnds(s)
          \/ PluginDials(s) \/ Handshake(s) \/ StudioEnds(s) \/ KeyLands(s) \/ KeyDropped(s)
          \/ \E c \in Callers : SaveTask(s, c) \/ CloseTask(s, c)

Spec == Init /\ [][Next]_vars

\* Every task and channel moves on; a Studio loads its plugin or ends; a run
\* ends.  Users do nothing they need not do, and Studio may ignore keystrokes
\* for ever.  No behaviour repeats a step of Progress for ever, so fairness to
\* all of them together is fairness to each.
Progress ==
    \/ MasterStep
    \/ \E b \in Backends : Receive(b) \/ TakeSnapshot(b)
    \/ \E s \in Sessions :
          \/ CommandStep(s) \/ LaunchTask(s) \/ ExitTask(s)
          \/ PluginDials(s) \/ Handshake(s) \/ OwnedServeEnds(s)
          \/ \E c \in Callers : SaveBaseline(s, c) \/ SaveEnds(s, c) \/ SaveBlind(s, c) \/ CloseTask(s, c)

\* A save that has sent its first keystroke.
SaveBegins == \E s \in Sessions, c \in Callers : saver[s][c] = "fire" /\ SaveFires(s, c)

Fairness == WF_vars(Progress) /\ WF_vars(SaveBegins)

FairSpec == Spec /\ Fairness

------------------------------------------------------------------------------
\* Every variable holds a value of its kind.
TypeOK ==
    /\ cfg \in [Sessions -> Configs]
    /\ cli \in [Sessions -> {"idle", "launching", "running", "finish", "saving", "close", "closing", "done",
                             "gave up", "interrupted"}]
    /\ failed \in [Sessions -> BOOLEAN] /\ verified \in [Sessions -> BOOLEAN]
    /\ view \in [Sessions -> Statuses] /\ row \in [Sessions -> Statuses]
    /\ \A s \in Sessions : handle[s] => row[s] # "none" /\ studio[s] # "none"
    /\ opening \in [Sessions -> {"none", "fresh", "waiting", "ready", "error", "ended"}]
    /\ saving \in [Sessions -> [Callers -> {"none", "pending", "saved", "refused"}]]
    /\ studio \in [Sessions -> {"none", "booting", "running", "dead"}]
    /\ task \in [Sessions -> {"none", "inserted", "spawning", "failing", "spawned", "stored", "over"}]
    /\ touched \in [Sessions -> SUBSET Waiters]
    /\ alive \subseteq Backends

\* A command that was told to save and reports success has put the edits of its
\* script in the place file, whoever else saves or closes the Studio, however
\* many keystrokes are lost and whenever Studio ends.
SuccessIsSaved ==
    \A s \in Sessions : (cli[s] = "done" /\ ~failed[s] /\ Saves(s)) => disk[s]

\* When the master reports a Studio closed, its process has ended.
ClosedIsDead ==
    \A s \in Sessions : (\E c \in Callers : closing[s][c].is = "closed") => ~Live(s)

\* Once the exit callback has run, the session never counts as connected again:
\* not even through a handshake of the dead Studio that is handled late.
DeadStaysDead ==
    \A s \in Sessions : exit[s] = "over" => row[s] \notin {"pending", "launching", "connected"}

\* A launch is answered, as long as nobody closes the session under it.
LaunchAnswered ==
    \A s \in Sessions :
       cli[s] = "launching" ~> (cli[s] # "launching" \/ closing[s]["user"].is # "none")

\* A command that has got through its run ends; the Studio it launched ends with
\* it unless it was to be kept.
StudioGoesWithRun ==
    \A s \in Sessions :
       cli[s] = "finish" ~> (cli[s] = "done" /\ (cfg[s].detached \/ ~Live(s)))

\* Whatever ends a Studio, its settings patches are taken back and its temporary
\* place goes, while its backend runs.
LeavesNothing ==
    \A s \in Sessions :
       (studio[s] = "dead" /\ Up(s)) ~> ((~patched[s] /\ ~temp[s]) \/ ~Up(s))
==============================================================================
