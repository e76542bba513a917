------------------------------ MODULE McpBridge ------------------------------
(***************************************************************************)
(* The one StudioMCP process a studio backend talks to: JSON-RPC lines over *)
(* its pipes, one "active Studio" for all of them.  Three kinds of task     *)
(* share it behind a mutex: the reconciliation loop, which tells every      *)
(* DataModel its StudioMCP id; a launch, which finds out the id of the      *)
(* Studio it started; and the mcp.call of a script.  A Studio's StudioMCP   *)
(* id is the model value that stands for the Studio.                        *)
(***************************************************************************)
EXTENDS Naturals, Sequences, FiniteSets

CONSTANTS
    Launches,       \* the Studios this backend launches
    Others,         \* Studios the user opens, with the plugin in them
    McpCalls,       \* mcp.call requests of scripts
    Loop,           \* the reconciliation loop
    Nobody,         \* no task, no Studio, no id
    Scenes,         \* the sets of tasks and of the user's Studios considered together
    MaxRequests,    \* bound: request ids
    MaxLate         \* bound: reads that time out

Studios == Launches \cup Others
McpTasks == Launches \cup McpCalls \cup {Loop}

\* Studios, launches, calls and the loop are told apart, and "nobody" is none of them.
ASSUME McpAssumption ==
    /\ Launches \cap McpCalls = {} /\ Loop \notin Launches \cup McpCalls
    /\ Nobody \notin Studios \cup McpTasks

VARIABLES
    up,           \* StudioMCP: "no" client yet, "on" or "closed"
    holder,       \* the task that holds the client
    next,         \* StudioMcpClient.next_id
    awaits,       \* the id the holder reads for, 0 when it reads nothing
    result,       \* what the holder's last rpc returned
    requests,     \* lines on StudioMCP's standard input
    replies,      \* lines on its standard output
    torn,         \* a timed-out read kept part of the next line
    active,       \* StudioMCP's active Studio
    shown,        \* the Studios list_roblox_studios shows
    gone,         \* those that have quit, and those that never come up
    domMcp,       \* the id the DataModel of a Studio reports, for those with a plugin
    at,           \* [McpTasks -> where it is]
    toVisit,      \* the listed Studios the loop has still to visit
    visit,        \* the one it visits
    pre,          \* each launch's snapshot of the list
    listing,      \* what its last poll found
    paired,       \* StudioInstanceInfo.mcp_studio_id
    rows,         \* the launches that are in studio_instances
    home,         \* the Studio of each script that calls
    answer,       \* what its call was answered
    late,         \* number of reads that have timed out
    blind,        \* history: launches that have no list to compare with
    crowd         \* history: launches beside whose search another Studio came up

pipeVars == <<up, next, awaits, result, requests, replies, torn, active, late>>
studioVars == <<shown, gone, domMcp>>
launchVars == <<pre, listing, paired, rows, blind>>
callVars == <<home, answer>>
mcpVars == <<pipeVars, studioVars, launchVars, callVars, holder, at, toVisit, visit, crowd>>

Failed == [ok |-> FALSE, list |-> {}, call |-> Nobody, studio |-> Nobody]
Done == [Failed EXCEPT !.ok = TRUE]

\* The user's Studios may be up before the tasks considered, and know their ids.
McpStart(scene) ==
    /\ up \in {"no", "on"} /\ holder = Nobody /\ next = 1 /\ awaits = 0 /\ result = Failed
    /\ requests = <<>> /\ replies = <<>> /\ torn = FALSE /\ active = Nobody /\ late = 0
    /\ shown \in SUBSET (Others \cap scene) /\ gone = Others \ scene
    /\ \E known \in {{}, IF up = "on" THEN shown ELSE {}} :
          domMcp = [i \in shown |-> IF i \in known THEN i ELSE Nobody]
    /\ at = [t \in McpTasks |-> IF t \in scene THEN "idle" ELSE "off"]
    /\ toVisit = {} /\ visit = Nobody
    /\ pre = [s \in Launches |-> {}] /\ listing = pre
    /\ paired = [s \in Launches |-> Nobody] /\ rows = Launches
    /\ home = [c \in McpCalls |-> Nobody] /\ answer = [c \in McpCalls |-> Failed]
    /\ blind = {} /\ crowd = {}

McpInit == \E scene \in Scenes : McpStart(scene)

-----------------------------------------------------------------------------
(* The client: one rpc at a time, by the task that holds it *)

\* The rpc the holder has begun is over.
Returned == awaits = 0

\* send_raw: the request gets the next id, and its answer is read for.
Ask(what, whom) ==
    /\ next <= MaxRequests
    /\ next' = next + 1
    /\ awaits' = next
    /\ result' = Failed
    /\ requests' = Append(requests, [id |-> next, op |-> what, on |-> whom])
    /\ UNCHANGED <<up, replies, torn, active, late>>

\* The client is free for the next task.
Release ==
    /\ holder' = Nobody /\ result' = Failed
    /\ UNCHANGED <<up, next, awaits, requests, replies, torn, active, late>>

Settle(r) == awaits' = 0 /\ result' = r

\* (Mutant: the next line is taken for the answer.)
ReceiveAny ==
    /\ awaits # 0 /\ replies # <<>>
    /\ replies' = Tail(replies) /\ torn' = FALSE
    /\ Settle(IF torn THEN Failed ELSE Head(replies).result)
    /\ UNCHANGED <<up, next, requests, active, late>>

\* A line is read: the remainder of a torn one does not parse, an answer to an
\* earlier request is skipped.
Receive ==
    /\ awaits # 0 /\ replies # <<>>
    /\ replies' = Tail(replies) /\ torn' = FALSE
    /\ IF torn THEN Settle(Failed)
       ELSE IF Head(replies).id = awaits THEN Settle(Head(replies).result)
       ELSE UNCHANGED <<awaits, result>>
    /\ UNCHANGED <<up, next, requests, active, late>>

\* Ten seconds without a line: the rpc fails, and what the read already had of
\* the line under way is lost with it.
ReadTimesOut ==
    /\ awaits # 0 /\ late < MaxLate
    /\ late' = late + 1
    /\ Settle(Failed)
    /\ torn' \in {torn, requests \o replies # <<>> \/ torn}
    /\ UNCHANGED <<up, next, requests, replies, active>>

\* An empty line, or a pipe that cannot be written: StudioMCP is gone, for good.
ReadsEnd ==
    /\ awaits # 0 /\ up = "closed" /\ replies = <<>>
    /\ Settle(Failed)
    /\ UNCHANGED <<up, next, requests, replies, torn, active, late>>

Pipe ==
    /\ Receive \/ ReadTimesOut \/ ReadsEnd
    /\ UNCHANGED <<studioVars, launchVars, callVars, holder, at, toVisit, visit, crowd>>

-----------------------------------------------------------------------------
(* StudioMCP and the Studios *)

\* StudioMCP answers its lines in order.  A snippet of the loop leaves the id in
\* the active Studio's DataModel, a tool runs in the active Studio.
McpServes ==
    LET q == Head(requests)
        there == active \in shown
        Result == CASE q.op = "list" -> [Done EXCEPT !.list = shown]
                    [] q.op = "set" -> IF q.on \in shown THEN Done ELSE Failed
                    [] q.op = "luau" -> IF there THEN Done ELSE Failed
                    [] q.op = "tool" -> IF there THEN [Done EXCEPT !.call = q.on, !.studio = active] ELSE Failed
    IN  /\ up = "on" /\ requests # <<>>
        /\ requests' = Tail(requests)
        /\ replies' = Append(replies, [id |-> q.id, result |-> Result])
        /\ active' = IF q.op = "set" /\ q.on \in shown THEN q.on ELSE active
        /\ domMcp' = [i \in DOMAIN domMcp |-> IF q.op = "luau" /\ there /\ i = active THEN q.on ELSE domMcp[i]]
        /\ UNCHANGED <<up, holder, next, awaits, result, torn, late, shown, gone, launchVars, callVars, at, toVisit, visit, crowd>>

McpConnects ==
    /\ up = "no" /\ up' = "on"
    /\ UNCHANGED <<holder, next, awaits, result, requests, replies, torn, active, late,
                   studioVars, launchVars, callVars, at, toVisit, visit, crowd>>

McpDies ==
    /\ up = "on" /\ up' = "closed"
    /\ requests' = <<>>
    /\ UNCHANGED <<holder, next, awaits, result, replies, torn, active, late,
                   studioVars, launchVars, callVars, at, toVisit, visit, crowd>>

\* A Studio registers with StudioMCP, and its plugin with the backend.
ComesUp(i) ==
    /\ i \notin shown \cup gone
    /\ i \in Launches => at[i] \in {"polls", "looks", "picks", "over"}
    /\ shown' = shown \cup {i}
    /\ domMcp' = [j \in DOMAIN domMcp \cup {i} |-> IF j = i THEN Nobody ELSE domMcp[j]]
    /\ crowd' = crowd \cup {s \in rows \ {i} : at[s] \in {"lists", "polls", "looks", "picks"}}
    /\ UNCHANGED <<gone, pipeVars, holder, launchVars, callVars, at, toVisit, visit>>

Quits(i) ==
    /\ i \in shown
    /\ shown' = shown \ {i} /\ gone' = gone \cup {i}
    /\ domMcp' = [j \in DOMAIN domMcp \ {i} |-> domMcp[j]]
    /\ UNCHANGED <<pipeVars, holder, launchVars, callVars, at, toVisit, visit, crowd>>

-----------------------------------------------------------------------------
(* The reconciliation loop *)

Passes(t, from, to) == at[t] = from /\ at' = [at EXCEPT ![t] = to]
Takes(t) == holder = Nobody /\ holder' = t
Keeps(t) == holder = t /\ Returned /\ holder' = t

HasUnresolved == \E i \in DOMAIN domMcp : domMcp[i] = Nobody

LoopLists ==
    /\ up # "no" /\ HasUnresolved
    /\ Passes(Loop, "idle", "lists") /\ Takes(Loop) /\ Ask("list", Nobody)
    /\ UNCHANGED <<studioVars, launchVars, callVars, toVisit, visit, crowd>>

LoopListed ==
    /\ Passes(Loop, "lists", "visits") /\ Keeps(Loop)
    /\ toVisit' = result.list
    /\ UNCHANGED <<pipeVars, studioVars, launchVars, callVars, visit, crowd>>

LoopSets ==
    /\ Passes(Loop, "visits", "sets") /\ Keeps(Loop)
    /\ visit' \in toVisit /\ toVisit' = toVisit \ {visit'}
    /\ Ask("set", visit')
    /\ UNCHANGED <<studioVars, launchVars, callVars, crowd>>

\* A Studio that could not be made active is left for the next round.
LoopSkips ==
    /\ Passes(Loop, "sets", "visits") /\ Keeps(Loop) /\ ~ result.ok
    /\ UNCHANGED <<pipeVars, studioVars, launchVars, callVars, toVisit, visit, crowd>>

\* The unifier, in every DataModel of the active Studio; its result is not looked at.
LoopFires ==
    /\ Passes(Loop, "sets", "fires") /\ Keeps(Loop) /\ result.ok
    /\ Ask("luau", visit)
    /\ UNCHANGED <<studioVars, launchVars, callVars, toVisit, visit, crowd>>

LoopFired ==
    /\ Passes(Loop, "fires", "visits") /\ Keeps(Loop)
    /\ UNCHANGED <<pipeVars, studioVars, launchVars, callVars, toVisit, visit, crowd>>

LoopEnds ==
    /\ Passes(Loop, "visits", "idle") /\ holder = Loop /\ Returned /\ toVisit = {}
    /\ Release
    /\ visit' = Nobody
    /\ UNCHANGED <<studioVars, launchVars, callVars, toVisit, crowd>>

-----------------------------------------------------------------------------
(* mcp.call *)

\* The plugin hands over the call of a script; the DataModel may not know its id yet.
CallComes(c) ==
    /\ Passes(c, "idle", "waits")
    /\ \E i \in DOMAIN domMcp : home' = [home EXCEPT ![c] = i]
    /\ UNCHANGED <<pipeVars, studioVars, launchVars, answer, holder, toVisit, visit, crowd>>

\* The id is known: the client is taken and the Studio made active.
CallSets(c) ==
    /\ Passes(c, "waits", "sets") /\ Takes(c)
    /\ home[c] \in DOMAIN domMcp /\ domMcp[home[c]] # Nobody
    /\ Ask("set", domMcp[home[c]])
    /\ UNCHANGED <<studioVars, launchVars, callVars, toVisit, visit, crowd>>

\* After ten seconds without an id, or if the Studio could not be made active.
CallFails(c) ==
    /\ \/ Passes(c, "waits", "over") /\ UNCHANGED <<pipeVars, holder>>
       \/ Passes(c, "sets", "over") /\ holder = c /\ Returned /\ ~ result.ok /\ Release
    /\ UNCHANGED <<studioVars, launchVars, callVars, toVisit, visit, crowd>>

CallRuns(c) ==
    /\ Passes(c, "sets", "runs") /\ Keeps(c) /\ result.ok
    /\ Ask("tool", c)
    /\ UNCHANGED <<studioVars, launchVars, callVars, toVisit, visit, crowd>>

CallAnswered(c) ==
    /\ Passes(c, "runs", "over") /\ holder = c /\ Returned
    /\ answer' = [answer EXCEPT ![c] = result]
    /\ Release
    /\ UNCHANGED <<studioVars, launchVars, home, toVisit, visit, crowd>>

-----------------------------------------------------------------------------
(* A launch finds out the id of its Studio *)

\* Without a client the snapshot is empty, and the search goes on all the same.
LaunchLists(s) ==
    /\ holder = Nobody
    /\ IF up = "no"
       THEN Passes(s, "idle", "polls") /\ blind' = blind \cup {s} /\ UNCHANGED <<pipeVars, holder>>
       ELSE Passes(s, "idle", "lists") /\ holder' = s /\ Ask("list", Nobody) /\ blind' = blind
    /\ UNCHANGED <<studioVars, pre, listing, paired, rows, callVars, toVisit, visit, crowd>>

\* So it does after a list that failed.  Studio is spawned next.
LaunchListed(s) ==
    /\ Passes(s, "lists", "polls") /\ holder = s /\ Returned /\ Release
    /\ pre' = [pre EXCEPT ![s] = result.list]
    /\ blind' = IF result.ok THEN blind ELSE blind \cup {s}
    /\ UNCHANGED <<studioVars, listing, paired, rows, callVars, toVisit, visit, crowd>>

LaunchPolls(s) ==
    /\ up # "no"
    /\ Passes(s, "polls", "looks") /\ Takes(s) /\ Ask("list", Nobody)
    /\ UNCHANGED <<studioVars, launchVars, callVars, toVisit, visit, crowd>>

LaunchPolled(s) ==
    /\ Passes(s, "looks", IF result.ok THEN "picks" ELSE "polls") /\ holder = s /\ Returned /\ Release
    /\ listing' = [listing EXCEPT ![s] = result.list]
    /\ UNCHANGED <<studioVars, pre, paired, rows, blind, callVars, toVisit, visit, crowd>>

\* (Mutant: the ids of the other launches are not looked at.)
UnseenIds(s) == listing[s] \ pre[s]

\* The entries that are new and belong to no other launch.
NewIds(s) == (listing[s] \ pre[s]) \ {paired[t] : t \in rows}

\* Under the lock of the state, the client released before.
LaunchPicks(s) ==
    /\ listing' = [listing EXCEPT ![s] = {}]
    /\ IF NewIds(s) = {}
       THEN Passes(s, "picks", "polls") /\ UNCHANGED <<pre, paired>>
       ELSE /\ Passes(s, "picks", "over")
            /\ pre' = [pre EXCEPT ![s] = {}]
            /\ IF s \notin rows THEN paired' = paired
               ELSE \E i \in NewIds(s) : paired' = [paired EXCEPT ![s] = i]
    /\ UNCHANGED <<pipeVars, studioVars, rows, blind, callVars, holder, toVisit, visit, crowd>>

\* After thirty seconds.
LaunchGivesUp(s) ==
    /\ Passes(s, "polls", "over")
    /\ pre' = [pre EXCEPT ![s] = {}]
    /\ blind' = blind \ {s} /\ crowd' = crowd \ {s}
    /\ UNCHANGED <<pipeVars, studioVars, listing, paired, rows, callVars, holder, toVisit, visit>>

\* close_studio: the Studio and its row go.
LaunchCloses(s) ==
    /\ s \in rows /\ at[s] \in {"polls", "looks", "picks", "over"}
    /\ shown' = shown \ {s} /\ gone' = gone \cup {s}
    /\ domMcp' = [i \in DOMAIN domMcp \ {s} |-> domMcp[i]]
    /\ rows' = rows \ {s} /\ paired' = [paired EXCEPT ![s] = Nobody]
    /\ blind' = blind \ {s} /\ crowd' = crowd \ {s}
    /\ UNCHANGED <<pipeVars, pre, listing, callVars, holder, at, toVisit, visit>>

-----------------------------------------------------------------------------
LoopStep == LoopLists \/ LoopListed \/ LoopSets \/ LoopSkips \/ LoopFires \/ LoopFired \/ LoopEnds

McpNext ==
    \/ Pipe \/ McpServes \/ McpConnects \/ McpDies \/ LoopStep
    \/ \E i \in Studios : ComesUp(i) \/ Quits(i)
    \/ \E c \in McpCalls : CallComes(c) \/ CallSets(c) \/ CallFails(c) \/ CallRuns(c) \/ CallAnswered(c)
    \/ \E s \in Launches :
           LaunchLists(s) \/ LaunchListed(s) \/ LaunchPolls(s) \/ LaunchPolled(s) \/ LaunchPicks(s)
               \/ LaunchGivesUp(s) \/ LaunchCloses(s)

McpSpec == McpInit /\ [][McpNext]_mcpVars

-----------------------------------------------------------------------------
(* Properties *)

\* Whatever times out and whoever shares the client, a script's mcp.call that gets a
\* result gets the result of its own call, run in its own Studio.
McpAnswersOwn ==
    \A c \in McpCalls : answer[c].ok => answer[c].call = c /\ answer[c].studio = home[c]

\* A DataModel never reports another Studio's id; no two launches hold one id; and a
\* launch that could compare lists, with no other Studio coming up beside it, holds
\* none but its own.
McpIdsRight ==
    /\ \A i \in DOMAIN domMcp : domMcp[i] \in {Nobody, i}
    /\ \A s \in Launches : paired[s] # Nobody =>
          /\ \A t \in Launches \ {s} : paired[t] # paired[s]
          /\ paired[s] = s \/ s \in blind \cup crowd
==============================================================================
