--------------------------- MODULE ScriptTransfer ---------------------------
(***************************************************************************)
(* How a script gets from the client that submits it to the plugin that     *)
(* runs it.  No message may grow with the script, so it travels in pieces:  *)
(* the client cuts it up, the master puts it together to route the run and  *)
(* cuts it up again for the plugin, whose message handler puts it together  *)
(* and starts it.  The client may leave half way, the plugin's socket may   *)
(* be lost and its handler may be replaced between two pieces.              *)
(***************************************************************************)
EXTENDS Naturals, Sequences

CONSTANTS
    Uploads,      \* runs, for one DataModel
    Sources,      \* the scripts considered: a script is the widths of its characters
    PieceSize,    \* SCRIPT_CHUNK_SIZE
    MaxScript,    \* MAX_SCRIPT_SIZE
    MaxBreaks     \* bound: sockets lost and handlers replaced

\* No character is wider than a piece.
ASSUME SourcesAssumption ==
    /\ PieceSize \in Nat /\ MaxScript \in Nat /\ MaxBreaks \in Nat
    /\ Sources \subseteq Seq(1 .. PieceSize) \ {<<>>}

VARIABLES
    source,      \* each run's script
    upload,      \* where its client is, and what it has still to send
    stream,      \* the client's messages on their way to the master
    intake,      \* where the master's run handler is
    gathered,    \* what it has put together
    lane,        \* master to backend
    socket,      \* backend to plugin, while it is open
    plugged,     \* the plugin is connected
    stash,       \* pendingRuns of the plugin's current handler
    starts,      \* the scripts executed for each run
    breaks,      \* number of sockets lost and handlers replaced
    torn         \* history: runs of which that lost a piece

transferVars == <<source, upload, stream, intake, gathered, lane, socket, plugged, stash, starts, breaks, torn>>

clientSide == <<source, upload, stream>>
masterSide == <<intake, gathered>>
pluginSide == <<plugged, stash, starts, breaks, torn>>

Text(ws) == [i \in DOMAIN ws |-> [at |-> i, width |-> ws[i]]]
Texts == {Text(ws) : ws \in Sources}

\* The number of bytes of each of its beginnings.
Bytes(t) ==
    LET upto[n \in 0 .. Len(t)] == IF n = 0 THEN 0 ELSE upto[n - 1] + t[n].width
    IN upto
Size(t) == Bytes(t)[Len(t)]

------------------------------------------------------------------------------
(* Cutting a script into pieces *)

\* What lies between two characters is one piece's worth.
Fits(t, n, m) == Bytes(t)[m] - Bytes(t)[n] <= PieceSize

\* A piece ends at the last character boundary within its size.
Cut(t, n) == CHOOSE m \in n + 1 .. Len(t) - 1 : Fits(t, n, m) /\ ~ Fits(t, n, m + 1)

\* (Mutant: what remains after the last full piece is forgotten.)
FullPiecesOf(t) ==
    LET from[n \in 0 .. Len(t)] ==
            IF Fits(t, n, Len(t)) THEN <<>>
            ELSE <<SubSeq(t, n + 1, Cut(t, n))>> \o from[Cut(t, n)]
    IN IF from[0] = <<>> THEN <<t>> ELSE from[0]

PiecesOf(t) ==
    LET from[n \in 0 .. Len(t)] ==
            IF Fits(t, n, Len(t)) THEN <<SubSeq(t, n + 1, Len(t))>>
            ELSE <<SubSeq(t, n + 1, Cut(t, n))>> \o from[Cut(t, n)]
    IN from[0]

\* The first message has the first piece, and says whether chunks follow it.
Messages(r, t) ==
    [i \in DOMAIN PiecesOf(t) |->
        [kind |-> IF i = 1 THEN "run" ELSE "chunk", run |-> r, text |-> PiecesOf(t)[i], more |-> i < Len(PiecesOf(t))]]

ScriptInit ==
    /\ source \in [Uploads -> Texts]
    /\ upload = [r \in Uploads |-> [at |-> "idle", rest |-> <<>>]]
    /\ stream = [r \in Uploads |-> <<>>]
    /\ intake = [r \in Uploads |-> "none"]
    /\ gathered = [r \in Uploads |-> <<>>]
    /\ lane = <<>> /\ socket = <<>> /\ plugged = TRUE
    /\ stash = [r \in Uploads |-> <<>>]
    /\ starts = [r \in Uploads |-> <<>>]
    /\ breaks = 0 /\ torn = {}

------------------------------------------------------------------------------
(* The client *)

\* A script over the ceiling is refused before anything is sent, unless the client is
\* of another make.
Submits(r) ==
    /\ upload[r].at = "idle"
    /\ \/ /\ Size(source[r]) > MaxScript
          /\ upload' = [upload EXCEPT ![r].at = "refused"]
       \/ upload' = [upload EXCEPT ![r] = [at |-> "on", rest |-> Messages(r, source[r])]]
    /\ UNCHANGED <<source, stream, masterSide, lane, socket, pluginSide>>

Sends(r) ==
    /\ upload[r].at = "on" /\ upload[r].rest # <<>>
    /\ upload' = [upload EXCEPT ![r].rest = Tail(@)]
    /\ stream' = [stream EXCEPT ![r] = Append(@, Head(upload[r].rest))]
    /\ UNCHANGED <<source, masterSide, lane, socket, pluginSide>>

\* It goes away; what it has sent may or may not still arrive.
Quits(r) ==
    /\ upload[r].at = "on"
    /\ upload' = [upload EXCEPT ![r] = [at |-> "gone", rest |-> <<>>]]
    /\ \E n \in 0 .. Len(stream[r]) : stream' = [stream EXCEPT ![r] = SubSeq(@, 1, n)]
    /\ UNCHANGED <<source, masterSide, lane, socket, pluginSide>>

------------------------------------------------------------------------------
(* The master *)

\* dispatch_run, under the master's lock: all pieces are sent in one go.
Dispatches(r, t) ==
    /\ intake' = [intake EXCEPT ![r] = "active"]
    /\ gathered' = [gathered EXCEPT ![r] = <<>>]
    /\ lane' = lane \o Messages(r, t)

\* The first message, and the chunks it announces, up to the last or to the ceiling.
MasterReads(r) ==
    /\ intake[r] \in {"none", "reading"} /\ stream[r] # <<>>
    /\ stream' = [stream EXCEPT ![r] = Tail(@)]
    /\ LET m == Head(stream[r])
           text == gathered[r] \o m.text
       IN IF Size(text) > MaxScript
          THEN intake' = [intake EXCEPT ![r] = "refused"] /\ UNCHANGED <<gathered, lane>>
          ELSE IF m.more
          THEN /\ intake' = [intake EXCEPT ![r] = "reading"]
               /\ gathered' = [gathered EXCEPT ![r] = text]
               /\ lane' = lane
          ELSE Dispatches(r, text)
    /\ UNCHANGED <<source, upload, socket, pluginSide>>

\* The stream ends: in the middle of a script that refuses the run, and an active
\* run is killed.
MasterReadsEnd(r) ==
    /\ upload[r].at = "gone" /\ stream[r] = <<>>
    /\ \/ /\ intake[r] \in {"none", "reading"}
          /\ intake' = [intake EXCEPT ![r] = "refused"] /\ lane' = lane
       \/ /\ intake[r] = "active"
          /\ intake' = [intake EXCEPT ![r] = "abandoned"]
          /\ lane' = Append(lane, [kind |-> "kill", run |-> r, text |-> <<>>, more |-> FALSE])
    /\ UNCHANGED <<clientSide, gathered, socket, pluginSide>>

------------------------------------------------------------------------------
(* The backend and the plugin *)

\* A message for a DataModel that is not connected is dropped.
BackendHands ==
    /\ lane # <<>>
    /\ lane' = Tail(lane)
    /\ socket' = IF plugged THEN Append(socket, Head(lane)) ELSE socket
    /\ torn' = IF plugged THEN torn ELSE torn \union {Head(lane).run}
    /\ UNCHANGED <<clientSide, masterSide, plugged, stash, starts, breaks>>

\* executeRun.
Starts(r, t) ==
    /\ starts' = [starts EXCEPT ![r] = Append(@, t)]
    /\ stash' = [stash EXCEPT ![r] = <<>>]

\* The message handler.  A chunk without a run is dropped with a warning; a kill drops
\* what has been put together.
PluginReads ==
    /\ socket # <<>>
    /\ socket' = Tail(socket)
    /\ LET m == Head(socket)
           r == m.run
       IN \/ /\ m.kind = "run" /\ m.more
             /\ stash' = [stash EXCEPT ![r] = m.text] /\ starts' = starts
          \/ m.kind = "run" /\ ~ m.more /\ Starts(r, m.text)
          \/ m.kind = "chunk" /\ stash[r] = <<>> /\ UNCHANGED <<stash, starts>>
          \/ /\ m.kind = "chunk" /\ stash[r] # <<>> /\ m.more
             /\ stash' = [stash EXCEPT ![r] = @ \o m.text] /\ starts' = starts
          \/ m.kind = "chunk" /\ stash[r] # <<>> /\ ~ m.more /\ Starts(r, stash[r] \o m.text)
          \/ m.kind = "kill" /\ stash' = [stash EXCEPT ![r] = <<>>] /\ starts' = starts
    /\ UNCHANGED <<clientSide, masterSide, lane, plugged, breaks, torn>>

\* The handler is replaced, by the verbose toggle or with its socket: nothing is
\* left of the scripts it was putting together.
Rewires ==
    /\ breaks < MaxBreaks /\ breaks' = breaks + 1
    /\ stash' = [r \in Uploads |-> <<>>]
    /\ UNCHANGED <<clientSide, masterSide, lane, starts>>
    /\ \/ UNCHANGED <<socket, plugged>> /\ torn' = torn \union {r \in Uploads : stash[r] # <<>>}
       \/ /\ plugged /\ plugged' = FALSE /\ socket' = <<>>
          /\ torn' = torn \union {r \in Uploads : stash[r] # <<>>} \union {socket[i].run : i \in DOMAIN socket}

Redials ==
    /\ ~ plugged /\ plugged' = TRUE
    /\ UNCHANGED <<clientSide, masterSide, lane, socket, stash, starts, breaks, torn>>

------------------------------------------------------------------------------
ScriptNext ==
    \/ \E r \in Uploads : Submits(r) \/ Sends(r) \/ Quits(r) \/ MasterReads(r) \/ MasterReadsEnd(r)
    \/ BackendHands \/ PluginReads \/ Rewires \/ Redials

ScriptSpec == ScriptInit /\ [][ScriptNext]_transferVars

------------------------------------------------------------------------------
(* Properties *)

\* Every variable has its type, and no message is larger than a piece.
ScriptTypeOK ==
    /\ source \in [Uploads -> Texts]
    /\ \A r \in Uploads :
          /\ upload[r].at \in {"idle", "refused", "on", "gone"}
          /\ intake[r] \in {"none", "reading", "refused", "active", "abandoned"}
          /\ Size(gathered[r]) <= MaxScript
          /\ \A i \in DOMAIN stream[r] : Size(stream[r][i].text) <= PieceSize
    /\ \A i \in DOMAIN lane : Size(lane[i].text) <= PieceSize
    /\ plugged \in BOOLEAN /\ breaks \in 0 .. MaxBreaks /\ torn \subseteq Uploads

OnItsWay(r) ==
    \/ \E i \in DOMAIN lane : lane[i].run = r
    \/ \E i \in DOMAIN socket : socket[i].run = r

\* A plugin executes nothing but whole scripts as they were submitted, each once, and
\* executes every run the master has sent it unless a socket lost or a handler replaced
\* took one of its pieces.
ScriptArrivesWhole ==
    \A r \in Uploads :
       /\ starts[r] \in {<<>>, <<source[r]>>}
       /\ intake[r] \in {"active", "abandoned"} /\ ~ OnItsWay(r) /\ r \notin torn => starts[r] # <<>>
==============================================================================
