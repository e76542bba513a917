------------------------------- MODULE MCClient -------------------------------
(***************************************************************************)
(* The client's side: a run and its calls (ClientRun), the JSON-RPC process *)
(* behind the other languages' clients (Daemon), the frames of viewport     *)
(* captures (CaptureFrames) and the way of a script to the plugin           *)
(* (ScriptTransfer).  The four share no state, so a behaviour of the model  *)
(* is about one of them.                                                    *)
(***************************************************************************)
EXTENDS ClientRun, Daemon, CaptureFrames, ScriptTransfer

CONSTANTS main, side, f1, f2, cat, ls, s1, s2, p1, p2, c1, c2, old, r1, r2, Parts

VARIABLE part

allVars == <<runVars, daemonVars, captureVars, transferVars, part>>

-----------------------------------------------------------------------------
(* Scripts: two lanes *)

Open(h, m) == [op |-> "open", on |-> h, mode |-> m]
Put(h, d) == [op |-> "write", on |-> h, data |-> d]
On(op, h) == [op |-> op, on |-> h]
Input == [op |-> "input"]
ExitWith(n) == [op |-> "exit", code |-> n]
Two(m, s) == [l \in {main, side} |-> IF l = main THEN m ELSE s]

\* What the main lane may do: leave a file open, close, discard or export it,
\* talk to a child.  What runs beside it: output and an exit, the same child,
\* a file and a child of its own, the same file, the client's standard input.
MainPrograms == {
    <<Open(f1, "w"), Put(f1, "a"), Put("stdout", "a")>>,
    <<Open(f1, "a"), Put(f1, "a"), On("close", f1)>>,
    <<Open(f1, "w"), Put(f1, "a"), On("discard", f1)>>,
    <<Open(f1, "w"), Put(f1, "a"), On("export", f1)>>,
    <<On("create", cat), On("read", cat), On("kill", cat)>>,
    <<On("create", cat), On("feed", cat), On("wait", cat), ExitWith(3)>> }
SidePrograms == {
    <<Put("stdout", "b"), ExitWith(0)>>,
    <<On("feed", cat), On("read", cat), On("wait", cat)>>,
    <<Open(f2, "a"), Put(f2, "b"), On("run", ls)>>,
    <<Put(f1, "b"), On("export", f1), Put(f1, "b")>>,
    <<Input, Put("stdout", "b")>> }
NoCalls == Two(<<>>, <<>>)
ClientScripts == {Two(m, s) : m \in MainPrograms, s \in SidePrograms} \cup {NoCalls}
RunDisturbances == {{}, {"kill"}, {"lose"}, {"leave"}}

-----------------------------------------------------------------------------
(* Lines: runs beside a Studio that is waited for, a multiplayer test, and    *)
(* lines that name what is not there.                                         *)

Do(op) == [op |-> op]
Stream(op, s) == [op |-> op, stream |-> s]
Timed(op, t) == [op |-> op, timed |-> t]
Multiplayer(n, t) == [op |-> "multiplayer", players |-> n, timed |-> t]
ClientPlans == UNION { {
    <<>>,
    <<Timed("open", t), Stream("run", s1), Timed("play", t), Stream("cancel", s1)>>,
    <<Stream("run", s1), Stream("run", s2), Stream("cancel", s1), Do("other"), Stream("cancel", s2)>>,
    <<Stream("run", s1), Timed("open", t), Do("close"), Stream("cancel", s1)>>,
    <<Timed("open", t), Multiplayer(1, t), Timed("connect", t), Do("disconnect"), Do("end"), Do("close")>>,
    <<Timed("connect", t), Timed("open", t), Timed("run mode", t), Do("edit"), Do("close"), Timed("play", t)>> }
    : t \in BOOLEAN }

-----------------------------------------------------------------------------
(* Captures: two of one size, and a frame of another size left over by an earlier one *)

CaptureSize == [c \in {c1, c2, old} |-> IF c = old THEN 2 ELSE 1]

-----------------------------------------------------------------------------
(* Scripts in one, two and three pieces of at most five bytes, with characters that
   do not fit the end of a piece, and one over the ceiling of twelve bytes. *)

ScriptSources == {<<1>>, <<2, 2, 2>>, <<3, 1, 4, 2>>, <<4, 4, 4, 1>>}

ClientInit ==
    /\ part \in Parts
    /\ RunInit /\ DaemonInit /\ CapturesInit /\ ScriptInit
    /\ part # "run" => script = NoCalls /\ env = {}
    /\ part # "daemon" => lines = <<>>
    /\ part # "captures" => \A frame \in frames : frame.whole
    /\ part # "script" => source = [r \in Uploads |-> Text(<<1>>)]

ClientNext ==
    /\ part' = part
    /\ \/ part = "run" /\ RunNext /\ UNCHANGED <<daemonVars, captureVars, transferVars>>
       \/ part = "daemon" /\ DaemonNext /\ UNCHANGED <<runVars, captureVars, transferVars>>
       \/ part = "captures" /\ CapturesNext /\ UNCHANGED <<runVars, daemonVars, transferVars>>
       \/ part = "script" /\ ScriptNext /\ UNCHANGED <<runVars, daemonVars, captureVars>>

ClientSpec == ClientInit /\ [][ClientNext]_allVars /\ RunFairness /\ DaemonFairness

\* Every variable has its type.
ClientTypeOK == RunTypeOK /\ DaemonTypeOK /\ CapturesTypeOK /\ ScriptTypeOK
==============================================================================
