---------------------------- MODULE MCStudioLaunch ----------------------------
(***************************************************************************)
(* An instance of StudioLaunch: one command, and the ways it may be called *)
(* and disturbed.                                                          *)
(***************************************************************************)
EXTENDS StudioLaunch

CONSTANTS b1, s1

Call(save, detached, owned, other) ==
    [save |-> save, target |-> "file", detached |-> detached, owned |-> owned, other |-> other]

\* With and without --save and --detach, on a serve of its own or another's.
FileCalls ==
    {Call("in place", FALSE, FALSE, "stop"), Call("in place", TRUE, FALSE, "stop"),
     Call("in place", TRUE, FALSE, "save"), Call("in place", TRUE, FALSE, "close"),
     Call("no", FALSE, FALSE, "close"), Call("no", FALSE, TRUE, "close"), Call("no", TRUE, TRUE, "save")}

\* Two places in the cloud, one of which cannot be saved.
CloudCalls ==
    {[Call("no", FALSE, FALSE, "save") EXCEPT !.target = "place id"],
     [Call("in place", FALSE, FALSE, "stop") EXCEPT !.target = "place id"]}

AllCalls == FileCalls \union CloudCalls

AtHome == [s \in Sessions |-> b1]
==============================================================================
