---------------------------- MODULE CaptureFrames ----------------------------
(***************************************************************************)
(* roblox.captureViewport.  The engine writes the frame of every capture,  *)
(* of every Studio and every run of this user, into one directory; a run's *)
(* client tells its own frame by a snapshot of the directory taken before  *)
(* the capture.                                                            *)
(***************************************************************************)
EXTENDS Naturals, FiniteSets

CONSTANTS
    Captures,  \* captures in one directory, some of them at the same time
    SizeOf,    \* the viewport of each, up to the display scale
    Earlier    \* captures whose frames have been in the directory for long

ASSUME CapturesAssumption == Earlier \subseteq Captures /\ SizeOf \in [Captures -> Nat]

VARIABLES
    stage,    \* where each capture is
    frames,   \* the directory: frames, whole or still being written
    before,   \* CaptureSnapshot of each capture
    got,      \* the frame each capture was finalized from
    since     \* history: whose frames were written since each capture began

captureVars == <<stage, frames, before, got, since>>

Frame == [of : Captures, whole : BOOLEAN]
Own(c, whole) == [of |-> c, whole |-> whole]

CapturesTypeOK ==
    /\ stage \in [Captures -> {"idle", "begun", "shot", "done", "failed"}]
    /\ frames \subseteq Frame
    /\ before \in [Captures -> SUBSET Frame]
    /\ \A c \in Captures : got[c] \subseteq Frame /\ Cardinality(got[c]) <= 1
    /\ \A c \in Captures : got[c] # {} => stage[c] = "done"

CapturesInit ==
    /\ stage = [c \in Captures |-> IF c \in Earlier THEN "failed" ELSE "idle"]
    \* A frame may be left over half written, by a run that has given up on it.
    /\ \E whole \in BOOLEAN : frames = {Own(c, whole) : c \in Earlier}
    /\ before = [c \in Captures |-> {}]
    /\ got = [c \in Captures |-> {}]
    /\ since = [c \in Captures |-> {}]

\* roblox.captureBegin: the snapshot.
CaptureBegin(c) ==
    /\ stage[c] = "idle"
    /\ stage' = [stage EXCEPT ![c] = "begun"]
    /\ before' = [before EXCEPT ![c] = frames]
    /\ UNCHANGED <<frames, got, since>>

\* The plugin takes the screenshot and its callback fires.
Shoot(c) ==
    /\ stage[c] = "begun"
    /\ stage' = [stage EXCEPT ![c] = "shot"]
    /\ UNCHANGED <<frames, before, got, since>>

\* The engine writes the frame of a capture, in its own time: after the callback,
\* or long after the collect has given up.
EngineWrites(c, whole) ==
    /\ stage[c] \in {"shot", "done", "failed"}
    /\ Own(c, TRUE) \notin frames
    /\ whole \/ Own(c, FALSE) \notin frames
    /\ frames' = (frames \ {Own(c, FALSE)}) \cup {Own(c, whole)}
    /\ since' = [d \in Captures |-> IF stage[d] \in {"begun", "shot"} THEN since[d] \cup {c} ELSE since[d]]
    /\ UNCHANGED <<stage, before, got>>

\* (Mutant: every frame of the right size, old ones too.)
SelectAny(c) == {f \in frames : SizeOf[f.of] = SizeOf[c]}

\* select_capture_file: not in the snapshot, or changed since, and of the size of
\* the viewport.
Select(c) == {f \in frames \ before[c] : SizeOf[f.of] = SizeOf[c]}

\* roblox.captureCollect, one scan that settles it: a single candidate that is
\* whole, or more than one.  Otherwise it scans again.
CollectScans(c) ==
    /\ stage[c] = "shot"
    /\ \/ /\ Cardinality(Select(c)) = 1 /\ \A f \in Select(c) : f.whole
          /\ got' = [got EXCEPT ![c] = Select(c)]
          /\ stage' = [stage EXCEPT ![c] = "done"]
       \/ /\ Cardinality(Select(c)) > 1
          /\ stage' = [stage EXCEPT ![c] = "failed"]
          /\ got' = got
    /\ UNCHANGED <<frames, before, since>>

\* No frame within CAPTURE_FILE_TIMEOUT, or a run that ended before collecting.
CollectGivesUp(c) ==
    /\ stage[c] \in {"begun", "shot"}
    /\ stage' = [stage EXCEPT ![c] = "failed"]
    /\ UNCHANGED <<frames, before, got, since>>

CapturesNext ==
    \E c \in Captures :
        \/ CaptureBegin(c) \/ Shoot(c) \/ CollectScans(c) \/ CollectGivesUp(c)
        \/ \E whole \in BOOLEAN : EngineWrites(c, whole)

CapturesSpec == CapturesInit /\ [][CapturesNext]_captureVars

-----------------------------------------------------------------------------
(* Properties *)

\* A capture is finalized from a whole frame of its own size that was written
\* while it was under way: never from one that was already there, or only half
\* of one.  (That the frame is the capture's own cannot be said: when only
\* another capture's has been written, it is the single candidate.)
FrameIsRecent ==
    \A c \in Captures : \A f \in got[c] :
        f.whole /\ f.of \in since[c] /\ SizeOf[f.of] = SizeOf[c]
==============================================================================
