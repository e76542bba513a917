--------------------------- MODULE MCStudioModes ---------------------------
(***************************************************************************)
(* StudioModes with two runs.                                              *)
(***************************************************************************)
EXTENDS StudioModes

RunMode == [EmptySpec EXCEPT !.mode = "run"]
TestClient == [EmptySpec EXCEPT !.mode = "test", !.context = "client"]
PlayServer == [EmptySpec EXCEPT !.mode = "play"]
TestServer == [EmptySpec EXCEPT !.mode = "test"]

\* A server of a run session or a client of a test, and then a client of a test.
MixedAsks == [r \in Runs |-> IF r = 1 THEN {RunMode, TestClient} ELSE {TestClient}]
PlayAsks == [r \in Runs |-> {TestServer, PlayServer}]

ModeScenarios == {{"leave"}, {"user"}, {"mode"}, {"lose"}, {"unsettled"}}
Calm == {{}}
=============================================================================
