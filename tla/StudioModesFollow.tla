-------------------------- MODULE StudioModesFollow --------------------------
(***************************************************************************)
(* Proofs about StudioModes, for any number of runs, routes and sessions:  *)
(* types, that no driver is left behind by the master's target, and that   *)
(* runs land on the DOMs and in the sessions they asked for.               *)
(***************************************************************************)
EXTENDS StudioModes, SequenceTheorems, TLAPS

-----------------------------------------------------------------------------
(* Types *)

Views == UNION {[D -> Modes] : D \in SUBSET Doms}

\* Every session so far had a kind, and no DOM is of a session to come.
Born ==
    /\ \A n \in 1..session.n : kindOf[n] \in Kinds3
    /\ \A d \in up : d.n <= session.n
TypeInv == TypeOK /\ view \in Views /\ snaps \in Seq(Views) /\ Born

\* A view lists some of the DOMs with a mode each.
LEMMA ViewsDef == ASSUME NEW V \in Views PROVE IsView(V)
<1>1. PICK D \in SUBSET Doms : V \in [D -> Modes]
  BY DEF Views
<1> QED
  BY <1>1 DEF IsView

\* The derived target is a mode or empty.
LEMMA WantedType == ASSUME NEW Q PROVE Wanted(Q) \in Targets
<1> DEFINE modes == {Resolve(asked'[r]).mode : r \in Oldest(Q)}
<1>1. modes \subseteq Kinds3
  BY DEF Oldest, Drives
<1>2. Kinds3 \subseteq Targets /\ "" \in Targets
  BY DEF Kinds3, Targets, Modes
<1> HIDE DEF modes
<1>3. CASE modes = {}
  BY <1>2, <1>3 DEF Wanted, modes
<1>4. CASE modes # {}
  <2>1. (CHOOSE mode \in modes : TRUE) \in modes
    BY <1>4
  <2>2. Wanted(Q) = CHOOSE mode \in modes : TRUE
    BY <1>4 DEF Wanted, modes
  <2> QED
    BY <1>1, <1>2, <2>1, <2>2
<1> QED
  BY <1>3, <1>4

\* A push appends the target to some inboxes.
LEMMA PushedType ==
    ASSUME inbox \in [Doms -> Seq(Targets)], NEW V, NEW target \in Targets
    PROVE  Pushed(V, target) \in [Doms -> Seq(Targets)]
<1> SUFFICES ASSUME NEW d \in Doms
             PROVE (IF d \in DOMAIN V \cap (up \cup {EditDom})
                    THEN Append(inbox[d], target) ELSE inbox[d]) \in Seq(Targets)
  BY DEF Pushed
<1>1. inbox[d] \in Seq(Targets) /\ Append(inbox[d], target) \in Seq(Targets)
  OBVIOUS
<1> QED
  BY <1>1

\* derive_and_push_targets keeps the types of what it writes.
LEMMA DeriveType ==
    ASSUME targets \in [Idents -> Target \cup {None}],
           inbox \in [Doms -> Seq(Targets)],
           NEW Q, NEW V \in Views, Derive(Q, V)
    PROVE  /\ targets' \in [Idents -> Target \cup {None}]
           /\ inbox' \in [Doms -> Seq(Targets)]
<1>1. CASE DOMAIN V = {}
  BY <1>1 DEF Derive
<1>2. CASE DOMAIN V # {}
  <2> DEFINE want == Wanted(Q)
  <2>1. want \in Targets
    BY WantedType
  <2>2. [mode |-> want, doms |-> DOMAIN V] \in Target
    BY <2>1, ViewsDef DEF Target, IsView
  <2>3. targets' = [i \in Idents |->
                       IF i = "studio" THEN [mode |-> want, doms |-> DOMAIN V] ELSE None]
    BY <1>2 DEF Derive
  <2>4. inbox' = Pushed(V, want) \/ inbox' = inbox
    BY <1>2 DEF Derive
  <2>5. Pushed(V, want) \in [Doms -> Seq(Targets)]
    BY <2>1, PushedType
  <2> QED
    BY <2>2, <2>3, <2>4, <2>5
<1> QED
  BY <1>1, <1>2

\* reconcile keeps the types of what it writes.
LEMMA ReconcileType ==
    ASSUME TypeOK, NEW Q \in SUBSET Runs, NEW V \in Views, Reconcile(Q, V)
    PROVE  /\ queue' \subseteq Runs
           /\ landed' \in [Runs -> Doms \cup {None}]
           /\ targets' \in [Idents -> Target \cup {None}]
           /\ inbox' \in [Doms -> Seq(Targets)]
<1> DEFINE fit == {r \in Q : Matches(r, V) # {}}
<1>1. PICK place \in [fit -> DOMAIN V] :
         landed' = [r \in Runs |-> IF r \in fit THEN place[r] ELSE landed[r]]
  BY DEF Reconcile
<1>2. DOMAIN V \subseteq Doms
  BY ViewsDef DEF IsView
<1>3. landed' \in [Runs -> Doms \cup {None}]
  BY <1>1, <1>2 DEF TypeOK
<1>4. queue' = Q \ fit /\ Derive(Q \ fit, V)
  BY DEF Reconcile
<1>5. targets' \in [Idents -> Target \cup {None}] /\ inbox' \in [Doms -> Seq(Targets)]
  BY <1>4, DeriveType DEF TypeOK
<1> QED
  BY <1>3, <1>4, <1>5

\* Every connected DOM reports a mode.
LEMMA ReportType == ASSUME TypeInv PROVE Report \in Views
<1>1. \A d \in up : Reported(d) \in Modes
  <2> SUFFICES ASSUME NEW d \in up PROVE Reported(d) \in Modes
    OBVIOUS
  <2>1. CASE d.kind = "edit"
    BY <2>1 DEF Reported, Modes
  <2>2. CASE d.kind # "edit"
    <3>1. d \in PlayDoms
      BY <2>2 DEF TypeInv, TypeOK, Doms, EditDom
    <3>2. d.n \in 1..session.n
      BY <3>1 DEF TypeInv, TypeOK, Born, PlayDoms
    <3>3. kindOf[d.n] \in Kinds3
      BY <3>2 DEF TypeInv, Born
    <3>4. Reported(d) \in {"run", "play", kindOf[d.n]}
      BY <2>2 DEF Reported
    <3> QED
      BY <3>3, <3>4 DEF Kinds3, Modes
  <2> QED
    BY <2>1, <2>2
<1>2. up \in SUBSET Doms
  BY DEF TypeInv, TypeOK
<1>3. Report \in [up -> Modes]
  BY <1>1 DEF Report
<1> QED
  BY <1>2, <1>3 DEF Views

LEMMA TypeInit == Init => TypeInv
<1> SUFFICES ASSUME Init PROVE TypeInv
  OBVIOUS
<1>1. view \in [{} -> Modes] /\ view \in Views
  <2>1. view \in [{} -> Modes]
    BY DEF Init
  <2> QED
    BY <2>1 DEF Views
<1>2. IsView(view)
  BY <1>1, ViewsDef
<1>3. /\ asked \in [Runs -> Specs \cup {None}]
      /\ queue \subseteq Runs
      /\ landed \in [Runs -> Doms \cup {None}]
      /\ targets \in [Idents -> Target \cup {None}]
  BY DEF Init
<1>4. snaps \in Seq(Views) /\ DOMAIN snaps = {}
  BY DEF Init
<1>5. inbox \in [Doms -> Seq(Targets)]
  BY DEF Init
<1>6. /\ goal \in [Doms -> Targets \cup {None}]
      /\ busy \in [Doms -> BOOLEAN]
      /\ up \subseteq Doms
      /\ told \in BOOLEAN /\ waiting \in BOOLEAN
      /\ kindOf \in [1..MaxSessions -> Kinds3 \cup {None}]
      /\ env \in Scenarios
  BY DEF Init
<1>7. /\ session \in [n : 0..MaxSessions, kind : Kinds3, phase : {"idle", "live", "ending"}]
      /\ moves \in 0..MaxMoves
  BY BoundsAssumption DEF Init, Kinds3
<1>8. Born
  BY DEF Init, Born
<1> QED
  BY <1>1, <1>2, <1>3, <1>4, <1>5, <1>6, <1>7, <1>8 DEF TypeInv, TypeOK

\* The handlers of the master: they write the queue, the view, the targets and
\* what is on its way to the plugins.
LEMMA MasterType ==
    ASSUME TypeInv,
           asked' \in [Runs -> Specs \cup {None}], queue' \subseteq Runs,
           landed' \in [Runs -> Doms \cup {None}],
           targets' \in [Idents -> Target \cup {None}],
           inbox' \in [Doms -> Seq(Targets)],
           view' \in Views, snaps' \in Seq(Views), moves' \in 0..MaxMoves,
           UNCHANGED <<up, pluginVars, engineVars, env>>
    PROVE  TypeInv'
<1>1. IsView(view')
  BY ViewsDef
<1>2. \A i \in DOMAIN snaps' : IsView(snaps'[i])
  <2> SUFFICES ASSUME NEW i \in DOMAIN snaps' PROVE IsView(snaps'[i])
    OBVIOUS
  <2>1. snaps'[i] \in Views
    OBVIOUS
  <2> QED
    BY <2>1, ViewsDef
<1>3. Born'
  BY DEF TypeInv, Born, engineVars
<1> QED
  BY <1>1, <1>2, <1>3 DEF TypeInv, TypeOK, IsView, pluginVars, engineVars

\* The steps of a plugin or of the engine that leave the sessions and the
\* connections as they are.
LEMMA PluginType ==
    ASSUME TypeInv,
           inbox' \in [Doms -> Seq(Targets)],
           goal' \in [Doms -> Targets \cup {None}], busy' \in [Doms -> BOOLEAN],
           told' \in BOOLEAN, waiting' \in BOOLEAN,
           session' \in [n : 0..MaxSessions, kind : Kinds3, phase : {"idle", "live", "ending"}],
           kindOf' \in [1..MaxSessions -> Kinds3 \cup {None}],
           up' \subseteq Doms, moves' \in 0..MaxMoves,
           Born', UNCHANGED <<masterVars, snaps, env>>
    PROVE  TypeInv'
  BY DEF TypeInv, TypeOK, IsView, masterVars

LEMMA BornFrame ==
    ASSUME TypeInv, session'.n = session.n, kindOf' = kindOf, up' \subseteq up
    PROVE  Born'
  BY DEF TypeInv, Born

\* A new session has a kind.
LEMMA BeginsType ==
    ASSUME TypeInv, NEW kinds \in SUBSET Kinds3, Begins(kinds), up' = up
    PROVE  /\ session' \in [n : 0..MaxSessions, kind : Kinds3, phase : {"idle", "live", "ending"}]
           /\ kindOf' \in [1..MaxSessions -> Kinds3 \cup {None}]
           /\ told' \in BOOLEAN /\ Born'
<1>1. PICK k \in kinds :
         /\ session.n < MaxSessions
         /\ session' = [n |-> session.n + 1, kind |-> k, phase |-> "live"]
         /\ kindOf' = [kindOf EXCEPT ![session.n + 1] = k]
         /\ told' = FALSE
  BY DEF Begins
<1>2. session.n \in 0..MaxSessions /\ MaxSessions \in Nat /\ kindOf \in [1..MaxSessions -> Kinds3 \cup {None}]
  BY BoundsAssumption DEF TypeInv, TypeOK
<1>3. session.n + 1 \in 1..MaxSessions
  BY <1>1, <1>2
<1>4. session' \in [n : 0..MaxSessions, kind : Kinds3, phase : {"idle", "live", "ending"}]
  BY <1>1, <1>2, <1>3
<1>5. kindOf' \in [1..MaxSessions -> Kinds3 \cup {None}]
  BY <1>1, <1>2, <1>3
<1>6. \A n \in 1..session'.n : kindOf'[n] \in Kinds3
  BY <1>1, <1>2, <1>3 DEF TypeInv, Born
<1>7. \A d \in up' : d.n <= session'.n
  <2> SUFFICES ASSUME NEW d \in up PROVE d.n <= session.n + 1
    BY <1>1
  <2>1. d.n \in Nat /\ d.n <= session.n
    BY <1>2 DEF TypeInv, TypeOK, Born, Doms, EditDom, PlayDoms
  <2> QED
    BY <1>2, <2>1
<1> QED
  BY <1>1, <1>4, <1>5, <1>6, <1>7 DEF Born

\* The end of a session clears the state of its DOMs.
LEMMA EndsType ==
    ASSUME TypeInv, Ends
    PROVE  /\ session' \in [n : 0..MaxSessions, kind : Kinds3, phase : {"idle", "live", "ending"}]
           /\ session'.n = session.n
           /\ up' \subseteq up
           /\ inbox' \in [Doms -> Seq(Targets)]
           /\ goal' \in [Doms -> Targets \cup {None}] /\ busy' \in [Doms -> BOOLEAN]
<1> DEFINE dead == {d \in Doms : d.n = session.n /\ d.n # 0}
<1>1. /\ session' = [session EXCEPT !.phase = "ending"]
      /\ up' = up \ dead
      /\ inbox' = [d \in Doms |-> IF d \in dead THEN <<>> ELSE inbox[d]]
      /\ goal' = [d \in Doms |-> IF d \in dead THEN None ELSE goal[d]]
      /\ busy' = [d \in Doms |-> IF d \in dead THEN FALSE ELSE busy[d]]
  BY DEF Ends
<1> HIDE DEF dead
<1>2. /\ session \in [n : 0..MaxSessions, kind : Kinds3, phase : {"idle", "live", "ending"}]
      /\ inbox \in [Doms -> Seq(Targets)]
      /\ goal \in [Doms -> Targets \cup {None}] /\ busy \in [Doms -> BOOLEAN]
  BY DEF TypeInv, TypeOK
<1>3. \A d \in Doms : (IF d \in dead THEN <<>> ELSE inbox[d]) \in Seq(Targets)
  <2> SUFFICES ASSUME NEW d \in Doms PROVE (IF d \in dead THEN <<>> ELSE inbox[d]) \in Seq(Targets)
    OBVIOUS
  <2>1. <<>> \in Seq(Targets) /\ inbox[d] \in Seq(Targets)
    BY <1>2
  <2> QED
    BY <2>1
<1> QED
  BY <1>1, <1>2, <1>3

LEMMA TypeStep == TypeInv /\ [Next]_vars => TypeInv'
<1> SUFFICES ASSUME TypeInv, [Next]_vars PROVE TypeInv'
  OBVIOUS
<1> USE DEF pluginVars, engineVars
<1>T. /\ asked \in [Runs -> Specs \cup {None}] /\ queue \subseteq Runs
      /\ landed \in [Runs -> Doms \cup {None}]
      /\ targets \in [Idents -> Target \cup {None}]
      /\ inbox \in [Doms -> Seq(Targets)] /\ up \subseteq Doms
      /\ goal \in [Doms -> Targets \cup {None}] /\ busy \in [Doms -> BOOLEAN]
      /\ session \in [n : 0..MaxSessions, kind : Kinds3, phase : {"idle", "live", "ending"}]
      /\ told \in BOOLEAN /\ waiting \in BOOLEAN
      /\ kindOf \in [1..MaxSessions -> Kinds3 \cup {None}]
      /\ moves \in 0..MaxMoves /\ view \in Views /\ snaps \in Seq(Views)
  BY DEF TypeInv, TypeOK
<1>M. \A kind : Move(kind) => moves' \in 0..MaxMoves /\ env' = env
  BY <1>T, BoundsAssumption DEF Move
<1>1. ASSUME NEW r \in Runs, Submit(r) PROVE TypeInv'
  <2>1. PICK q \in Asks[r] : asked' = [asked EXCEPT ![r] = q]
    BY <1>1 DEF Submit
  <2>2. asked' \in [Runs -> Specs \cup {None}]
    BY <1>T, <2>1, AsksAssumption
  <2>3. UNCHANGED <<view, snaps, up, pluginVars, engineVars, envVars>>
    BY <1>1 DEF Submit
  <2>4. CASE Reconcile(queue \cup {r}, view)
    BY <1>T, <2>2, <2>3, <2>4, ReconcileType, MasterType DEF TypeInv, envVars
  <2>5. CASE /\ \E d \in Matches(r, view) : landed' = [landed EXCEPT ![r] = d]
             /\ UNCHANGED <<queue, targets, inbox>>
    <3>1. PICK d \in Matches(r, view) : landed' = [landed EXCEPT ![r] = d]
      BY <2>5
    <3>2. d \in Doms
      BY <1>T, ViewsDef DEF Matches, IsView
    <3>4. landed' \in [Runs -> Doms \cup {None}]
      BY <1>T, <3>1, <3>2
    <3> QED
      BY <1>T, <2>2, <2>3, <2>5, <3>4, MasterType DEF envVars
  <2> QED
    BY <1>1, <2>4, <2>5 DEF Submit
<1>2. ASSUME NEW r \in Runs, Leave(r) PROVE TypeInv'
  BY <1>T, <1>2, MasterType DEF Leave, envVars
<1>3. ASSUME HandleSnapshot PROVE TypeInv'
  <2>1. Head(snaps) \in Views /\ Tail(snaps) \in Seq(Views)
    BY <1>T, <1>3, HeadTailProperties DEF HandleSnapshot
  <2>2. Reconcile(queue, Head(snaps)) /\ view' = Head(snaps) /\ snaps' = Tail(snaps)
    BY <1>3 DEF HandleSnapshot
  <2>3. UNCHANGED <<asked, up, pluginVars, engineVars, envVars>>
    BY <1>3 DEF HandleSnapshot
  <2>4. /\ queue' \subseteq Runs
        /\ landed' \in [Runs -> Doms \cup {None}]
        /\ targets' \in [Idents -> Target \cup {None}]
        /\ inbox' \in [Doms -> Seq(Targets)]
    BY <1>T, <2>1, <2>2, ReconcileType DEF TypeInv
  <2> QED
    BY <1>T, <2>1, <2>2, <2>3, <2>4, MasterType DEF envVars
<1>4. ASSUME Nudge PROVE TypeInv'
  <2>1. /\ queue' \subseteq Runs
        /\ landed' \in [Runs -> Doms \cup {None}]
        /\ targets' \in [Idents -> Target \cup {None}]
        /\ inbox' \in [Doms -> Seq(Targets)]
    BY <1>T, <1>4, ReconcileType DEF TypeInv, Nudge
  <2> QED
    BY <1>T, <1>4, <2>1, MasterType DEF Nudge, envVars
<1>5. ASSUME NEW mode \in SetModes, SetTargetMode(mode) PROVE TypeInv'
  <2>1. mode \in Targets
    BY SoloAssumption DEF Targets
  <2>2. [mode |-> mode, doms |-> DOMAIN view] \in Target
    BY <1>T, <2>1, ViewsDef DEF Target, IsView
  <2>3. targets' \in [Idents -> Target \cup {None}]
    BY <1>T, <1>5, <2>2 DEF SetTargetMode
  <2>4. inbox' \in [Doms -> Seq(Targets)]
    BY <1>T, <1>5, <2>1, PushedType DEF SetTargetMode
  <2> QED
    BY <1>T, <1>M, <1>5, <2>3, <2>4, MasterType DEF SetTargetMode
<1>6. ASSUME TakeSnapshot PROVE TypeInv'
  <2>1. snaps' \in Seq(Views)
    BY <1>T, <1>6, ReportType, AppendProperties DEF TakeSnapshot
  <2> QED
    BY <1>T, <1>6, <2>1, MasterType DEF TakeSnapshot, masterVars, envVars
<1>7. ASSUME Lose PROVE TypeInv'
  <2>1. PICK k \in 0..Len(inbox[EditDom]) :
          inbox' = [inbox EXCEPT ![EditDom] = SubSeq(@, k + 1, Len(@))]
    BY <1>7 DEF Lose
  <2>2. SubSeq(inbox[EditDom], k + 1, Len(inbox[EditDom])) \in Seq(Targets)
    <3>1. inbox[EditDom] \in Seq(Targets)
      BY <1>T DEF Doms
    <3> QED
      BY <3>1, SubSeqProperties
  <2>3. inbox' \in [Doms -> Seq(Targets)]
    BY <1>T, <2>1, <2>2 DEF Doms
  <2>4. up' \subseteq up
    BY <1>7 DEF Lose
  <2>5. Born'
    BY <1>7, <2>4, BornFrame DEF Lose
  <2> QED
    BY <1>T, <1>M, <1>7, <2>3, <2>4, <2>5, PluginType DEF Lose
<1>8. ASSUME NEW d \in Doms, Connect(d) PROVE TypeInv'
  <2>1. d.n <= session.n
    BY <1>T, <1>8 DEF Connect, Doms, EditDom, PlayDoms
  <2>2. up' = up \cup {d} /\ UNCHANGED <<session, kindOf>>
    BY <1>8 DEF Connect
  <2>3. Born'
    BY <2>1, <2>2 DEF TypeInv, Born
  <2> QED
    BY <1>T, <1>8, <2>2, <2>3, PluginType DEF Connect, envVars
<1>9. ASSUME NEW d \in Doms, Receive(d) PROVE TypeInv'
  <2>1. Head(inbox[d]) \in Targets /\ Tail(inbox[d]) \in Seq(Targets)
    BY <1>T, <1>9, HeadTailProperties DEF Receive
  <2>2. inbox' \in [Doms -> Seq(Targets)]
    BY <1>T, <1>9, <2>1 DEF Receive
  <2>3. goal' \in [Doms -> Targets \cup {None}] /\ busy' \in [Doms -> BOOLEAN]
    BY <1>T, <1>9, <2>1, ZenonT(60) DEF Receive, SetTarget
  <2>4. Born'
    BY <1>9, BornFrame DEF Receive
  <2> QED
    BY <1>T, <1>9, <2>2, <2>3, <2>4, PluginType DEF Receive, envVars
<1>10. ASSUME NEW d \in Doms, EndTest(d) PROVE TypeInv'
  <2>1. Ends /\ UNCHANGED <<masterVars, snaps, told, waiting, kindOf, envVars>>
    BY <1>10 DEF EndTest
  <2> QED
    BY <1>T, <2>1, EndsType, BornFrame, PluginType DEF envVars
<1>11. ASSUME Start PROVE TypeInv'
  <2>1. busy' \in [Doms -> BOOLEAN] /\ UNCHANGED <<masterVars, snaps, inbox, up, goal, envVars>>
    BY <1>T, <1>11 DEF Start
  <2> DEFINE kinds == IF goal[EditDom] = "run" THEN {"run"} ELSE SoloKinds
  <2>2. kinds \in SUBSET Kinds3
    BY SoloAssumption DEF Kinds3
  <2>3. CASE Begins(kinds) /\ waiting' = TRUE
    <3> HIDE DEF kinds
    <3> QED
      BY <1>T, <2>1, <2>2, <2>3, BeginsType, PluginType DEF envVars
  <2>4. CASE waiting' = TRUE /\ UNCHANGED <<session, told, kindOf>>
    BY <1>T, <2>1, <2>4, BornFrame, PluginType DEF envVars
  <2>5. CASE UNCHANGED engineVars
    BY <1>T, <2>1, <2>5, BornFrame, PluginType DEF envVars
  <2> QED
    BY <1>11, <2>3, <2>4, <2>5 DEF Start
<1>12. ASSUME TornDown PROVE TypeInv'
  <2>1. /\ session' = [session EXCEPT !.phase = "idle"]
        /\ waiting' = FALSE
        /\ busy' = IF waiting THEN [busy EXCEPT ![EditDom] = FALSE] ELSE busy
        /\ UNCHANGED <<masterVars, snaps, inbox, up, goal, told, kindOf, envVars>>
    BY <1>12 DEF TornDown
  <2>2. /\ session' \in [n : 0..MaxSessions, kind : Kinds3, phase : {"idle", "live", "ending"}]
        /\ session'.n = session.n
    BY <1>T, <2>1
  <2>3. busy' \in [Doms -> BOOLEAN]
    BY <1>T, <2>1
  <2> QED
    BY <1>T, <2>1, <2>2, <2>3, BornFrame, PluginType DEF envVars
<1>13. ASSUME Tell PROVE TypeInv'
  BY <1>T, <1>13, BornFrame, PluginType DEF Tell, envVars
<1>14. ASSUME UserStart PROVE TypeInv'
  <2>1. Begins(Kinds3) /\ UNCHANGED <<masterVars, snaps, inbox, up, goal, busy, waiting>>
    BY <1>14 DEF UserStart
  <2>2. Kinds3 \in SUBSET Kinds3
    OBVIOUS
  <2> QED
    BY <1>T, <1>M, <1>14, <2>1, <2>2, BeginsType, PluginType DEF UserStart
<1>15. ASSUME UserStop PROVE TypeInv'
  <2>1. Ends /\ UNCHANGED <<masterVars, snaps, told, waiting, kindOf>>
    BY <1>15 DEF UserStop
  <2> QED
    BY <1>T, <1>M, <1>15, <2>1, EndsType, BornFrame, PluginType DEF UserStop
<1>16. CASE UNCHANGED vars
  BY <1>T, <1>16, BornFrame, PluginType DEF vars, envVars
<1> QED
  BY <1>1, <1>2, <1>3, <1>4, <1>5, <1>6, <1>7, <1>8, <1>9, <1>10, <1>11, <1>12, <1>13,
     <1>14, <1>15, <1>16 DEF Next, RunStep, DomStep, Studio

\* Every variable keeps its type.
THEOREM ModesTypeCorrect == Spec => []TypeOK
<1>1. Spec => []TypeInv
  BY TypeInit, TypeStep, PTL DEF Spec
<1>2. TypeInv => TypeOK
  BY DEF TypeInv
<1> QED
  BY <1>1, <1>2, PTL

-----------------------------------------------------------------------------
(* No driver is left behind *)

Undisturbed == env \cap {"mode", "lose"} = {}

\* d is of a session that has ended: it does not come back.
Dead(d) == d.n # 0 /\ (d.n < session.n \/ (d.n = session.n /\ session.phase # "live"))
\* The target d has, once what is on its way to it has arrived.
Latest(d) == IF inbox[d] = <<>> THEN goal[d] ELSE inbox[d][Len(inbox[d])]

\* A plugin that is not connected has no target and nothing on its way; the DOMs
\* of an ended session are not connected.
Gone ==
    /\ \A d \in Doms \ up : inbox[d] = <<>> /\ goal[d] = None
    /\ \A d \in up : ~ Dead(d)
\* Snapshots list DOMs that are connected or dead, and one that is connected is
\* in every later snapshot too.
Listed(D) == \A d \in D : d \in up \/ Dead(d)
Grows ==
    /\ Listed(DOMAIN view) /\ \A i \in DOMAIN snaps : Listed(DOMAIN snaps[i])
    /\ \A d \in up \cap DOMAIN view : \A i \in DOMAIN snaps : d \in DOMAIN snaps[i]
    /\ \A d \in up : \A i, j \in DOMAIN snaps :
          i <= j /\ d \in DOMAIN snaps[i] => d \in DOMAIN snaps[j]
\* The master remembers the DOMs it pushed its target to.
Known ==
    IF targets["studio"] = None THEN DOMAIN view = {} ELSE targets["studio"].doms = DOMAIN view
\* A plugin of the view gets the master's target, an empty one perhaps by having
\* none, and a plugin the master has not seen has none.
Follows ==
    \A d \in up : IF d \in DOMAIN view
                  THEN \/ Latest(d) = targets["studio"].mode
                       \/ Latest(d) = None /\ targets["studio"].mode = ""
                  ELSE inbox[d] = <<>> /\ goal[d] = None

FollowInv == Undisturbed => Gone /\ Grows /\ Known /\ Follows

\* What reconcile pushes for a view that keeps the connected DOMs of the old one
\* makes every plugin of the new view follow.
LEMMA DeriveFollows ==
    ASSUME TypeInv, Gone, Known, Follows,
           NEW Q, NEW V \in Views, Listed(DOMAIN V),
           up \cap DOMAIN view \subseteq DOMAIN V,
           Derive(Q, V), view' = V, UNCHANGED <<up, goal, session>>
    PROVE  Gone' /\ Known' /\ Follows'
<1> DEFINE want == Wanted(Q)
<1>V. DOMAIN V \subseteq Doms /\ DOMAIN view \subseteq Doms
  BY ViewsDef DEF IsView, TypeInv
<1>T. /\ inbox \in [Doms -> Seq(Targets)] /\ targets \in [Idents -> Target \cup {None}]
      /\ up \subseteq Doms /\ goal \in [Doms -> Targets \cup {None}]
  BY DEF TypeInv, TypeOK
<1>D. \A d \in Doms : Dead(d)' <=> Dead(d)
  BY DEF Dead
<1>1. CASE DOMAIN V = {}
  <2>1. inbox' = inbox /\ targets'["studio"] = None
    BY <1>1 DEF Derive, Idents
  <2>2. Gone'
    BY <1>T, <1>D, <2>1 DEF Gone
  <2>3. Known'
    BY <1>1, <2>1 DEF Known
  <2>4. \A d \in up : d \notin DOMAIN view
    BY <1>1
  <2>5. Follows'
    BY <1>1, <2>1, <2>4 DEF Follows
  <2> QED
    BY <2>2, <2>3, <2>5
<1>2. CASE DOMAIN V # {}
  <2>1. /\ targets'["studio"] = [mode |-> want, doms |-> DOMAIN V]
        /\ inbox' = IF Changed(want, V) THEN Pushed(V, want) ELSE inbox
    BY <1>2 DEF Derive, Idents
  <2>2. want \in Targets
    BY WantedType
  <2> HIDE DEF want
  <2>3. targets'["studio"] # None /\ targets'["studio"].mode = want /\ targets'["studio"].doms = DOMAIN V
    <3>1. [mode |-> want, doms |-> DOMAIN V] \in Target
      BY <1>V, <2>2 DEF Target
    <3> QED
      BY <2>1, <3>1, NoTargetAssumption
  <2>4. Known'
    BY <2>3 DEF Known
  <2>5. EditDom \in DOMAIN V => EditDom \in up
    BY DEF Listed, Dead, EditDom
  <2>6. CASE Changed(want, V)
    <3>1. \A d \in Doms : inbox'[d] = IF d \in DOMAIN V \cap up
                                      THEN Append(inbox[d], want) ELSE inbox[d]
      BY <2>1, <2>5, <2>6 DEF Pushed
    <3>2. Gone'
      BY <1>D, <1>T, <3>1 DEF Gone
    <3>3. ASSUME NEW d \in up, d \in DOMAIN V PROVE Latest(d)' = want
      <4>1. d \in Doms /\ inbox'[d] = Append(inbox[d], want)
        BY <1>T, <3>1, <3>3
      <4>2. inbox[d] \in Seq(Targets)
        BY <1>T, <4>1
      <4>3. inbox'[d] # <<>> /\ inbox'[d][Len(inbox'[d])] = want
        BY <2>2, <4>1, <4>2
      <4> QED
        BY <4>3 DEF Latest
    <3>4. ASSUME NEW d \in up, d \notin DOMAIN V PROVE inbox'[d] = <<>> /\ goal'[d] = None
      BY <1>T, <3>1, <3>4 DEF Follows
    <3>5. Follows'
      BY <2>3, <3>3, <3>4 DEF Follows
    <3> QED
      BY <2>4, <3>2, <3>5
  <2>7. CASE ~ Changed(want, V)
    <3>1. inbox' = inbox
      BY <2>1, <2>7
    <3>2. Gone'
      BY <1>D, <1>T, <3>1 DEF Gone
    <3>3. \A d \in Doms : Latest(d)' = Latest(d)
      BY <3>1 DEF Latest
    <3>4. CASE targets["studio"] = None
      <4>1. want = "" /\ DOMAIN view = {}
        BY <2>7, <3>4 DEF Changed, Known
      <4>2. \A d \in up : inbox[d] = <<>> /\ goal[d] = None
        BY <4>1 DEF Follows
      <4>3. \A d \in up : Latest(d) = None
        BY <4>2 DEF Latest
      <4> QED
        BY <1>T, <2>3, <2>4, <3>1, <3>2, <3>3, <4>1, <4>2, <4>3 DEF Follows
    <3>5. CASE targets["studio"] # None
      <4>1. targets["studio"] = [mode |-> want, doms |-> DOMAIN V]
        BY <2>7, <3>5 DEF Changed
      <4>2. DOMAIN view = DOMAIN V /\ targets["studio"].mode = want
        BY <3>5, <4>1 DEF Known
      <4> QED
        BY <1>T, <2>3, <2>4, <3>1, <3>2, <3>3, <4>2 DEF Follows
    <3> QED
      BY <3>4, <3>5
  <2> QED
    BY <2>6, <2>7
<1> QED
  BY <1>1, <1>2

FollowParts == Gone /\ Grows /\ Known /\ Follows

\* A step that only moves sessions follows, if it revives and kills no connected
\* DOM and nothing listed.
LEMMA SessionFollows ==
    ASSUME TypeInv, FollowParts, UNCHANGED <<up, goal, inbox, view, snaps, targets>>,
           \A d \in Doms : Dead(d) => Dead(d)',
           \A d \in up : ~ Dead(d)'
    PROVE  FollowParts'
<1>1. up \subseteq Doms /\ DOMAIN view \subseteq Doms /\ \A i \in DOMAIN snaps : DOMAIN snaps[i] \subseteq Doms
  BY DEF TypeInv, TypeOK, IsView
<1>2. Gone'
  BY DEF FollowParts, Gone
<1>3. Grows'
  BY <1>1 DEF FollowParts, Grows, Listed
<1>4. Known' /\ Follows'
  BY DEF FollowParts, Known, Follows, Latest
<1> QED
  BY <1>2, <1>3, <1>4 DEF FollowParts

\* A new session's DOMs are those that come to life.
LEMMA BeginsFollows ==
    ASSUME TypeInv, FollowParts, NEW kinds, Begins(kinds),
           UNCHANGED <<up, goal, inbox, view, snaps, targets>>
    PROVE  FollowParts'
<1>1. /\ session.phase = "idle" /\ session'.phase = "live"
      /\ session'.n = session.n + 1 /\ session.n \in Nat
  BY DEF Begins, TypeInv, TypeOK
<1>2. \A d \in Doms : d.n \in Nat
  BY BoundsAssumption DEF Doms, EditDom, PlayDoms
<1>3. \A d \in Doms : Dead(d) => Dead(d)'
  BY <1>1, <1>2 DEF Dead
<1>4. ASSUME NEW d \in up PROVE ~ Dead(d)'
  <2>1. d \in Doms /\ d.n \in Nat /\ ~ Dead(d) /\ d.n <= session.n
    BY <1>2 DEF TypeInv, TypeOK, Born, FollowParts, Gone
  <2>2. d.n = 0
    BY <1>1, <2>1 DEF Dead
  <2> QED
    BY <2>2 DEF Dead
<1> QED
  BY <1>3, <1>4, SessionFollows

\* The end of a session takes its plugins with it.
LEMMA EndsFollows ==
    ASSUME TypeInv, FollowParts, Ends, UNCHANGED <<view, snaps, targets>>
    PROVE  FollowParts'
<1> DEFINE dead == {d \in Doms : d.n = session.n /\ d.n # 0}
<1>1. /\ session' = [session EXCEPT !.phase = "ending"]
      /\ up' = up \ dead
      /\ inbox' = [d \in Doms |-> IF d \in dead THEN <<>> ELSE inbox[d]]
      /\ goal' = [d \in Doms |-> IF d \in dead THEN None ELSE goal[d]]
  BY DEF Ends
<1>2. session'.phase = "ending" /\ session'.n = session.n
  BY <1>1 DEF TypeInv, TypeOK
<1>T. /\ up \subseteq Doms /\ DOMAIN view \subseteq Doms
      /\ \A i \in DOMAIN snaps : DOMAIN snaps[i] \subseteq Doms
  BY DEF TypeInv, TypeOK, IsView
<1>3. \A d \in Doms : d.n \in Nat
  BY BoundsAssumption DEF Doms, EditDom, PlayDoms
<1>4. \A d \in Doms : Dead(d) => Dead(d)'
  BY <1>2 DEF Dead
<1>5. \A d \in dead : Dead(d)'
  BY <1>2 DEF Dead
<1>6. ASSUME NEW d \in up' PROVE ~ Dead(d)'
  <2>1. d \in Doms /\ d \in up /\ ~ Dead(d) /\ (d.n # session.n \/ d.n = 0)
    BY <1>1, <1>T, <1>6 DEF FollowParts, Gone
  <2> QED
    BY <1>2, <2>1 DEF Dead
<1>7. \A d \in up' : d \in up /\ inbox'[d] = inbox[d] /\ goal'[d] = goal[d]
  BY <1>1, <1>T
<1>8. \A d \in Doms \ up' : inbox'[d] = <<>> /\ goal'[d] = None
  BY <1>1 DEF FollowParts, Gone
<1> HIDE DEF dead
<1>9. Gone'
  BY <1>6, <1>8 DEF Gone
<1>10. \A D \in SUBSET Doms : Listed(D) => Listed(D)'
  BY <1>1, <1>4, <1>5 DEF Listed
<1>11. Grows'
  BY <1>7, <1>10, <1>T DEF FollowParts, Grows
<1>12. Known'
  BY DEF FollowParts, Known
<1>13. \A d \in up' : Latest(d)' = Latest(d)
  BY <1>7 DEF Latest
<1>14. Follows'
  BY <1>7, <1>13 DEF FollowParts, Follows
<1> QED
  BY <1>9, <1>11, <1>12, <1>14 DEF FollowParts

\* reconcile on the view the master has.
LEMMA ReconcileFollows ==
    ASSUME TypeInv, FollowParts, NEW Q, Reconcile(Q, view),
           UNCHANGED <<view, snaps, up, goal, session>>
    PROVE  FollowParts'
<1>1. PICK P : Derive(P, view)
  BY DEF Reconcile
<1>2. view \in Views /\ Listed(DOMAIN view)
  BY DEF TypeInv, FollowParts, Grows
<1>3. Gone' /\ Known' /\ Follows'
  BY <1>1, <1>2, DeriveFollows DEF FollowParts
<1>4. \A d : Dead(d)' <=> Dead(d)
  BY DEF Dead
<1>5. Grows'
  BY <1>4 DEF FollowParts, Grows, Listed
<1> QED
  BY <1>3, <1>5 DEF FollowParts

\* A snapshot keeps the connected DOMs of the view.
LEMMA HandleSnapshotFollows ==
    ASSUME TypeInv, FollowParts, HandleSnapshot
    PROVE  FollowParts'
<1>1. PICK P : Derive(P, Head(snaps))
  BY DEF HandleSnapshot, Reconcile
<1>2. /\ view' = Head(snaps) /\ snaps' = Tail(snaps) /\ snaps # <<>>
      /\ UNCHANGED <<up, goal, session>>
  BY DEF HandleSnapshot, pluginVars, engineVars
<1>3. snaps \in Seq(Views) /\ Head(snaps) = snaps[1] /\ 1 \in DOMAIN snaps
  BY <1>2 DEF TypeInv
<1>4. snaps[1] \in Views
  BY <1>3
<1>5. Listed(DOMAIN snaps[1]) /\ up \cap DOMAIN view \subseteq DOMAIN snaps[1]
  BY <1>3 DEF FollowParts, Grows
<1>6. Gone' /\ Known' /\ Follows'
  BY <1>1, <1>2, <1>3, <1>4, <1>5, DeriveFollows DEF FollowParts
<1>7. \A d : Dead(d)' <=> Dead(d)
  BY <1>2 DEF Dead
<1>8. \A i \in DOMAIN snaps' : i \in Nat /\ i + 1 \in DOMAIN snaps /\ snaps'[i] = snaps[i + 1] /\ 1 <= i + 1
  BY <1>2, <1>3
<1>9. \A D : Listed(D)' <=> Listed(D)
  BY <1>2, <1>7 DEF Listed
<1>10. Grows'
  <2>1. Listed(DOMAIN view)' /\ \A i \in DOMAIN snaps' : Listed(DOMAIN snaps[i])'
    BY <1>2, <1>3, <1>5, <1>7, <1>8 DEF FollowParts, Grows, Listed
  <2>2. ASSUME NEW d \in up \cap DOMAIN view', NEW i \in DOMAIN snaps'
        PROVE d \in DOMAIN snaps'[i]
    BY <1>2, <1>3, <1>8 DEF FollowParts, Grows
  <2>3. ASSUME NEW d \in up, NEW i \in DOMAIN snaps', NEW j \in DOMAIN snaps',
               i <= j, d \in DOMAIN snaps'[i]
        PROVE d \in DOMAIN snaps'[j]
    <3>1. i + 1 <= j + 1
      BY <1>8, <2>3
    <3> QED
      BY <1>8, <2>3, <3>1 DEF FollowParts, Grows
  <2> QED
    BY <1>2, <2>1, <2>2, <2>3 DEF Grows
<1> QED
  BY <1>6, <1>10 DEF FollowParts

\* The tail of a queue keeps its last entry.
LEMMA TailLast ==
    ASSUME NEW S, NEW q \in Seq(S), q # <<>>
    PROVE  /\ Len(q) = 1 => Tail(q) = <<>> /\ Head(q) = q[Len(q)]
           /\ Len(q) # 1 => Tail(q) # <<>> /\ Tail(q)[Len(Tail(q))] = q[Len(q)]
<1>1. /\ Tail(q) \in Seq(S) /\ Len(Tail(q)) = Len(q) - 1
      /\ \A i \in 1..Len(Tail(q)) : Tail(q)[i] = q[i + 1]
      /\ Head(q) = q[1]
  BY HeadTailProperties
<1>2. Len(q) \in Nat /\ Len(q) > 0
  BY EmptySeq, LenProperties
<1>3. ASSUME Len(q) = 1 PROVE Tail(q) = <<>>
  <2>1. Len(Tail(q)) = 0
    BY <1>1, <1>3
  <2>2. Tail(q) # <<>> => Len(Tail(q)) \in Nat \ {0}
    BY <1>1, EmptySeq
  <2> QED
    BY <2>1, <2>2
<1>4. ASSUME Len(q) # 1 PROVE Tail(q) # <<>> /\ Tail(q)[Len(Tail(q))] = q[Len(q)]
  <2>1. Len(Tail(q)) \in 1..Len(Tail(q)) /\ Len(Tail(q)) + 1 = Len(q)
    BY <1>1, <1>2, <1>4
  <2>2. Tail(q) = <<>> => Len(Tail(q)) = 0
    BY <1>1, EmptySeq
  <2>3. Len(Tail(q)) # 0
    BY <2>1
  <2>4. Tail(q) # <<>>
    BY <2>2, <2>3
  <2>5. Tail(q)[Len(Tail(q))] = q[Len(Tail(q)) + 1]
    BY <1>1, <2>1
  <2>6. q[Len(Tail(q)) + 1] = q[Len(q)]
    BY <2>1
  <2> QED
    BY <2>4, <2>5, <2>6
<1> QED
  BY <1>1, <1>3, <1>4

\* What is on its way to a plugin arrives: its last target stays the last.
LEMMA ReceiveFollows ==
    ASSUME TypeInv, FollowParts, NEW d \in Doms, Receive(d)
    PROVE  FollowParts'
<1>1. /\ inbox[d] # <<>> /\ inbox' = [inbox EXCEPT ![d] = Tail(@)]
      /\ UNCHANGED <<view, snaps, targets, up, session>>
  BY DEF Receive, masterVars, engineVars
<1>2. d \in up
  BY <1>1 DEF FollowParts, Gone
<1>3. goal' = [goal EXCEPT ![d] = Head(inbox[d])]
  BY <1>2 DEF Receive, SetTarget
<1>T. /\ inbox \in [Doms -> Seq(Targets)] /\ up \subseteq Doms
      /\ goal \in [Doms -> Targets \cup {None}]
  BY DEF TypeInv, TypeOK
<1>4. \A t : Dead(t)' <=> Dead(t)
  BY <1>1 DEF Dead
<1>5. \A t \in Doms : t # d => inbox'[t] = inbox[t] /\ goal'[t] = goal[t]
  BY <1>T, <1>1, <1>3
<1>6. Latest(d)' = Latest(d)
  <2>1. inbox[d] \in Seq(Targets)
    BY <1>T
  <2>2. inbox'[d] = Tail(inbox[d]) /\ goal'[d] = Head(inbox[d])
    BY <1>T, <1>1, <1>3
  <2>3. CASE Len(inbox[d]) = 1
    <3>1. Tail(inbox[d]) = <<>> /\ Head(inbox[d]) = inbox[d][Len(inbox[d])]
      BY <1>1, <2>1, <2>3, TailLast
    <3> QED
      BY <1>1, <2>2, <3>1 DEF Latest
  <2>4. CASE Len(inbox[d]) # 1
    <3>1. /\ Tail(inbox[d]) # <<>>
          /\ Tail(inbox[d])[Len(Tail(inbox[d]))] = inbox[d][Len(inbox[d])]
      BY <1>1, <2>1, <2>4, TailLast
    <3> QED
      BY <1>1, <2>2, <3>1 DEF Latest
  <2> QED
    BY <2>3, <2>4
<1>7. d \in DOMAIN view
  BY <1>1, <1>2 DEF FollowParts, Follows
<1>8. Gone'
  BY <1>T, <1>1, <1>2, <1>4, <1>5 DEF FollowParts, Gone
<1>9. Grows'
  BY <1>1, <1>4 DEF FollowParts, Grows, Listed
<1>10. Known'
  BY <1>1 DEF FollowParts, Known
<1>11. \A t \in up : Latest(t)' = Latest(t)
  <2> SUFFICES ASSUME NEW t \in up, t # d PROVE Latest(t)' = Latest(t)
    BY <1>6
  <2>1. inbox'[t] = inbox[t] /\ goal'[t] = goal[t]
    BY <1>T, <1>5
  <2> QED
    BY <2>1 DEF Latest
<1>12. Follows'
  BY <1>T, <1>1, <1>5, <1>7, <1>11 DEF FollowParts, Follows
<1> QED
  BY <1>8, <1>9, <1>10, <1>12 DEF FollowParts

\* A plugin that connects is in no snapshot yet and has no target.
LEMMA ConnectFollows ==
    ASSUME TypeInv, FollowParts, NEW d \in Doms, Connect(d)
    PROVE  FollowParts'
<1>1. /\ d \notin up /\ up' = up \cup {d}
      /\ UNCHANGED <<view, snaps, targets, inbox, goal, session>>
  BY DEF Connect, masterVars, pluginVars, engineVars
<1>2. ~ Dead(d)
  <2>1. CASE d.kind = "edit"
    BY <2>1 DEF Doms, EditDom, PlayDoms, Dead
  <2>2. CASE session.phase = "live" /\ d.n = session.n
    <3>1. session.n \in Nat
      BY DEF TypeInv, TypeOK
    <3> QED
      BY <2>2, <3>1 DEF Dead
  <2> QED
    BY <2>1, <2>2 DEF Connect
<1>3. inbox[d] = <<>> /\ goal[d] = None
  BY <1>1 DEF FollowParts, Gone
<1>4. d \notin DOMAIN view /\ \A i \in DOMAIN snaps : d \notin DOMAIN snaps[i]
  BY <1>1, <1>2 DEF FollowParts, Grows, Listed
<1>5. \A t : Dead(t)' <=> Dead(t)
  BY <1>1 DEF Dead
<1>6. Gone'
  BY <1>1, <1>2, <1>5 DEF FollowParts, Gone
<1>7. Grows'
  BY <1>1, <1>4, <1>5 DEF FollowParts, Grows, Listed
<1>8. Known'
  BY <1>1 DEF FollowParts, Known
<1>9. \A t : Latest(t)' = Latest(t)
  BY <1>1 DEF Latest
<1>10. Follows'
  BY <1>1, <1>3, <1>4, <1>9 DEF FollowParts, Follows
<1> QED
  BY <1>6, <1>7, <1>8, <1>10 DEF FollowParts

\* A new snapshot lists every connected DOM.
LEMMA TakeSnapshotFollows ==
    ASSUME TypeInv, FollowParts, TakeSnapshot
    PROVE  FollowParts'
<1>1. /\ snaps' = Append(snaps, Report)
      /\ UNCHANGED <<view, targets, inbox, up, goal, session>>
  BY DEF TakeSnapshot, masterVars, pluginVars, engineVars
<1>2. DOMAIN Report = up
  BY DEF Report
<1>3. snaps \in Seq(Views)
  BY DEF TypeInv
<1>4. /\ DOMAIN snaps' = DOMAIN snaps \cup {Len(snaps) + 1}
      /\ \A i \in DOMAIN snaps : snaps'[i] = snaps[i] /\ i < Len(snaps) + 1
      /\ snaps'[Len(snaps) + 1] = Report
  BY <1>1, <1>3
<1>5. \A t : Dead(t)' <=> Dead(t)
  BY <1>1 DEF Dead
<1>6. \A i \in DOMAIN snaps' : \/ i \in DOMAIN snaps /\ snaps'[i] = snaps[i]
                               \/ DOMAIN snaps'[i] = up
  BY <1>2, <1>4
<1>7. Gone'
  BY <1>1, <1>5 DEF FollowParts, Gone
<1>8. Listed(DOMAIN view)' /\ \A i \in DOMAIN snaps' : Listed(DOMAIN snaps[i])'
  BY <1>1, <1>5, <1>6 DEF FollowParts, Grows, Listed
<1>9. \A d \in up \cap DOMAIN view : \A i \in DOMAIN snaps' : d \in DOMAIN snaps'[i]
  BY <1>6 DEF FollowParts, Grows
<1>10. ASSUME NEW d \in up, NEW i \in DOMAIN snaps', NEW j \in DOMAIN snaps',
              i <= j, d \in DOMAIN snaps'[i]
       PROVE d \in DOMAIN snaps'[j]
  <2>1. CASE j = Len(snaps) + 1
    BY <1>2, <1>4, <2>1
  <2>2. CASE j \in DOMAIN snaps
    <3>1. i \in DOMAIN snaps
      BY <1>3, <1>4, <1>10, <2>2
    <3> QED
      BY <1>4, <1>10, <2>2, <3>1 DEF FollowParts, Grows
  <2> QED
    BY <1>4, <2>1, <2>2
<1>11. Grows'
  BY <1>1, <1>8, <1>9, <1>10 DEF Grows
<1>12. Known' /\ Follows'
  BY <1>1 DEF FollowParts, Known, Follows, Latest
<1> QED
  BY <1>7, <1>11, <1>12 DEF FollowParts

LEMMA FollowInit == Init => FollowInv
<1> SUFFICES ASSUME Init PROVE FollowParts
  BY DEF FollowInv, FollowParts
<1>1. Gone
  BY DEF Init, Gone
<1>2. Grows
  BY DEF Init, Grows, Listed
<1>3. Known
  BY DEF Init, Known, Idents
<1>4. Follows
  BY DEF Init, Follows
<1> QED
  BY <1>1, <1>2, <1>3, <1>4 DEF FollowParts

LEMMA FollowStep == TypeInv /\ FollowInv /\ [Next]_vars => FollowInv'
<1> SUFFICES ASSUME TypeInv, FollowInv, [Next]_vars, Undisturbed' PROVE FollowParts'
  BY DEF FollowInv, FollowParts
<1>E. env' = env
  BY DEF Next, RunStep, DomStep, Studio, Submit, Leave, HandleSnapshot, Nudge, SetTargetMode,
     TakeSnapshot, Lose, Connect, Receive, EndTest, Start, TornDown, Tell, UserStart, UserStop,
     Move, vars, envVars
<1>U. "mode" \notin env /\ "lose" \notin env /\ FollowParts
  BY <1>E DEF Undisturbed, FollowInv, FollowParts
<1>1. ASSUME NEW r \in Runs, Submit(r) PROVE FollowParts'
  <2>1. UNCHANGED <<view, snaps, up, goal, session>>
    BY <1>1 DEF Submit, pluginVars, engineVars
  <2>2. CASE Reconcile(queue \cup {r}, view)
    BY <1>U, <2>1, <2>2, ReconcileFollows
  <2>3. CASE UNCHANGED <<queue, targets, inbox>>
    BY <1>U, <2>1, <2>3, SessionFollows DEF FollowParts, Gone, Dead
  <2> QED
    BY <1>1, <2>2, <2>3 DEF Submit
<1>2. ASSUME NEW r \in Runs, Leave(r) PROVE FollowParts'
  BY <1>U, <1>2, SessionFollows DEF Leave, FollowParts, Gone, Dead, pluginVars, engineVars
<1>3. ASSUME HandleSnapshot PROVE FollowParts'
  BY <1>U, <1>3, HandleSnapshotFollows
<1>4. ASSUME Nudge PROVE FollowParts'
  BY <1>U, <1>4, ReconcileFollows DEF Nudge, pluginVars, engineVars
<1>5. ASSUME NEW mode \in SetModes, SetTargetMode(mode) PROVE FollowParts'
  BY <1>U, <1>5 DEF SetTargetMode, Move
<1>6. ASSUME TakeSnapshot PROVE FollowParts'
  BY <1>U, <1>6, TakeSnapshotFollows
<1>7. ASSUME Lose PROVE FollowParts'
  BY <1>U, <1>7 DEF Lose, Move
<1>8. ASSUME NEW d \in Doms, Connect(d) PROVE FollowParts'
  BY <1>U, <1>8, ConnectFollows
<1>9. ASSUME NEW d \in Doms, Receive(d) PROVE FollowParts'
  BY <1>U, <1>9, ReceiveFollows
<1>10. ASSUME NEW d \in Doms, EndTest(d) PROVE FollowParts'
  BY <1>U, <1>10, EndsFollows DEF EndTest, masterVars
<1>11. ASSUME Start PROVE FollowParts'
  <2>1. UNCHANGED <<up, goal, inbox, view, snaps, targets>>
    BY <1>11 DEF Start, masterVars
  <2>2. CASE Begins(IF goal[EditDom] = "run" THEN {"run"} ELSE SoloKinds)
    BY <1>U, <2>1, <2>2, BeginsFollows
  <2>3. CASE session' = session
    BY <1>U, <2>1, <2>3, SessionFollows DEF FollowParts, Gone, Dead
  <2> QED
    BY <1>11, <2>2, <2>3 DEF Start, engineVars
<1>12. ASSUME TornDown PROVE FollowParts'
  <2>1. /\ session.phase = "ending" /\ session'.phase = "idle" /\ session'.n = session.n
        /\ UNCHANGED <<up, goal, inbox, view, snaps, targets>>
    BY <1>12 DEF TornDown, masterVars, TypeInv, TypeOK
  <2>2. \A d : Dead(d)' <=> Dead(d)
    BY <2>1 DEF Dead
  <2> QED
    BY <1>U, <2>1, <2>2, SessionFollows DEF FollowParts, Gone
<1>13. ASSUME Tell PROVE FollowParts'
  BY <1>U, <1>13, SessionFollows DEF Tell, FollowParts, Gone, Dead, masterVars, pluginVars
<1>14. ASSUME UserStart PROVE FollowParts'
  BY <1>U, <1>14, BeginsFollows DEF UserStart, masterVars, pluginVars
<1>15. ASSUME UserStop PROVE FollowParts'
  BY <1>U, <1>15, EndsFollows DEF UserStop, masterVars
<1>16. CASE UNCHANGED vars
  BY <1>U, <1>16, SessionFollows DEF vars, masterVars, pluginVars, engineVars, FollowParts, Gone, Dead
<1> QED
  BY <1>1, <1>2, <1>3, <1>4, <1>5, <1>6, <1>7, <1>8, <1>9, <1>10, <1>11, <1>12, <1>13,
     <1>14, <1>15, <1>16 DEF Next, RunStep, DomStep, Studio

\* While no mode is set explicitly and no socket is lost, every driver that has
\* been told everything follows the target the master derives from its queue.
THEOREM DriversFollow == Spec => []DriverFollows
<1>1. Spec => [](TypeInv /\ FollowInv)
  <2>1. Init => TypeInv /\ FollowInv
    BY TypeInit, FollowInit
  <2>2. TypeInv /\ FollowInv /\ [Next]_vars => TypeInv' /\ FollowInv'
    BY TypeStep, FollowStep
  <2> QED
    BY <2>1, <2>2, PTL DEF Spec
<1>2. TypeInv /\ FollowInv => DriverFollows
  BY DEF FollowInv, FollowParts, Undisturbed, Follows, Latest, DriverFollows
<1> QED
  BY <1>1, <1>2, PTL
-----------------------------------------------------------------------------
(* A run lands where it asked to *)

\* What a DOM says of its session's mode: the truth, or "play" of a test.
TrueMode(m, d) ==
    d.kind # "edit" =>
        /\ d.n \in 1..session.n
        /\ m = kindOf[d.n] \/ (m = "play" /\ kindOf[d.n] = "test")
TrueView(V) == \A d \in DOMAIN V : TrueMode(V[d], d)
LandsRight(r) ==
    landed[r] # None =>
        /\ asked[r] # None
        /\ asked[r] # EmptySpec =>
              /\ landed[r].kind = Resolve(asked[r]).kind
              /\ TrueMode(Resolve(asked[r]).mode, landed[r])
LandInv ==
    /\ \A r \in Runs : LandsRight(r) /\ (asked[r] = None => r \notin queue)
    /\ TrueView(view) /\ \A i \in 1..Len(snaps) : TrueView(snaps[i])

\* A session that has begun keeps its kind.
LEMMA SessionsKept ==
    ASSUME TypeInv, [Next]_vars
    PROVE  /\ \A n \in 1..session.n : n \in 1..session'.n /\ kindOf'[n] = kindOf[n]
           /\ \A m, d : TrueMode(m, d) => TrueMode(m, d)'
<1>1. session.n \in 0..MaxSessions /\ MaxSessions \in Nat /\ kindOf \in [1..MaxSessions -> Kinds3 \cup {None}]
    BY BoundsAssumption DEF TypeInv, TypeOK
<1>2. CASE session'.n = session.n /\ kindOf' = kindOf
    BY <1>2 DEF TrueMode
<1>3. CASE \E kinds : Begins(kinds)
    <2>0. PICK k : /\ session' = [n |-> session.n + 1, kind |-> k, phase |-> "live"]
                   /\ kindOf' = [kindOf EXCEPT ![session.n + 1] = k]
        BY <1>3 DEF Begins
    <2>1. session'.n = session.n + 1 /\ kindOf' = [kindOf EXCEPT ![session.n + 1] = k]
        BY <2>0
    <2>2. \A n \in 1..session.n : n \in 1..session'.n /\ kindOf'[n] = kindOf[n]
        BY <1>1, <2>1
    <2> QED
        BY <2>2 DEF TrueMode
<1>4. Ends => session'.n = session.n
    BY EndsType
<1>5. (session'.n = session.n /\ kindOf' = kindOf) \/ \E kinds : Begins(kinds)
    <2>1. CASE Start \/ UserStart
        BY <2>1 DEF Start, UserStart, engineVars
    <2>2. CASE (\E d \in Doms : EndTest(d)) \/ UserStop
        BY <1>4, <2>2 DEF EndTest, UserStop
    <2>3. CASE TornDown
        <3>1. session' = [session EXCEPT !.phase = "idle"] /\ kindOf' = kindOf
            BY <2>3 DEF TornDown
        <3> QED
            BY <3>1 DEF TypeInv, TypeOK
    <2>4. CASE Tell
        BY <2>4 DEF Tell
    <2>5. UNCHANGED <<session, kindOf>> \/ Start \/ UserStart \/ (\E d \in Doms : EndTest(d)) \/ UserStop
              \/ TornDown \/ Tell
        BY DEF Next, RunStep, DomStep, Studio, Submit, Leave, SetTargetMode, HandleSnapshot, Nudge, TakeSnapshot,
            Lose, Connect, Receive, vars, engineVars
    <2> QED
        BY <2>1, <2>2, <2>3, <2>4, <2>5
<1> QED
    BY <1>2, <1>3, <1>5

\* Every DOM reports its session's mode, but for the server of a test that does
\* not know it yet.
LEMMA ReportTrue ==
    ASSUME TypeInv
    PROVE  TrueView(Report)
<1> SUFFICES ASSUME NEW d \in up, d.kind # "edit"
             PROVE  TrueMode(Reported(d), d)
    BY DEF TrueView, Report, TrueMode
<1>1. d \in PlayDoms
    BY DEF TypeInv, TypeOK, Doms, EditDom
<1>2. d.n \in 1..session.n
    BY <1>1 DEF TypeInv, TypeOK, Born, PlayDoms
<1>3. kindOf[d.n] \in Kinds3
    BY <1>2 DEF TypeInv, Born
<1> QED
    BY <1>2, <1>3 DEF Reported, TrueMode, Kinds3

\* What fits a route is a DOM of its kind that reports its mode.
LEMMA MatchRight ==
    ASSUME NEW r \in Runs, NEW V, TrueView(V), NEW d \in Matches(r, V), asked'[r] # EmptySpec
    PROVE  d.kind = Resolve(asked'[r]).kind /\ TrueMode(Resolve(asked'[r]).mode, d)
<1>1. d \in DOMAIN V /\ d.kind = Resolve(asked'[r]).kind /\ (d.kind = "edit" \/ V[d] = Resolve(asked'[r]).mode)
    BY DEF Matches, Fits
<1>2. TrueMode(V[d], d)
    BY <1>1 DEF TrueView
<1> QED
    BY <1>1, <1>2 DEF TrueMode

\* A run is placed on a DOM it fits, or stays where it was.
Lands(Q, V) ==
    \A r \in Runs :
        \/ landed'[r] = landed[r]
        \/ r \in Q /\ \E d \in Matches(r, V) : landed'[r] = d

LEMMA ReconcileLands ==
    ASSUME TypeInv, NEW Q, NEW V, Reconcile(Q, V)
    PROVE  Lands(Q, V) /\ queue' \subseteq Q
<1> DEFINE fit == {r \in Q : Matches(r, V) # {}}
<1>1. PICK place \in [fit -> DOMAIN V] :
        /\ \A r \in fit : place[r] \in Matches(r, V)
        /\ landed' = [r \in Runs |-> IF r \in fit THEN place[r] ELSE landed[r]]
    BY DEF Reconcile
<1>2. queue' = Q \ fit
    BY DEF Reconcile
<1>3. fit \subseteq Q
    OBVIOUS
<1> HIDE DEF fit
<1> QED
    BY <1>1, <1>2, <1>3 DEF Lands

\* The handlers that place runs, on a view whose modes are true.
LEMMA LandsKept ==
    ASSUME TypeInv, LandInv, [Next]_vars, NEW Q \in SUBSET Runs, NEW V, TrueView(V), Lands(Q, V),
           queue' \subseteq Q, \A r \in Q : asked'[r] # None,
           \A r \in Runs : asked'[r] = asked[r] \/ asked[r] = None
    PROVE  \A r \in Runs : LandsRight(r)' /\ (asked'[r] = None => r \notin queue')
<1> SUFFICES ASSUME NEW r \in Runs
             PROVE  LandsRight(r)' /\ (asked'[r] = None => r \notin queue')
    OBVIOUS
<1>1. asked'[r] = None => r \notin queue'
    OBVIOUS
<1>2. CASE landed'[r] = landed[r]
    <2>1. landed[r] # None => asked'[r] = asked[r]
        BY DEF LandInv, LandsRight
    <2> QED
        BY <1>1, <1>2, <2>1, SessionsKept DEF LandInv, LandsRight
<1>3. ASSUME r \in Q, NEW d \in Matches(r, V), landed'[r] = d
      PROVE  LandsRight(r)'
    <2>1. asked'[r] # EmptySpec =>
              d.kind = Resolve(asked'[r]).kind /\ TrueMode(Resolve(asked'[r]).mode, d)
        BY MatchRight
    <2>3. PICK m : m = Resolve(asked'[r]).mode
        OBVIOUS
    <2>4. asked'[r] # EmptySpec => TrueMode(m, d)'
        BY <2>1, <2>3, SessionsKept
    <2> QED
        BY <1>3, <2>1, <2>3, <2>4 DEF LandsRight, TrueMode
<1> QED
    BY <1>1, <1>2, <1>3 DEF Lands

LEMMA LandStep == TypeInv /\ LandInv /\ [Next]_vars => LandInv'
<1> SUFFICES ASSUME TypeInv, LandInv, [Next]_vars
             PROVE  LandInv'
    OBVIOUS
<1>0. /\ asked \in [Runs -> Specs \cup {None}] /\ queue \subseteq Runs /\ snaps \in Seq(Views)
      /\ landed \in [Runs -> Doms \cup {None}]
    BY DEF TypeInv, TypeOK
\* the snapshots and the view
<1>1. TrueView(view') /\ \A i \in 1..Len(snaps') : TrueView(snaps'[i])
    <2>1. CASE UNCHANGED <<view, snaps>>
        BY <2>1 DEF LandInv
    <2>2. CASE HandleSnapshot
        <3>1. snaps # <<>> /\ snaps' = Tail(snaps) /\ view' = Head(snaps)
            BY <2>2 DEF HandleSnapshot
        <3>2. /\ 1 \in 1..Len(snaps) /\ Head(snaps) = snaps[1]
              /\ \A i \in 1..Len(Tail(snaps)) : i + 1 \in 1..Len(snaps) /\ Tail(snaps)[i] = snaps[i + 1]
            BY <1>0, <3>1
        <3> QED
            BY <3>1, <3>2 DEF LandInv
    <2>3. CASE TakeSnapshot
        <3>1. snaps' = Append(snaps, Report) /\ view' = view
            BY <2>3 DEF TakeSnapshot, masterVars
        <3>2. Report \in Views /\ TrueView(Report)
            BY ReportType, ReportTrue
        <3>3. \A i \in 1..Len(snaps') :
                  (i \in 1..Len(snaps) /\ snaps'[i] = snaps[i]) \/ snaps'[i] = Report
            BY <1>0, <3>1, <3>2
        <3> QED
            BY <3>1, <3>2, <3>3 DEF LandInv
    <2>4. UNCHANGED <<view, snaps>> \/ HandleSnapshot \/ TakeSnapshot
        BY DEF Next, RunStep, DomStep, Studio, Submit, Leave, SetTargetMode, Nudge, Lose,
            Connect, Receive, EndTest, Start, TornDown, Tell, UserStart, UserStop, vars, masterVars
    <2> QED
        BY <2>1, <2>2, <2>3, <2>4
<1>2. TrueView(view)' /\ \A i \in 1..Len(snaps') : TrueView(snaps[i])'
    <2>1. \A V : TrueView(V) => \A d \in DOMAIN V : TrueMode(V[d], d)
        BY DEF TrueView
    <2> QED
        BY <1>1, <2>1, SessionsKept DEF TrueView
\* the runs
<1>3. \A r \in Runs : LandsRight(r)' /\ (asked'[r] = None => r \notin queue')
    <2>1. CASE UNCHANGED <<asked, landed>> /\ queue' \subseteq queue
        BY <1>0, <2>1, SessionsKept DEF LandInv, LandsRight
    <2>2. ASSUME NEW r \in Runs, Submit(r)
          PROVE  \A t \in Runs : LandsRight(t)' /\ (asked'[t] = None => t \notin queue')
        <3>1. PICK q \in Asks[r] : asked' = [asked EXCEPT ![r] = q]
            BY <2>2 DEF Submit
        <3>2. asked[r] = None /\ asked'[r] # None /\ \A t \in Runs \ {r} : asked'[t] = asked[t]
            BY <1>0, <2>2, <3>1, AsksAssumption, NoneAssumption DEF Submit, Specs
        <3>3. TrueView(view)
            BY DEF LandInv
        <3>4. Lands(queue \cup {r}, view) /\ queue' \subseteq queue \cup {r}
            <4>1. CASE Reconcile(queue \cup {r}, view)
                BY <4>1, ReconcileLands
            <4>2. CASE (\E d \in Matches(r, view) : landed' = [landed EXCEPT ![r] = d]) /\ UNCHANGED queue
                BY <1>0, <4>2 DEF Lands
            <4> QED
                BY <2>2, <4>1, <4>2 DEF Submit
        <3>5. \A t \in queue \cup {r} : asked'[t] # None
            BY <1>0, <3>2 DEF LandInv
        <3>6. queue \cup {r} \in SUBSET Runs /\ \A t \in Runs : asked'[t] = asked[t] \/ asked[t] = None
            BY <1>0, <3>2
        <3> HIDE DEF LandInv
        <3> QED
            BY <3>3, <3>4, <3>5, <3>6, LandsKept
    <2>3. ASSUME NEW V, TrueView(V), Reconcile(queue, V), UNCHANGED asked
          PROVE  \A t \in Runs : LandsRight(t)' /\ (asked'[t] = None => t \notin queue')
        <3>1. Lands(queue, V) /\ queue' \subseteq queue
            BY <2>3, ReconcileLands
        <3>2. \A t \in queue : asked'[t] # None
            BY <1>0, <2>3 DEF LandInv
        <3> QED
            BY <1>0, <2>3, <3>1, <3>2, LandsKept
    <2>4. CASE Nudge
        BY <2>3, <2>4 DEF Nudge, LandInv
    <2>5. CASE HandleSnapshot
        <3>1. TrueView(Head(snaps))
            BY <1>1, <2>5 DEF HandleSnapshot
        <3> QED
            BY <2>3, <2>5, <3>1 DEF HandleSnapshot
    <2>6. \/ UNCHANGED <<asked, landed>> /\ queue' \subseteq queue
          \/ (\E r \in Runs : Submit(r)) \/ Nudge \/ HandleSnapshot
        BY DEF Next, RunStep, DomStep, Studio, Leave, SetTargetMode, TakeSnapshot, Lose,
            Connect, Receive, EndTest, Start, TornDown, Tell, UserStart, UserStop, vars, masterVars
    <2> QED
        BY <2>1, <2>2, <2>4, <2>5, <2>6
<1> QED
    BY <1>2, <1>3 DEF LandInv

\* However the Studio changes its mode, and however late the master hears of it, a
\* run lands on a DOM of the kind its route resolves to, in a session of the mode it
\* asked for, or in a test for a play session.
THEOREM RunsLandAsAsked == Spec => []LandsAsAsked
<1>1. Init => LandInv
    BY DEF Init, LandInv, LandsRight, TrueView
<1>2. Spec => [](TypeInv /\ LandInv)
    BY <1>1, TypeInit, TypeStep, LandStep, PTL DEF Spec
<1>3. TypeInv /\ LandInv => LandsAsAsked
    <2> SUFFICES ASSUME LandInv, NEW r \in Runs, landed[r] # None, asked[r] # EmptySpec
                 PROVE  LET route == Resolve(asked[r])
                            dom == landed[r]
                        IN /\ dom.kind = route.kind
                           /\ Honours(asked[r], route)
                           /\ dom.kind # "edit" =>
                                 \/ kindOf[dom.n] = route.mode
                                 \/ kindOf[dom.n] = "test" /\ route.mode = "play"
        BY DEF LandsAsAsked
    <2>1. Honours(asked[r], Resolve(asked[r]))
        BY DEF Honours, Resolve, RouteMode, Given
    <2> QED
        BY <2>1 DEF LandInv, LandsRight, TrueMode
<1> QED
    BY <1>2, <1>3, PTL
=============================================================================
