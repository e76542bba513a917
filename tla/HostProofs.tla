------------------------------ MODULE HostProofs ------------------------------
(*****************************************************************************)
(* What the processes and tasks that share a host never do to one another.   *)
(* The plugin files, for every set of serves, builds and ports: as long as   *)
(* no serve starts in the middle of a sweep, a live backend whose master is  *)
(* heard keeps its plugin, and no Studio that a sweep finds loses its plugin *)
(* to it unless a master of another build answers at the port.  The          *)
(* StudioMCP process, for every set of Studios, launches and calls: a call   *)
(* is answered with its own result, and nobody holds another Studio's id.  A *)
(* patched file, for any number of processes and patches that start, finish  *)
(* and die anywhere, as long as no two operations overlap: the user's        *)
(* content is never lost.  And what is written into the settings files is    *)
(* what was asked for, for any flags, panels and layouts.                    *)
(*****************************************************************************)
EXTENDS PluginFiles, McpBridge, FilePatch, StudioSettings, Induction, SequenceTheorems, TLAPS

-----------------------------------------------------------------------------
(* Plugin files *)

StudioStates == {"none", "kept", "owned", "ended"}
Live(t) == studio[t] \in {"kept", "owned"}

FileTypes ==
    /\ serve \in [Serves -> Phases]
    /\ entries \in [Serves -> SUBSET PluginFile]
    /\ probes \in [Serves -> [Ports -> Builds \union {NoServe}]]
    /\ doomed \in [Serves -> SUBSET PluginFile]
    /\ plugins \in [PluginFile -> Ages \union {"none"}]
    /\ studio \in [Serves -> StudioStates]
    /\ raced \in BOOLEAN
    /\ unheard \subseteq Serves /\ unseen \subseteq Serves

\* A port is bound by one master, and by one backend, at a time.
OneMaster ==
    \A s, t \in Serves \ Remote :
       serve[s] \in Answering /\ serve[t] \in Answering /\ PortOf[s] = PortOf[t] => s = t
OneBackend ==
    \A s, t \in Serves :
       serve[s] \in Bound /\ serve[t] \in Bound /\ PortOf[s] = PortOf[t] => s = t

\* Nothing is doomed before the sweep.
NoneDoomed == \A s \in Serves : serve[s] \in {"off", "master"} => doomed[s] = {}

\* What a sweep learnt of a port is still true: a serve that was always heard
\* and is there now is the one that answered the probe.
ProbesHold ==
    \A s, t \in Serves : \A f \in doomed[s] :
       serve[s] \in SweepPhases /\ serve[t] \in Answering /\ t \notin unheard /\ PortOf[t] = f[2]
          => probes[s][f[2]] = BuildOf[t]

\* A file about to be deleted is not the one its port's answer stands for, and
\* no Studio that a sweep would find runs at a port where nothing answered.
Decided ==
    \A s \in Serves : \A f \in doomed[s] :
       serve[s] = "deleting" =>
          /\ probes[s][f[2]] # f[1]
          /\ probes[s][f[2]] = NoServe => \A t \in Serves \ unseen : PortOf[t] = f[2] => ~Live(t)

UpInstalled == \A s \in Serves : serve[s] = "up" /\ s \notin unheard => plugins[File(s)] # "none"

FilesBase == FileTypes /\ OneMaster /\ OneBackend /\ NoneDoomed
FilesInv == FilesBase /\ (~raced => ProbesHold /\ Decided /\ UpInstalled)

-----------------------------------------------------------------------------
\* A file is the pair of a build and a port.
LEMMA FileParts ==
    /\ \A s \in Serves : File(s) \in PluginFile /\ File(s)[1] = BuildOf[s] /\ File(s)[2] = PortOf[s]
    /\ \A f \in PluginFile : f[1] \in Builds /\ f[2] \in Ports
    /\ \A s \in Serves : PortOf[s] \in Ports /\ BuildOf[s] \in Builds /\ BuildOf[s] # NoServe
    /\ NoServe \notin Builds
<1>1. \A s \in Serves : File(s) \in PluginFile /\ File(s)[1] = BuildOf[s] /\ File(s)[2] = PortOf[s]
    BY DEF PluginFile, File
<1>2. \A s \in Serves : PortOf[s] \in Ports /\ BuildOf[s] \in Builds
    BY DEF Ports, Builds
<1>3. \A f \in PluginFile : f[1] \in Builds /\ f[2] \in Ports
    BY <1>1, <1>2 DEF PluginFile
<1>4. NoServe \notin Builds
    BY ServesAssumption DEF Builds
<1> QED BY <1>1, <1>2, <1>3, <1>4

LEMMA FilesStart == PluginsInit => FilesInv
<1> SUFFICES ASSUME PluginsInit PROVE FilesInv
    OBVIOUS
<1>1. FileTypes
    BY DEF PluginsInit, FileTypes, Phases, Ages, StudioStates
<1>2. \A s \in Serves : serve[s] = "off" /\ doomed[s] = {}
    BY DEF PluginsInit
<1>3. OneMaster /\ OneBackend /\ NoneDoomed
    BY <1>2 DEF OneMaster, OneBackend, NoneDoomed, Answering, Bound
<1>4. ProbesHold /\ Decided /\ UpInstalled
    BY <1>2 DEF ProbesHold, Decided, UpInstalled
<1> QED BY <1>1, <1>3, <1>4 DEF FilesInv, FilesBase

\* A probe is answered by the one master there, if it is heard.
LEMMA ProbeAnswer ==
    ASSUME FilesBase, NEW p \in Ports, NEW heard \in SUBSET MasterOn(p), NEW t \in heard
    PROVE  (CHOOSE u \in heard : TRUE) = t
<1>1. \A u \in heard : u = t
    BY DEF MasterOn, OnPort, FilesBase, OneMaster
<1> QED BY <1>1

LEMMA ProbeBuild ==
    ASSUME NEW p \in Ports, NEW heard \in SUBSET MasterOn(p), heard # {}
    PROVE  BuildOf[CHOOSE t \in heard : TRUE] \in Builds
<1>1. (CHOOSE t \in heard : TRUE) \in heard
    OBVIOUS
<1>2. (CHOOSE t \in heard : TRUE) \in Serves
    BY <1>1 DEF MasterOn, OnPort
<1> QED BY <1>2, FileParts

\* What a probe does: some of the masters on its port are heard.
LEMMA ProbeHears ==
    ASSUME FilesBase, NEW s \in Serves, NEW p \in Ports, Probe(s, p)
    PROVE  \E heard \in SUBSET MasterOn(p) :
              /\ probes' = [probes EXCEPT ![s][p] = IF heard = {} THEN NoServe
                                                    ELSE BuildOf[CHOOSE t \in heard : TRUE]]
              /\ unheard' = unheard \union (OnPort(p) \ heard)
<1>1. PICK slow \in SUBSET MasterOn(p) :
          /\ probes' = [probes EXCEPT ![s][p] = IF MasterOn(p) \ slow = {} THEN NoServe
                                                ELSE BuildOf[CHOOSE t \in MasterOn(p) \ slow : TRUE]]
          /\ unheard' = unheard \union (OnPort(p) \ (MasterOn(p) \ slow))
    BY DEF Probe
<1>2. MasterOn(p) \ slow \in SUBSET MasterOn(p)
    OBVIOUS
<1> QED BY <1>1, <1>2

\* Types, one master and one backend per port, and nothing doomed early: every
\* step keeps them.
LEMMA BaseKept ==
    ASSUME FilesBase, [PluginsNext]_pluginVars
    PROVE  FilesBase'
<1> USE DEF FilesBase
<1>1. ASSUME NEW s \in Serves, StartMaster(s) PROVE FilesBase'
    <2>1. FileTypes' /\ NoneDoomed'
        BY <1>1 DEF StartMaster, FileTypes, NoneDoomed, Phases
    <2>2. OneMaster'
        BY <1>1 DEF StartMaster, FileTypes, OneMaster, MasterOn, OnPort, Answering
    <2>3. OneBackend'
        BY <1>1 DEF StartMaster, FileTypes, OneBackend, Bound
    <2> QED BY <2>1, <2>2, <2>3
<1>2. ASSUME NEW s \in Serves, Scan(s) PROVE FilesBase'
    <2>1. FileTypes'
        BY <1>2 DEF Scan, FileTypes, Installed, Phases
    <2>2. NoneDoomed' /\ OneMaster'
        BY <1>2 DEF Scan, FileTypes, NoneDoomed, OneMaster, Answering
    <2>3. OneBackend'
        BY <1>2 DEF Scan, FileTypes, OneBackend, OnPort, Answering, Bound
    <2> QED BY <2>1, <2>2, <2>3
<1>3. ASSUME NEW s \in Serves, NEW p \in Ports, Probe(s, p) PROVE FilesBase'
    <2>1. PICK heard \in SUBSET MasterOn(p) :
              /\ probes' = [probes EXCEPT ![s][p] = IF heard = {} THEN NoServe
                                                    ELSE BuildOf[CHOOSE t \in heard : TRUE]]
              /\ unheard' = unheard \union (OnPort(p) \ heard)
        BY <1>3, ProbeHears
    <2>2. (IF heard = {} THEN NoServe ELSE BuildOf[CHOOSE t \in heard : TRUE]) \in Builds \union {NoServe}
        BY ProbeBuild
    <2>3. probes' \in [Serves -> [Ports -> Builds \union {NoServe}]]
        BY <2>1, <2>2 DEF FileTypes
    <2>4. unheard' \subseteq Serves
        BY <2>1 DEF FileTypes, OnPort
    <2>5. FileTypes'
        BY <1>3, <2>3, <2>4 DEF Probe, FileTypes
    <2>6. NoneDoomed' /\ OneMaster' /\ OneBackend'
        BY <1>3 DEF Probe, FileTypes, NoneDoomed, OneMaster, OneBackend
    <2> QED BY <2>5, <2>6
<1>4. ASSUME NEW s \in Serves, Decide(s) PROVE FilesBase'
    <2>1. PICK missed \in SUBSET LivePorts :
              /\ doomed' = [doomed EXCEPT ![s] = SweepDecisions(s, missed)]
              /\ unseen' = unseen \union {t \in Running : PortOf[t] \in missed}
        BY <1>4 DEF Decide
    <2>2. FileTypes'
        BY <1>4, <2>1 DEF Decide, SweepDecisions, FileTypes, Phases, Running
    <2>3. NoneDoomed' /\ OneMaster' /\ OneBackend'
        BY <1>4, <2>1 DEF Decide, FileTypes, NoneDoomed, OneMaster, OneBackend, Answering, Bound
    <2> QED BY <2>2, <2>3
<1>5. ASSUME NEW s \in Serves, Install(s) PROVE FilesBase'
    <2>1. FileTypes'
        BY <1>5 DEF Install, FileTypes, Phases, Ages
    <2>2. NoneDoomed' /\ OneMaster' /\ OneBackend'
        BY <1>5 DEF Install, FileTypes, NoneDoomed, OneMaster, OneBackend, Answering, Bound
    <2> QED BY <2>1, <2>2
<1>6. ASSUME NEW s \in Serves, Exit(s) \/ Dies(s) PROVE FilesBase'
    <2>1. FileTypes'
        BY <1>6 DEF Exit, Dies, FileTypes, Phases, Ages, StudioStates
    <2>2. serve'[s] = "gone" /\ doomed' = doomed /\ \A t \in Serves : t # s => serve'[t] = serve[t]
        BY <1>6 DEF Exit, Dies, FileTypes
    <2>3. NoneDoomed' /\ OneMaster' /\ OneBackend'
        BY <2>2 DEF NoneDoomed, OneMaster, OneBackend, Answering, Bound
    <2> QED BY <2>1, <2>3
<1>7. ASSUME NEW s \in Serves, StudioQuits(s) \/ \E keep \in BOOLEAN : LaunchStudio(s, keep) PROVE FilesBase'
    BY <1>7 DEF StudioQuits, LaunchStudio, FileTypes, NoneDoomed, OneMaster, OneBackend, StudioStates
<1>8. ASSUME NEW f \in PluginFile, Age(f) PROVE FilesBase'
    BY <1>8 DEF Age, FileTypes, NoneDoomed, OneMaster, OneBackend, Ages
<1>9. ASSUME UNCHANGED pluginVars PROVE FilesBase'
    BY <1>9 DEF pluginVars, FileTypes, NoneDoomed, OneMaster, OneBackend
<1> QED BY <1>1, <1>2, <1>3, <1>4, <1>5, <1>6, <1>7, <1>8, <1>9 DEF PluginsNext

-----------------------------------------------------------------------------
\* What a file to be deleted is not: the file of a backend that was always
\* heard.
LEMMA SparesAnswering ==
    ASSUME FilesBase, ProbesHold, Decided, NEW s \in Serves, serve[s] = "deleting",
           NEW t \in Serves \ unheard, serve[t] \in Answering
    PROVE  File(t) \notin doomed[s]
BY FileParts DEF ProbesHold, Decided, SweepPhases

\* The sweep's own steps.
LEMMA SweepKept ==
    ASSUME FilesBase, ~raced, ProbesHold, Decided, UpInstalled, NEW s \in Serves,
           Scan(s) \/ (\E p \in Ports : Probe(s, p)) \/ Decide(s) \/ Install(s)
    PROVE  ProbesHold' /\ Decided' /\ UpInstalled'
<1>1. CASE Scan(s)
    <2>1. doomed'[s] = {} /\ UNCHANGED <<doomed, probes, plugins, studio, unheard, unseen>>
        BY <1>1 DEF Scan, FilesBase, NoneDoomed
    <2>2. \A t \in Serves : /\ serve'[t] \in Answering => serve[t] \in Answering
                            /\ t # s => serve'[t] = serve[t]
        BY <1>1 DEF Scan, FilesBase, FileTypes, Answering
    <2>3. serve'[s] = "probing"
        BY <1>1 DEF Scan, FilesBase, FileTypes
    <2> QED BY <2>1, <2>2, <2>3 DEF ProbesHold, Decided, UpInstalled, Live
<1>2. ASSUME NEW p \in Ports, Probe(s, p) PROVE ProbesHold' /\ Decided' /\ UpInstalled'
    <2>0. PICK heard \in SUBSET MasterOn(p) :
              /\ probes' = [probes EXCEPT ![s][p] = IF heard = {} THEN NoServe
                                                    ELSE BuildOf[CHOOSE t \in heard : TRUE]]
              /\ unheard' = unheard \union (OnPort(p) \ heard)
        BY <1>2, ProbeHears
    <2>1. UNCHANGED <<serve, plugins, studio, unseen>> /\ serve[s] = "probing" /\ unheard \subseteq unheard'
        BY <1>2, <2>0 DEF Probe
    <2>2. \A t \in Serves : t # s => probes'[t] = probes[t] /\ doomed'[t] = doomed[t]
        BY <1>2, <2>0 DEF Probe, FilesBase, FileTypes
    <2>3. \A q \in Ports : q # p => probes'[s][q] = probes[s][q]
        BY <1>2, <2>0 DEF Probe, FilesBase, FileTypes
    <2>4. \A f \in doomed'[s] : f \in PluginFile /\ (f[2] # p => f \in doomed[s])
        BY <1>2 DEF Probe, FilesBase, FileTypes
    <2>5. probes'[s][p] = IF heard = {} THEN NoServe ELSE BuildOf[CHOOSE t \in heard : TRUE]
        BY <2>0 DEF FilesBase, FileTypes
    <2>6. ASSUME NEW t \in Serves, NEW f \in doomed'[s], serve[t] \in Answering, t \notin unheard', PortOf[t] = f[2]
          PROVE  probes'[s][f[2]] = BuildOf[t]
        <3>1. CASE f[2] = p
            <4>1. t \in heard
                BY <2>0, <2>6, <3>1 DEF OnPort
            <4> QED BY <2>5, <3>1, <4>1, ProbeAnswer
        <3>2. CASE f[2] # p
            BY <2>1, <2>3, <2>4, <2>6, <3>2, FileParts DEF ProbesHold, SweepPhases
        <3> QED BY <3>1, <3>2
    <2>7. ProbesHold'
        BY <2>1, <2>2, <2>6 DEF ProbesHold
    <2> QED BY <2>1, <2>2, <2>7 DEF Decided, UpInstalled, Live
<1>3. CASE Decide(s)
    <2>0. PICK missed \in SUBSET LivePorts :
              /\ doomed' = [doomed EXCEPT ![s] = SweepDecisions(s, missed)]
              /\ unseen' = unseen \union {t \in Running : PortOf[t] \in missed}
        BY <1>3 DEF Decide
    <2>1. /\ UNCHANGED <<probes, plugins, studio, unheard>> /\ unseen \subseteq unseen'
          /\ serve[s] = "probing" /\ serve'[s] = "deleting"
        BY <1>3, <2>0 DEF Decide, FilesBase, FileTypes
    <2>2. \A t \in Serves : t # s => serve'[t] = serve[t] /\ doomed'[t] = doomed[t]
        BY <1>3, <2>0 DEF Decide, FilesBase, FileTypes
    <2>3. doomed'[s] = SweepDecisions(s, missed)
        BY <2>0 DEF FilesBase, FileTypes
    <2>4. doomed'[s] \subseteq doomed[s]
        BY <2>3 DEF SweepDecisions
    <2>5. ProbesHold'
        BY <2>1, <2>2, <2>4 DEF ProbesHold, SweepPhases, Answering
    <2>6. ASSUME NEW f \in doomed'[s]
          PROVE  /\ probes[s][f[2]] # f[1]
                 /\ probes[s][f[2]] = NoServe => \A t \in Serves \ unseen' : PortOf[t] = f[2] => ~Live(t)
        <3>1. f \in PluginFile
            BY <2>4, <2>6 DEF FilesBase, FileTypes
        <3>2. probes[s][f[2]] = NoServe => f[2] \notin LivePorts \ missed
            BY <2>3, <2>6 DEF SweepDecisions
        <3>3. probes[s][f[2]] # NoServe => probes[s][f[2]] # f[1]
            BY <2>3, <2>6 DEF SweepDecisions
        <3>4. ASSUME NEW t \in Serves \ unseen', PortOf[t] = f[2], probes[s][f[2]] = NoServe PROVE ~Live(t)
            BY <2>0, <3>2, <3>4 DEF LivePorts, Running, Live
        <3> QED BY <3>1, <3>3, <3>4, FileParts
    <2>7. Decided'
        BY <2>1, <2>2, <2>6 DEF Decided, Live
    <2> QED BY <2>1, <2>2, <2>5, <2>7 DEF UpInstalled
<1>4. CASE Install(s)
    <2>1. UNCHANGED <<probes, studio, unheard, unseen>> /\ serve[s] = "deleting" /\ serve'[s] = "up" /\ doomed'[s] = {}
        BY <1>4 DEF Install, FilesBase, FileTypes
    <2>2. \A t \in Serves : t # s => serve'[t] = serve[t] /\ doomed'[t] = doomed[t]
        BY <1>4 DEF Install, FilesBase, FileTypes
    <2>3. ProbesHold' /\ Decided'
        BY <2>1, <2>2 DEF ProbesHold, Decided, Live, Answering
    <2>4. plugins'[File(s)] # "none"
        BY <1>4, FileParts DEF Install, FilesBase, FileTypes
    <2>5. \A f \in PluginFile : f \notin doomed[s] /\ f # File(s) => plugins'[f] = plugins[f]
        BY <1>4, FileParts DEF Install, FilesBase, FileTypes
    <2>6. ASSUME NEW t \in Serves, t # s, serve'[t] = "up", t \notin unheard PROVE plugins'[File(t)] # "none"
        <3>1. serve[t] = "up" /\ serve[t] \in Answering
            BY <2>2, <2>6 DEF Answering
        <3>2. serve[s] # "master"
            BY <2>1
        <3>3. File(t) \notin doomed[s]
            BY <2>1, <2>6, <3>1, <3>2, SparesAnswering
        <3>4. plugins[File(t)] # "none" /\ File(t) \in PluginFile
            BY <2>6, <3>1, FileParts DEF UpInstalled
        <3> QED BY <2>4, <2>5, <3>3, <3>4
    <2> QED BY <2>1, <2>3, <2>4, <2>6 DEF UpInstalled
<1> QED BY <1>1, <1>2, <1>3, <1>4

\* The steps of serves and Studios around it.
LEMMA OthersKept ==
    ASSUME FilesBase, ~raced, ProbesHold, Decided, UpInstalled, ~raced',
           \/ \E s \in Serves : \/ StartMaster(s) \/ StudioQuits(s) \/ Exit(s) \/ Dies(s)
                                \/ \E keep \in BOOLEAN : LaunchStudio(s, keep)
           \/ \E f \in PluginFile : Age(f)
           \/ UNCHANGED pluginVars
    PROVE  ProbesHold' /\ Decided' /\ UpInstalled'
<1>1. ASSUME NEW s \in Serves, StartMaster(s) PROVE ProbesHold' /\ Decided' /\ UpInstalled'
    <2>1. \A t \in Serves : serve'[t] \notin SweepPhases
        BY <1>1 DEF StartMaster, FilesBase, FileTypes, SweepPhases
    <2>2. \A t \in Serves : serve'[t] = "up" => serve[t] = "up"
        BY <1>1 DEF StartMaster, FilesBase, FileTypes
    <2> QED BY <1>1, <2>1, <2>2 DEF StartMaster, ProbesHold, Decided, UpInstalled, SweepPhases
<1>2. ASSUME NEW s \in Serves, StudioQuits(s) PROVE ProbesHold' /\ Decided' /\ UpInstalled'
    <2>1. \A t \in Serves : Live(t)' => Live(t)
        BY <1>2 DEF StudioQuits, Live, FilesBase, FileTypes
    <2> QED BY <1>2, <2>1 DEF StudioQuits, ProbesHold, Decided, UpInstalled
<1>3. ASSUME NEW s \in Serves, Exit(s) PROVE ProbesHold' /\ Decided' /\ UpInstalled'
    <2>1. \A t \in Serves : /\ Live(t)' => Live(t)
                            /\ serve'[t] # "gone" => serve'[t] = serve[t] /\ t # s
        BY <1>3 DEF Exit, Live, FilesBase, FileTypes
    <2>2. UNCHANGED <<probes, doomed, unheard, unseen>>
        BY <1>3 DEF Exit
    <2>3. ProbesHold' /\ Decided'
        BY <2>1, <2>2 DEF ProbesHold, Decided, Answering, SweepPhases
    <2>4. ASSUME NEW t \in Serves, serve'[t] = "up", t \notin unheard PROVE plugins'[File(t)] # "none"
        <3>1. serve[t] = "up" /\ t # s /\ serve[s] = "up"
            BY <1>3, <2>1, <2>4 DEF Exit
        <3>2. File(t) # File(s)
            BY <3>1, FileParts DEF FilesBase, OneBackend, Bound
        <3>3. plugins'[File(t)] = plugins[File(t)]
            BY <1>3, <3>2, FileParts DEF Exit, FilesBase, FileTypes
        <3> QED BY <2>4, <3>1, <3>3 DEF UpInstalled
    <2> QED BY <2>2, <2>3, <2>4 DEF UpInstalled
<1>4. ASSUME NEW s \in Serves, Dies(s) PROVE ProbesHold' /\ Decided' /\ UpInstalled'
    <2>1. \A t \in Serves : serve'[t] # "gone" => serve'[t] = serve[t]
        BY <1>4 DEF Dies, FilesBase, FileTypes
    <2> QED BY <1>4, <2>1 DEF Dies, ProbesHold, Decided, UpInstalled, Live, Answering, SweepPhases
<1>5. ASSUME NEW s \in Serves, NEW keep \in BOOLEAN, LaunchStudio(s, keep)
      PROVE  ProbesHold' /\ Decided' /\ UpInstalled'
    <2>1. UNCHANGED <<serve, probes, doomed, plugins, unheard>> /\ serve[s] = "up" /\ unseen \subseteq unseen'
        BY <1>5 DEF LaunchStudio
    <2>2. \A t \in Serves : Live(t)' => Live(t) \/ t = s
        BY <1>5 DEF LaunchStudio, Live, FilesBase, FileTypes
    <2>3. ASSUME NEW t \in Serves, NEW f \in doomed[t], serve[t] = "deleting", f[2] = PortOf[s],
                 probes[t][f[2]] = NoServe
          PROVE  s \in unseen'
        <3>1. s \in unheard
            BY <2>1, <2>3, FileParts DEF ProbesHold, SweepPhases, Answering
        <3> QED BY <1>5, <2>3, <3>1 DEF LaunchStudio
    <2>4. Decided'
        BY <2>1, <2>2, <2>3 DEF Decided
    <2> QED BY <2>1, <2>4 DEF ProbesHold, UpInstalled
<1>6. ASSUME NEW f \in PluginFile, Age(f) PROVE ProbesHold' /\ Decided' /\ UpInstalled'
    <2>1. \A g \in PluginFile : plugins[g] # "none" => plugins'[g] # "none"
        BY <1>6 DEF Age, FilesBase, FileTypes
    <2> QED BY <1>6, <2>1, FileParts DEF Age, ProbesHold, Decided, UpInstalled, Live
<1>7. ASSUME UNCHANGED pluginVars PROVE ProbesHold' /\ Decided' /\ UpInstalled'
    BY <1>7 DEF pluginVars, ProbesHold, Decided, UpInstalled, Live
<1> QED BY <1>1, <1>2, <1>3, <1>4, <1>5, <1>6, <1>7

LEMMA FilesStep == FilesInv /\ [PluginsNext]_pluginVars => FilesInv'
<1> SUFFICES ASSUME FilesInv, [PluginsNext]_pluginVars PROVE FilesInv'
    OBVIOUS
<1>1. FilesBase'
    BY BaseKept DEF FilesInv
<1>2. raced => raced'
    BY DEF FilesInv, FilesBase, FileTypes, PluginsNext, pluginVars, StartMaster, Scan, Probe, Decide, Install,
        StudioQuits, Exit, Dies, LaunchStudio, Age
<1>3. ASSUME ~raced' PROVE ProbesHold' /\ Decided' /\ UpInstalled'
    BY <1>2, <1>3, SweepKept, OthersKept DEF FilesInv, PluginsNext
<1> QED BY <1>1, <1>3 DEF FilesInv

-----------------------------------------------------------------------------
\* A backend that is up has its plugin installed (LiveBackendHasPlugin): no
\* serve's sweep, exit or crash takes it away, as long as no serve starts in
\* the middle of a sweep and every sweep that asked its master was answered.
THEOREM BackendKeepsPlugin == PluginsSpec => []LiveBackendHasPlugin
<1>1. FilesInv => LiveBackendHasPlugin
    BY DEF FilesInv, LiveBackendHasPlugin, UpInstalled
<1> QED BY <1>1, FilesStart, FilesStep, PTL DEF PluginsSpec

\* A sweep deletes a file from under a running Studio that it has found only
\* when a master of another build answers at the port (SweepSparesStudios).
THEOREM StudiosKeepPlugin == PluginsSpec => SweepSparesStudios
<1> DEFINE Spares ==
       \A s \in Serves :
          (serve[s] = "deleting" /\ serve'[s] = "up" /\ ~raced) =>
             \A t \in Running \ unseen :
                (plugins[File(t)] # "none" /\ plugins'[File(t)] = "none")
                   => probes[s][PortOf[t]] \notin {NoServe, BuildOf[t]}
<1>1. ASSUME FilesInv, PluginsNext PROVE Spares
    <2> SUFFICES ASSUME NEW s \in Serves, serve[s] = "deleting", serve'[s] = "up", ~raced,
                        NEW t \in Running \ unseen,
                        plugins[File(t)] # "none", plugins'[File(t)] = "none"
                 PROVE  probes[s][PortOf[t]] \notin {NoServe, BuildOf[t]}
        OBVIOUS
    <2>0. t \in Serves /\ Live(t)
        BY DEF Running, Live
    <2>1. Install(s)
        <3>1. ASSUME NEW u \in Serves,
                     \/ StartMaster(u) \/ Scan(u) \/ Decide(u) \/ StudioQuits(u) \/ Exit(u) \/ Dies(u)
                     \/ \E keep \in BOOLEAN : LaunchStudio(u, keep)
                     \/ \E p \in Ports : Probe(u, p)
              PROVE  serve'[s] # "up"
            BY <1>1, <3>1 DEF FilesInv, FilesBase, FileTypes, StartMaster, Scan, Probe, Decide, StudioQuits,
                Exit, Dies, LaunchStudio
        <3>2. ASSUME NEW f \in PluginFile, Age(f) PROVE FALSE
            BY <3>2 DEF Age
        <3>3. ASSUME NEW u \in Serves, Install(u) PROVE u = s
            BY <1>1, <3>3 DEF FilesInv, FilesBase, FileTypes, Install
        <3> QED BY <1>1, <3>1, <3>2, <3>3 DEF PluginsNext
    <2>2. File(t) \in doomed[s]
        BY <1>1, <2>0, <2>1, FileParts DEF FilesInv, FilesBase, FileTypes, Install
    <2> QED BY <1>1, <2>0, <2>2, FileParts DEF FilesInv, Decided
<1>2. FilesInv /\ [PluginsNext]_pluginVars => [Spares]_pluginVars
    BY <1>1
<1> QED BY <1>2, FilesStart, FilesStep, PTL DEF PluginsSpec, SweepSparesStudios
-----------------------------------------------------------------------------
(* StudioMCP: what is on its pipes *)

McpOps == {"list", "set", "luau", "tool"}
McpResult ==
    [ok : BOOLEAN, list : SUBSET Studios, call : McpCalls \cup {Nobody}, studio : Studios \cup {Nobody}]
McpRequest ==
    [id : Nat, op : {"list", "set", "luau"}, on : Studios \cup {Nobody}] \cup [id : Nat, op : {"tool"}, on : McpCalls]
McpReply == [id : Nat, result : McpResult]
LoopPlaces == {"off", "idle", "lists", "visits", "sets", "fires"}
CallPlaces == {"off", "idle", "waits", "sets", "runs", "over"}
LaunchPlaces == {"off", "idle", "lists", "polls", "looks", "picks", "over"}

PipeTypes ==
    /\ next \in Nat /\ awaits \in Nat
    /\ result \in McpResult
    /\ requests \in Seq(McpRequest) /\ replies \in Seq(McpReply)
    /\ active \in Studios \cup {Nobody}
TaskTypes ==
    /\ holder \in McpTasks \cup {Nobody}
    /\ shown \subseteq Studios /\ DOMAIN domMcp \subseteq Studios
    /\ at \in [McpTasks -> LoopPlaces \cup CallPlaces \cup LaunchPlaces]
    /\ at[Loop] \in LoopPlaces
    /\ \A c \in McpCalls : at[c] \in CallPlaces
    /\ \A s \in Launches : at[s] \in LaunchPlaces
    /\ toVisit \subseteq Studios /\ visit \in Studios \cup {Nobody}
    /\ pre \in [Launches -> SUBSET Studios] /\ listing \in [Launches -> SUBSET Studios]
    /\ paired \in [Launches -> Studios \cup {Nobody}] /\ rows \subseteq Launches
    /\ home \in [McpCalls -> Studios \cup {Nobody}] /\ answer \in [McpCalls -> McpResult]
McpTypes == PipeTypes /\ TaskTypes

\* Ids are given out in order, and only the last one is read for.
IdsInOrder ==
    /\ next > 0 /\ (awaits # 0 => awaits = next - 1 /\ result = Failed)
    /\ \A k \in 1..Len(requests) : requests[k].id \in 1..(next - 1)
    /\ \A k \in 1..Len(replies) : replies[k].id \in 1..(next - 1)
    /\ \A j, k \in 1..Len(requests) : j < k => requests[j].id < requests[k].id

\* The Studio a request is meant for.
MeantFor(q) == IF q.op = "tool" THEN home[q.on] ELSE q.on
\* A snippet or a tool on its way will find its Studio active.
Aimed ==
    \A k \in 1..Len(requests) : requests[k].op \in {"luau", "tool"} =>
        /\ active = MeantFor(requests[k])
        /\ \A j \in 1..(k - 1) : requests[j].op # "set"
        /\ requests[k].op = "tool" => at[requests[k].on] \in {"runs", "over"}

\* Who has begun an rpc, or a visit, holds the client.
Busy(t) == at[t] \in {"lists", "visits", "sets", "fires", "runs", "looks"}
HoldsIt == \A t \in McpTasks : Busy(t) => holder = t

\* The Studio a task makes active.
Wanted(t) == IF t = Loop THEN visit ELSE home[t]
\* What the answer to the rpc of task t says, once it is there.
Tells(t, r) ==
    /\ at[t] = "sets" /\ r.ok => active = Wanted(t) /\ requests = <<>>
    /\ at[t] = "runs" /\ r.ok => r.call = t /\ r.studio = home[t]
    /\ at[t] = "lists" /\ t \in Launches /\ r.ok =>
          shown \subseteq r.list \cup {t} \/ t \in crowd \/ t \notin rows
    /\ at[t] = "looks" => r.list \subseteq pre[t] \cup {t} \/ t \in blind \cup crowd \/ t \notin rows
\* The request of task t.
Begun(t, q) ==
    /\ at[t] = "sets" => q.op = "set" /\ q.on = Wanted(t)
    /\ at[t] = "runs" => q.op = "tool" /\ q.on = t
    /\ at[t] = "lists" => q.op = "list"
Rpc(t) ==
    Busy(t) =>
        /\ Tells(t, result)
        /\ \A k \in 1..Len(replies) : replies[k].id = awaits => Tells(t, replies[k].result)
        /\ \A k \in 1..Len(requests) : requests[k].id = awaits => Begun(t, requests[k])
Rpcs == \A t \in McpTasks : Rpc(t)

IdsOwn == \A i \in DOMAIN domMcp : domMcp[i] \in {Nobody, i}
AnswersOwn ==
    \A c \in McpCalls : answer[c].ok =>
        at[c] = "over" /\ answer[c].call = c /\ answer[c].studio = home[c]

BridgeInv == McpTypes /\ IdsInOrder /\ Aimed /\ HoldsIt /\ Rpcs /\ IdsOwn /\ AnswersOwn

\* A launch that searches has seen every Studio but its own before, unless it is excused.
Searches(s) ==
    s \notin rows \/ s \in blind \cup crowd \/
        /\ at[s] \in {"polls", "looks", "picks"} => shown \subseteq pre[s] \cup {s}
        /\ at[s] = "picks" => listing[s] \subseteq pre[s] \cup {s}
PairsOwn ==
    \A s \in Launches :
        /\ Searches(s)
        /\ paired[s] # Nobody =>
              /\ s \in rows /\ at[s] = "over"
              /\ \A t \in Launches \ {s} : paired[t] # paired[s]
              /\ paired[s] = s \/ s \in blind \cup crowd

HostInv == BridgeInv /\ PairsOwn

-----------------------------------------------------------------------------
\* The places of a queue after a line has been added, and after one has been taken.
LEMMA LineAdded ==
    ASSUME NEW S, NEW q \in Seq(S), NEW m \in S
    PROVE  /\ Append(q, m) \in Seq(S) /\ Len(Append(q, m)) = Len(q) + 1 /\ Len(q) \in Nat
           /\ \A k \in 1..Len(q) : Append(q, m)[k] = q[k]
           /\ Append(q, m)[Len(q) + 1] = m
  OBVIOUS

LEMMA LineTaken ==
    ASSUME NEW S, NEW q \in Seq(S), q # <<>>
    PROVE  /\ Tail(q) \in Seq(S) /\ Len(Tail(q)) = Len(q) - 1 /\ Len(q) \in Nat \ {0}
           /\ Head(q) \in S /\ Head(q) = q[1]
           /\ \A k \in 1..Len(Tail(q)) : k + 1 \in 1..Len(q) /\ Tail(q)[k] = q[k + 1]
  OBVIOUS

LEMMA FailedResult == Failed \in McpResult /\ ~ Failed.ok /\ Failed.list = {}
  BY DEF McpResult, Failed

LEMMA DoneResult == Done \in McpResult /\ Done.ok /\ Done.list = {}
  BY DEF McpResult, Failed, Done

LEMMA ListResult ==
    ASSUME NEW l \in SUBSET Studios
    PROVE  LET r == [Done EXCEPT !.list = l]
           IN  r \in McpResult /\ r.ok /\ r.list = l
  BY DEF McpResult, Failed, Done

LEMMA CallResult ==
    ASSUME NEW c \in McpCalls, NEW i \in Studios \cup {Nobody}
    PROVE  LET r == [Done EXCEPT !.call = c, !.studio = i]
           IN  r \in McpResult /\ r.list = {} /\ r.ok /\ r.call = c /\ r.studio = i
  BY DEF McpResult, Failed, Done

-----------------------------------------------------------------------------
(* What an rpc does to the pipes *)

LEMMA AskTypes ==
    ASSUME PipeTypes, NEW op, NEW on, Ask(op, on), [id |-> next, op |-> op, on |-> on] \in McpRequest
    PROVE  PipeTypes'
<1> DEFINE m == [id |-> next, op |-> op, on |-> on]
<1>1. requests' = Append(requests, m) /\ m \in McpRequest /\ requests \in Seq(McpRequest)
    BY DEF Ask, PipeTypes
<1> HIDE DEF m
<1>2. requests' \in Seq(McpRequest)
    BY <1>1, LineAdded
<1> QED
    BY <1>2, FailedResult DEF Ask, PipeTypes

LEMMA SettleTypes ==
    ASSUME PipeTypes, Receive \/ ReadTimesOut \/ ReadsEnd
    PROVE  PipeTypes'
<1>1. CASE Receive
    <2>1. /\ replies' = Tail(replies) /\ replies # <<>> /\ replies \in Seq(McpReply)
          /\ UNCHANGED <<next, requests, active>>
          /\ (awaits' = 0 /\ result' \in {Failed, Head(replies).result}) \/ UNCHANGED <<awaits, result>>
        BY <1>1 DEF Receive, PipeTypes, Settle
    <2>2. replies' \in Seq(McpReply) /\ Head(replies) \in McpReply
        BY <2>1, LineTaken
    <2>3. Head(replies).result \in McpResult
        BY <2>2 DEF McpReply
    <2> QED
        BY <2>1, <2>2, <2>3, FailedResult DEF PipeTypes
<1>2. CASE ReadTimesOut \/ ReadsEnd
    BY <1>2, FailedResult DEF ReadTimesOut, ReadsEnd, Settle, PipeTypes
<1> QED
    BY <1>1, <1>2

LEMMA IdleTypes ==
    ASSUME PipeTypes, UNCHANGED <<next, awaits, replies, active>>,
           result' \in {result, Failed}, requests' \in {requests, <<>>}
    PROVE  PipeTypes'
<1>1. result' \in McpResult
    BY FailedResult DEF PipeTypes
<1>2. CASE requests' = requests
    BY <1>1, <1>2 DEF PipeTypes
<1>3. CASE requests' = <<>>
    BY <1>1, <1>3 DEF PipeTypes
<1> QED
    BY <1>2, <1>3

\* What StudioMCP answers.
Answers(q, r) ==
    /\ q.op = "list" => r.ok /\ r.list = shown
    /\ q.op # "list" => r.list = {}
    /\ q.op = "set" /\ r.ok => active' = q.on
    /\ q.op = "tool" /\ r.ok => r.call = q.on /\ r.studio = active
    /\ q.op # "set" => active' = active

LEMMA ServeResult ==
    ASSUME PipeTypes, TaskTypes, McpServes
    PROVE  \E r \in McpResult :
              /\ replies' = Append(replies, [id |-> Head(requests).id, result |-> r])
              /\ Answers(Head(requests), r)
              /\ active' \in {active, Head(requests).on} /\ active' \in Studios \cup {Nobody}
<1> DEFINE q == Head(requests)
           there == active \in shown
           R == CASE q.op = "list" -> [Done EXCEPT !.list = shown]
                  [] q.op = "set" -> IF q.on \in shown THEN Done ELSE Failed
                  [] q.op = "luau" -> IF there THEN Done ELSE Failed
                  [] q.op = "tool" -> IF there THEN [Done EXCEPT !.call = q.on, !.studio = active] ELSE Failed
<1>1. requests \in Seq(McpRequest) /\ requests # <<>>
    BY DEF McpServes, PipeTypes
<1>2. q \in McpRequest
    BY <1>1, LineTaken
<1>3. /\ replies' = Append(replies, [id |-> q.id, result |-> R])
      /\ active' = IF q.op = "set" /\ q.on \in shown THEN q.on ELSE active
    BY DEF McpServes
<1>4. q.op \in McpOps /\ (q.op = "tool" => q.on \in McpCalls)
    BY <1>2 DEF McpRequest, McpOps
<1>5. shown \subseteq Studios /\ active \in Studios \cup {Nobody}
    BY DEF PipeTypes, TaskTypes
<1>6. active' \in Studios \cup {Nobody} /\ active' \in {active, q.on}
    BY <1>3, <1>5
<1> HIDE DEF q
<1>7. R \in McpResult /\ Answers(q, R)
    <2>1. CASE q.op = "list"
        <3>1. R = [Done EXCEPT !.list = shown]
            BY <2>1
        <3>2. R \in McpResult /\ R.ok /\ R.list = shown
            BY <3>1, <1>5, ListResult
        <3> HIDE DEF R
        <3> QED
            BY <2>1, <3>2, <1>3 DEF Answers
    <2>2. CASE q.op = "set"
        <3>1. R = IF q.on \in shown THEN Done ELSE Failed
            BY <2>2
        <3> HIDE DEF R
        <3> QED
            BY <2>2, <3>1, <1>3, DoneResult, FailedResult DEF Answers
    <2>3. CASE q.op = "luau"
        <3>1. R = IF there THEN Done ELSE Failed
            BY <2>3
        <3> HIDE DEF R
        <3> QED
            BY <2>3, <3>1, <1>3, DoneResult, FailedResult DEF Answers
    <2>4. CASE q.op = "tool"
        <3>1. R = IF there THEN [Done EXCEPT !.call = q.on, !.studio = active] ELSE Failed
            BY <2>4
        <3>2. R \in McpResult /\ R.list = {} /\ (R.ok => R.call = q.on /\ R.studio = active)
            <4>1. CASE there
                BY <4>1, <3>1, <1>4, <1>5, <2>4, CallResult
            <4>2. CASE ~ there
                BY <4>2, <3>1, FailedResult
            <4> QED
                BY <4>1, <4>2
        <3> HIDE DEF R
        <3> QED
            BY <2>4, <3>2, <1>3 DEF Answers
    <2> QED
        BY <1>4, <2>1, <2>2, <2>3, <2>4 DEF McpOps
<1> HIDE DEF R
<1> QED
    BY <1>3, <1>6, <1>7 DEF q

LEMMA ServeTypes ==
    ASSUME PipeTypes, TaskTypes, McpServes
    PROVE  PipeTypes'
<1>1. PICK r \in McpResult :
          /\ replies' = Append(replies, [id |-> Head(requests).id, result |-> r])
          /\ active' \in Studios \cup {Nobody}
    BY ServeResult
<1>2. requests \in Seq(McpRequest) /\ requests # <<>> /\ requests' = Tail(requests)
    BY DEF McpServes, PipeTypes
<1>3. requests' \in Seq(McpRequest) /\ Head(requests) \in McpRequest
    BY <1>2, LineTaken
<1> DEFINE m == [id |-> Head(requests).id, result |-> r]
<1>4. m \in McpReply
    BY <1>3 DEF McpReply, McpRequest
<1>5. replies' = Append(replies, m) /\ replies \in Seq(McpReply)
    BY <1>1 DEF PipeTypes
<1> HIDE DEF m
<1>6. replies' \in Seq(McpReply)
    BY <1>4, <1>5, LineAdded
<1> QED
    BY <1>1, <1>3, <1>6 DEF PipeTypes, McpServes

-----------------------------------------------------------------------------
(* Types *)

\* Every step asks, settles or serves, or leaves the pipes alone but for what it drops.
Idles ==
    /\ UNCHANGED <<next, awaits, replies, active>>
    /\ result' \in {result, Failed} /\ requests' \in {requests, <<>>}
Asks(op, on) == Ask(op, on) /\ [id |-> next, op |-> op, on |-> on] \in McpRequest

LEMMA PlaceMoves ==
    ASSUME TaskTypes, NEW t \in McpTasks, NEW from, NEW to, Passes(t, from, to),
           \/ t = Loop /\ to \in LoopPlaces
           \/ t \in McpCalls /\ to \in CallPlaces
           \/ t \in Launches /\ to \in LaunchPlaces
    PROVE  /\ at' \in [McpTasks -> LoopPlaces \cup CallPlaces \cup LaunchPlaces]
           /\ at'[Loop] \in LoopPlaces
           /\ \A c \in McpCalls : at'[c] \in CallPlaces
           /\ \A s \in Launches : at'[s] \in LaunchPlaces
           /\ at[t] = from /\ at'[t] = to
           /\ \A u \in McpTasks \ {t} : at'[u] = at[u]
<1>1. at' = [at EXCEPT ![t] = to] /\ at[t] = from /\ at \in [McpTasks -> LoopPlaces \cup CallPlaces \cup LaunchPlaces]
    BY DEF Passes, TaskTypes
<1>2. at'[t] = to /\ \A u \in McpTasks \ {t} : at'[u] = at[u]
    BY <1>1
<1>3. at' \in [McpTasks -> LoopPlaces \cup CallPlaces \cup LaunchPlaces]
    BY <1>1
<1>4. at'[Loop] \in LoopPlaces
    BY <1>2, McpAssumption DEF TaskTypes, McpTasks
<1>5. ASSUME NEW c \in McpCalls
      PROVE  at'[c] \in CallPlaces
    BY <1>2, McpAssumption DEF TaskTypes, McpTasks
<1>6. ASSUME NEW s \in Launches
      PROVE  at'[s] \in LaunchPlaces
    BY <1>2, McpAssumption DEF TaskTypes, McpTasks
<1> QED
    BY <1>1, <1>2, <1>3, <1>4, <1>5, <1>6

LEMMA LoopTypes ==
    ASSUME McpTypes, LoopStep
    PROVE  /\ TaskTypes'
           /\ Idles \/ \E op, on : Asks(op, on)
<1> USE DEF LoopPlaces, McpTasks, TaskTypes
<1>1. result \in McpResult /\ result.list \subseteq Studios
    BY DEF McpTypes, PipeTypes, McpResult
<1>2. CASE LoopLists
    <2>1. Passes(Loop, "idle", "lists") /\ Takes(Loop) /\ Asks("list", Nobody)
        BY <1>2 DEF LoopLists, Asks, McpRequest, McpTypes, PipeTypes
    <2> QED
        BY <1>2, <2>1, PlaceMoves DEF LoopLists, McpTypes, Takes, studioVars, launchVars, callVars
<1>3. CASE LoopListed
    BY <1>1, <1>3, PlaceMoves DEF LoopListed, McpTypes, Keeps, studioVars, launchVars, callVars, pipeVars, Idles
<1>4. CASE LoopSets
    <2>1. Passes(Loop, "visits", "sets") /\ Keeps(Loop) /\ Asks("set", visit') /\ visit' \in Studios
        BY <1>4 DEF LoopSets, Asks, McpRequest, McpTypes, PipeTypes
    <2> QED
        BY <1>4, <2>1, PlaceMoves DEF LoopSets, McpTypes, Keeps, studioVars, launchVars, callVars
<1>5. CASE LoopSkips
    BY <1>5, PlaceMoves DEF LoopSkips, McpTypes, Keeps, studioVars, launchVars, callVars, pipeVars, Idles
<1>6. CASE LoopFires
    <2>1. Passes(Loop, "sets", "fires") /\ Keeps(Loop) /\ Asks("luau", visit)
        BY <1>6 DEF LoopFires, Asks, McpRequest, McpTypes, PipeTypes
    <2> QED
        BY <1>6, <2>1, PlaceMoves DEF LoopFires, McpTypes, Keeps, studioVars, launchVars, callVars
<1>7. CASE LoopFired
    BY <1>7, PlaceMoves DEF LoopFired, McpTypes, Keeps, studioVars, launchVars, callVars, pipeVars, Idles
<1>8. CASE LoopEnds
    BY <1>8, PlaceMoves DEF LoopEnds, McpTypes, Release, studioVars, launchVars, callVars, Idles
<1> QED
    BY <1>2, <1>3, <1>4, <1>5, <1>6, <1>7, <1>8 DEF LoopStep

CallStep(c) == CallComes(c) \/ CallSets(c) \/ CallFails(c) \/ CallRuns(c) \/ CallAnswered(c)
LaunchStep(s) ==
    \/ LaunchLists(s) \/ LaunchListed(s) \/ LaunchPolls(s) \/ LaunchPolled(s) \/ LaunchPicks(s)
    \/ LaunchGivesUp(s) \/ LaunchCloses(s)

LEMMA CallTypes ==
    ASSUME McpTypes, IdsOwn, NEW c \in McpCalls, CallStep(c)
    PROVE  /\ TaskTypes'
           /\ Idles \/ \E op, on : Asks(op, on)
<1> USE DEF CallPlaces, McpTasks, TaskTypes
<1>1. CASE CallComes(c)
    <2>1. PICK i \in DOMAIN domMcp : home' = [home EXCEPT ![c] = i]
        BY <1>1 DEF CallComes
    <2>2. home' \in [McpCalls -> Studios \cup {Nobody}]
        BY <2>1 DEF McpTypes
    <2> QED
        BY <1>1, <2>2, PlaceMoves DEF CallComes, McpTypes, studioVars, launchVars, pipeVars, Idles
<1>2. CASE CallSets(c)
    <2>1. domMcp[home[c]] \in Studios
        BY <1>2 DEF CallSets, IdsOwn, McpTypes
    <2>2. Passes(c, "waits", "sets") /\ Takes(c) /\ Asks("set", domMcp[home[c]])
        BY <1>2, <2>1 DEF CallSets, Asks, McpRequest, McpTypes, PipeTypes
    <2> QED
        BY <1>2, <2>2, PlaceMoves DEF CallSets, McpTypes, Takes, studioVars, launchVars, callVars
<1>3. CASE CallFails(c)
    <2>1. PICK from \in {"waits", "sets"} : Passes(c, from, "over")
        BY <1>3 DEF CallFails
    <2>2. holder' \in {holder, Nobody} /\ Idles
        BY <1>3 DEF CallFails, Release, pipeVars, Idles
    <2> QED
        BY <1>3, <2>1, <2>2, PlaceMoves DEF CallFails, McpTypes, studioVars, launchVars, callVars
<1>4. CASE CallRuns(c)
    <2>1. Passes(c, "sets", "runs") /\ Keeps(c) /\ Asks("tool", c)
        BY <1>4 DEF CallRuns, Asks, McpRequest, McpTypes, PipeTypes
    <2> QED
        BY <1>4, <2>1, PlaceMoves DEF CallRuns, McpTypes, Keeps, studioVars, launchVars, callVars
<1>5. CASE CallAnswered(c)
    <2>1. answer' = [answer EXCEPT ![c] = result] /\ result \in McpResult /\ answer \in [McpCalls -> McpResult]
        BY <1>5 DEF CallAnswered, McpTypes, PipeTypes
    <2>2. answer' \in [McpCalls -> McpResult]
        BY <2>1
    <2> QED
        BY <1>5, <2>2, PlaceMoves DEF CallAnswered, McpTypes, Release, studioVars, launchVars, Idles
<1> QED
    BY <1>1, <1>2, <1>3, <1>4, <1>5 DEF CallStep

LEMMA SearchTypes ==
    ASSUME McpTypes, NEW s \in Launches, LaunchStep(s)
    PROVE  /\ TaskTypes'
           /\ Idles \/ \E op, on : Asks(op, on)
<1> USE DEF LaunchPlaces, McpTasks, TaskTypes
<1>1. result \in McpResult /\ result.list \subseteq Studios
    BY DEF McpTypes, PipeTypes, McpResult
<1>2. CASE LaunchLists(s)
    <2>1. CASE up = "no"
        BY <1>2, <2>1, PlaceMoves DEF LaunchLists, McpTypes, studioVars, callVars, pipeVars, Idles
    <2>2. CASE up # "no"
        <3>1. Passes(s, "idle", "lists") /\ holder' = s /\ Asks("list", Nobody)
            BY <1>2, <2>2 DEF LaunchLists, Asks, McpRequest, McpTypes, PipeTypes
        <3> QED
            BY <1>2, <3>1, PlaceMoves DEF LaunchLists, McpTypes, studioVars, callVars
    <2> QED
        BY <2>1, <2>2
<1>3. CASE LaunchListed(s)
    <2>1. pre' \in [Launches -> SUBSET Studios]
        BY <1>1, <1>3 DEF LaunchListed, McpTypes
    <2> QED
        BY <1>3, <2>1, PlaceMoves DEF LaunchListed, McpTypes, Release, studioVars, callVars, Idles
<1>4. CASE LaunchPolls(s)
    <2>1. Passes(s, "polls", "looks") /\ Takes(s) /\ Asks("list", Nobody)
        BY <1>4 DEF LaunchPolls, Asks, McpRequest, McpTypes, PipeTypes
    <2> QED
        BY <1>4, <2>1, PlaceMoves DEF LaunchPolls, McpTypes, Takes, studioVars, launchVars, callVars
<1>5. CASE LaunchPolled(s)
    <2>1. listing' \in [Launches -> SUBSET Studios]
        BY <1>1, <1>5 DEF LaunchPolled, McpTypes
    <2>2. PICK to \in {"picks", "polls"} : Passes(s, "looks", to)
        BY <1>5 DEF LaunchPolled
    <2> QED
        BY <1>5, <2>1, <2>2, PlaceMoves DEF LaunchPolled, McpTypes, Release, studioVars, callVars, Idles
<1>6. CASE LaunchPicks(s)
    <2>1. listing' \in [Launches -> SUBSET Studios] /\ pre' \in [Launches -> SUBSET Studios]
        BY <1>6 DEF LaunchPicks, McpTypes
    <2>2. NewIds(s) \subseteq Studios
        BY DEF NewIds, McpTypes
    <2>3. paired' \in [Launches -> Studios \cup {Nobody}]
        BY <1>6, <2>2 DEF LaunchPicks, McpTypes
    <2>4. PICK to \in {"polls", "over"} : Passes(s, "picks", to)
        BY <1>6 DEF LaunchPicks
    <2> QED
        BY <1>6, <2>1, <2>3, <2>4, PlaceMoves DEF LaunchPicks, McpTypes, studioVars, callVars, pipeVars, Idles
<1>7. CASE LaunchGivesUp(s)
    <2>1. pre' \in [Launches -> SUBSET Studios]
        BY <1>7 DEF LaunchGivesUp, McpTypes
    <2> QED
        BY <1>7, <2>1, PlaceMoves DEF LaunchGivesUp, McpTypes, studioVars, callVars, pipeVars, Idles
<1>8. CASE LaunchCloses(s)
    BY <1>8 DEF LaunchCloses, McpTypes, callVars, pipeVars, Idles
<1> QED
    BY <1>2, <1>3, <1>4, <1>5, <1>6, <1>7, <1>8 DEF LaunchStep

\* What StudioMCP and the Studios do.
HostStep == McpServes \/ McpConnects \/ McpDies \/ \E i \in Studios : ComesUp(i) \/ Quits(i)

LEMMA HostTypes ==
    ASSUME McpTypes, HostStep \/ Pipe
    PROVE  TaskTypes' /\ (Idles \/ McpServes \/ Pipe)
<1>1. CASE McpServes
    BY <1>1 DEF McpServes, McpTypes, TaskTypes, launchVars, callVars
<1>2. CASE McpConnects \/ McpDies
    BY <1>2 DEF McpConnects, McpDies, McpTypes, TaskTypes, studioVars, launchVars, callVars, Idles
<1>3. CASE Pipe
    BY <1>3 DEF Pipe, McpTypes, TaskTypes, studioVars, launchVars, callVars
<1>4. ASSUME NEW i \in Studios, ComesUp(i) \/ Quits(i)
      PROVE  TaskTypes' /\ Idles
    BY <1>4 DEF ComesUp, Quits, McpTypes, TaskTypes, launchVars, callVars, pipeVars, Idles
<1> QED
    BY <1>1, <1>2, <1>3, <1>4 DEF HostStep

LEMMA McpSteps ==
    ASSUME McpNext
    PROVE  \/ Pipe \/ HostStep \/ LoopStep
           \/ \E c \in McpCalls : CallStep(c)
           \/ \E s \in Launches : LaunchStep(s)
  BY DEF McpNext, HostStep, CallStep, LaunchStep

\* What a step does to the pipes.
LEMMA PipeSteps ==
    ASSUME McpTypes, IdsOwn, McpNext
    PROVE  TaskTypes' /\ (Idles \/ McpServes \/ Pipe \/ \E op, on : Asks(op, on))
  BY McpSteps, HostTypes, LoopTypes, CallTypes, SearchTypes

LEMMA McpTypesStep ==
    ASSUME McpTypes, IdsOwn, McpNext
    PROVE  McpTypes'
<1>1. TaskTypes' /\ PipeTypes
    BY PipeSteps DEF McpTypes
<1>2. CASE Idles
    BY <1>1, <1>2, IdleTypes DEF Idles, McpTypes
<1>3. CASE McpServes
    BY <1>1, <1>3, ServeTypes DEF McpTypes
<1>4. CASE Pipe
    BY <1>1, <1>4, SettleTypes DEF Pipe, McpTypes
<1>5. ASSUME NEW op, NEW on, Asks(op, on)
      PROVE  PipeTypes'
    BY <1>1, <1>5, AskTypes DEF Asks
<1> QED
    BY <1>1, <1>2, <1>3, <1>4, <1>5, PipeSteps DEF McpTypes

-----------------------------------------------------------------------------
(* Ids *)

\* What a line sent, and a line answered, does to every place of the pipes.
LEMMA AskPlaces ==
    ASSUME PipeTypes, NEW op, NEW on, Asks(op, on)
    PROVE  /\ Len(requests) \in Nat /\ Len(requests') = Len(requests) + 1
           /\ \A k \in 1..Len(requests) : requests'[k] = requests[k]
           /\ requests'[Len(requests) + 1].id = next
           /\ requests'[Len(requests) + 1].op = op /\ requests'[Len(requests) + 1].on = on
           /\ next' = next + 1 /\ awaits' = next /\ result' = Failed
           /\ UNCHANGED <<up, replies, active>>
<1> DEFINE m == [id |-> next, op |-> op, on |-> on]
<1>1. requests' = Append(requests, m) /\ m \in McpRequest /\ requests \in Seq(McpRequest)
    BY DEF Asks, Ask, PipeTypes
<1>2. next' = next + 1 /\ awaits' = next /\ result' = Failed /\ UNCHANGED <<up, replies, active>>
    BY DEF Asks, Ask
<1> HIDE DEF m
<1>3. /\ Len(requests) \in Nat /\ Len(requests') = Len(requests) + 1
      /\ \A k \in 1..Len(requests) : requests'[k] = requests[k]
      /\ requests'[Len(requests) + 1] = m
    BY <1>1, LineAdded
<1>4. m.id = next /\ m.op = op /\ m.on = on
    BY DEF m
<1> QED
    BY <1>2, <1>3, <1>4

LEMMA ServePlaces ==
    ASSUME PipeTypes, TaskTypes, McpServes
    PROVE  \E r \in McpResult :
              /\ Len(requests) \in Nat \ {0} /\ Len(requests') = Len(requests) - 1
              /\ \A k \in 1..Len(requests') : k + 1 \in 1..Len(requests) /\ requests'[k] = requests[k + 1]
              /\ Len(replies) \in Nat /\ Len(replies') = Len(replies) + 1
              /\ \A k \in 1..Len(replies) : replies'[k] = replies[k]
              /\ replies'[Len(replies) + 1].id = requests[1].id /\ replies'[Len(replies) + 1].result = r
              /\ Answers(requests[1], r) /\ requests[1] \in McpRequest
              /\ active' \in {active, requests[1].on}
              /\ UNCHANGED <<up, next, awaits, result>>
<1>1. requests \in Seq(McpRequest) /\ requests # <<>> /\ requests' = Tail(requests)
      /\ UNCHANGED <<up, next, awaits, result>>
    BY DEF McpServes, PipeTypes
<1>2. /\ Len(requests) \in Nat \ {0} /\ Len(requests') = Len(requests) - 1
      /\ \A k \in 1..Len(requests') : k + 1 \in 1..Len(requests) /\ requests'[k] = requests[k + 1]
      /\ Head(requests) = requests[1] /\ requests[1] \in McpRequest
    BY <1>1, LineTaken
<1>3. PICK r \in McpResult :
          /\ replies' = Append(replies, [id |-> requests[1].id, result |-> r])
          /\ Answers(requests[1], r)
          /\ active' \in {active, requests[1].on}
    BY <1>2, ServeResult
<1> DEFINE m == [id |-> requests[1].id, result |-> r]
<1>4. m \in McpReply
    BY <1>2 DEF McpReply, McpRequest
<1>5. replies \in Seq(McpReply) /\ replies' = Append(replies, m)
    BY <1>3 DEF PipeTypes
<1> HIDE DEF m
<1>6. /\ Len(replies) \in Nat /\ Len(replies') = Len(replies) + 1
      /\ \A k \in 1..Len(replies) : replies'[k] = replies[k]
      /\ replies'[Len(replies) + 1] = m
    BY <1>4, <1>5, LineAdded
<1>7. m.id = requests[1].id /\ m.result = r
    BY DEF m
<1> QED
    BY <1>1, <1>2, <1>3, <1>6, <1>7

LEMMA ReadPlaces ==
    ASSUME PipeTypes, Pipe
    PROVE  /\ UNCHANGED <<up, next, requests, active>>
           /\ Len(replies) \in Nat /\ Len(replies') \in Nat
           /\ \A k \in 1..Len(replies') : \E j \in 1..Len(replies) : replies'[k] = replies[j]
           /\ \/ awaits' = 0 /\ result' = Failed
              \/ UNCHANGED <<awaits, result>>
              \/ awaits' = 0 /\ \E j \in 1..Len(replies) : replies[j].id = awaits /\ result' = replies[j].result
<1>1. replies \in Seq(McpReply) /\ Len(replies) \in Nat
    BY DEF PipeTypes
<1>2. CASE Receive
    <2>1. replies # <<>> /\ replies' = Tail(replies) /\ UNCHANGED <<up, next, requests, active>>
        BY <1>2 DEF Receive
    <2>2. /\ Len(replies') \in Nat /\ 1 \in 1..Len(replies) /\ Head(replies) = replies[1]
          /\ \A k \in 1..Len(replies') : k + 1 \in 1..Len(replies) /\ replies'[k] = replies[k + 1]
        BY <1>1, <2>1, LineTaken
    <2>3. \/ awaits' = 0 /\ result' = Failed
          \/ UNCHANGED <<awaits, result>>
          \/ awaits' = 0 /\ replies[1].id = awaits /\ result' = replies[1].result
        BY <1>2, <2>2 DEF Receive, Settle
    <2> QED
        BY <1>1, <2>1, <2>2, <2>3
<1>3. CASE ReadTimesOut \/ ReadsEnd
    BY <1>1, <1>3 DEF ReadTimesOut, ReadsEnd, Settle
<1> QED
    BY <1>2, <1>3 DEF Pipe

LEMMA IdsStep ==
    ASSUME McpTypes, IdsOwn, IdsInOrder, McpNext
    PROVE  IdsInOrder'
<1>1. /\ next \in Nat /\ awaits \in Nat /\ next > 0
      /\ (awaits # 0 => awaits = next - 1 /\ result = Failed)
      /\ \A k \in 1..Len(requests) : requests[k].id \in 1..(next - 1)
      /\ \A k \in 1..Len(replies) : replies[k].id \in 1..(next - 1)
      /\ \A j, k \in 1..Len(requests) : j < k => requests[j].id < requests[k].id
    BY DEF McpTypes, PipeTypes, IdsInOrder
<1>2. ASSUME NEW op, NEW on, Asks(op, on)
      PROVE  IdsInOrder'
    <2>1. /\ Len(requests) \in Nat /\ Len(requests') = Len(requests) + 1
          /\ \A k \in 1..Len(requests) : requests'[k] = requests[k]
          /\ requests'[Len(requests) + 1].id = next
          /\ next' = next + 1 /\ awaits' = next /\ result' = Failed /\ replies' = replies
        BY <1>2, AskPlaces DEF McpTypes
    <2>2. \A k \in 1..Len(requests') : k \in 1..Len(requests) \/ k = Len(requests) + 1
        BY <2>1
    <2>3. \A k \in 1..Len(requests') : requests'[k].id \in 1..next
        BY <1>1, <2>1, <2>2
    <2>4. \A j, k \in 1..Len(requests') : j < k => requests'[j].id < requests'[k].id
        BY <1>1, <2>1, <2>2
    <2> QED
        BY <1>1, <2>1, <2>3, <2>4 DEF IdsInOrder
<1>3. CASE Idles
    <2>1. UNCHANGED <<next, awaits, replies>> /\ result' \in {result, Failed} /\ requests' \in {requests, <<>>}
        BY <1>3 DEF Idles
    <2> QED
        BY <1>1, <2>1 DEF IdsInOrder
<1>4. CASE McpServes
    <2>1. /\ UNCHANGED <<next, awaits, result>>
          /\ Len(requests) \in Nat \ {0} /\ Len(requests') = Len(requests) - 1
          /\ \A k \in 1..Len(requests') : k + 1 \in 1..Len(requests) /\ requests'[k] = requests[k + 1]
          /\ Len(replies) \in Nat /\ Len(replies') = Len(replies) + 1
          /\ \A k \in 1..Len(replies) : replies'[k] = replies[k]
          /\ replies'[Len(replies) + 1].id = requests[1].id
        <3>1. PipeTypes /\ TaskTypes
            BY DEF McpTypes
        <3> QED
            BY <3>1, <1>4, ServePlaces
    <2>2. ASSUME NEW k \in 1..Len(replies')
          PROVE  replies'[k].id \in 1..(next - 1)
        <3>1. k \in 1..Len(replies) \/ k = Len(replies) + 1
            BY <2>1
        <3>2. requests[1].id \in 1..(next - 1)
            <4>1. 1 \in 1..Len(requests)
                BY <2>1
            <4> QED
                BY <1>1, <4>1
        <3>3. CASE k \in 1..Len(replies)
            BY <1>1, <2>1, <3>3
        <3>4. CASE k = Len(replies) + 1
            BY <2>1, <3>2, <3>4
        <3> QED
            BY <3>1, <3>3, <3>4
    <2>3. ASSUME NEW j \in 1..Len(requests'), NEW k \in 1..Len(requests'), j < k
          PROVE  requests'[j].id < requests'[k].id
        <3>1. /\ j + 1 \in 1..Len(requests) /\ requests'[j] = requests[j + 1]
              /\ k + 1 \in 1..Len(requests) /\ requests'[k] = requests[k + 1]
              /\ j + 1 < k + 1
            BY <2>1, <2>3
        <3> QED
            BY <1>1, <3>1
    <2> QED
        BY <1>1, <2>1, <2>2, <2>3 DEF IdsInOrder
<1>5. CASE Pipe
    <2>1. /\ UNCHANGED <<next, requests>>
          /\ \A k \in 1..Len(replies') : \E j \in 1..Len(replies) : replies'[k] = replies[j]
          /\ awaits' = 0 \/ UNCHANGED <<awaits, result>>
        BY <1>5, ReadPlaces DEF McpTypes
    <2> QED
        BY <1>1, <2>1 DEF IdsInOrder
<1> QED
    BY <1>2, <1>3, <1>4, <1>5, PipeSteps

-----------------------------------------------------------------------------
(* Who holds the client *)

\* What a step of task t may do to the others: it has the client or takes it, or
\* leaves it alone.
Turn(t) ==
    /\ \A u \in McpTasks \ {t} : at'[u] = at[u]
    /\ Busy(t)' => holder' = t
    /\ \/ holder \in {t, Nobody}
       \/ UNCHANGED <<pipeVars, holder>>

LEMMA LoopTurn ==
    ASSUME McpTypes, LoopStep
    PROVE  Turn(Loop)
<1>1. PICK from, to \in LoopPlaces : Passes(Loop, from, to)
    BY DEF LoopStep, LoopLists, LoopListed, LoopSets, LoopSkips, LoopFires, LoopFired, LoopEnds, LoopPlaces
<1>2. at'[Loop] = to /\ \A u \in McpTasks \ {Loop} : at'[u] = at[u]
    BY <1>1, PlaceMoves DEF McpTypes, McpTasks
<1>3. holder \in {Loop, Nobody}
    BY DEF LoopStep, LoopLists, LoopListed, LoopSets, LoopSkips, LoopFires, LoopFired, LoopEnds, Takes, Keeps
<1>4. holder' = Loop \/ LoopEnds
    BY DEF LoopStep, LoopLists, LoopListed, LoopSets, LoopSkips, LoopFires, LoopFired, Takes, Keeps
<1>5. LoopEnds => at'[Loop] = "idle"
    BY PlaceMoves DEF LoopEnds, LoopPlaces, McpTypes, McpTasks
<1> QED
    BY <1>2, <1>3, <1>4, <1>5 DEF Turn, Busy

LEMMA CallTurn ==
    ASSUME McpTypes, NEW c \in McpCalls, CallStep(c)
    PROVE  Turn(c) /\ at[c] # "over" /\ (at[c] = "runs" => at'[c] = "over")
<1>1. PICK from, to \in CallPlaces : Passes(c, from, to) /\ from # "over" /\ (from = "runs" => to = "over")
    BY DEF CallStep, CallComes, CallSets, CallFails, CallRuns, CallAnswered, CallPlaces
<1>2. at[c] = from /\ at'[c] = to /\ \A u \in McpTasks \ {c} : at'[u] = at[u]
    BY <1>1, PlaceMoves DEF McpTypes, McpTasks
<1>3. holder \in {c, Nobody} \/ UNCHANGED <<pipeVars, holder>>
    BY DEF CallStep, CallComes, CallSets, CallFails, CallRuns, CallAnswered, Takes, Keeps
<1>4. holder' = c \/ Passes(c, "idle", "waits") \/ \E p \in CallPlaces : Passes(c, p, "over")
    BY DEF CallStep, CallComes, CallSets, CallFails, CallRuns, CallAnswered, Takes, Keeps, CallPlaces
<1>5. holder' = c \/ at'[c] \in {"waits", "over"}
    BY <1>4, PlaceMoves DEF CallPlaces, McpTypes, McpTasks
<1> QED
    BY <1>1, <1>2, <1>3, <1>5 DEF Turn, Busy

LEMMA LaunchTurn ==
    ASSUME McpTypes, HoldsIt, NEW s \in Launches, LaunchStep(s)
    PROVE  Turn(s)
<1>1. CASE LaunchCloses(s)
    BY <1>1 DEF LaunchCloses, Turn, Busy, HoldsIt, McpTasks
<1>2. CASE ~ LaunchCloses(s)
    <2>1. PICK from, to \in LaunchPlaces : Passes(s, from, to)
        BY <1>2 DEF LaunchStep, LaunchLists, LaunchListed, LaunchPolls, LaunchPolled, LaunchPicks, LaunchGivesUp, LaunchPlaces
    <2>2. at'[s] = to /\ \A u \in McpTasks \ {s} : at'[u] = at[u]
        BY <2>1, PlaceMoves DEF McpTypes, McpTasks
    <2>3. holder \in {s, Nobody} \/ UNCHANGED <<pipeVars, holder>>
        BY <1>2 DEF LaunchStep, LaunchLists, LaunchListed, LaunchPolls, LaunchPolled, LaunchPicks, LaunchGivesUp, Takes
    <2>4. holder' = s \/ \E p \in LaunchPlaces, q \in {"polls", "picks", "over"} : Passes(s, p, q)
        BY <1>2 DEF LaunchStep, LaunchLists, LaunchListed, LaunchPolls, LaunchPolled, LaunchPicks, LaunchGivesUp, Takes, LaunchPlaces
    <2>5. holder' = s \/ at'[s] \in {"polls", "picks", "over"}
        BY <2>4, PlaceMoves DEF LaunchPlaces, McpTypes, McpTasks
    <2> QED
        BY <2>2, <2>3, <2>5 DEF Turn, Busy
<1> QED
    BY <1>1, <1>2

LEMMA HoldsStep ==
    ASSUME McpTypes, HoldsIt, McpNext
    PROVE  HoldsIt'
<1>1. ASSUME NEW t \in McpTasks, Turn(t)
      PROVE  HoldsIt'
    <2>1. ASSUME NEW u \in McpTasks, u # t, Busy(u)'
          PROVE  holder' = u
        <3>1. Busy(u) /\ holder = u /\ u # Nobody
            BY <1>1, <2>1, McpAssumption DEF Turn, Busy, HoldsIt
        <3> QED
            BY <1>1, <2>1, <3>1 DEF Turn
    <2> QED
        BY <1>1, <2>1 DEF Turn, HoldsIt
<1>2. CASE HostStep \/ Pipe
    BY <1>2 DEF HostStep, McpServes, McpConnects, McpDies, ComesUp, Quits, Pipe, HoldsIt, Busy
<1>3. CASE LoopStep
    BY <1>1, <1>3, LoopTurn DEF McpTasks
<1>4. ASSUME NEW c \in McpCalls, CallStep(c)
      PROVE  HoldsIt'
    BY <1>1, <1>4, CallTurn DEF McpTasks
<1>5. ASSUME NEW s \in Launches, LaunchStep(s)
      PROVE  HoldsIt'
    BY <1>1, <1>5, LaunchTurn DEF McpTasks
<1> QED
    BY <1>2, <1>3, <1>4, <1>5, McpSteps

\* A call is where it was, with what it was told, unless it takes a step.
Stays(c) == at'[c] = at[c] /\ home'[c] = home[c] /\ answer'[c] = answer[c]

LEMMA CallsStay ==
    ASSUME McpTypes, HoldsIt, McpNext, NEW c \in McpCalls
    PROVE  Stays(c) \/ CallStep(c)
<1>0. c \in McpTasks /\ Loop # c /\ c \notin Launches
    BY McpAssumption DEF McpTasks
<1>1. CASE HostStep \/ Pipe
    BY <1>1 DEF HostStep, McpServes, McpConnects, McpDies, ComesUp, Quits, Pipe, Stays, callVars
<1>2. CASE LoopStep
    <2>1. at'[c] = at[c]
        BY <1>0, <1>2, LoopTurn DEF Turn
    <2>2. UNCHANGED callVars
        BY <1>2 DEF LoopStep, LoopLists, LoopListed, LoopSets, LoopSkips, LoopFires, LoopFired, LoopEnds
    <2> QED
        BY <2>1, <2>2 DEF Stays, callVars
<1>3. ASSUME NEW s \in Launches, LaunchStep(s)
      PROVE  Stays(c)
    <2>1. at'[c] = at[c]
        BY <1>0, <1>3, LaunchTurn DEF Turn
    <2>2. UNCHANGED callVars
        BY <1>3 DEF LaunchStep, LaunchLists, LaunchListed, LaunchPolls, LaunchPolled, LaunchPicks, LaunchGivesUp, LaunchCloses
    <2> QED
        BY <2>1, <2>2 DEF Stays, callVars
<1>4. ASSUME NEW b \in McpCalls, b # c, CallStep(b)
      PROVE  Stays(c)
    <2>1. at'[c] = at[c]
        BY <1>0, <1>4, CallTurn DEF Turn
    <2>2. home \in [McpCalls -> Studios \cup {Nobody}] /\ answer \in [McpCalls -> McpResult]
        BY DEF McpTypes, TaskTypes
    <2>3. home'[c] = home[c] /\ answer'[c] = answer[c]
        BY <1>4, <2>2 DEF CallStep, CallComes, CallSets, CallFails, CallRuns, CallAnswered, callVars
    <2> QED
        BY <2>1, <2>3 DEF Stays
<1> QED
    BY <1>1, <1>2, <1>3, <1>4, McpSteps

-----------------------------------------------------------------------------
(* Where tools and snippets run *)

LEMMA IdsOwnStep ==
    ASSUME McpTypes, Aimed, IdsOwn, McpNext
    PROVE  IdsOwn'
<1>1. CASE McpServes
    <2>1. /\ requests \in Seq(McpRequest) /\ requests # <<>>
          /\ domMcp' = [i \in DOMAIN domMcp |->
                           IF Head(requests).op = "luau" /\ active \in shown /\ i = active
                           THEN Head(requests).on ELSE domMcp[i]]
        BY <1>1 DEF McpServes, McpTypes, PipeTypes
    <2>2. Head(requests) = requests[1] /\ 1 \in 1..Len(requests)
        BY <2>1, LineTaken
    <2>3. requests[1].op = "luau" => active = requests[1].on
        BY <2>2 DEF Aimed, MeantFor
    <2> QED
        BY <2>1, <2>2, <2>3 DEF IdsOwn
<1>2. CASE ~ McpServes
    <2>1. ASSUME NEW i \in Studios, ComesUp(i) \/ Quits(i)
          PROVE  IdsOwn'
        BY <2>1 DEF ComesUp, Quits, IdsOwn
    <2>2. ASSUME NEW s \in Launches, LaunchCloses(s)
          PROVE  IdsOwn'
        BY <2>2 DEF LaunchCloses, IdsOwn
    <2>3. CASE UNCHANGED domMcp
        BY <2>3 DEF IdsOwn
    <2>4. \/ UNCHANGED domMcp \/ \E i \in Studios : ComesUp(i) \/ Quits(i)
          \/ \E s \in Launches : LaunchCloses(s)
        <3>1. CASE HostStep \/ Pipe
            BY <1>2, <3>1 DEF HostStep, McpConnects, McpDies, Pipe, studioVars
        <3>2. CASE LoopStep
            BY <3>2 DEF LoopStep, LoopLists, LoopListed, LoopSets, LoopSkips, LoopFires, LoopFired, LoopEnds, studioVars
        <3>3. ASSUME NEW c \in McpCalls, CallStep(c)
              PROVE  UNCHANGED domMcp
            BY <3>3 DEF CallStep, CallComes, CallSets, CallFails, CallRuns, CallAnswered, studioVars
        <3>4. ASSUME NEW s \in Launches, LaunchStep(s), ~ LaunchCloses(s)
              PROVE  UNCHANGED domMcp
            BY <3>4 DEF LaunchStep, LaunchLists, LaunchListed, LaunchPolls, LaunchPolled, LaunchPicks, LaunchGivesUp, studioVars
        <3> QED
            BY <3>1, <3>2, <3>3, <3>4, McpSteps
    <2> QED
        BY <2>1, <2>2, <2>3, <2>4
<1> QED
    BY <1>1, <1>2

LEMMA AnswersStep ==
    ASSUME McpTypes, HoldsIt, AnswersOwn, Rpcs, McpNext
    PROVE  AnswersOwn'
<1> SUFFICES ASSUME NEW c \in McpCalls, answer'[c].ok
             PROVE  at'[c] = "over" /\ answer'[c].call = c /\ answer'[c].studio = home'[c]
    BY DEF AnswersOwn
<1>1. CASE Stays(c)
    BY <1>1 DEF Stays, AnswersOwn
<1>2. CASE CallStep(c)
    <2>1. ~ answer[c].ok
        BY <1>2, CallTurn DEF AnswersOwn
    <2>2. CallAnswered(c)
        BY <1>2, <2>1 DEF CallStep, CallComes, CallSets, CallFails, CallRuns, callVars
    <2>3. at[c] = "runs" /\ UNCHANGED home /\ answer' = [answer EXCEPT ![c] = result]
        BY <2>2 DEF CallAnswered, Passes
    <2>4. answer'[c] = result
        BY <2>3 DEF McpTypes, TaskTypes
    <2>5. result.call = c /\ result.studio = home[c]
        BY <2>3, <2>4 DEF Rpcs, Rpc, Busy, Tells, McpTasks
    <2> QED
        BY <1>2, <2>3, <2>4, <2>5, CallTurn
<1> QED
    BY <1>1, <1>2, CallsStay

LEMMA CallsKept ==
    ASSUME McpTypes, HoldsIt, McpNext, NEW c \in McpCalls, at[c] \in {"runs", "over"}
    PROVE  at'[c] \in {"runs", "over"} /\ home'[c] = home[c]
<1>1. CASE Stays(c)
    BY <1>1 DEF Stays
<1>2. CASE CallStep(c)
    <2>1. at'[c] = "over"
        BY <1>2, CallTurn
    <2>2. UNCHANGED home
        BY <1>2 DEF CallStep, CallComes, CallSets, CallFails, CallRuns, CallAnswered, callVars, Passes
    <2> QED
        BY <2>1, <2>2
<1> QED
    BY <1>1, <1>2, CallsStay

\* A snippet or a tool is only sent to the Studio that is active.
SentRight(op, on) ==
    /\ op = "luau" => requests = <<>> /\ active = on
    /\ op = "tool" => requests = <<>> /\ active = home'[on] /\ at'[on] \in {"runs", "over"}

LEMMA AskedRight ==
    ASSUME McpTypes, IdsOwn, Rpcs, McpNext
    PROVE  Idles \/ McpServes \/ Pipe \/ \E op, on : Asks(op, on) /\ SentRight(op, on)
<1>1. CASE LoopStep
    <2>1. CASE Idles
        BY <2>1
    <2>2. ASSUME NEW op, NEW on, Asks(op, on), ~ LoopFires
          PROVE  \E a, b : Asks(a, b) /\ SentRight(a, b)
        <3>1. Asks("list", Nobody) \/ Asks("set", visit')
            BY <1>1, <2>2 DEF LoopStep, LoopLists, LoopListed, LoopSets, LoopSkips, LoopFired, LoopEnds, Release, pipeVars, Asks, Ask, McpTypes, PipeTypes, McpRequest, TaskTypes
        <3> QED
            BY <3>1 DEF SentRight
    <2>3. CASE LoopFires
        <3>1. at[Loop] = "sets" /\ result.ok /\ Ask("luau", visit)
            BY <2>3 DEF LoopFires, Passes
        <3>2. Asks("luau", visit)
            BY <3>1 DEF Asks, McpRequest, McpTypes, PipeTypes, TaskTypes
        <3>3. requests = <<>> /\ active = visit
            BY <3>1 DEF Rpcs, Rpc, Busy, Tells, Wanted, McpTasks
        <3> QED
            BY <3>2, <3>3 DEF SentRight
    <2> QED
        BY <1>1, <2>1, <2>2, <2>3, LoopTypes
<1>2. ASSUME NEW c \in McpCalls, CallStep(c)
      PROVE  Idles \/ \E op, on : Asks(op, on) /\ SentRight(op, on)
    <2>1. CASE CallRuns(c)
        <3>1. at[c] = "sets" /\ result.ok /\ Ask("tool", c) /\ UNCHANGED home
            BY <2>1 DEF CallRuns, Passes, callVars
        <3>2. Asks("tool", c)
            BY <3>1 DEF Asks, McpRequest, McpTypes, PipeTypes
        <3>3. requests = <<>> /\ active = home[c]
            BY <3>1, McpAssumption DEF Rpcs, Rpc, Busy, Tells, Wanted, McpTasks
        <3>4. at'[c] = "runs"
            BY <2>1, PlaceMoves DEF CallRuns, CallPlaces, McpTypes, McpTasks
        <3> QED
            BY <3>1, <3>2, <3>3, <3>4 DEF SentRight
    <2>2. CASE CallSets(c)
        <3>1. domMcp[home[c]] \in Studios /\ Ask("set", domMcp[home[c]])
            BY <2>2 DEF CallSets, IdsOwn, McpTypes, TaskTypes
        <3>2. Asks("set", domMcp[home[c]])
            BY <3>1 DEF Asks, McpRequest, McpTypes, PipeTypes
        <3> QED
            BY <3>2 DEF SentRight
    <2>3. CASE CallComes(c) \/ CallFails(c) \/ CallAnswered(c)
        BY <2>3 DEF CallComes, CallFails, CallAnswered, Release, pipeVars, Idles
    <2> QED
        BY <1>2, <2>1, <2>2, <2>3 DEF CallStep
<1>3. ASSUME NEW s \in Launches, LaunchStep(s)
      PROVE  Idles \/ \E op, on : Asks(op, on) /\ SentRight(op, on)
    <2>1. Idles \/ Ask("list", Nobody)
        BY <1>3 DEF LaunchStep, LaunchLists, LaunchListed, LaunchPolls, LaunchPolled, LaunchPicks, LaunchGivesUp, LaunchCloses, Release, pipeVars, Idles
    <2>2. Ask("list", Nobody) => Asks("list", Nobody)
        BY DEF Asks, McpRequest, McpTypes, PipeTypes
    <2> QED
        BY <2>1, <2>2 DEF SentRight
<1> QED
    BY <1>1, <1>2, <1>3, McpSteps, HostTypes

LEMMA AimedStep ==
    ASSUME McpTypes, HoldsIt, IdsOwn, Rpcs, Aimed, McpNext
    PROVE  Aimed'
<1>1. \A c \in McpCalls : at[c] \in {"runs", "over"} => at'[c] \in {"runs", "over"} /\ home'[c] = home[c]
    BY CallsKept
<1>2. requests \in Seq(McpRequest) /\ Len(requests) \in Nat
    BY DEF McpTypes, PipeTypes
<1>3. ASSUME NEW k \in 1..Len(requests)
      PROVE  requests[k] \in McpRequest /\ (requests[k].op = "tool" => requests[k].on \in McpCalls)
    BY <1>2 DEF McpRequest
<1> DEFINE Right(k) ==
               requests[k].op \in {"luau", "tool"} =>
                  /\ active = MeantFor(requests[k])
                  /\ \A j \in 1..(k - 1) : requests[j].op # "set"
                  /\ requests[k].op = "tool" =>
                        /\ at'[requests[k].on] \in {"runs", "over"}
                        /\ home'[requests[k].on] = home[requests[k].on]
<1>4. ASSUME NEW k \in 1..Len(requests)
      PROVE  Right(k)
    BY <1>1, <1>3 DEF Aimed
<1> HIDE DEF Right
<1>5. CASE Idles \/ Pipe
    <2>1. requests' \in {requests, <<>>} /\ active' = active
        BY <1>5, ReadPlaces DEF Idles, McpTypes
    <2> QED
        BY <1>4, <2>1 DEF Right, Aimed, MeantFor
<1>6. CASE McpServes
    <2>1. PICK r \in McpResult :
            /\ Len(requests) \in Nat \ {0} /\ Len(requests') = Len(requests) - 1
            /\ \A k \in 1..Len(requests') : k + 1 \in 1..Len(requests) /\ requests'[k] = requests[k + 1]
            /\ Answers(requests[1], r)
        <3>1. PipeTypes /\ TaskTypes
            BY DEF McpTypes
        <3> QED
            BY <3>1, <1>6, ServePlaces
    <2>2. ASSUME NEW k \in 1..Len(requests'), requests'[k].op \in {"luau", "tool"}
          PROVE  /\ active' = IF requests'[k].op = "tool" THEN home'[requests'[k].on] ELSE requests'[k].on
                 /\ \A j \in 1..(k - 1) : requests'[j].op # "set"
                 /\ requests'[k].op = "tool" => at'[requests'[k].on] \in {"runs", "over"}
        <3>1. /\ k + 1 \in 1..Len(requests) /\ requests'[k] = requests[k + 1] /\ k \in Nat \ {0}
              /\ \A j \in 1..(k - 1) : requests'[j] = requests[j + 1] /\ j + 1 \in 1..((k + 1) - 1)
              /\ 1 \in 1..((k + 1) - 1)
            BY <2>1
        <3>2. /\ active = MeantFor(requests[k + 1])
              /\ \A j \in 1..((k + 1) - 1) : requests[j].op # "set"
              /\ requests[k + 1].op = "tool" =>
                    /\ at'[requests[k + 1].on] \in {"runs", "over"}
                    /\ home'[requests[k + 1].on] = home[requests[k + 1].on]
            BY <1>4, <2>2, <3>1 DEF Right
        <3>3. active' = active
            BY <2>1, <3>1, <3>2 DEF Answers
        <3> QED
            BY <3>1, <3>2, <3>3 DEF MeantFor
    <2> QED
        BY <2>2 DEF Aimed, MeantFor
<1>7. ASSUME NEW op, NEW on, Asks(op, on), SentRight(op, on)
      PROVE  Aimed'
    <2>1. /\ Len(requests) \in Nat /\ Len(requests') = Len(requests) + 1
          /\ \A k \in 1..Len(requests) : requests'[k] = requests[k]
          /\ requests'[Len(requests) + 1].op = op /\ requests'[Len(requests) + 1].on = on
          /\ active' = active
        BY <1>7, AskPlaces DEF McpTypes
    <2>2. ASSUME NEW k \in 1..Len(requests'), requests'[k].op \in {"luau", "tool"}
          PROVE  /\ active' = IF requests'[k].op = "tool" THEN home'[requests'[k].on] ELSE requests'[k].on
                 /\ \A j \in 1..(k - 1) : requests'[j].op # "set"
                 /\ requests'[k].op = "tool" => at'[requests'[k].on] \in {"runs", "over"}
        <3>1. CASE k \in 1..Len(requests)
            <4>1. \A j \in 1..(k - 1) : requests'[j] = requests[j]
                BY <2>1, <3>1
            <4> QED
                BY <1>4, <2>1, <2>2, <3>1, <4>1 DEF Right, MeantFor
        <3>2. CASE k = Len(requests) + 1
            <4>1. requests = <<>> /\ k = 1
                BY <1>7, <2>1, <2>2, <3>2 DEF SentRight
            <4> QED
                BY <1>7, <2>1, <2>2, <3>2, <4>1 DEF SentRight
        <3> QED
            BY <2>1, <3>1, <3>2
    <2> QED
        BY <2>2 DEF Aimed, MeantFor
<1> QED
    BY <1>5, <1>6, <1>7, AskedRight

-----------------------------------------------------------------------------
(* What an answer says *)

Searching(u) == at[u] \in {"lists", "polls", "looks", "picks"}
\* What the steps of the others leave a launch that searches.
Kept(u) ==
    Searching(u) =>
        /\ pre'[u] = pre[u] /\ listing'[u] = listing[u]
        /\ \/ u \notin rows'
           \/ /\ u \in rows
              /\ u \in blind => u \in blind'
              /\ u \in crowd => u \in crowd'
              /\ u \in crowd' \/ shown' \subseteq shown \cup {u}

LEMMA LaunchesKept ==
    ASSUME McpTypes, HoldsIt, McpNext, NEW u \in Launches
    PROVE  Kept(u) \/ (LaunchStep(u) /\ ~ LaunchCloses(u))
<1>0. pre \in [Launches -> SUBSET Studios] /\ listing \in [Launches -> SUBSET Studios]
    BY DEF McpTypes, TaskTypes
<1>1. ASSUME UNCHANGED <<launchVars, crowd, shown>>
      PROVE  Kept(u)
    BY <1>1 DEF launchVars, Kept
<1>2. ASSUME NEW i \in Studios, ComesUp(i) \/ Quits(i)
      PROVE  Kept(u)
    BY <1>2 DEF ComesUp, Quits, launchVars, Kept, Searching
<1>3. CASE LaunchCloses(u)
    BY <1>3 DEF LaunchCloses, Kept
<1>4. ASSUME NEW s \in Launches, s # u, LaunchStep(s)
      PROVE  Kept(u)
    BY <1>0, <1>4 DEF LaunchStep, LaunchLists, LaunchListed, LaunchPolls, LaunchPolled, LaunchPicks,
                      LaunchGivesUp, LaunchCloses, Kept, studioVars, launchVars
<1>5. CASE HostStep \/ Pipe
    BY <1>1, <1>2, <1>5 DEF HostStep, McpServes, McpConnects, McpDies, Pipe, studioVars
<1>6. CASE LoopStep
    BY <1>1, <1>6 DEF LoopStep, LoopLists, LoopListed, LoopSets, LoopSkips, LoopFires, LoopFired, LoopEnds, studioVars
<1>7. ASSUME NEW c \in McpCalls, CallStep(c)
      PROVE  Kept(u)
    <2>1. UNCHANGED <<studioVars, launchVars, crowd>>
        BY <1>7 DEF CallStep, CallComes, CallSets, CallFails, CallRuns, CallAnswered
    <2>2. UNCHANGED <<launchVars, crowd, shown>>
        BY <2>1 DEF studioVars
    <2> QED
        BY <1>1, <2>2
<1> QED
    BY <1>3, <1>4, <1>5, <1>6, <1>7, McpSteps DEF LaunchStep

LEMMA RpcKept ==
    ASSUME McpTypes, NEW u \in McpTasks, Rpc(u), at'[u] = at[u],
           u = Loop => visit' = visit, u \in McpCalls => home'[u] = home[u], u \in Launches => Kept(u),
           UNCHANGED <<awaits, result, replies, active>>, requests' \in {requests, <<>>}
    PROVE  Rpc(u)'
<1>1. /\ at[u] = "sets" => u \in McpCalls \cup {Loop}
      /\ at[u] = "runs" => u \in McpCalls
      /\ at[u] = "looks" => u \in Launches
    BY DEF McpTypes, TaskTypes, McpTasks, LoopPlaces, CallPlaces, LaunchPlaces
<1>2. at[u] = "sets" => Wanted(u)' = Wanted(u)
    BY <1>1, McpAssumption DEF Wanted
<1>3. ASSUME NEW r, Busy(u), Tells(u, r)
      PROVE  /\ at'[u] = "sets" /\ r.ok => active' = Wanted(u)' /\ requests' = <<>>
             /\ at'[u] = "runs" /\ r.ok => r.call = u /\ r.studio = home'[u]
             /\ at'[u] = "lists" /\ u \in Launches /\ r.ok =>
                   shown' \subseteq r.list \cup {u} \/ u \in crowd' \/ u \notin rows'
             /\ at'[u] = "looks" => r.list \subseteq pre'[u] \cup {u} \/ u \in blind' \cup crowd' \/ u \notin rows'
    BY <1>1, <1>2, <1>3 DEF Tells, Kept, Searching
<1>4. Busy(u)' => Busy(u)
    BY DEF Busy
<1>5. Busy(u)' => Tells(u, result)'
    BY <1>3, <1>4 DEF Rpc, Tells
<1>6. Busy(u)' => \A k \in 1..Len(replies') : replies'[k].id = awaits' => Tells(u, replies[k].result)'
    BY <1>3, <1>4 DEF Rpc, Tells
<1>7. Busy(u)' => \A k \in 1..Len(requests') : requests'[k].id = awaits' => Begun(u, requests[k])'
    BY <1>2, <1>4 DEF Rpc, Begun
<1> QED
    BY <1>5, <1>6, <1>7 DEF Rpc

LEMMA RpcAsked ==
    ASSUME McpTypes, IdsInOrder, NEW t \in McpTasks, NEW op, NEW on, Asks(op, on),
           at'[t] = "sets" => op = "set" /\ on = Wanted(t)',
           at'[t] = "runs" => op = "tool" /\ on = t,
           at'[t] = "lists" => op = "list"
    PROVE  Rpc(t)'
<1>1. /\ Len(requests) \in Nat /\ Len(requests') = Len(requests) + 1
      /\ \A k \in 1..Len(requests) : requests'[k] = requests[k]
      /\ requests'[Len(requests) + 1].op = op /\ requests'[Len(requests) + 1].on = on
      /\ awaits' = next /\ result' = Failed /\ replies' = replies
    BY AskPlaces DEF McpTypes
<1>2. next \in Nat
    BY DEF McpTypes, PipeTypes
<1>3. \A k \in 1..Len(replies') : replies'[k].id # awaits'
    BY <1>1, <1>2 DEF IdsInOrder
<1>4. \A k \in 1..Len(requests') : requests'[k].id = awaits' => k = Len(requests) + 1
    BY <1>1, <1>2 DEF IdsInOrder
<1>5. Tells(t, result)'
    BY <1>1, FailedResult DEF Tells
<1>6. ASSUME NEW k \in 1..Len(requests'), requests'[k].id = awaits'
      PROVE  /\ at'[t] = "sets" => requests'[k].op = "set" /\ requests'[k].on = Wanted(t)'
             /\ at'[t] = "runs" => requests'[k].op = "tool" /\ requests'[k].on = t
             /\ at'[t] = "lists" => requests'[k].op = "list"
    BY <1>1, <1>4, <1>6
<1> QED
    BY <1>3, <1>5, <1>6 DEF Rpc, Begun

LEMMA RpcServed ==
    ASSUME McpTypes, IdsInOrder, Aimed, PairsOwn, NEW u \in McpTasks, Rpc(u), McpServes
    PROVE  Rpc(u)'
<1>0. /\ at[u] = "sets" => u \in McpCalls \cup {Loop}
      /\ at[u] = "runs" => u \in McpCalls
      /\ at[u] = "looks" => u \in Launches
    BY DEF McpTypes, TaskTypes, McpTasks, LoopPlaces, CallPlaces, LaunchPlaces
<1>1. UNCHANGED <<shown, pre, blind, crowd, rows, home, visit, at>>
    BY DEF McpServes, launchVars, callVars
<1>2. PICK r \in McpResult :
        /\ Len(requests) \in Nat \ {0} /\ Len(requests') = Len(requests) - 1
        /\ \A k \in 1..Len(requests') : k + 1 \in 1..Len(requests) /\ requests'[k] = requests[k + 1]
        /\ Len(replies) \in Nat /\ Len(replies') = Len(replies) + 1
        /\ \A k \in 1..Len(replies) : replies'[k] = replies[k]
        /\ replies'[Len(replies) + 1].id = requests[1].id /\ replies'[Len(replies) + 1].result = r
        /\ Answers(requests[1], r) /\ requests[1] \in McpRequest
        /\ UNCHANGED <<next, awaits, result>>
    <2>1. PipeTypes /\ TaskTypes
        BY DEF McpTypes
    <2> QED
        BY <2>1, ServePlaces
<1>3. 1 \in 1..Len(requests) /\ requests # <<>>
    BY <1>2 DEF McpServes
<1> SUFFICES ASSUME Busy(u)
             PROVE  Rpc(u)'
    BY <1>1 DEF Rpc, Busy
<1> DEFINE Says(x) ==
               /\ at[u] = "sets" /\ x.ok => active' = Wanted(u) /\ requests' = <<>>
               /\ at[u] = "runs" /\ x.ok => x.call = u /\ x.studio = home[u]
               /\ at[u] = "lists" /\ u \in Launches /\ x.ok =>
                     shown \subseteq x.list \cup {u} \/ u \in crowd \/ u \notin rows
               /\ at[u] = "looks" => x.list \subseteq pre[u] \cup {u} \/ u \in blind \cup crowd \/ u \notin rows
\* what had been answered before
<1>4. ASSUME NEW x, Tells(u, x)
      PROVE  Says(x)
    BY <1>3, <1>4 DEF Tells
\* what is answered now
<1>5. ASSUME requests[1].id = awaits
      PROVE  Says(r)
    <2>1. Begun(u, requests[1])
        BY <1>3, <1>5 DEF Rpc
    <2>2. CASE at[u] = "sets"
        <3>1. Len(requests) = 1
            <4>1. ASSUME Len(requests) # 1
                  PROVE  FALSE
                <5>1. 2 \in 1..Len(requests)
                    BY <1>2, <4>1
                <5>2. requests[1].id < requests[2].id /\ requests[2].id \in 1..(next - 1) /\ requests[1].id \in 1..(next - 1)
                    BY <1>3, <5>1 DEF IdsInOrder
                <5>3. awaits = next - 1 /\ next \in Nat
                    BY <1>5, <5>2 DEF IdsInOrder, McpTypes, PipeTypes
                <5> QED
                    BY <1>5, <5>2, <5>3
            <4> QED
                BY <4>1
        <3>2. Len(requests') = 0 /\ requests' = Tail(requests) /\ requests \in Seq(McpRequest)
            BY <1>2, <3>1 DEF McpServes, McpTypes, PipeTypes
        <3>3. requests' \in Seq(McpRequest)
            BY <3>2, <1>3, LineTaken
        <3>4. requests' = <<>>
            BY <3>2, <3>3
        <3>5. requests[1].op = "set" /\ requests[1].on = Wanted(u)
            BY <2>1, <2>2 DEF Begun
        <3> QED
            BY <1>2, <2>2, <3>4, <3>5 DEF Answers
    <2>3. CASE at[u] = "runs"
        <3>1. requests[1].op = "tool" /\ requests[1].on = u
            BY <2>1, <2>3 DEF Begun
        <3>2. active = home[u]
            BY <1>3, <3>1 DEF Aimed, MeantFor
        <3> QED
            BY <1>2, <2>3, <3>1, <3>2 DEF Answers
    <2>4. CASE at[u] = "lists"
        BY <1>2, <2>1, <2>4 DEF Begun, Answers
    <2>5. CASE at[u] = "looks"
        <3>1. Searches(u)
            BY <1>0, <2>5 DEF PairsOwn
        <3>2. r.list \subseteq shown
            BY <1>2 DEF Answers
        <3> QED
            BY <2>5, <3>1, <3>2 DEF Searches
    <2>6. CASE at[u] \notin {"sets", "runs", "lists", "looks"}
        BY <2>6
    <2> QED
        BY <2>2, <2>3, <2>4, <2>5, <2>6
<1>6. at'[u] = at[u] /\ Wanted(u)' = Wanted(u)
    BY <1>1 DEF Wanted
<1>7. Tells(u, result)'
    <2>1. Tells(u, result)
        BY DEF Rpc
    <2>2. Says(result)
        BY <2>1, <1>4
    <2> QED
        BY <1>1, <1>2, <1>6, <2>2 DEF Tells
<1>8. ASSUME NEW k \in 1..Len(replies'), replies'[k].id = awaits
      PROVE  Says(replies'[k].result)
    <2>1. CASE k \in 1..Len(replies)
        <3>1. Tells(u, replies[k].result)
            BY <1>2, <1>8, <2>1 DEF Rpc
        <3>2. Says(replies[k].result)
            BY <3>1, <1>4
        <3> QED
            BY <1>2, <2>1, <3>2
    <2>2. CASE k = Len(replies) + 1
        BY <1>2, <1>5, <1>8, <2>2
    <2> QED
        BY <1>2, <2>1, <2>2
<1>9. ASSUME NEW k \in 1..Len(requests'), requests'[k].id = awaits
      PROVE  Begun(u, requests'[k])
    BY <1>2, <1>9 DEF Rpc
<1> QED
    BY <1>1, <1>2, <1>6, <1>7, <1>8, <1>9 DEF Rpc, Tells, Begun

LEMMA RpcRead ==
    ASSUME McpTypes, IdsInOrder, IdsInOrder', NEW u \in McpTasks, Rpc(u), Pipe
    PROVE  Rpc(u)'
<1>1. UNCHANGED <<shown, pre, blind, crowd, rows, home, visit, at>>
    BY DEF Pipe, studioVars, launchVars, callVars
<1>2. /\ UNCHANGED <<next, requests, active>>
      /\ \A k \in 1..Len(replies') : \E j \in 1..Len(replies) : replies'[k] = replies[j]
      /\ \/ awaits' = 0 /\ result' = Failed
         \/ UNCHANGED <<awaits, result>>
         \/ awaits' = 0 /\ \E j \in 1..Len(replies) : replies[j].id = awaits /\ result' = replies[j].result
    BY ReadPlaces DEF McpTypes
<1> SUFFICES ASSUME Busy(u)
             PROVE  Rpc(u)'
    BY <1>1 DEF Rpc, Busy
<1>3. ASSUME NEW x, Tells(u, x)
      PROVE  /\ at'[u] = "sets" /\ x.ok => active' = Wanted(u)' /\ requests' = <<>>
             /\ at'[u] = "runs" /\ x.ok => x.call = u /\ x.studio = home'[u]
             /\ at'[u] = "lists" /\ u \in Launches /\ x.ok =>
                   shown' \subseteq x.list \cup {u} \/ u \in crowd' \/ u \notin rows'
             /\ at'[u] = "looks" => x.list \subseteq pre'[u] \cup {u} \/ u \in blind' \cup crowd' \/ u \notin rows'
    BY <1>1, <1>2, <1>3 DEF Tells, Wanted
<1>4. Tells(u, Failed) /\ Tells(u, result)
    BY FailedResult DEF Rpc, Tells
<1>5. Tells(u, result)'
    <2>1. CASE result' = Failed
        BY <2>1, <1>3, <1>4 DEF Tells
    <2>2. CASE result' = result
        BY <2>2, <1>3, <1>4 DEF Tells
    <2>3. ASSUME NEW j \in 1..Len(replies), replies[j].id = awaits, result' = replies[j].result
          PROVE  Tells(u, result)'
        <3>1. Tells(u, replies[j].result)
            BY <2>3 DEF Rpc
        <3> QED
            BY <2>3, <3>1, <1>3 DEF Tells
    <2> QED
        BY <1>2, <2>1, <2>2, <2>3
<1>6. CASE awaits' = 0
    <2>1. \A k \in 1..Len(requests') : requests'[k].id # 0
        BY DEF IdsInOrder
    <2>2. \A k \in 1..Len(replies') : replies'[k].id # 0
        BY DEF IdsInOrder
    <2> QED
        BY <1>5, <1>6, <2>1, <2>2 DEF Rpc
<1>7. CASE awaits' = awaits
    <2>1. ASSUME NEW k \in 1..Len(replies'), replies'[k].id = awaits'
          PROVE  Tells(u, replies'[k].result)
        BY <1>2, <1>7, <2>1 DEF Rpc
    <2>2. \A k \in 1..Len(replies') : replies'[k].id = awaits' => Tells(u, replies[k].result)'
        BY <1>3, <2>1 DEF Tells
    <2>3. \A k \in 1..Len(requests') : requests'[k].id = awaits' => Begun(u, requests[k])'
        BY <1>1, <1>2, <1>7 DEF Rpc, Begun, Wanted
    <2> QED
        BY <1>5, <2>2, <2>3 DEF Rpc
<1> QED
    BY <1>2, <1>6, <1>7

\* The rpc of a task that takes a step itself.
LEMMA RpcOwn ==
    ASSUME McpTypes, IdsInOrder, IdsOwn, HoldsIt, McpNext,
           NEW t \in McpTasks,
           \/ t = Loop /\ LoopStep
           \/ t \in McpCalls /\ CallStep(t)
           \/ t \in Launches /\ LaunchStep(t) /\ ~ LaunchCloses(t)
    PROVE  Rpc(t)'
<1>1. CASE t = Loop /\ LoopStep
    <2>0. t = Loop /\ t \notin Launches
        BY <1>1, McpAssumption
    <2>1. CASE LoopLists
        <3>1. at'[Loop] = "lists"
            BY <2>1, PlaceMoves DEF LoopLists, LoopPlaces, McpTypes, McpTasks
        <3>2. Asks("list", Nobody)
            BY <2>1 DEF LoopLists, Asks, McpRequest, McpTypes, PipeTypes
        <3> QED
            BY <2>0, <3>1, <3>2, RpcAsked
    <2>2. CASE LoopSets
        <3>1. at'[Loop] = "sets"
            BY <2>2, PlaceMoves DEF LoopSets, LoopPlaces, McpTypes, McpTasks
        <3>2. Asks("set", visit')
            BY <2>2 DEF LoopSets, Asks, McpRequest, McpTypes, PipeTypes, TaskTypes
        <3>3. Wanted(Loop)' = visit'
            BY DEF Wanted
        <3> QED
            BY <2>0, <3>1, <3>2, <3>3, RpcAsked
    <2>3. CASE LoopListed \/ LoopSkips \/ LoopFires \/ LoopFired \/ LoopEnds
        <3>1. PICK from, to \in LoopPlaces : Passes(Loop, from, to) /\ to \in {"visits", "fires", "idle"}
            BY <2>3 DEF LoopListed, LoopSkips, LoopFires, LoopFired, LoopEnds, LoopPlaces
        <3>2. at'[Loop] \in {"visits", "fires", "idle"}
            BY <3>1, PlaceMoves DEF McpTypes, McpTasks
        <3> QED
            BY <2>0, <3>2 DEF Rpc, Tells, Begun, Busy
    <2> QED
        BY <1>1, <2>1, <2>2, <2>3 DEF LoopStep
<1>2. CASE t \in McpCalls /\ CallStep(t)
    <2>1. CASE CallSets(t)
        <3>1. at'[t] = "sets"
            BY <1>2, <2>1, PlaceMoves DEF CallSets, CallPlaces, McpTypes
        <3>2. domMcp[home[t]] = home[t] /\ home[t] \in Studios /\ Ask("set", home[t]) /\ UNCHANGED home
            BY <1>2, <2>1 DEF CallSets, IdsOwn, callVars, McpTypes, TaskTypes
        <3>3. Asks("set", home[t])
            BY <3>2 DEF Asks, McpRequest, McpTypes, PipeTypes
        <3>4. Wanted(t)' = home[t]
            BY <1>2, <3>2, McpAssumption DEF Wanted
        <3> QED
            BY <3>1, <3>3, <3>4, RpcAsked
    <2>2. CASE CallRuns(t)
        <3>1. at'[t] = "runs"
            BY <1>2, <2>2, PlaceMoves DEF CallRuns, CallPlaces, McpTypes
        <3>2. Asks("tool", t)
            BY <1>2, <2>2 DEF CallRuns, Asks, McpRequest, McpTypes, PipeTypes
        <3> QED
            BY <3>1, <3>2, RpcAsked
    <2>3. CASE CallComes(t) \/ CallFails(t) \/ CallAnswered(t)
        <3>1. PICK from, to \in CallPlaces : Passes(t, from, to) /\ to \in {"waits", "over"}
            BY <2>3 DEF CallComes, CallFails, CallAnswered, CallPlaces
        <3>2. at'[t] \in {"waits", "over"}
            BY <1>2, <3>1, PlaceMoves DEF McpTypes
        <3> QED
            BY <3>2 DEF Rpc, Busy
    <2> QED
        BY <1>2, <2>1, <2>2, <2>3 DEF CallStep
<1>3. CASE t \in Launches /\ LaunchStep(t) /\ ~ LaunchCloses(t)
    <2>1. CASE \E p, q \in LaunchPlaces : Passes(t, p, q) /\ q \in {"polls", "picks", "over"}
        <3>1. at'[t] \in {"polls", "picks", "over"}
            BY <1>3, <2>1, PlaceMoves DEF McpTypes
        <3> QED
            BY <3>1 DEF Rpc, Busy
    <2>2. CASE Ask("list", Nobody) /\ \E p \in LaunchPlaces : \E q \in {"lists", "looks"} : Passes(t, p, q)
        <3>1. at'[t] \in {"lists", "looks"}
            BY <1>3, <2>2, PlaceMoves DEF LaunchPlaces, McpTypes
        <3>2. Asks("list", Nobody)
            BY <2>2 DEF Asks, McpRequest, McpTypes, PipeTypes
        <3> QED
            BY <3>1, <3>2, RpcAsked
    <2> QED
        BY <1>3, <2>1, <2>2 DEF LaunchStep, LaunchLists, LaunchListed, LaunchPolls, LaunchPolled, LaunchPicks, LaunchGivesUp, LaunchPlaces
<1> QED
    BY <1>1, <1>2, <1>3

LEMMA RpcsStep ==
    ASSUME McpTypes, IdsInOrder, IdsInOrder', IdsOwn, Aimed, HoldsIt, PairsOwn, Rpcs, McpNext
    PROVE  Rpcs'
<1> SUFFICES ASSUME NEW u \in McpTasks
             PROVE  Rpc(u)'
    BY DEF Rpcs
<1>0. Rpc(u)
    BY DEF Rpcs
<1>1. CASE McpServes
    BY <1>0, <1>1, RpcServed
<1>2. CASE Pipe
    BY <1>0, <1>2, RpcRead
\* a step of another task
<1>3. ASSUME NEW t \in McpTasks, t # u, Turn(t), u = Loop => visit' = visit,
             u \in McpCalls => home'[u] = home[u], u \in Launches => Kept(u)
      PROVE  Rpc(u)'
    <2> SUFFICES ASSUME Busy(u)'
                 PROVE  Rpc(u)'
        BY DEF Rpc
    <2>1. at'[u] = at[u]
        BY <1>3 DEF Turn
    <2>2. holder = u /\ u # Nobody
        BY <2>1, McpAssumption DEF Busy, HoldsIt
    <2>3. UNCHANGED pipeVars
        BY <1>3, <2>2 DEF Turn
    <2> QED
        BY <1>0, <1>3, <2>1, <2>3, RpcKept DEF pipeVars
<1>4. u \in McpCalls => home'[u] = home[u] \/ CallStep(u)
    BY CallsStay DEF Stays
<1>5. u \in Launches => Kept(u) \/ (LaunchStep(u) /\ ~ LaunchCloses(u))
    BY LaunchesKept
<1>6. CASE LoopStep
    <2>1. u # Loop => u \notin McpCalls \/ home'[u] = home[u]
        BY <1>6 DEF LoopStep, LoopLists, LoopListed, LoopSets, LoopSkips, LoopFires, LoopFired, LoopEnds, callVars
    <2>2. u # Loop => u \notin Launches \/ Kept(u)
        BY <1>6 DEF LoopStep, LoopLists, LoopListed, LoopSets, LoopSkips, LoopFires, LoopFired, LoopEnds, launchVars, studioVars, Kept
    <2> QED
        BY <1>3, <1>6, <2>1, <2>2, LoopTurn, RpcOwn DEF McpTasks
<1>7. ASSUME NEW c \in McpCalls, CallStep(c), c # u
      PROVE  Rpc(u)'
    <2>1. UNCHANGED <<launchVars, studioVars, crowd, visit>>
        BY <1>7 DEF CallStep, CallComes, CallSets, CallFails, CallRuns, CallAnswered
    <2>2. u \in McpCalls => home'[u] = home[u]
        BY <1>7 DEF CallStep, CallComes, CallSets, CallFails, CallRuns, CallAnswered, callVars, McpTypes, TaskTypes
    <2>3. Kept(u)
        BY <2>1 DEF Kept, launchVars, studioVars
    <2> QED
        BY <1>3, <1>7, <2>1, <2>2, <2>3, CallTurn DEF McpTasks
<1>8. ASSUME NEW s \in Launches, LaunchStep(s), s # u
      PROVE  Rpc(u)'
    <2>1. UNCHANGED <<callVars, visit>>
        BY <1>8 DEF LaunchStep, LaunchLists, LaunchListed, LaunchPolls, LaunchPolled, LaunchPicks, LaunchGivesUp, LaunchCloses
    <2>2. u \in Launches => Kept(u)
        BY <1>8 DEF LaunchStep, LaunchLists, LaunchListed, LaunchPolls, LaunchPolled, LaunchPicks,
                    LaunchGivesUp, LaunchCloses, Kept, studioVars, launchVars, McpTypes, TaskTypes
    <2> QED
        BY <1>3, <1>8, <2>1, <2>2, LaunchTurn DEF McpTasks, callVars
<1>9. CASE u \in McpCalls /\ CallStep(u)
    BY <1>9, RpcOwn
<1>10. CASE u \in Launches /\ LaunchStep(u)
    <2>1. CASE LaunchCloses(u)
        <3>1. Kept(u) /\ at'[u] = at[u] /\ UNCHANGED pipeVars
            BY <2>1 DEF LaunchCloses, Kept
        <3> QED
            BY <1>0, <1>10, <3>1, McpAssumption, RpcKept DEF pipeVars
    <2>2. CASE ~ LaunchCloses(u)
        BY <1>10, <2>2, RpcOwn
    <2> QED
        BY <2>1, <2>2
\* the Studios and StudioMCP
<1>11. CASE HostStep /\ ~ McpServes
    <2>1. UNCHANGED <<at, visit, home, awaits, result, replies, active>> /\ requests' \in {requests, <<>>}
        BY <1>11 DEF HostStep, McpConnects, McpDies, ComesUp, Quits, pipeVars, launchVars, callVars
    <2>2. u \in Launches => Kept(u)
        BY <1>11 DEF HostStep, McpConnects, McpDies, ComesUp, Quits, launchVars, studioVars, Kept, Searching
    <2> QED
        BY <1>0, <2>1, <2>2, RpcKept
<1> QED
    BY <1>1, <1>2, <1>6, <1>7, <1>8, <1>9, <1>10, <1>11, McpSteps

-----------------------------------------------------------------------------
(* Whose id a launch holds *)

LEMMA SearchStep ==
    ASSUME McpTypes, IdsOwn, HoldsIt, Rpcs, PairsOwn, McpNext, NEW s \in Launches
    PROVE  Searches(s)'
<1>0. s \in McpTasks /\ Searches(s)
    BY DEF PairsOwn, McpTasks
<1>1. CASE Kept(s) /\ at'[s] = at[s]
    BY <1>0, <1>1 DEF Searches, Kept, Searching
<1>2. CASE Kept(s) /\ ~ LaunchStep(s)
    <2>1. at'[s] = at[s]
        <3>1. CASE HostStep \/ Pipe
            BY <3>1 DEF HostStep, McpServes, McpConnects, McpDies, ComesUp, Quits, Pipe
        <3>2. CASE LoopStep
            BY <1>0, <3>2, LoopTurn, McpAssumption DEF Turn
        <3>3. ASSUME NEW c \in McpCalls, CallStep(c)
              PROVE  at'[s] = at[s]
            BY <1>0, <3>3, CallTurn, McpAssumption DEF Turn
        <3>4. ASSUME NEW t \in Launches, LaunchStep(t)
              PROVE  at'[s] = at[s]
            BY <1>0, <1>2, <3>4, LaunchTurn DEF Turn
        <3> QED
            BY <3>1, <3>2, <3>3, <3>4, McpSteps
    <2> QED
        BY <1>1, <1>2, <2>1
<1>3. CASE LaunchCloses(s)
    BY <1>3 DEF LaunchCloses, Searches
<1>4. CASE LaunchLists(s)
    <2>1. CASE up = "no"
        BY <1>4, <2>1 DEF LaunchLists, Searches
    <2>2. CASE up # "no"
        <3>1. at'[s] = "lists"
            BY <1>0, <1>4, <2>2, PlaceMoves DEF LaunchLists, LaunchPlaces, McpTypes
        <3> QED
            BY <3>1 DEF Searches
    <2> QED
        BY <2>1, <2>2
<1>5. CASE LaunchListed(s)
    <2>1. /\ at[s] = "lists" /\ at'[s] = "polls" /\ pre'[s] = result.list
          /\ UNCHANGED <<shown, rows, crowd>>
          /\ blind' = IF result.ok THEN blind ELSE blind \cup {s}
        BY <1>0, <1>5, PlaceMoves DEF LaunchListed, LaunchPlaces, McpTypes, TaskTypes, Passes, studioVars
    <2>2. result.ok => shown \subseteq result.list \cup {s} \/ s \in crowd \/ s \notin rows
        BY <1>0, <2>1 DEF Rpcs, Rpc, Busy, Tells
    <2> QED
        BY <2>1, <2>2 DEF Searches
<1>6. CASE LaunchPolls(s)
    <2>1. at[s] = "polls" /\ at'[s] = "looks"
        BY <1>0, <1>6, PlaceMoves DEF LaunchPolls, LaunchPlaces, McpTypes, Passes
    <2> QED
        BY <1>0, <1>6, <2>1 DEF LaunchPolls, Searches, launchVars, studioVars
<1>7. CASE LaunchPolled(s)
    <2>1. /\ at[s] = "looks" /\ at'[s] \in {"polls", "picks"} /\ listing'[s] = result.list
          /\ UNCHANGED <<shown, pre, rows, blind, crowd>>
        <3>1. PICK to \in {"polls", "picks"} : Passes(s, "looks", to)
            BY <1>7 DEF LaunchPolled
        <3>2. at[s] = "looks" /\ at'[s] = to
            BY <1>0, <3>1, PlaceMoves DEF LaunchPlaces, McpTypes
        <3> QED
            BY <1>7, <3>2 DEF LaunchPolled, McpTypes, TaskTypes, studioVars
    <2>2. result.list \subseteq pre[s] \cup {s} \/ s \in blind \cup crowd \/ s \notin rows
        BY <1>0, <2>1 DEF Rpcs, Rpc, Busy, Tells
    <2> QED
        BY <1>0, <2>1, <2>2 DEF Searches
<1>8. CASE LaunchPicks(s)
    <2>1. CASE NewIds(s) = {}
        <3>1. at[s] = "picks" /\ at'[s] = "polls"
            BY <1>0, <1>8, <2>1, PlaceMoves DEF LaunchPicks, LaunchPlaces, McpTypes, Passes
        <3> QED
            BY <1>0, <1>8, <2>1, <3>1 DEF LaunchPicks, Searches, studioVars
    <2>2. CASE NewIds(s) # {}
        <3>1. at'[s] = "over"
            BY <1>0, <1>8, <2>2, PlaceMoves DEF LaunchPicks, LaunchPlaces, McpTypes
        <3> QED
            BY <3>1 DEF Searches
    <2> QED
        BY <2>1, <2>2
<1>9. CASE LaunchGivesUp(s)
    <2>1. at'[s] = "over"
        BY <1>0, <1>9, PlaceMoves DEF LaunchGivesUp, LaunchPlaces, McpTypes
    <2> QED
        BY <2>1 DEF Searches
<1> QED
    BY <1>2, <1>3, <1>4, <1>5, <1>6, <1>7, <1>8, <1>9, LaunchesKept DEF LaunchStep

\* What is over stays so, and so does what excuses a launch, until it is closed.
LEMMA OverStays ==
    ASSUME McpTypes, HoldsIt, McpNext, NEW s \in Launches, at[s] = "over"
    PROVE  /\ at'[s] = "over"
           /\ LaunchCloses(s) \/ (s \in blind \cup crowd => s \in blind' \cup crowd')
<1>0. s \in McpTasks
    BY DEF McpTasks
<1>1. CASE HostStep \/ Pipe
    BY <1>1 DEF HostStep, McpServes, McpConnects, McpDies, ComesUp, Quits, Pipe, launchVars
<1>2. CASE LoopStep
    <2>1. at'[s] = at[s]
        BY <1>0, <1>2, LoopTurn, McpAssumption DEF Turn
    <2> QED
        BY <1>2, <2>1 DEF LoopStep, LoopLists, LoopListed, LoopSets, LoopSkips, LoopFires, LoopFired, LoopEnds, launchVars
<1>3. ASSUME NEW c \in McpCalls, CallStep(c)
      PROVE  at'[s] = at[s] /\ UNCHANGED <<blind, crowd>>
    <2>1. at'[s] = at[s]
        BY <1>0, <1>3, CallTurn, McpAssumption DEF Turn
    <2>2. UNCHANGED <<blind, crowd>>
        BY <1>3 DEF CallStep, CallComes, CallSets, CallFails, CallRuns, CallAnswered, launchVars
    <2> QED
        BY <2>1, <2>2
<1>4. ASSUME NEW t \in Launches, LaunchStep(t), t # s
      PROVE  at'[s] = at[s] /\ (s \in blind \cup crowd => s \in blind' \cup crowd')
    <2>1. at'[s] = at[s]
        BY <1>0, <1>4, LaunchTurn DEF Turn
    <2> QED
        BY <1>4, <2>1 DEF LaunchStep, LaunchLists, LaunchListed, LaunchPolls, LaunchPolled, LaunchPicks, LaunchGivesUp, LaunchCloses, launchVars
<1>5. CASE LaunchStep(s)
    BY <1>5 DEF LaunchStep, LaunchLists, LaunchListed, LaunchPolls, LaunchPolled, LaunchPicks, LaunchGivesUp, LaunchCloses, Passes
<1> QED
    BY <1>1, <1>2, <1>3, <1>4, <1>5, McpSteps

LEMMA PairingSteps ==
    ASSUME McpNext
    PROVE  \/ UNCHANGED <<paired, rows>>
           \/ \E t \in Launches : LaunchPicks(t) \/ LaunchCloses(t)
<1>1. CASE HostStep \/ Pipe \/ LoopStep
    BY <1>1 DEF HostStep, McpServes, McpConnects, McpDies, ComesUp, Quits, Pipe, LoopStep, LoopLists, LoopListed,
                LoopSets, LoopSkips, LoopFires, LoopFired, LoopEnds, launchVars
<1>2. ASSUME NEW c \in McpCalls, CallStep(c)
      PROVE  UNCHANGED <<paired, rows>>
    BY <1>2 DEF CallStep, CallComes, CallSets, CallFails, CallRuns, CallAnswered, launchVars
<1>3. ASSUME NEW t \in Launches, LaunchStep(t)
      PROVE  UNCHANGED <<paired, rows>> \/ LaunchPicks(t) \/ LaunchCloses(t)
    BY <1>3 DEF LaunchStep, LaunchLists, LaunchListed, LaunchPolls, LaunchPolled, LaunchGivesUp, launchVars
<1> QED
    BY <1>1, <1>2, <1>3, McpSteps

LEMMA PairsStep ==
    ASSUME McpTypes, IdsOwn, HoldsIt, Rpcs, PairsOwn, McpNext
    PROVE  PairsOwn'
<1> DEFINE Paired(s) ==
               /\ s \in rows' /\ at'[s] = "over"
               /\ \A t \in Launches \ {s} : paired'[t] # paired'[s]
               /\ paired'[s] = s \/ s \in blind' \cup crowd'
<1> SUFFICES ASSUME NEW s \in Launches, paired'[s] # Nobody
             PROVE  Paired(s)
    BY SearchStep DEF PairsOwn
<1>1. paired \in [Launches -> Studios \cup {Nobody}] /\ s \in McpTasks
    BY DEF McpTypes, TaskTypes, McpTasks
<1>2. ASSUME NEW x \in Launches, paired[x] # Nobody
      PROVE  /\ x \in rows /\ at[x] = "over"
             /\ paired[x] = x \/ x \in blind \cup crowd
             /\ \A t \in Launches \ {x} : paired[t] # paired[x]
    BY <1>2 DEF PairsOwn
<1>3. CASE UNCHANGED <<paired, rows>>
    <2>1. ~ LaunchCloses(s)
        BY <1>3 DEF LaunchCloses
    <2> QED
        BY <1>2, <1>3, <2>1, OverStays
<1>4. ASSUME NEW t \in Launches, LaunchCloses(t)
      PROVE  Paired(s)
    <2>1. /\ paired' = [paired EXCEPT ![t] = Nobody] /\ rows' = rows \ {t} /\ UNCHANGED at
          /\ blind' = blind \ {t} /\ crowd' = crowd \ {t}
        BY <1>4 DEF LaunchCloses
    <2>2. s # t /\ paired'[s] = paired[s]
        BY <1>1, <2>1
    <2>3. \A u \in Launches : paired'[u] \in {paired[u], Nobody}
        BY <1>1, <2>1
    <2> QED
        BY <1>2, <2>1, <2>2, <2>3
<1>5. ASSUME NEW t \in Launches, LaunchPicks(t)
      PROVE  Paired(s)
    <2>1. at[t] = "picks" /\ UNCHANGED <<rows, blind, crowd>>
        BY <1>5 DEF LaunchPicks, Passes
    <2>2. paired[t] = Nobody
        BY <1>2, <2>1
    <2>3. CASE UNCHANGED paired
        BY <1>2, <2>1, <2>3, OverStays
    <2>4. CASE paired' # paired
        <3>1. PICK i \in NewIds(t) : paired' = [paired EXCEPT ![t] = i] /\ t \in rows /\ NewIds(t) # {}
            BY <1>5, <2>4 DEF LaunchPicks
        <3>2. i \in listing[t] /\ i \notin pre[t] /\ \A u \in rows : paired[u] # i
            BY <3>1 DEF NewIds
        <3>3. i # Nobody
            BY <3>2, McpAssumption DEF McpTypes, TaskTypes
        <3>4. \A u \in Launches : paired[u] # i
            BY <1>2, <3>2, <3>3
        <3>5. paired'[t] = i /\ \A u \in Launches \ {t} : paired'[u] = paired[u]
            BY <1>1, <3>1
        <3>6. CASE s = t
            <4>1. at'[s] = "over"
                BY <1>1, <1>5, <3>1, <3>6, PlaceMoves DEF LaunchPicks, LaunchPlaces, McpTypes
            <4>2. i = s \/ s \in blind \cup crowd
                BY <2>1, <3>1, <3>2, <3>6 DEF PairsOwn, Searches
            <4> QED
                BY <2>1, <3>1, <3>4, <3>5, <3>6, <4>1, <4>2
        <3>7. CASE s # t
            <4>1. paired[s] # Nobody /\ at[s] = "over"
                BY <1>2, <3>5, <3>7
            <4>2. at'[s] = "over"
                BY <4>1, OverStays
            <4> QED
                BY <1>2, <2>1, <3>4, <3>5, <3>7, <4>1, <4>2
        <3> QED
            BY <3>6, <3>7
    <2> QED
        BY <2>3, <2>4
<1> QED
    BY <1>3, <1>4, <1>5, PairingSteps

-----------------------------------------------------------------------------
(* The theorems *)

LEMMA BridgeStart == McpInit => HostInv
<1> SUFFICES ASSUME NEW scene \in Scenes, McpStart(scene)
             PROVE  HostInv
    BY DEF McpInit
<1> USE DEF McpStart
<1>1. PipeTypes
    BY FailedResult DEF PipeTypes
<1>2. TaskTypes
    <2>1. holder = Nobody /\ shown \subseteq Studios /\ DOMAIN domMcp = shown
        BY DEF Studios
    <2>2. at \in [McpTasks -> {"idle", "off"}]
        OBVIOUS
    <2>3. home \in [McpCalls -> Studios \cup {Nobody}] /\ answer \in [McpCalls -> McpResult]
        BY FailedResult
    <2>4. pre \in [Launches -> SUBSET Studios] /\ listing \in [Launches -> SUBSET Studios]
        OBVIOUS
    <2>5. paired \in [Launches -> Studios \cup {Nobody}] /\ rows \subseteq Launches
        OBVIOUS
    <2>6. \A t \in McpTasks : at[t] \in {"idle", "off"}
        BY <2>2
    <2> QED
        BY <2>1, <2>2, <2>3, <2>4, <2>5, <2>6 DEF TaskTypes, LoopPlaces, CallPlaces, LaunchPlaces, McpTasks
<1>3. \A t \in McpTasks : at[t] \in {"idle", "off"}
    OBVIOUS
<1>4. IdsInOrder /\ Aimed
    BY DEF IdsInOrder, Aimed
<1>5. HoldsIt /\ Rpcs
    BY <1>3 DEF HoldsIt, Rpcs, Rpc, Busy
<1>6. IdsOwn
    BY DEF IdsOwn
<1>7. AnswersOwn
    BY FailedResult DEF AnswersOwn
<1>8. PairsOwn
    BY <1>3 DEF PairsOwn, Searches, McpTasks
<1> QED
    BY <1>1, <1>2, <1>4, <1>5, <1>6, <1>7, <1>8 DEF HostInv, BridgeInv, McpTypes

LEMMA BridgeStep == HostInv /\ [McpNext]_mcpVars => HostInv'
<1> SUFFICES ASSUME HostInv, [McpNext]_mcpVars
             PROVE  HostInv'
    OBVIOUS
<1>1. McpTypes /\ IdsInOrder /\ Aimed /\ HoldsIt /\ Rpcs /\ IdsOwn /\ AnswersOwn /\ PairsOwn
    BY DEF HostInv, BridgeInv
<1>2. CASE McpNext
    <2>1. McpTypes' /\ IdsInOrder' /\ HoldsIt' /\ IdsOwn'
        BY <1>1, <1>2, McpTypesStep, IdsStep, HoldsStep, IdsOwnStep
    <2>2. Aimed' /\ AnswersOwn' /\ PairsOwn'
        BY <1>1, <1>2, AimedStep, AnswersStep, PairsStep
    <2>3. Rpcs'
        BY <1>1, <1>2, <2>1, RpcsStep
    <2> QED
        BY <2>1, <2>2, <2>3 DEF HostInv, BridgeInv
<1>3. CASE UNCHANGED mcpVars
    BY <1>1, <1>3 DEF mcpVars, pipeVars, studioVars, launchVars, callVars, HostInv, BridgeInv, McpTypes, PipeTypes,
        TaskTypes, IdsInOrder, Aimed, MeantFor, HoldsIt, Busy, Rpcs, Rpc, Tells, Begun, Wanted, IdsOwn, AnswersOwn,
        PairsOwn, Searches
<1> QED
    BY <1>2, <1>3

\* Whatever times out, and however calls, launches and the loop share the one
\* StudioMCP process, a script's call that gets a result gets that of its own
\* tool, run in its own Studio (`handle_mcp_call`, `StudioMcpClient::rpc`).
THEOREM CallsAnsweredRight == McpSpec => []McpAnswersOwn
<1>1. HostInv => McpAnswersOwn
    BY DEF HostInv, BridgeInv, AnswersOwn, McpAnswersOwn
<1> QED
    BY <1>1, BridgeStart, BridgeStep, PTL DEF McpSpec

\* A DataModel never reports another Studio's id, no two launches hold one id, and
\* a launch that could compare lists, with no other Studio coming up beside it,
\* holds no id but its own Studio's (`run_reconciliation`, the launch's search).
THEOREM IdsFoundRight == McpSpec => []McpIdsRight
<1>1. HostInv => McpIdsRight
    BY DEF HostInv, BridgeInv, IdsOwn, PairsOwn, McpIdsRight
<1> QED
    BY <1>1, BridgeStart, BridgeStep, PTL DEF McpSpec

-----------------------------------------------------------------------------
(* File patches *)

\* Operations take turns.
Solo ==
    /\ \A g, h \in Handles : Working(g) /\ Working(h) => g = h
    /\ \A p \in Procs : Sweeping(p) => \A h \in Handles : ~Working(h)
    /\ \A p, q \in Procs : Sweeping(p) /\ Sweeping(q) => p = q

\* There is one copy of what the user had.
LockIsBackup == \A h \in Handles : lock[h] # NoFile => lock[h] = Backup(file.user)
OneLock == \A g, h \in Handles : lock[g] # NoFile /\ lock[h] # NoFile => g = h
NoLockRestored == (\A h \in Handles : lock[h] = NoFile) => target = file.user

\* What a call knows while it is under way.
HasLock(h) == lock[h] # NoFile
Knows(h) ==
    /\ pc[h] \in {"new", "look", "take", "inspect"} => read[h] = NoFile
    /\ pc[h] = "take" /\ found[h] = None => \A g \in Handles : lock[g] = NoFile
    /\ pc[h] = "take" /\ found[h] # None => lock[found[h]] # NoFile
    /\ pc[h] \in {"inspect", "read", "build", "remove", "put"} => HasLock(h)
    /\ pc[h] = "read" => file.user # NoFile /\ noOrig[h] = FALSE
    /\ pc[h] = "build" => read[h] = file.user /\ noOrig[h] = (file.user = NoFile)
    /\ pc[h] \in {"remove", "put"} => noOrig[h] = (file.user = NoFile)
    /\ pc[h] = "put" => target = NoFile
    /\ pc[h] = "held" /\ HasLock(h) => noOrig[h] = (file.user = NoFile)
CallersKnow == \A h \in Handles : Runs(h) => Knows(h)

\* What a sweep knows of the lock it is putting back.
SweepersKnow ==
    \A p \in Procs :
       proc[p] = "up" /\ cur[p] # None =>
          /\ lock[cur[p].of] # NoFile
          /\ proc[Owner[cur[p].of]] # "up"
          /\ cur[p].sentinel = (file.user = NoFile)
          /\ cur[p].gone => target = NoFile

HeldInForce ==
    \A h \in Handles :
       Runs(h) /\ pc[h] = "held" /\ lock[h] # NoFile
          => target \in {PatchBy(h, TRUE), PatchBy(h, FALSE), Rewritten}

PatchPure == target \in Patches => target.pure

Safe ==
    /\ Solo /\ LockIsBackup /\ OneLock /\ NoLockRestored
    /\ CallersKnow /\ SweepersKnow /\ HeldInForce /\ PatchPure

\* Whatever overlaps: a lock of length zero is known for a sentinel by whoever
\* would put it back, the owner of a lock being put back by a sweep is dead for
\* good, and a process that has not started has done nothing.
Marked ==
    /\ \A h \in Handles : pc[h] \in {"new", "skipped", "look", "take"} => lock[h] = NoFile
    /\ \A h \in Handles : pc[h] \in {"new", "look"} => found[h] = None
    /\ \A h \in Handles : pc[h] # "inspect" /\ lock[h] = Sentinel => noOrig[h]
    /\ \A p \in Procs : cur[p] # None =>
          /\ proc[Owner[cur[p].of]] = "dead"
          /\ lock[cur[p].of] = Sentinel => cur[p].sentinel
FirstStart == \A h \in Handles : proc[Owner[h]] = "new" => pc[h] = "new" /\ read[h] = NoFile
NewIdle == \A p \in Procs : proc[p] = "new" => todo[p] = {} /\ cur[p] = None

Typed == TypeOK /\ Marked /\ FirstStart /\ NewIdle
PatchInv == Typed /\ (~clash => Safe)

-----------------------------------------------------------------------------
(* Contents *)

\* The kinds of content differ, and a patch remembers what it was built from.
LEMMA Kinds ==
    /\ NoFile # Sentinel /\ NoFile # User /\ NoFile # Rewritten
    /\ Sentinel # User /\ Sentinel # Rewritten /\ User # Rewritten
    /\ \A c \in Patches : c \notin {NoFile, Sentinel, User, Rewritten}
    /\ \A h \in Handles, b \in BOOLEAN : PatchBy(h, b) \in Patches /\ PatchBy(h, b).pure = b
<1>1. NoFile # Sentinel /\ NoFile # User /\ NoFile # Rewritten
    BY DEF NoFile, Sentinel, User, Rewritten
<1>2. Sentinel # User /\ Sentinel # Rewritten /\ User # Rewritten
    BY DEF Sentinel, User, Rewritten
<1>3. \A c \in Patches : c \notin {NoFile, Sentinel, User, Rewritten}
    BY DEF Patches, NoFile, Sentinel, User, Rewritten
<1>4. \A h \in Handles, b \in BOOLEAN : PatchBy(h, b) \in Patches /\ PatchBy(h, b).pure = b
    BY DEF Patches, PatchBy
<1> QED BY <1>1, <1>2, <1>3, <1>4

\* A backup is a sentinel exactly when there was no file.
LEMMA Backups ==
    ASSUME file \in Files
    PROVE  /\ file.user \in {NoFile, User}
           /\ Backup(file.user) # NoFile
           /\ Backup(file.user) = Sentinel <=> file.user = NoFile
           /\ file.user # NoFile => Backup(file.user) = file.user
BY Kinds DEF Files, Backup

-----------------------------------------------------------------------------
(* Types, and what holds whatever overlaps *)

LEMMA TypedInit == Init => Typed
<1> SUFFICES ASSUME Init PROVE Typed
    OBVIOUS
<1>1. TypeOK
    BY Kinds DEF Init, TypeOK, Files, Contents, Resting
<1>2. Marked /\ FirstStart /\ NewIdle
    BY Kinds, PatchAssumption DEF Init, Marked, FirstStart, NewIdle
<1> QED BY <1>1, <1>2 DEF Typed

LEMMA InContents ==
    /\ {NoFile, Sentinel, User, Rewritten} \subseteq Contents
    /\ {NoFile, User, Rewritten} \subseteq Contents \ {Sentinel}
    /\ Patches \subseteq Contents \ {Sentinel}
    /\ file \in Files => file.user \in Contents \ {Sentinel}
BY Kinds DEF Contents, Files

\* One operation of a handle keeps the types and the marks.
LEMMA HandleTyped ==
    ASSUME Typed, NEW h \in Handles,
           \/ Skip(h) \/ Begin(h) \/ List(h) \/ Claim(h) \/ MoveAside(h) \/ WriteSentinel(h)
           \/ TakeFails(h) \/ Inspect(h) \/ ReadBackup(h) \/ WritePatch(h) \/ BuildFails(h)
           \/ Restore(h) \/ RemovePatch(h) \/ PutOriginal(h)
    PROVE  Typed'
<1> USE PatchAssumption DEF Goes, Runs, Elsewhere, Resting, Patching, Restoring
<1>1. CASE Skip(h)
    <2>1. TypeOK'
        BY <1>1, Kinds, InContents DEF Typed, TypeOK, Skip
    <2>2. Marked'
        BY <1>1, Kinds DEF Typed, TypeOK, Marked, Skip
    <2>3. FirstStart' /\ NewIdle'
        BY <1>1, Kinds DEF Typed, TypeOK, FirstStart, NewIdle, Skip
    <2> QED BY <2>1, <2>2, <2>3 DEF Typed
<1>2. CASE Begin(h)
    <2>1. TypeOK'
        BY <1>2, Kinds, InContents DEF Typed, TypeOK, Begin, Begins, Idle
    <2>2. Marked'
        BY <1>2, Kinds DEF Typed, TypeOK, Marked, Begin, Begins, Idle
    <2>3. FirstStart' /\ NewIdle'
        BY <1>2, Kinds DEF Typed, TypeOK, FirstStart, NewIdle, Begin, Begins, Idle
    <2> QED BY <2>1, <2>2, <2>3 DEF Typed
<1>3. CASE List(h)
    <2>1. TypeOK'
        BY <1>3, Kinds, InContents DEF Typed, TypeOK, List, Locks
    <2>2. Marked'
        BY <1>3, Kinds DEF Typed, TypeOK, Marked, List, Locks
    <2>3. FirstStart' /\ NewIdle'
        BY <1>3, Kinds DEF Typed, TypeOK, FirstStart, NewIdle, List, Locks
    <2> QED BY <2>1, <2>2, <2>3 DEF Typed
<1>4. CASE Claim(h)
    <2>1. TypeOK'
        BY <1>4, Kinds, InContents DEF Typed, TypeOK, Claim
    <2>2. Marked'
        BY <1>4, Kinds DEF Typed, TypeOK, Marked, Claim
    <2>3. FirstStart' /\ NewIdle'
        BY <1>4, Kinds DEF Typed, TypeOK, FirstStart, NewIdle, Claim
    <2> QED BY <2>1, <2>2, <2>3 DEF Typed
<1>5. CASE MoveAside(h)
    <2>1. TypeOK'
        BY <1>5, Kinds, InContents DEF Typed, TypeOK, MoveAside
    <2>2. Marked'
        BY <1>5, Kinds DEF Typed, TypeOK, Marked, MoveAside
    <2>3. FirstStart' /\ NewIdle'
        BY <1>5, Kinds DEF Typed, TypeOK, FirstStart, NewIdle, MoveAside
    <2> QED BY <2>1, <2>2, <2>3 DEF Typed
<1>6. CASE WriteSentinel(h)
    <2>1. TypeOK'
        BY <1>6, Kinds, InContents DEF Typed, TypeOK, WriteSentinel
    <2>2. Marked'
        BY <1>6, Kinds DEF Typed, TypeOK, Marked, WriteSentinel
    <2>3. FirstStart' /\ NewIdle'
        BY <1>6, Kinds DEF Typed, TypeOK, FirstStart, NewIdle, WriteSentinel
    <2> QED BY <2>1, <2>2, <2>3 DEF Typed
<1>7. CASE TakeFails(h)
    <2>1. TypeOK'
        BY <1>7, Kinds, InContents DEF Typed, TypeOK, TakeFails
    <2>2. Marked'
        BY <1>7, Kinds DEF Typed, TypeOK, Marked, TakeFails
    <2>3. FirstStart' /\ NewIdle'
        BY <1>7, Kinds DEF Typed, TypeOK, FirstStart, NewIdle, TakeFails
    <2> QED BY <2>1, <2>2, <2>3 DEF Typed
<1>8. CASE Inspect(h)
    <2>1. TypeOK'
        BY <1>8, Kinds, InContents DEF Typed, TypeOK, Inspect
    <2>2. Marked'
        BY <1>8, Kinds DEF Typed, TypeOK, Marked, Inspect
    <2>3. FirstStart' /\ NewIdle'
        BY <1>8, Kinds DEF Typed, TypeOK, FirstStart, NewIdle, Inspect
    <2> QED BY <2>1, <2>2, <2>3 DEF Typed
<1>9. CASE ReadBackup(h)
    <2>1. TypeOK'
        BY <1>9, Kinds, InContents DEF Typed, TypeOK, ReadBackup
    <2>2. Marked'
        BY <1>9, Kinds DEF Typed, TypeOK, Marked, ReadBackup
    <2>3. FirstStart' /\ NewIdle'
        BY <1>9, Kinds DEF Typed, TypeOK, FirstStart, NewIdle, ReadBackup
    <2> QED BY <2>1, <2>2, <2>3 DEF Typed
<1>10. CASE WritePatch(h)
    <2>1. TypeOK'
        BY <1>10, Kinds, InContents DEF Typed, TypeOK, WritePatch
    <2>2. Marked'
        BY <1>10, Kinds DEF Typed, TypeOK, Marked, WritePatch
    <2>3. FirstStart' /\ NewIdle'
        BY <1>10, Kinds DEF Typed, TypeOK, FirstStart, NewIdle, WritePatch
    <2> QED BY <2>1, <2>2, <2>3 DEF Typed
<1>11. CASE BuildFails(h)
    <2>1. TypeOK'
        BY <1>11, Kinds, InContents DEF Typed, TypeOK, BuildFails
    <2>2. Marked'
        BY <1>11, Kinds DEF Typed, TypeOK, Marked, BuildFails
    <2>3. FirstStart' /\ NewIdle'
        BY <1>11, Kinds DEF Typed, TypeOK, FirstStart, NewIdle, BuildFails
    <2> QED BY <2>1, <2>2, <2>3 DEF Typed
<1>12. CASE Restore(h)
    <2>1. TypeOK'
        BY <1>12, Kinds, InContents DEF Typed, TypeOK, Restore, Begins, LeaveDir, EmptyDir
    <2>2. Marked'
        BY <1>12, Kinds DEF Typed, TypeOK, Marked, Restore, Begins, LeaveDir, EmptyDir
    <2>3. FirstStart' /\ NewIdle'
        BY <1>12, Kinds DEF Typed, TypeOK, FirstStart, NewIdle, Restore, Begins, LeaveDir, EmptyDir
    <2> QED BY <2>1, <2>2, <2>3 DEF Typed
<1>13. CASE RemovePatch(h)
    <2>1. TypeOK'
        BY <1>13, Kinds, InContents DEF Typed, TypeOK, RemovePatch
    <2>2. Marked'
        BY <1>13, Kinds DEF Typed, TypeOK, Marked, RemovePatch
    <2>3. FirstStart' /\ NewIdle'
        BY <1>13, Kinds DEF Typed, TypeOK, FirstStart, NewIdle, RemovePatch
    <2> QED BY <2>1, <2>2, <2>3 DEF Typed
<1>14. CASE PutOriginal(h)
    <2>1. TypeOK'
        BY <1>14, Kinds, InContents DEF Typed, TypeOK, Marked, PutOriginal, PutBack, LeaveDir, EmptyDir
    <2>2. Marked'
        BY <1>14, Kinds DEF Typed, TypeOK, Marked, PutOriginal, PutBack, LeaveDir, EmptyDir
    <2>3. FirstStart' /\ NewIdle'
        BY <1>14, Kinds DEF Typed, TypeOK, FirstStart, NewIdle, PutOriginal, PutBack, LeaveDir, EmptyDir
    <2> QED BY <2>1, <2>2, <2>3 DEF Typed
<1> QED BY <1>1, <1>2, <1>3, <1>4, <1>5, <1>6, <1>7, <1>8, <1>9, <1>10, <1>11, <1>12, <1>13, <1>14

\* So does a step of a process's start, sweep or death, and of Studio.
LEMMA ProcTyped ==
    ASSUME Typed, NEW p \in Procs,
           \/ Start(p) \/ SweepRemove(p) \/ SweepPut(p) \/ Crash(p)
           \/ \E l \in Handles : Visit(p, l)
    PROVE  Typed'
<1> USE PatchAssumption
<1>1. CASE Start(p)
    <2>1. TypeOK'
        BY <1>1, Kinds, InContents DEF Typed, TypeOK, Start, Begins, Idle, Locks
    <2>2. Marked'
        BY <1>1, Kinds DEF Typed, TypeOK, Marked, Start, Begins, Idle, Locks
    <2>3. FirstStart' /\ NewIdle'
        BY <1>1, Kinds DEF Typed, TypeOK, FirstStart, NewIdle, Start, Begins, Idle, Locks
    <2> QED BY <2>1, <2>2, <2>3 DEF Typed
<1>2. CASE SweepRemove(p)
    <2>1. TypeOK'
        BY <1>2, Kinds, InContents, ZenonT(60) DEF Typed, TypeOK, SweepRemove, Still
    <2>2. Marked'
        BY <1>2, Kinds DEF Typed, TypeOK, Marked, SweepRemove, Still
    <2>3. FirstStart' /\ NewIdle'
        BY <1>2, Kinds DEF Typed, TypeOK, FirstStart, NewIdle, SweepRemove, Still
    <2> QED BY <2>1, <2>2, <2>3 DEF Typed
<1>3. CASE SweepPut(p)
    <2>1. TypeOK'
        BY <1>3, Kinds, InContents DEF Typed, TypeOK, Marked, SweepPut, PutBack, Still
    <2>2. Marked'
        BY <1>3, Kinds DEF Typed, TypeOK, Marked, SweepPut, PutBack, Still
    <2>3. FirstStart' /\ NewIdle'
        BY <1>3, Kinds DEF Typed, TypeOK, FirstStart, NewIdle, SweepPut, PutBack, Still
    <2> QED BY <2>1, <2>2, <2>3 DEF Typed
<1>4. CASE Crash(p)
    <2>1. TypeOK'
        BY <1>4, Kinds, InContents DEF Typed, TypeOK, Crash, Still
    <2>2. Marked'
        BY <1>4, Kinds DEF Typed, TypeOK, Marked, Crash, Still
    <2>3. FirstStart' /\ NewIdle'
        BY <1>4, Kinds DEF Typed, TypeOK, FirstStart, NewIdle, Crash, Still
    <2> QED BY <2>1, <2>2, <2>3 DEF Typed
<1>5. ASSUME NEW l \in Handles, Visit(p, l) PROVE Typed'
    <2>1. TypeOK'
        BY <1>5, Kinds, InContents DEF Typed, TypeOK, Visit, Still
    <2>2. FirstStart' /\ NewIdle'
        BY <1>5 DEF Typed, TypeOK, FirstStart, NewIdle, Visit, Still
    <2>3. cur'[p] # None => cur'[p].of = l /\ cur'[p].sentinel = (lock[l] = Sentinel)
                            /\ proc[Owner[l]] = "dead"
        <3>1. lock[l] # NoFile => proc[Owner[l]] # "new"
            BY DEF Typed, Marked, FirstStart
        <3>2. proc[Owner[l]] \in {"new", "up", "dead"}
            BY DEF Typed, TypeOK
        <3>3. CASE proc[Owner[l]] # "up" /\ lock[l] # NoFile
            <4>1. cur'[p] = [of |-> l, sentinel |-> (lock[l] = Sentinel), gone |-> FALSE]
                BY <1>5, <3>3 DEF Typed, TypeOK, Visit
            <4> QED BY <4>1, <3>1, <3>2, <3>3
        <3>4. CASE ~ (proc[Owner[l]] # "up" /\ lock[l] # NoFile)
            BY <1>5, <3>4 DEF Typed, TypeOK, Visit
        <3> QED BY <3>3, <3>4
    <2>4. \A q \in Procs : q # p => cur'[q] = cur[q]
        BY <1>5 DEF Typed, TypeOK, Visit
    <2>5. Marked'
        <3>1. UNCHANGED <<lock, proc, pc, noOrig, found>>
            BY <1>5 DEF Visit, Still
        <3>2. ASSUME NEW q \in Procs, cur'[q] # None
              PROVE  proc'[Owner[cur'[q].of]] = "dead" /\ (lock'[cur'[q].of] = Sentinel => cur'[q].sentinel)
            <4>1. CASE q = p
                BY <2>3, <3>1, <3>2, <4>1
            <4>2. CASE q # p
                BY <2>4, <3>1, <3>2, <4>2 DEF Typed, Marked
            <4> QED BY <4>1, <4>2
        <3> QED BY <3>1, <3>2 DEF Typed, Marked
    <2> QED BY <2>1, <2>2, <2>5 DEF Typed
<1> QED BY <1>1, <1>2, <1>3, <1>4, <1>5

LEMMA StudioTyped ==
    ASSUME Typed, StudioWrites
    PROVE  Typed'
<1>1. TypeOK'
    BY Kinds, InContents DEF Typed, TypeOK, StudioWrites, Still
<1>2. Marked' /\ FirstStart' /\ NewIdle'
    BY DEF Typed, TypeOK, Marked, FirstStart, NewIdle, StudioWrites, Still
<1> QED BY <1>1, <1>2 DEF Typed

LEMMA TypedNext == Typed /\ [Next]_vars => Typed'
<1> SUFFICES ASSUME Typed, [Next]_vars PROVE Typed'
    OBVIOUS
<1>1. CASE UNCHANGED vars
    BY <1>1 DEF vars, Typed, TypeOK, Marked, FirstStart, NewIdle
<1>2. CASE Next
    BY <1>2, HandleTyped, ProcTyped, StudioTyped DEF Next
<1> QED BY <1>1, <1>2

-----------------------------------------------------------------------------
(* What holds as long as operations take turns *)

LEMMA SafeInit == Init => Safe
<1> SUFFICES ASSUME Init PROVE Safe
    OBVIOUS
<1>1. Solo /\ LockIsBackup /\ OneLock /\ NoLockRestored
    BY PatchAssumption DEF Init, Solo, LockIsBackup, OneLock, NoLockRestored, Working, Sweeping
<1>2. CallersKnow /\ SweepersKnow /\ HeldInForce
    BY PatchAssumption DEF Init, CallersKnow, SweepersKnow, HeldInForce, Knows, HasLock, Runs
<1>3. PatchPure
    BY Kinds DEF Init, PatchPure, Files
<1> QED BY <1>1, <1>2, <1>3 DEF Safe

\* h is the only call at work, and no process sweeps.
Alone(h) ==
    /\ \A g \in Handles : Working(g) => g = h
    /\ \A p \in Procs : ~Sweeping(p)

\* A call at work is alone; one that begins without a clash is, too.
LEMMA WorkingAlone ==
    ASSUME Solo, NEW h \in Handles, Working(h)
    PROVE  Alone(h)
BY DEF Solo, Alone

LEMMA BeginsAlone ==
    ASSUME Begins, ~clash', NEW h \in Handles
    PROVE  Alone(h) /\ ~clash
BY DEF Begins, Idle, Alone

\* A step of a call that is alone and leaves the other calls' state alone keeps
\* the turns and what everybody knows, once what the call itself knows is shown.
LEMMA OperationStep ==
    ASSUME Typed, Safe, NEW h \in Handles, Alone(h), Runs(h),
           UNCHANGED <<file, proc, todo, cur>>,
           \A g \in Handles : g # h =>
              /\ pc'[g] = pc[g] /\ read'[g] = read[g] /\ noOrig'[g] = noOrig[g]
              /\ lock'[g] # NoFile => lock[g] # NoFile,
           Knows(h)'
    PROVE  Solo' /\ CallersKnow' /\ SweepersKnow'
<1>1. \A g \in Handles : Runs(g)' <=> Runs(g)
    BY DEF Runs
<1>2. \A g \in Handles : Working(g)' => g = h
    BY <1>1 DEF Working, Alone, Runs
<1>3. \A p \in Procs : ~Sweeping(p)'
    BY DEF Sweeping, Alone
<1>4. Solo'
    BY <1>2, <1>3 DEF Solo
<1>5. SweepersKnow'
    BY <1>3 DEF SweepersKnow, Sweeping
<1>6. ASSUME NEW g \in Handles, g # h, Runs(g)' PROVE Knows(g)'
    <2>1. Runs(g) /\ Knows(g) /\ ~Working(g)
        BY <1>1, <1>6 DEF Safe, CallersKnow, Alone
    <2>2. pc[g] \in Resting
        BY <2>1 DEF Typed, TypeOK, Working, Runs
    <2>3. pc'[g] \in Resting /\ pc'[g] = pc[g] /\ read'[g] = read[g] /\ noOrig'[g] = noOrig[g]
        BY <1>6, <2>2
    <2>4. HasLock(g)' => HasLock(g)
        BY <1>6 DEF HasLock
    <2> QED BY <2>1, <2>3, <2>4 DEF Knows, Resting, HasLock
<1>7. CallersKnow'
    BY <1>6 DEF CallersKnow
<1> QED BY <1>4, <1>5, <1>7

\* A call has the lock: no other call's patch is in force.
LEMMA HolderOnly ==
    ASSUME Safe, NEW h \in Handles, HasLock(h)
    PROVE  \A g \in Handles : g # h => lock[g] = NoFile
BY DEF Safe, OneLock, HasLock

\* A call at work knows what it knows, and works alone.
LEMMA AtWork ==
    ASSUME Typed, Safe, NEW h \in Handles, Runs(h), pc[h] \in Patching \union Restoring
    PROVE  Alone(h) /\ Knows(h)
<1>1. Working(h)
    BY DEF Working, Runs
<1> QED BY <1>1, WorkingAlone DEF Safe, CallersKnow

LEMMA ListSafe ==
    ASSUME Typed, Safe, NEW h \in Handles, List(h)
    PROVE  Safe'
<1>1. Runs(h) /\ Alone(h) /\ Knows(h)
    BY AtWork DEF List, Goes, Patching, Restoring
<1>2. /\ pc' = [pc EXCEPT ![h] = pc'[h]]
      /\ UNCHANGED <<file, proc, todo, cur>>
      /\ \A g \in Handles : g # h =>
            /\ pc'[g] = pc[g] /\ read'[g] = read[g] /\ noOrig'[g] = noOrig[g]
            /\ lock'[g] # NoFile => lock'[g] = lock[g]
    BY DEF Typed, TypeOK, List, Goes, Elsewhere, Locks
<1>3. Knows(h)'
    <2>1. pc'[h] = "take" /\ UNCHANGED <<lock, read>> /\ read[h] = NoFile
        BY <1>1 DEF Typed, TypeOK, Knows, List, Goes
    <2>2. CASE Locks = {}
        <3>1. \A g \in Handles : lock'[g] = NoFile
            BY <2>1, <2>2 DEF Locks
        <3>2. found'[h] = None
            BY <2>2 DEF Marked, Typed, List, Goes
        <3> QED BY <2>1, <3>1, <3>2 DEF Knows
    <2>3. CASE Locks # {}
        <3>1. PICK l \in Locks : found' = [found EXCEPT ![h] = l]
            BY <2>3 DEF List
        <3>2. l \in Handles /\ lock[l] # NoFile /\ found'[h] = l
            BY <3>1 DEF Typed, TypeOK, Locks
        <3> QED BY <2>1, <3>2, PatchAssumption DEF Knows
    <2> QED BY <2>2, <2>3
<1>4. Solo' /\ CallersKnow' /\ SweepersKnow'
    BY <1>1, <1>2, <1>3, OperationStep
<1>5. LockIsBackup' /\ OneLock' /\ NoLockRestored'
    BY <1>1, Kinds, Backups DEF Typed, TypeOK, Safe, LockIsBackup, OneLock, NoLockRestored, Knows, HasLock, List, Elsewhere, Goes, Locks
<1>6. HeldInForce'
    BY <1>1, <1>2, HolderOnly DEF Typed, TypeOK, Safe, HeldInForce, Knows, HasLock, Runs, List, Goes, Elsewhere, Locks
<1>7. PatchPure'
    BY <1>1, Kinds DEF Typed, TypeOK, Safe, PatchPure, Knows, List, Goes, Elsewhere, Locks
<1> QED BY <1>4, <1>5, <1>6, <1>7 DEF Safe

LEMMA ClaimSafe ==
    ASSUME Typed, Safe, NEW h \in Handles, Claim(h)
    PROVE  Safe'
<1>1. Runs(h) /\ Alone(h) /\ Knows(h)
    BY AtWork DEF Claim, Goes, Patching, Restoring
<1>2. /\ pc' = [pc EXCEPT ![h] = pc'[h]]
      /\ UNCHANGED <<file, proc, todo, cur>>
      /\ \A g \in Handles : g # h =>
            /\ pc'[g] = pc[g] /\ read'[g] = read[g] /\ noOrig'[g] = noOrig[g]
            /\ lock'[g] # NoFile => lock'[g] = lock[g]
    BY DEF Typed, TypeOK, Claim, Goes, Elsewhere
<1>3. Knows(h)'
    BY <1>1, Kinds, Backups DEF Typed, TypeOK, Safe, LockIsBackup, NoLockRestored, Knows, HasLock, Claim, Goes, Elsewhere
<1>4. Solo' /\ CallersKnow' /\ SweepersKnow'
    BY <1>1, <1>2, <1>3, OperationStep
<1>5. LockIsBackup' /\ OneLock' /\ NoLockRestored'
    BY <1>1, Kinds, Backups DEF Typed, TypeOK, Safe, LockIsBackup, OneLock, NoLockRestored, Knows, HasLock, Claim, Elsewhere, Goes
<1>6. HeldInForce'
    BY <1>1, <1>2, HolderOnly, ZenonT(60) DEF Typed, TypeOK, Safe, HeldInForce, Knows, HasLock, Runs, Claim, Goes, Elsewhere
<1>7. PatchPure'
    BY <1>1, Kinds DEF Typed, TypeOK, Safe, PatchPure, Knows, Claim, Goes, Elsewhere
<1> QED BY <1>4, <1>5, <1>6, <1>7 DEF Safe

LEMMA MoveAsideSafe ==
    ASSUME Typed, Safe, NEW h \in Handles, MoveAside(h)
    PROVE  Safe'
<1>1. Runs(h) /\ Alone(h) /\ Knows(h)
    BY AtWork DEF MoveAside, Goes, Patching, Restoring
<1>2. /\ pc' = [pc EXCEPT ![h] = pc'[h]]
      /\ UNCHANGED <<file, proc, todo, cur>>
      /\ \A g \in Handles : g # h =>
            /\ pc'[g] = pc[g] /\ read'[g] = read[g] /\ noOrig'[g] = noOrig[g]
            /\ lock'[g] # NoFile => lock'[g] = lock[g]
    BY DEF Typed, TypeOK, MoveAside, Goes, Elsewhere
<1>3. Knows(h)'
    BY <1>1, Kinds, Backups DEF Typed, TypeOK, Safe, LockIsBackup, NoLockRestored, Knows, HasLock, MoveAside, Goes, Elsewhere
<1>4. Solo' /\ CallersKnow' /\ SweepersKnow'
    BY <1>1, <1>2, <1>3, OperationStep
<1>5. LockIsBackup' /\ OneLock' /\ NoLockRestored'
    BY <1>1, Kinds, Backups DEF Typed, TypeOK, Safe, LockIsBackup, OneLock, NoLockRestored, Knows, HasLock, MoveAside, Elsewhere, Goes
<1>6. HeldInForce'
    BY <1>1, <1>2, HolderOnly DEF Typed, TypeOK, Safe, HeldInForce, Knows, HasLock, Runs, MoveAside, Goes, Elsewhere
<1>7. PatchPure'
    BY <1>1, Kinds DEF Typed, TypeOK, Safe, PatchPure, Knows, MoveAside, Goes, Elsewhere
<1> QED BY <1>4, <1>5, <1>6, <1>7 DEF Safe

LEMMA WriteSentinelSafe ==
    ASSUME Typed, Safe, NEW h \in Handles, WriteSentinel(h)
    PROVE  Safe'
<1>1. Runs(h) /\ Alone(h) /\ Knows(h)
    BY AtWork DEF WriteSentinel, Goes, Patching, Restoring
<1>2. /\ pc' = [pc EXCEPT ![h] = pc'[h]]
      /\ UNCHANGED <<file, proc, todo, cur>>
      /\ \A g \in Handles : g # h =>
            /\ pc'[g] = pc[g] /\ read'[g] = read[g] /\ noOrig'[g] = noOrig[g]
            /\ lock'[g] # NoFile => lock'[g] = lock[g]
    BY DEF Typed, TypeOK, WriteSentinel, Goes, Elsewhere
<1>3. Knows(h)'
    BY <1>1, Kinds, Backups DEF Typed, TypeOK, Safe, LockIsBackup, NoLockRestored, Knows, HasLock, WriteSentinel, Goes, Elsewhere
<1>4. Solo' /\ CallersKnow' /\ SweepersKnow'
    BY <1>1, <1>2, <1>3, OperationStep
<1>5. LockIsBackup' /\ OneLock' /\ NoLockRestored'
    BY <1>1, Kinds, Backups DEF Typed, TypeOK, Safe, LockIsBackup, OneLock, NoLockRestored, Knows, HasLock, WriteSentinel, Elsewhere, Goes
<1>6. HeldInForce'
    BY <1>1, <1>2, HolderOnly DEF Typed, TypeOK, Safe, HeldInForce, Knows, HasLock, Runs, WriteSentinel, Goes, Elsewhere
<1>7. PatchPure'
    BY <1>1, Kinds DEF Typed, TypeOK, Safe, PatchPure, Knows, WriteSentinel, Goes, Elsewhere
<1> QED BY <1>4, <1>5, <1>6, <1>7 DEF Safe

LEMMA TakeFailsSafe ==
    ASSUME Typed, Safe, NEW h \in Handles, TakeFails(h)
    PROVE  Safe'
<1>1. Runs(h) /\ Alone(h) /\ Knows(h)
    BY AtWork DEF TakeFails, Goes, Patching, Restoring
<1>2. /\ pc' = [pc EXCEPT ![h] = pc'[h]]
      /\ UNCHANGED <<file, proc, todo, cur>>
      /\ \A g \in Handles : g # h =>
            /\ pc'[g] = pc[g] /\ read'[g] = read[g] /\ noOrig'[g] = noOrig[g]
            /\ lock'[g] # NoFile => lock'[g] = lock[g]
    BY DEF Typed, TypeOK, TakeFails, Goes, Elsewhere
<1>3. Knows(h)'
    BY <1>1, Kinds, Backups DEF Typed, TypeOK, Safe, LockIsBackup, NoLockRestored, Knows, HasLock, TakeFails, Goes, Elsewhere
<1>4. Solo' /\ CallersKnow' /\ SweepersKnow'
    BY <1>1, <1>2, <1>3, OperationStep
<1>5. LockIsBackup' /\ OneLock' /\ NoLockRestored'
    BY <1>1, Kinds, Backups DEF Typed, TypeOK, Safe, LockIsBackup, OneLock, NoLockRestored, Knows, HasLock, TakeFails, Elsewhere, Goes
<1>6. HeldInForce'
    BY <1>1, <1>2, HolderOnly DEF Typed, TypeOK, Safe, HeldInForce, Knows, HasLock, Runs, TakeFails, Goes, Elsewhere
<1>7. PatchPure'
    BY <1>1, Kinds DEF Typed, TypeOK, Safe, PatchPure, Knows, TakeFails, Goes, Elsewhere
<1> QED BY <1>4, <1>5, <1>6, <1>7 DEF Safe

LEMMA InspectSafe ==
    ASSUME Typed, Safe, NEW h \in Handles, Inspect(h)
    PROVE  Safe'
<1>1. Runs(h) /\ Alone(h) /\ Knows(h)
    BY AtWork DEF Inspect, Goes, Patching, Restoring
<1>2. /\ pc' = [pc EXCEPT ![h] = pc'[h]]
      /\ UNCHANGED <<file, proc, todo, cur>>
      /\ \A g \in Handles : g # h =>
            /\ pc'[g] = pc[g] /\ read'[g] = read[g] /\ noOrig'[g] = noOrig[g]
            /\ lock'[g] # NoFile => lock'[g] = lock[g]
    BY DEF Typed, TypeOK, Inspect, Goes, Elsewhere
<1>3. Knows(h)'
    <2>1. lock[h] = Backup(file.user) /\ lock[h] # NoFile /\ read[h] = NoFile
        BY <1>1 DEF Safe, LockIsBackup, Knows, HasLock, Inspect, Goes
    <2>2. /\ lock' = lock /\ read' = read /\ file' = file
          /\ noOrig'[h] = (lock[h] = Sentinel)
          /\ pc'[h] = IF lock[h] = Sentinel THEN "build" ELSE "read"
        BY <2>1 DEF Typed, TypeOK, Inspect, Goes, Elsewhere
    <2>3. (lock[h] = Sentinel) = (file.user = NoFile)
        BY <2>1, Backups DEF Typed, TypeOK
    <2>4. CASE lock[h] = Sentinel
        <3>1. pc'[h] = "build" /\ noOrig'[h] = TRUE /\ file'.user = NoFile
            BY <2>2, <2>3, <2>4
        <3> QED BY <3>1, <2>1, <2>2 DEF Knows, HasLock
    <2>5. CASE lock[h] # Sentinel
        <3>1. pc'[h] = "read" /\ noOrig'[h] = FALSE /\ file'.user # NoFile
            BY <2>2, <2>3, <2>5
        <3> QED BY <3>1, <2>1, <2>2 DEF Knows, HasLock
    <2> QED BY <2>4, <2>5
<1>4. Solo' /\ CallersKnow' /\ SweepersKnow'
    BY <1>1, <1>2, <1>3, OperationStep
<1>5. LockIsBackup' /\ OneLock' /\ NoLockRestored'
    BY <1>1, Kinds, Backups DEF Typed, TypeOK, Safe, LockIsBackup, OneLock, NoLockRestored, Knows, HasLock, Inspect, Elsewhere, Goes
<1>6. HeldInForce'
    BY <1>1, <1>2, HolderOnly DEF Typed, TypeOK, Safe, HeldInForce, Knows, HasLock, Runs, Inspect, Goes, Elsewhere
<1>7. PatchPure'
    BY <1>1, Kinds DEF Typed, TypeOK, Safe, PatchPure, Knows, Inspect, Goes, Elsewhere
<1> QED BY <1>4, <1>5, <1>6, <1>7 DEF Safe

LEMMA ReadBackupSafe ==
    ASSUME Typed, Safe, NEW h \in Handles, ReadBackup(h)
    PROVE  Safe'
<1>1. Runs(h) /\ Alone(h) /\ Knows(h)
    BY AtWork DEF ReadBackup, Goes, Patching, Restoring
<1>2. /\ pc' = [pc EXCEPT ![h] = pc'[h]]
      /\ UNCHANGED <<file, proc, todo, cur>>
      /\ \A g \in Handles : g # h =>
            /\ pc'[g] = pc[g] /\ read'[g] = read[g] /\ noOrig'[g] = noOrig[g]
            /\ lock'[g] # NoFile => lock'[g] = lock[g]
    BY DEF Typed, TypeOK, ReadBackup, Goes, Elsewhere
<1>3. Knows(h)'
    BY <1>1, Kinds, Backups DEF Typed, TypeOK, Safe, LockIsBackup, NoLockRestored, Knows, HasLock, ReadBackup, Goes, Elsewhere
<1>4. Solo' /\ CallersKnow' /\ SweepersKnow'
    BY <1>1, <1>2, <1>3, OperationStep
<1>5. LockIsBackup' /\ OneLock' /\ NoLockRestored'
    BY <1>1, Kinds, Backups DEF Typed, TypeOK, Safe, LockIsBackup, OneLock, NoLockRestored, Knows, HasLock, ReadBackup, Elsewhere, Goes
<1>6. HeldInForce'
    BY <1>1, <1>2, HolderOnly DEF Typed, TypeOK, Safe, HeldInForce, Knows, HasLock, Runs, ReadBackup, Goes, Elsewhere
<1>7. PatchPure'
    BY <1>1, Kinds DEF Typed, TypeOK, Safe, PatchPure, Knows, ReadBackup, Goes, Elsewhere
<1> QED BY <1>4, <1>5, <1>6, <1>7 DEF Safe

LEMMA WritePatchSafe ==
    ASSUME Typed, Safe, NEW h \in Handles, WritePatch(h)
    PROVE  Safe'
<1>1. Runs(h) /\ Alone(h) /\ Knows(h)
    BY AtWork DEF WritePatch, Goes, Patching, Restoring
<1>2. /\ pc' = [pc EXCEPT ![h] = pc'[h]]
      /\ UNCHANGED <<file, proc, todo, cur>>
      /\ \A g \in Handles : g # h =>
            /\ pc'[g] = pc[g] /\ read'[g] = read[g] /\ noOrig'[g] = noOrig[g]
            /\ lock'[g] # NoFile => lock'[g] = lock[g]
    BY DEF Typed, TypeOK, WritePatch, Goes, Elsewhere
<1>3. Knows(h)'
    BY <1>1, Kinds, Backups DEF Typed, TypeOK, Safe, LockIsBackup, NoLockRestored, Knows, HasLock, WritePatch, Goes, Elsewhere
<1>4. Solo' /\ CallersKnow' /\ SweepersKnow'
    BY <1>1, <1>2, <1>3, OperationStep
<1>5. LockIsBackup' /\ OneLock' /\ NoLockRestored'
    BY <1>1, Kinds, Backups DEF Typed, TypeOK, Safe, LockIsBackup, OneLock, NoLockRestored, Knows, HasLock, WritePatch, Elsewhere, Goes
<1>8. \A g \in Handles : g # h => lock'[g] = NoFile
    BY <1>1, <1>2, HolderOnly DEF Knows, HasLock, WritePatch, Goes
<1>9. target' \in {PatchBy(h, TRUE), PatchBy(h, FALSE)}
    BY DEF WritePatch
<1>6. HeldInForce'
    BY <1>8, <1>9 DEF HeldInForce
<1>7. PatchPure'
    BY <1>1, Kinds DEF Typed, TypeOK, Safe, PatchPure, Knows, WritePatch, Goes, Elsewhere
<1> QED BY <1>4, <1>5, <1>6, <1>7 DEF Safe

LEMMA BuildFailsSafe ==
    ASSUME Typed, Safe, NEW h \in Handles, BuildFails(h)
    PROVE  Safe'
<1>1. Runs(h) /\ Alone(h) /\ Knows(h)
    BY AtWork DEF BuildFails, Goes, Patching, Restoring
<1>2. /\ pc' = [pc EXCEPT ![h] = pc'[h]]
      /\ UNCHANGED <<file, proc, todo, cur>>
      /\ \A g \in Handles : g # h =>
            /\ pc'[g] = pc[g] /\ read'[g] = read[g] /\ noOrig'[g] = noOrig[g]
            /\ lock'[g] # NoFile => lock'[g] = lock[g]
    BY DEF Typed, TypeOK, BuildFails, Goes, Elsewhere
<1>3. Knows(h)'
    BY <1>1, Kinds, Backups DEF Typed, TypeOK, Safe, LockIsBackup, NoLockRestored, Knows, HasLock, BuildFails, Goes, Elsewhere
<1>4. Solo' /\ CallersKnow' /\ SweepersKnow'
    BY <1>1, <1>2, <1>3, OperationStep
<1>5. LockIsBackup' /\ OneLock' /\ NoLockRestored'
    BY <1>1, Kinds, Backups DEF Typed, TypeOK, Safe, LockIsBackup, OneLock, NoLockRestored, Knows, HasLock, BuildFails, Elsewhere, Goes
<1>6. HeldInForce'
    BY <1>1, <1>2, HolderOnly DEF Typed, TypeOK, Safe, HeldInForce, Knows, HasLock, Runs, BuildFails, Goes, Elsewhere
<1>7. PatchPure'
    BY <1>1, Kinds DEF Typed, TypeOK, Safe, PatchPure, Knows, BuildFails, Goes, Elsewhere
<1> QED BY <1>4, <1>5, <1>6, <1>7 DEF Safe

LEMMA RemovePatchSafe ==
    ASSUME Typed, Safe, NEW h \in Handles, RemovePatch(h)
    PROVE  Safe'
<1>1. Runs(h) /\ Alone(h) /\ Knows(h)
    BY AtWork DEF RemovePatch, Goes, Patching, Restoring
<1>2. /\ pc' = [pc EXCEPT ![h] = pc'[h]]
      /\ UNCHANGED <<file, proc, todo, cur>>
      /\ \A g \in Handles : g # h =>
            /\ pc'[g] = pc[g] /\ read'[g] = read[g] /\ noOrig'[g] = noOrig[g]
            /\ lock'[g] # NoFile => lock'[g] = lock[g]
    BY DEF Typed, TypeOK, RemovePatch, Goes, Elsewhere
<1>3. Knows(h)'
    BY <1>1, Kinds, Backups DEF Typed, TypeOK, Safe, LockIsBackup, NoLockRestored, Knows, HasLock, RemovePatch, Goes, Elsewhere
<1>4. Solo' /\ CallersKnow' /\ SweepersKnow'
    BY <1>1, <1>2, <1>3, OperationStep
<1>5. LockIsBackup' /\ OneLock' /\ NoLockRestored'
    BY <1>1, Kinds, Backups DEF Typed, TypeOK, Safe, LockIsBackup, OneLock, NoLockRestored, Knows, HasLock, RemovePatch, Elsewhere, Goes
<1>8. \A g \in Handles : g # h => lock'[g] = NoFile
    BY <1>1, <1>2, HolderOnly DEF Knows, HasLock, RemovePatch, Goes
<1>6. HeldInForce'
    <2>1. pc'[h] # "held"
        BY DEF Typed, TypeOK, RemovePatch, Goes
    <2> QED BY <1>8, <2>1 DEF HeldInForce
<1>7. PatchPure'
    BY <1>1, Kinds DEF Typed, TypeOK, Safe, PatchPure, Knows, RemovePatch, Goes, Elsewhere
<1> QED BY <1>4, <1>5, <1>6, <1>7 DEF Safe

LEMMA PutOriginalSafe ==
    ASSUME Typed, Safe, NEW h \in Handles, PutOriginal(h)
    PROVE  Safe'
<1>1. Runs(h) /\ Alone(h) /\ Knows(h)
    BY AtWork DEF PutOriginal, Goes, Patching, Restoring
<1>2. /\ pc' = [pc EXCEPT ![h] = pc'[h]]
      /\ UNCHANGED <<file, proc, todo, cur>>
      /\ \A g \in Handles : g # h =>
            /\ pc'[g] = pc[g] /\ read'[g] = read[g] /\ noOrig'[g] = noOrig[g]
            /\ lock'[g] # NoFile => lock'[g] = lock[g]
    BY DEF Typed, TypeOK, PutOriginal, Goes, Elsewhere, PutBack
<1>3. Knows(h)'
    BY <1>1, Kinds, Backups DEF Typed, TypeOK, Safe, LockIsBackup, NoLockRestored, Knows, HasLock, PutOriginal, Goes, Elsewhere, PutBack
<1>4. Solo' /\ CallersKnow' /\ SweepersKnow'
    BY <1>1, <1>2, <1>3, OperationStep
<1>5. LockIsBackup' /\ OneLock' /\ NoLockRestored'
    BY <1>1, Kinds, Backups DEF Typed, TypeOK, Safe, LockIsBackup, OneLock, NoLockRestored, Knows, HasLock, PutOriginal, Elsewhere, Goes, PutBack
<1>8. \A g \in Handles : g # h => lock'[g] = NoFile
    BY <1>1, <1>2, HolderOnly DEF Knows, HasLock, PutOriginal, Goes
<1>6. HeldInForce'
    <2>1. pc'[h] # "held"
        BY DEF Typed, TypeOK, PutOriginal, Goes
    <2> QED BY <1>8, <2>1 DEF HeldInForce
<1>9. target' = file.user
    BY <1>1, Backups DEF Typed, TypeOK, Safe, LockIsBackup, Knows, HasLock, PutOriginal, Goes, PutBack
<1>7. PatchPure'
    BY <1>9, Kinds, Backups DEF Typed, TypeOK, PatchPure
<1> QED BY <1>4, <1>5, <1>6, <1>7 DEF Safe

\* Giving a patch up because there is no file: from rest to rest.
LEMMA SkipSafe ==
    ASSUME Typed, Safe, NEW h \in Handles, Skip(h)
    PROVE  Safe'
<1>1. /\ UNCHANGED <<file, target, lock, found, noOrig, read, proc, todo, cur>>
      /\ pc' = [pc EXCEPT ![h] = "skipped"] /\ pc[h] = "new"
    BY DEF Skip, Goes, Elsewhere
<1>2. \A g \in Handles : pc'[g] = IF g = h THEN "skipped" ELSE pc[g]
    BY <1>1 DEF Typed, TypeOK
<1>3. \A g \in Handles : Working(g)' => Working(g)
    BY <1>1, <1>2 DEF Working, Patching, Restoring
<1>4. \A p \in Procs : Sweeping(p)' <=> Sweeping(p)
    BY <1>1 DEF Sweeping
<1>5. Solo'
    BY <1>3, <1>4 DEF Safe, Solo
<1>6. CallersKnow'
    <2>1. \A g \in Handles : Runs(g)' => Knows(g)
        BY <1>1 DEF Safe, CallersKnow, Runs
    <2>2. Knows(h)'
        BY <1>2 DEF Knows
    <2>3. ASSUME NEW g \in Handles, g # h, Knows(g) PROVE Knows(g)'
        BY <1>1, <1>2, <2>3 DEF Knows, HasLock
    <2> QED BY <2>1, <2>2, <2>3 DEF CallersKnow
<1>7. SweepersKnow' /\ LockIsBackup' /\ OneLock' /\ NoLockRestored' /\ PatchPure'
    BY <1>1 DEF Safe, SweepersKnow, LockIsBackup, OneLock, NoLockRestored, PatchPure
<1>8. \A g \in Handles : (Runs(g) /\ pc[g] = "held")' => Runs(g) /\ pc[g] = "held"
    BY <1>1, <1>2 DEF Runs
<1>9. HeldInForce'
    BY <1>1, <1>8 DEF Safe, HeldInForce
<1> QED BY <1>5, <1>6, <1>7, <1>9 DEF Safe

\* A call that begins, or whose handle is restored, while nobody is at work.
LEMMA BeginSafe ==
    ASSUME Typed, Safe, NEW h \in Handles, Begin(h), ~clash'
    PROVE  Safe'
<1>1. Runs(h) /\ Alone(h) /\ Knows(h)
    BY BeginsAlone DEF Begin, Goes, Safe, CallersKnow
<1>2. /\ UNCHANGED <<file, target, lock, noOrig, read, proc, todo, cur>>
      /\ \A g \in Handles : pc'[g] = IF g = h THEN "look" ELSE pc[g]
    BY DEF Typed, TypeOK, Begin, Goes
<1>3. Knows(h)'
    BY <1>1, <1>2 DEF Knows, Begin, Goes
<1>4. Solo' /\ CallersKnow' /\ SweepersKnow'
    BY <1>1, <1>2, <1>3, OperationStep
<1>5. HeldInForce' /\ LockIsBackup' /\ OneLock' /\ NoLockRestored' /\ PatchPure'
    BY <1>2 DEF Safe, HeldInForce, LockIsBackup, OneLock, NoLockRestored, PatchPure, Runs
<1> QED BY <1>4, <1>5 DEF Safe

LEMMA RestoreSafe ==
    ASSUME Typed, Safe, NEW h \in Handles, Restore(h), ~clash'
    PROVE  Safe'
<1>1. Runs(h) /\ Alone(h) /\ Knows(h) /\ pc[h] = "held"
    BY BeginsAlone DEF Restore, Goes, Safe, CallersKnow
<1>2. /\ UNCHANGED <<file, target, lock, noOrig, read, proc, todo, cur>>
      /\ \A g \in Handles : g # h => pc'[g] = pc[g]
      /\ pc'[h] = IF lock[h] = NoFile THEN "lost" ELSE "remove"
    BY DEF Typed, TypeOK, Restore, Goes
<1>3. Knows(h)'
    BY <1>1, <1>2 DEF Knows, HasLock
<1>4. Solo' /\ CallersKnow' /\ SweepersKnow'
    BY <1>1, <1>2, <1>3, OperationStep
<1>5. HeldInForce' /\ LockIsBackup' /\ OneLock' /\ NoLockRestored' /\ PatchPure'
    BY <1>2 DEF Safe, HeldInForce, LockIsBackup, OneLock, NoLockRestored, PatchPure, Runs
<1> QED BY <1>4, <1>5 DEF Safe

-----------------------------------------------------------------------------
(* Starts, sweeps, deaths, and Studio's own writes *)

LEMMA StartSafe ==
    ASSUME Typed, Safe, NEW p \in Procs, Start(p), ~clash'
    PROVE  Safe'
<1>1. /\ UNCHANGED <<file, target, lock, pc, found, noOrig, read, cur>>
      /\ proc[p] = "new" /\ \A q \in Procs : proc'[q] = IF q = p THEN "up" ELSE proc[q]
      /\ \A q \in Procs : q # p => todo'[q] = todo[q]
    BY DEF Typed, TypeOK, Start
<1>2. /\ \A q \in Procs : ~Sweeping(q)
      /\ \A h \in Handles : ~Working(h)
    BY DEF Start, Begins, Idle
<1>3. \A h \in Handles : Owner[h] = p => pc[h] = "new" /\ read[h] = NoFile
    BY <1>1 DEF Typed, FirstStart
<1>4. \A h \in Handles : Runs(h)' => Runs(h) \/ Owner[h] = p
    BY <1>1, PatchAssumption DEF Runs
<1>5. \A h \in Handles : ~Working(h)'
    BY <1>1, <1>2, <1>3, <1>4 DEF Working, Runs, Patching, Restoring
<1>6. \A q \in Procs : Sweeping(q)' => q = p
    BY <1>1, <1>2 DEF Sweeping
<1>7. Solo'
    BY <1>5, <1>6 DEF Solo
<1>8. CallersKnow'
    <2>1. ASSUME NEW h \in Handles, Runs(h) PROVE Knows(h)'
        BY <1>1, <2>1 DEF Safe, CallersKnow, Knows, HasLock
    <2>2. ASSUME NEW h \in Handles, Owner[h] = p PROVE Knows(h)'
        BY <1>1, <1>3, <2>2 DEF Knows
    <2> QED BY <1>4, <2>1, <2>2 DEF CallersKnow
<1>9. SweepersKnow'
    <2>1. cur[p] = None
        BY <1>1 DEF Typed, NewIdle
    <2>2. \A q \in Procs : q # p /\ proc'[q] = "up" => cur[q] = None
        BY <1>1, <1>2 DEF Sweeping
    <2> QED BY <1>1, <2>1, <2>2 DEF SweepersKnow
<1>10. HeldInForce'
    BY <1>1, <1>3, <1>4 DEF Safe, HeldInForce
<1>11. LockIsBackup' /\ OneLock' /\ NoLockRestored' /\ PatchPure'
    BY <1>1 DEF Safe, LockIsBackup, OneLock, NoLockRestored, PatchPure
<1> QED BY <1>7, <1>8, <1>9, <1>10, <1>11 DEF Safe

\* A step of a process that sweeps, and of nobody else.
LEMMA SweepStep ==
    ASSUME Typed, Safe, NEW p \in Procs, Sweeping(p),
           UNCHANGED <<file, pc, found, noOrig, read, proc>>,
           \A q \in Procs : q # p => todo'[q] = todo[q] /\ cur'[q] = cur[q],
           \A h \in Handles : lock'[h] # NoFile => lock'[h] = lock[h]
    PROVE  /\ Solo' /\ CallersKnow'
           /\ \A q \in Procs : q # p /\ proc'[q] = "up" => cur'[q] = None
<1>1. \A h \in Handles : ~Working(h) /\ ~Working(h)'
    BY DEF Safe, Solo, Working, Runs
<1>2. \A q \in Procs : Sweeping(q)' => q = p
    BY DEF Safe, Solo, Sweeping
<1>3. Solo'
    BY <1>1, <1>2 DEF Solo
<1>4. ASSUME NEW h \in Handles, Runs(h)' PROVE Knows(h)'
    <2>1. Runs(h) /\ Knows(h)
        BY <1>4 DEF Safe, CallersKnow, Runs
    <2>2. pc[h] \in Resting
        BY <1>1, <2>1 DEF Typed, TypeOK, Working, Runs
    <2> QED BY <2>1, <2>2 DEF Knows, HasLock, Resting
<1>5. CallersKnow'
    BY <1>4 DEF CallersKnow
<1>6. \A q \in Procs : q # p /\ proc'[q] = "up" => cur'[q] = None
    BY DEF Safe, Solo, Sweeping
<1> QED BY <1>3, <1>5, <1>6

LEMMA VisitSafe ==
    ASSUME Typed, Safe, NEW p \in Procs, NEW l \in Handles, Visit(p, l)
    PROVE  Safe'
<1>1. /\ UNCHANGED <<file, target, lock, pc, found, noOrig, read, proc>>
      /\ proc[p] = "up" /\ Sweeping(p)
      /\ \A q \in Procs : q # p => todo'[q] = todo[q] /\ cur'[q] = cur[q]
    BY DEF Typed, TypeOK, Visit, Still, Sweeping
<1>2. Solo' /\ CallersKnow' /\ \A q \in Procs : q # p /\ proc'[q] = "up" => cur'[q] = None
    BY <1>1, SweepStep
<1>3. SweepersKnow'
    <2>1. CASE proc[Owner[l]] # "up" /\ lock[l] # NoFile
        <3>1. cur'[p] = [of |-> l, sentinel |-> (lock[l] = Sentinel), gone |-> FALSE]
            BY <2>1 DEF Typed, TypeOK, Visit
        <3>2. (lock[l] = Sentinel) = (file.user = NoFile)
            BY <2>1, Backups DEF Typed, TypeOK, Safe, LockIsBackup
        <3>3. cur'[p].of = l /\ cur'[p].sentinel = (file.user = NoFile) /\ cur'[p].gone = FALSE
            BY <3>1, <3>2
        <3> QED BY <1>1, <1>2, <2>1, <3>3 DEF SweepersKnow
    <2>2. CASE ~ (proc[Owner[l]] # "up" /\ lock[l] # NoFile)
        <3>1. cur'[p] = None
            BY <2>2 DEF Typed, TypeOK, Visit
        <3> QED BY <1>2, <3>1 DEF SweepersKnow
    <2> QED BY <2>1, <2>2
<1>4. HeldInForce' /\ LockIsBackup' /\ OneLock' /\ NoLockRestored' /\ PatchPure'
    BY <1>1 DEF Safe, HeldInForce, LockIsBackup, OneLock, NoLockRestored, PatchPure, Runs
<1> QED BY <1>2, <1>3, <1>4 DEF Safe

\* The lock a sweep puts back belongs to no running call.
LEMMA SweptLock ==
    ASSUME Typed, Safe, NEW p \in Procs, proc[p] = "up", cur[p] # None
    PROVE  /\ Sweeping(p) /\ cur[p].of \in Handles
           /\ lock[cur[p].of] = Backup(file.user) /\ ~Runs(cur[p].of)
           /\ \A h \in Handles : h # cur[p].of => lock[h] = NoFile
<1>1. Sweeping(p)
    BY DEF Sweeping
<1>2. cur[p].of \in Handles
    BY DEF Typed, TypeOK
<1>3. lock[cur[p].of] # NoFile /\ ~Runs(cur[p].of)
    BY DEF Safe, SweepersKnow, Runs
<1>4. lock[cur[p].of] = Backup(file.user)
    BY <1>2, <1>3 DEF Safe, LockIsBackup
<1>5. \A h \in Handles : h # cur[p].of => lock[h] = NoFile
    BY <1>2, <1>3 DEF Safe, OneLock
<1> QED BY <1>1, <1>2, <1>3, <1>4, <1>5

LEMMA SweepRemoveSafe ==
    ASSUME Typed, Safe, NEW p \in Procs, SweepRemove(p)
    PROVE  Safe'
<1>1. /\ UNCHANGED <<file, lock, pc, found, noOrig, read, proc, todo>> /\ target' = NoFile
      /\ proc[p] = "up" /\ cur[p] # None
    BY DEF SweepRemove, Still
<1>2. /\ Sweeping(p) /\ cur[p].of \in Handles
      /\ lock[cur[p].of] # NoFile /\ ~Runs(cur[p].of)
      /\ \A h \in Handles : h # cur[p].of => lock[h] = NoFile
    BY <1>1, SweptLock, Backups DEF Typed, TypeOK
<1>3. /\ \A q \in Procs : q # p => cur'[q] = cur[q]
      /\ cur'[p].of = cur[p].of /\ cur'[p].sentinel = cur[p].sentinel
    BY <1>1 DEF Typed, TypeOK, SweepRemove
<1>4. Solo' /\ CallersKnow' /\ \A q \in Procs : q # p /\ proc'[q] = "up" => cur'[q] = None
    BY <1>1, <1>2, <1>3, SweepStep
<1>5. SweepersKnow'
    BY <1>1, <1>3, <1>4 DEF Safe, SweepersKnow
<1>6. HeldInForce'
    BY <1>1, <1>2 DEF HeldInForce, Runs
<1>7. LockIsBackup' /\ OneLock' /\ NoLockRestored'
    BY <1>1, <1>2 DEF Safe, LockIsBackup, OneLock, NoLockRestored
<1>8. PatchPure'
    BY <1>1, Kinds DEF PatchPure
<1> QED BY <1>4, <1>5, <1>6, <1>7, <1>8 DEF Safe

LEMMA SweepPutSafe ==
    ASSUME Typed, Safe, NEW p \in Procs, SweepPut(p)
    PROVE  Safe'
<1>1. /\ UNCHANGED <<file, pc, found, noOrig, read, proc>>
      /\ proc[p] = "up" /\ cur[p] # None /\ cur[p].gone
      /\ PutBack(cur[p].of, cur[p].sentinel)
    BY DEF SweepPut, Still
<1>2. /\ Sweeping(p) /\ cur[p].of \in Handles
      /\ lock[cur[p].of] = Backup(file.user)
      /\ \A h \in Handles : h # cur[p].of => lock[h] = NoFile
    BY <1>1, SweptLock
<1>3. cur[p].sentinel = (file.user = NoFile) /\ target = NoFile
    BY <1>1 DEF Safe, SweepersKnow
<1>4. \A h \in Handles : lock'[h] = NoFile
    BY <1>1, <1>2 DEF Typed, TypeOK, PutBack
<1>5. target' = file.user
    BY <1>1, <1>2, <1>3, Backups DEF Typed, TypeOK, PutBack
<1>6. /\ \A q \in Procs : q # p => cur'[q] = cur[q] /\ todo'[q] = todo[q]
      /\ cur'[p] = None
    BY DEF Typed, TypeOK, SweepPut
<1>7. Solo' /\ CallersKnow' /\ \A q \in Procs : q # p /\ proc'[q] = "up" => cur'[q] = None
    BY <1>1, <1>2, <1>4, <1>6, SweepStep
<1>8. SweepersKnow'
    BY <1>6, <1>7 DEF SweepersKnow
<1>9. HeldInForce' /\ LockIsBackup' /\ OneLock' /\ NoLockRestored'
    BY <1>1, <1>4, <1>5 DEF HeldInForce, LockIsBackup, OneLock, NoLockRestored
<1>10. PatchPure'
    BY <1>5, Kinds, Backups DEF Typed, TypeOK, PatchPure
<1> QED BY <1>7, <1>8, <1>9, <1>10 DEF Safe

\* A death changes who runs, and no file.
LEMMA CrashSafe ==
    ASSUME Typed, Safe, NEW p \in Procs, Crash(p)
    PROVE  Safe'
<1>1. /\ UNCHANGED <<file, target, lock, pc, found, noOrig, read, todo, cur>>
      /\ \A q \in Procs : proc'[q] = IF q = p THEN "dead" ELSE proc[q]
    BY DEF Typed, TypeOK, Crash, Still
<1>2. \A h \in Handles : Runs(h)' => Runs(h)
    BY <1>1, PatchAssumption DEF Runs
<1>3. \A h \in Handles : Working(h)' => Working(h)
    BY <1>1, <1>2 DEF Working, Runs
<1>4. \A q \in Procs : Sweeping(q)' => Sweeping(q)
    BY <1>1 DEF Sweeping
<1>5. Solo'
    BY <1>3, <1>4 DEF Safe, Solo
<1>6. CallersKnow'
    BY <1>1, <1>2 DEF Safe, CallersKnow, Knows, HasLock
<1>7. SweepersKnow'
    <2>1. ASSUME NEW q \in Procs, proc'[q] = "up", cur[q] # None
          PROVE  proc[q] = "up" /\ cur[q].of \in Handles
        BY <1>1, <2>1 DEF Typed, TypeOK
    <2> QED BY <1>1, <2>1, PatchAssumption DEF Safe, SweepersKnow
<1>8. HeldInForce' /\ LockIsBackup' /\ OneLock' /\ NoLockRestored' /\ PatchPure'
    BY <1>1, <1>2 DEF Safe, HeldInForce, LockIsBackup, OneLock, NoLockRestored, PatchPure
<1> QED BY <1>5, <1>6, <1>7, <1>8 DEF Safe

LEMMA StudioSafe ==
    ASSUME Typed, Safe, StudioWrites
    PROVE  Safe'
<1>1. /\ UNCHANGED <<file, lock, pc, found, noOrig, read, proc, todo, cur>>
      /\ Locks # {} /\ target # NoFile /\ target' = Rewritten
    BY DEF StudioWrites, Still
<1>2. Solo'
    BY <1>1 DEF Safe, Solo, Working, Sweeping, Runs
<1>3. CallersKnow'
    BY <1>1 DEF Safe, CallersKnow, Knows, HasLock, Runs
<1>4. SweepersKnow'
    BY <1>1 DEF Safe, SweepersKnow
<1>5. LockIsBackup' /\ OneLock' /\ NoLockRestored'
    BY <1>1 DEF Safe, LockIsBackup, OneLock, NoLockRestored, Locks
<1>6. HeldInForce'
    BY <1>1 DEF HeldInForce
<1>7. PatchPure'
    BY <1>1, Kinds DEF PatchPure
<1> QED BY <1>2, <1>3, <1>4, <1>5, <1>6, <1>7 DEF Safe

-----------------------------------------------------------------------------
(* The invariant and what follows *)

LEMMA SafeNext == Typed /\ Safe /\ [Next]_vars /\ ~clash' => Safe'
<1> SUFFICES ASSUME Typed, Safe, [Next]_vars, ~clash' PROVE Safe'
    OBVIOUS
<1>1. CASE UNCHANGED vars
    BY <1>1 DEF vars, Safe, Solo, LockIsBackup, OneLock, NoLockRestored, CallersKnow, Knows, HasLock,
                SweepersKnow, HeldInForce, PatchPure, Working, Sweeping, Runs
<1>2. CASE \E h \in Handles :
             \/ Skip(h) \/ Begin(h) \/ List(h) \/ Claim(h) \/ MoveAside(h) \/ WriteSentinel(h)
             \/ TakeFails(h) \/ Inspect(h) \/ ReadBackup(h) \/ WritePatch(h) \/ BuildFails(h)
             \/ Restore(h) \/ RemovePatch(h) \/ PutOriginal(h)
    BY <1>2, SkipSafe, BeginSafe, ListSafe, ClaimSafe, MoveAsideSafe, WriteSentinelSafe, TakeFailsSafe,
       InspectSafe, ReadBackupSafe, WritePatchSafe, BuildFailsSafe, RestoreSafe, RemovePatchSafe,
       PutOriginalSafe
<1>3. CASE \E p \in Procs :
             \/ Start(p) \/ SweepRemove(p) \/ SweepPut(p) \/ Crash(p)
             \/ \E l \in Handles : Visit(p, l)
    BY <1>3, StartSafe, SweepRemoveSafe, SweepPutSafe, CrashSafe, VisitSafe
<1>4. CASE StudioWrites
    BY <1>4, StudioSafe
<1> QED BY <1>1, <1>2, <1>3, <1>4 DEF Next

\* Once two operations have overlapped, that is remembered.
LEMMA ClashStays == [Next]_vars /\ ~clash' => ~clash
BY DEF vars, Next, Begins, Skip, Begin, List, Claim, MoveAside, WriteSentinel, TakeFails, Inspect,
       ReadBackup, WritePatch, BuildFails, Restore, RemovePatch, PutOriginal, Start, SweepRemove,
       SweepPut, Crash, Visit, StudioWrites, Elsewhere, Still

LEMMA PatchInductive == Spec => []PatchInv
<1>1. Init => PatchInv
    BY TypedInit, SafeInit DEF PatchInv
<1>2. PatchInv /\ [Next]_vars => PatchInv'
    BY TypedNext, SafeNext, ClashStays DEF PatchInv
<1> QED BY <1>1, <1>2, PTL DEF Spec

\* Every variable keeps its type, and the file the user sees is never left as
\* the empty sentinel, whatever overlaps and whoever dies.
THEOREM TypesKept == Spec => []TypeOK
<1>1. PatchInv => TypeOK
    BY DEF PatchInv, Typed
<1> QED BY <1>1, PatchInductive, PTL

\* What the user had is in the file, or in the one lock there is.
THEOREM UserFileKept == Spec => []OriginalKept
<1>1. PatchInv => OriginalKept
    <2> SUFFICES ASSUME PatchInv, ~clash
                 PROVE  \/ Locks = {} /\ target = file.user
                        \/ \E h \in Handles : Locks = {h} /\ lock[h] = Backup(file.user)
        BY DEF OriginalKept
    <2>1. CASE Locks = {}
        BY <2>1 DEF PatchInv, Safe, NoLockRestored, Locks
    <2>2. CASE Locks # {}
        <3>1. PICK h \in Handles : lock[h] # NoFile
            BY <2>2 DEF Locks
        <3>2. Locks = {h}
            BY <3>1 DEF PatchInv, Safe, OneLock, Locks
        <3>3. lock[h] = Backup(file.user)
            BY <3>1 DEF PatchInv, Safe, LockIsBackup
        <3> QED BY <3>2, <3>3
    <2> QED BY <2>1, <2>2
<1> QED BY <1>1, PatchInductive, PTL

\* No patch is built on another process's patch.
THEOREM PatchesPure == Spec => []BuiltOnOriginal
<1>1. PatchInv => BuiltOnOriginal
    BY DEF PatchInv, Safe, PatchPure, BuiltOnOriginal
<1> QED BY <1>1, PatchInductive, PTL

\* The patch of a process that still uses it stays in force.
THEOREM PatchesHold == Spec => []PatchHolds
<1>1. PatchInv => PatchHolds
    BY DEF PatchInv, Safe, HeldInForce, PatchHolds
<1> QED BY <1>1, PatchInductive, PTL

-----------------------------------------------------------------------------
(* Settings: flags by precedence, and only the listed panels *)

Flags == UNION {[K -> Values] : K \in SUBSET Keys}

LEMMA InsertFlags ==
    ASSUME NEW f \in Flags, NEW k \in Keys, NEW v \in Values
    PROVE  /\ Insert(f, k, v) \in Flags
           /\ DOMAIN Insert(f, k, v) = {k} \union DOMAIN f
           /\ Insert(f, k, v)[k] = v
           /\ \A j \in DOMAIN f : j # k => Insert(f, k, v)[j] = f[j]
<1>1. PICK K \in SUBSET Keys : f \in [K -> Values]
  BY DEF Flags
<1>2. Insert(f, k, v) \in [{k} \union K -> Values]
  BY <1>1 DEF Insert
<1>3. {k} \union K \in SUBSET Keys
  OBVIOUS
<1>4. Insert(f, k, v) \in Flags
  BY <1>2, <1>3 DEF Flags
<1> QED
  BY <1>4 DEF Insert

LEMMA PrefixedKey ==
    ASSUME NEW a \in FlagArgs
    PROVE  AutoPrefix(a) \in Keys /\ (a.value # Nothing => a.value \in Values)
<1>1. a.name \in FlagNames /\ a.prefix \in FlagTypes \union {"bare"} /\ a.value \in Values \union {Nothing}
  BY DEF FlagArgs
<1> QED
  BY <1>1 DEF AutoPrefix, Keys, FlagTypes

\* An override with a value sets its key; one without changes nothing.
LEMMA ParseFlags ==
    ASSUME NEW f \in Flags, NEW a \in FlagArgs
    PROVE  /\ Parse(f, a) \in Flags
           /\ \A k \in Keys : Sets(a, k) => k \in DOMAIN Parse(f, a) /\ Parse(f, a)[k] = a.value
           /\ \A k \in Keys : ~ Sets(a, k) =>
                 /\ k \in DOMAIN Parse(f, a) <=> k \in DOMAIN f
                 /\ k \in DOMAIN f => Parse(f, a)[k] = f[k]
<1>1. CASE a.value = Nothing
  BY <1>1 DEF Parse, Sets
<1>2. CASE a.value # Nothing
  <2> DEFINE key == AutoPrefix(a)
             v == a.value
  <2>1. key \in Keys /\ v \in Values
    BY <1>2, PrefixedKey
  <2>2. Parse(f, a) = Insert(f, key, v)
    BY <1>2 DEF Parse
  <2>3. \A k \in Keys : Sets(a, k) <=> k = key
    BY <1>2 DEF Sets
  <2> HIDE DEF key
  <2>4. /\ Insert(f, key, v) \in Flags
        /\ DOMAIN Insert(f, key, v) = {key} \union DOMAIN f
        /\ Insert(f, key, v)[key] = v
        /\ \A j \in DOMAIN f : j # key => Insert(f, key, v)[j] = f[j]
    BY <2>1, InsertFlags
  <2> QED
    BY <2>2, <2>3, <2>4
<1> QED
  BY <1>1, <1>2

LEMMA NoFlagsType == NoFlags \in Flags /\ DOMAIN NoFlags = {}
<1>1. NoFlags \in [{} -> Values] /\ {} \in SUBSET Keys
  BY DEF NoFlags
<1> QED
  BY <1>1 DEF Flags, NoFlags

\* The overrides are parsed one by one: b holds what is parsed after each.
ParsedBy(b, args) ==
    /\ b \in [0 .. Len(args) -> Flags] /\ b[0] = NoFlags
    /\ \A n \in 1 .. Len(args) : b[n] = Parse(b[n - 1], args[n])

LEMMA ParseSteps ==
    ASSUME NEW args \in Seq(FlagArgs)
    PROVE  \E b : ParsedBy(b, args) /\ ParseOverrides(args) = b[Len(args)]
<1> DEFINE N == Len(args)
           step == [p \in (1 .. N) \X Flags |-> Parse(p[2], args[p[1]])]
<1>1. N \in Nat
  BY LenProperties
<1>2. \A n \in 1 .. N : args[n] \in FlagArgs
  BY ElementOfSeq
<1>3. \A n \in 1 .. N, x \in Flags : step[<<n, x>>] = Parse(x, args[n])
  OBVIOUS
<1>4. step \in [(1 .. N) \X Flags -> Flags]
  <2> SUFFICES ASSUME NEW p \in (1 .. N) \X Flags
               PROVE  Parse(p[2], args[p[1]]) \in Flags
    OBVIOUS
  <2>1. p[1] \in 1 .. N /\ p[2] \in Flags
    OBVIOUS
  <2> QED
    BY <2>1, <1>2, ParseFlags
<1> HIDE DEF step, N
<1>5. PICK f \in [0 .. N -> Flags] : f[0] = NoFlags /\ \A k \in 1 .. N : f[k] = step[<<k, f[k - 1]>>]
  <2>1. NoFlags \in Flags
    BY NoFlagsType
  <2>2. \E f : Recurs(f, N, Flags, NoFlags, step)
    BY <1>1, <1>4, <2>1, Recursion, Zenon
  <2> QED
    BY <2>2 DEF Recurs
<1>6. \A k \in 1 .. N : f[k] = Parse(f[k - 1], args[k])
  <2> TAKE k \in 1 .. N
  <2>1. k - 1 \in 0 .. N
    BY <1>1
  <2> QED
    BY <2>1, <1>3, <1>5
<1> DEFINE body(g) == [n \in 0 .. N |-> IF n = 0 THEN NoFlags ELSE Parse(g[n - 1], args[n])]
           b == CHOOSE g : g = body(g)
<1>7. f = body(f)
  BY <1>1, <1>5, <1>6
<1>8. ParseOverrides(args) = b[N]
  BY DEF ParseOverrides, N
<1>9. b = body(b)
  BY <1>7
<1> HIDE DEF b
<1>10. b[0] = NoFlags /\ \A n \in 1 .. N : b[n] = Parse(b[n - 1], args[n])
  BY <1>1, <1>9
<1>11. \A k \in 0 .. N : b[k] \in Flags
  <2> DEFINE S == {k \in 0 .. N : b[k] \in Flags}
  <2>1. 0 \in S
    BY <1>1, <1>10, NoFlagsType
  <2>2. ASSUME NEW k \in 0 .. N - 1, k \in S PROVE k + 1 \in S
    <3>1. k + 1 \in 1 .. N /\ (k + 1) - 1 = k
      BY <1>1
    <3>2. b[k + 1] = Parse(b[k], args[k + 1])
      BY <3>1, <1>10
    <3>3. args[k + 1] \in FlagArgs /\ b[k] \in Flags
      BY <3>1, <2>2, <1>2
    <3>4. b[k + 1] \in Flags
      BY <3>2, <3>3, ParseFlags
    <3> QED
      BY <3>1, <3>4, <1>1
  <2> HIDE DEF S
  <2>3. \A k \in 0 .. N : k \in S
    BY <1>1, <2>1, <2>2, NatUpTo
  <2> QED
    BY <2>3 DEF S
<1>12. b \in [0 .. N -> Flags]
  BY <1>9, <1>11
<1> QED
  BY <1>8, <1>10, <1>12 DEF ParsedBy, N

\* The last of the first n overrides that sets k.
LastUpTo(args, n, k) ==
    {i \in 1 .. n : Sets(args[i], k) /\ \A j \in i + 1 .. n : ~ Sets(args[j], k)}

\* It decides.
Decides(f, args, n, k) ==
    /\ LastUpTo(args, n, k) = {} => k \notin DOMAIN f
    /\ \A i \in LastUpTo(args, n, k) : k \in DOMAIN f /\ f[k] = args[i].value

LEMMA LastDecides ==
    ASSUME NEW args \in Seq(FlagArgs), NEW k \in Keys
    PROVE  ParseOverrides(args) \in Flags /\ Decides(ParseOverrides(args), args, Len(args), k)
<1>1. PICK b : ParsedBy(b, args) /\ ParseOverrides(args) = b[Len(args)]
  BY ParseSteps
<1> DEFINE N == Len(args)
           S == {n \in 0 .. N : Decides(b[n], args, n, k)}
<1>2. N \in Nat /\ \A n \in 1 .. N : args[n] \in FlagArgs
  BY LenProperties, ElementOfSeq
<1>3. 0 \in S
  BY <1>1, <1>2, NoFlagsType DEF ParsedBy, Decides, LastUpTo
<1>4. ASSUME NEW n \in 0 .. N - 1, n \in S PROVE n + 1 \in S
  <2>1. n + 1 \in 1 .. N /\ (n + 1) - 1 = n /\ n \in 0 .. N
    BY <1>2
  <2> DEFINE m == n + 1
  <2>2. b[m] = Parse(b[n], args[m]) /\ b[n] \in Flags /\ args[m] \in FlagArgs
    BY <2>1, <1>1, <1>2 DEF ParsedBy
  <2>4. Decides(b[n], args, n, k)
    BY <1>4
  <2>5. /\ Sets(args[m], k) => k \in DOMAIN b[m] /\ b[m][k] = args[m].value
        /\ ~ Sets(args[m], k) => /\ k \in DOMAIN b[m] <=> k \in DOMAIN b[n]
                                 /\ k \in DOMAIN b[n] => b[m][k] = b[n][k]
    BY <2>2, ParseFlags
  <2>6. CASE Sets(args[m], k)
    <3>1. LastUpTo(args, m, k) = {m}
      BY <2>1, <2>6 DEF LastUpTo
    <3>2. k \in DOMAIN b[m] /\ b[m][k] = args[m].value
      BY <2>5, <2>6
    <3>3. Decides(b[m], args, m, k)
      BY <3>1, <3>2 DEF Decides
    <3> QED
      BY <3>3, <2>1, <1>2
  <2>7. CASE ~ Sets(args[m], k)
    <3>1. ASSUME NEW i \in 1 .. n
          PROVE  (\A j \in i + 1 .. m : ~ Sets(args[j], k)) = (\A j \in i + 1 .. n : ~ Sets(args[j], k))
      BY <2>1, <2>7
    <3>2. LastUpTo(args, m, k) = LastUpTo(args, n, k)
      BY <3>1, <2>1, <2>7 DEF LastUpTo
    <3>3. Decides(b[m], args, m, k)
      BY <3>2, <2>4, <2>5, <2>7 DEF Decides
    <3> QED
      BY <3>3, <2>1, <1>2
  <2> QED
    BY <2>6, <2>7
<1> HIDE DEF S
<1>5. \A n \in 0 .. N : n \in S
  BY <1>2, <1>3, <1>4, NatUpTo
<1>6. N \in S /\ N \in 0 .. N
  BY <1>2, <1>5
<1> QED
  BY <1>6, <1>1 DEF S, ParsedBy

LEMMA ExtendFlags ==
    ASSUME NEW f \in Flags, NEW g \in Flags
    PROVE  /\ Extend(f, g) \in Flags /\ DOMAIN Extend(f, g) = DOMAIN f \union DOMAIN g
           /\ \A k \in DOMAIN g : Extend(f, g)[k] = g[k]
           /\ \A k \in DOMAIN f \ DOMAIN g : Extend(f, g)[k] = f[k]
<1>1. PICK K \in SUBSET Keys : f \in [K -> Values]
  BY DEF Flags
<1>2. PICK L \in SUBSET Keys : g \in [L -> Values]
  BY DEF Flags
<1>3. Extend(f, g) \in [K \union L -> Values]
  BY <1>1, <1>2 DEF Extend
<1>4. K \union L \in SUBSET Keys
  OBVIOUS
<1>5. Extend(f, g) \in Flags
  BY <1>3, <1>4 DEF Flags
<1> QED
  BY <1>5 DEF Extend

LEMMA LastIsLast ==
    ASSUME NEW args \in Seq(FlagArgs), NEW k
    PROVE  LastUpTo(args, Len(args), k) = LastSetting(args, k)
BY LenProperties DEF LastUpTo, LastSetting

\* What the overrides ask for a key, if anything.
Says(args, k) == {args[i].value : i \in LastSetting(args, k)}
\* An override begins with flag's key.
Given(args, flag) == \E i \in DOMAIN args : BeginsAs(args[i], flag)

LEMMA ProfileFlagTypes ==
    /\ Enabled \in FlagArgs /\ Interval \in FlagArgs /\ NumFrames \in FlagArgs
    /\ \A f, g \in ProfileFlags : AutoPrefix(f) = AutoPrefix(g) => f = g
    /\ \A f \in ProfileFlags : f.value # Nothing
BY SettingsAssumption DEF Enabled, Interval, NumFrames, ProfileFlags, FlagArgs, FlagTypes, Values, Nothing, AutoPrefix

\* One of the profiler's flags is asked for last, unless an override begins with
\* its key.
LEMMA InjectSays ==
    ASSUME NEW args \in Seq(FlagArgs), NEW f \in FlagArgs, f.value # Nothing, NEW k \in Keys
    PROVE  /\ Inject(args, f) \in Seq(FlagArgs)
           /\ Says(Inject(args, f), k) = IF k = AutoPrefix(f) /\ ~ Given(args, f) THEN {f.value} ELSE Says(args, k)
           /\ \A g : ~ BeginsAs(f, g) => (Given(Inject(args, f), g) <=> Given(args, g))
<1>1. CASE Given(args, f)
  <2>1. Inject(args, f) = args
    BY <1>1 DEF Inject, Given
  <2> QED
    BY <2>1, <1>1
<1>2. CASE ~ Given(args, f)
  <2> DEFINE m == Append(args, f)
             N == Len(args)
  <2>1. Inject(args, f) = m
    BY <1>2 DEF Inject, Given
  <2>2. /\ m \in Seq(FlagArgs) /\ N \in Nat /\ Len(m) = N + 1 /\ DOMAIN args = 1 .. N /\ DOMAIN m = 1 .. N + 1
        /\ \A i \in 1 .. N : m[i] = args[i]
        /\ m[N + 1] = f
    BY AppendProperties, LenProperties
  <2> HIDE DEF m
  <2>3. ASSUME k = AutoPrefix(f) PROVE Says(m, k) = {f.value}
    <3>1. Sets(m[N + 1], k)
      BY <2>2, <2>3 DEF Sets
    <3>2. LastSetting(m, k) = {N + 1}
      BY <2>2, <3>1 DEF LastSetting
    <3>3. Says(m, k) = {f.value}
      BY <2>2, <3>2 DEF Says
    <3> QED
      BY <3>3
  <2>4. ASSUME k # AutoPrefix(f) PROVE Says(m, k) = Says(args, k)
    <3>1. ~ Sets(m[N + 1], k)
      BY <2>2, <2>4 DEF Sets
    <3>2. ASSUME NEW i \in 1 .. N
          PROVE  (\A j \in i + 1 .. N + 1 : ~ Sets(m[j], k)) = (\A j \in i + 1 .. N : ~ Sets(args[j], k))
      <4>1. \A j \in i + 1 .. N : m[j] = args[j]
        BY <2>2
      <4> QED
        BY <4>1, <3>1, <2>2
    <3>3. LastSetting(m, k) = LastSetting(args, k)
      BY <2>2, <3>1, <3>2 DEF LastSetting
    <3>4. \A i \in LastSetting(args, k) : m[i] = args[i]
      BY <2>2 DEF LastSetting
    <3>5. Says(m, k) = Says(args, k)
      BY <3>3, <3>4 DEF Says
    <3> QED
      BY <3>5
  <2>5. ASSUME NEW g, ~ BeginsAs(f, g) PROVE Given(m, g) <=> Given(args, g)
    BY <2>2, <2>5 DEF Given
  <2>6. Says(m, k) = IF k = AutoPrefix(f) /\ ~ Given(args, f) THEN {f.value} ELSE Says(args, k)
    BY <2>3, <2>4, <1>2, <2>1
  <2>7. \A g : ~ BeginsAs(f, g) => (Given(m, g) <=> Given(args, g))
    BY <2>5
  <2> QED
    BY <2>1, <2>2, <2>7, <2>6
<1> QED
  BY <1>1, <1>2

\* None of the profiler's flags begins with the key of another.
LEMMA ProfileFlagsApart ==
    ASSUME NEW f \in ProfileFlags, NEW g \in ProfileFlags, f # g
    PROVE  ~ BeginsAs(f, g)
BY SettingsAssumption DEF ProfileFlags, Enabled, Interval, NumFrames, BeginsAs

\* What the profiler sets a key to, if anything.
Forced(args, k) == {f.value : f \in {g \in ProfileFlags : AutoPrefix(g) = k /\ ~ Given(args, g)}}

\* The overrides of a profiled launch.
LEMMA ProfileSays ==
    ASSUME NEW args \in Seq(FlagArgs), NEW k \in Keys
    PROVE  /\ InjectProfile(args) \in Seq(FlagArgs)
           /\ Says(InjectProfile(args), k) = IF Forced(args, k) # {} THEN Forced(args, k) ELSE Says(args, k)
<1> DEFINE a1 == Inject(args, Enabled)
           a2 == Inject(a1, Interval)
           a3 == Inject(a2, NumFrames)
           forced == Forced(args, k)
<1>0. /\ Enabled \in ProfileFlags /\ Interval \in ProfileFlags /\ NumFrames \in ProfileFlags
      /\ ProfileFlags = {Enabled, Interval, NumFrames}
      /\ Enabled # Interval /\ Enabled # NumFrames /\ Interval # NumFrames
  BY DEF ProfileFlags, Enabled, Interval, NumFrames
<1>1. /\ a1 \in Seq(FlagArgs)
      /\ Says(a1, k) = IF k = AutoPrefix(Enabled) /\ ~ Given(args, Enabled) THEN {Enabled.value} ELSE Says(args, k)
      /\ (Given(a1, Interval) <=> Given(args, Interval)) /\ (Given(a1, NumFrames) <=> Given(args, NumFrames))
  BY <1>0, InjectSays, ProfileFlagTypes, ProfileFlagsApart
<1> HIDE DEF a1
<1>2. /\ a2 \in Seq(FlagArgs)
      /\ Says(a2, k) = IF k = AutoPrefix(Interval) /\ ~ Given(a1, Interval) THEN {Interval.value} ELSE Says(a1, k)
      /\ Given(a2, NumFrames) <=> Given(a1, NumFrames)
  BY <1>0, <1>1, InjectSays, ProfileFlagTypes, ProfileFlagsApart
<1> HIDE DEF a2
<1>3. /\ a3 \in Seq(FlagArgs)
      /\ Says(a3, k) = IF k = AutoPrefix(NumFrames) /\ ~ Given(a2, NumFrames) THEN {NumFrames.value} ELSE Says(a2, k)
  BY <1>0, <1>2, InjectSays, ProfileFlagTypes
<1>4. \A f \in ProfileFlags : k = AutoPrefix(f) /\ ~ Given(args, f) => forced = {f.value}
  BY ProfileFlagTypes DEF Forced
<1>5. forced = {} <=> \A f \in ProfileFlags : ~ (k = AutoPrefix(f) /\ ~ Given(args, f))
  BY DEF Forced
<1>6. \A f, g \in ProfileFlags : k = AutoPrefix(f) /\ k = AutoPrefix(g) => f = g
  BY ProfileFlagTypes
<1> HIDE DEF a3, forced
<1>7. Says(a3, k) = IF forced # {} THEN forced ELSE Says(args, k)
  BY <1>0, <1>1, <1>2, <1>3, <1>4, <1>5, <1>6
<1>8. InjectProfile(args) = a3
  BY DEF InjectProfile, a1, a2, a3
<1> QED
  BY <1>3, <1>7, <1>8 DEF forced

LEMMA FlagsInType ==
    ASSUME NEW in \in FlagsIn
    PROVE  /\ in.args \in Seq(FlagArgs) /\ in.profile \in BOOLEAN /\ in.readable \in BOOLEAN
           /\ in.file \in Flags /\ in.original \in Flags
<1>1. /\ in.args \in SeqOf(FlagArgs, MaxFlags) /\ in.profile \in BOOLEAN /\ in.readable \in BOOLEAN
      /\ in.file \in FlagFiles \union {NoFlags} /\ in.original \in FlagFiles \union {NoFlags}
  BY DEF FlagsIn
<1>2. FlagFiles \subseteq Flags
  <2> SUFFICES ASSUME NEW f \in FlagFiles PROVE f \in Flags
    OBVIOUS
  <2>1. DOMAIN f \in SUBSET Keys /\ f \in [DOMAIN f -> Values]
    BY SettingsAssumption
  <2> QED
    BY <2>1 DEF Flags
<1>3. in.args \in Seq(FlagArgs)
  <2>1. PICK m \in 0 .. MaxFlags : in.args \in [1 .. m -> FlagArgs]
    BY <1>1 DEF SeqOf
  <2>2. m \in Nat
    BY SettingsAssumption
  <2> QED
    BY <2>1, <2>2, SeqDef
<1> QED
  BY <1>1, <1>2, <1>3, NoFlagsType

\* All that is asked for in a launch, by the overrides and the file.
AllAsked(in) ==
    Extend(in.file, ParseOverrides(IF in.profile THEN InjectProfile(in.args) ELSE in.args))

\* It is, for each key, what the profiler, the overrides or the file ask.
LEMMA AskedFor ==
    ASSUME NEW in \in FlagsIn
    PROVE  /\ AllAsked(in) \in Flags
           /\ \A k \in Keys :
                 {AllAsked(in)[j] : j \in DOMAIN AllAsked(in) \intersect {k}} =
                    IF ByProfile(in, k) # {} THEN ByProfile(in, k)
                    ELSE IF ByOverrides(in, k) # {} THEN ByOverrides(in, k) ELSE ByFile(in, k)
<1> DEFINE args == IF in.profile THEN InjectProfile(in.args) ELSE in.args
           given == ParseOverrides(args)
<1>1. /\ in.args \in Seq(FlagArgs) /\ in.profile \in BOOLEAN /\ in.file \in Flags
  BY FlagsInType
<1>2. args \in Seq(FlagArgs)
  <2>1. <<"FFlag", "Enabled">> \in Keys
    BY SettingsAssumption DEF Keys, FlagTypes
  <2> QED
    BY <1>1, <2>1, ProfileSays
<1>3. given \in Flags
  <2>1. <<"FFlag", "Enabled">> \in Keys
    BY SettingsAssumption DEF Keys, FlagTypes
  <2> HIDE DEF args
  <2> QED
    BY <1>2, <2>1, LastDecides
<1>4. ASSUME NEW k \in Keys
      PROVE  {AllAsked(in)[j] : j \in DOMAIN AllAsked(in) \intersect {k}} =
                IF ByProfile(in, k) # {} THEN ByProfile(in, k)
                ELSE IF ByOverrides(in, k) # {} THEN ByOverrides(in, k) ELSE ByFile(in, k)
  <2>1. Says(args, k) = IF ByProfile(in, k) # {} THEN ByProfile(in, k) ELSE ByOverrides(in, k)
    <3>1. Says(in.args, k) = ByOverrides(in, k)
      BY DEF Says, ByOverrides
    <3>2. CASE in.profile
      <4>1. ByProfile(in, k) = Forced(in.args, k)
        BY <3>2 DEF ByProfile, Forced, Given
      <4> QED
        BY <3>1, <3>2, <4>1, <1>1, ProfileSays
    <3>3. CASE ~ in.profile
      <4>1. ByProfile(in, k) = {}
        BY <3>3 DEF ByProfile
      <4> QED
        BY <3>1, <3>3, <4>1
    <3> QED
      BY <3>2, <3>3
  <2>2. /\ LastSetting(args, k) = {} => k \notin DOMAIN given
        /\ \A i \in LastSetting(args, k) : k \in DOMAIN given /\ given[k] = args[i].value
    <3> HIDE DEF args
    <3>1. LastUpTo(args, Len(args), k) = LastSetting(args, k)
      BY <1>2, LastIsLast
    <3> QED
      BY <3>1, <1>2, LastDecides DEF Decides
  <2>3. {given[j] : j \in DOMAIN given \intersect {k}} = Says(args, k)
    <3> HIDE DEF args, given
    <3>1. CASE LastSetting(args, k) = {}
      BY <3>1, <2>2 DEF Says
    <3>2. CASE LastSetting(args, k) # {}
      <4>1. k \in DOMAIN given /\ Says(args, k) = {given[k]}
        BY <3>2, <2>2 DEF Says
      <4> QED
        BY <4>1
    <3> QED
      BY <3>1, <3>2
  <2> DEFINE all == Extend(in.file, given)
             asks == Says(args, k)
  <2>4. AllAsked(in) = all
    BY DEF AllAsked
  <2> HIDE DEF given, args
  <2>5. /\ DOMAIN all = DOMAIN in.file \union DOMAIN given
        /\ \A j \in DOMAIN given : all[j] = given[j]
        /\ \A j \in DOMAIN in.file \ DOMAIN given : all[j] = in.file[j]
    BY <1>1, <1>3, ExtendFlags
  <2> HIDE DEF all, asks
  <2>6. {all[j] : j \in DOMAIN all \intersect {k}} = IF asks # {} THEN asks ELSE ByFile(in, k)
    <3>1. CASE k \in DOMAIN given
      <4>1. asks = {given[k]} /\ {all[j] : j \in DOMAIN all \intersect {k}} = {given[k]}
        BY <3>1, <2>3, <2>5 DEF asks
      <4> QED
        BY <4>1
    <3>2. CASE k \notin DOMAIN given
      <4>1. asks = {}
        BY <3>2, <2>3 DEF asks
      <4>2. {all[j] : j \in DOMAIN all \intersect {k}} = ByFile(in, k)
        BY <3>2, <2>5 DEF ByFile
      <4> QED
        BY <4>1, <4>2
    <3> QED
      BY <3>1, <3>2
  <2> QED
    BY <2>1, <2>4, <2>6 DEF asks
<1>5. AllAsked(in) \in Flags
  <2> HIDE DEF given
  <2>1. Extend(in.file, given) \in Flags
    BY <1>1, <1>3, ExtendFlags
  <2> QED
    BY <2>1 DEF AllAsked, given
<1> QED
  BY <1>4, <1>5

\* Flags by precedence.
MergesAsAsked(in, out) ==
    \A k \in Keys :
       LET had == IF k \in DOMAIN in.original /\ (in.readable \/ \A j \in Keys : Asked(in, j) = {})
                  THEN {in.original[k]} ELSE {}
           want == IF ByProfile(in, k) # {} THEN ByProfile(in, k)
                   ELSE IF ByOverrides(in, k) # {} THEN ByOverrides(in, k)
                   ELSE IF ByFile(in, k) # {} THEN ByFile(in, k) ELSE had
       IN {out[j] : j \in DOMAIN out \intersect {k}} = want

LEMMA MergeAsAsked == \A in \in FlagsIn : MergesAsAsked(in, Merge(in))
<1> SUFFICES ASSUME NEW in \in FlagsIn, NEW k \in Keys
    PROVE  LET had == IF k \in DOMAIN in.original /\ (in.readable \/ \A j \in Keys : Asked(in, j) = {})
                      THEN {in.original[k]} ELSE {}
               want == IF ByProfile(in, k) # {} THEN ByProfile(in, k)
                       ELSE IF ByOverrides(in, k) # {} THEN ByOverrides(in, k)
                       ELSE IF ByFile(in, k) # {} THEN ByFile(in, k) ELSE had
           IN {Merge(in)[j] : j \in DOMAIN Merge(in) \intersect {k}} = want
  BY DEF MergesAsAsked
<1> DEFINE all == AllAsked(in)
           wants(j) == IF ByProfile(in, j) # {} THEN ByProfile(in, j)
                       ELSE IF ByOverrides(in, j) # {} THEN ByOverrides(in, j) ELSE ByFile(in, j)
           nothing == \A j \in Keys : Asked(in, j) = {}
           orig == in.original
           out == Merge(in)
<1>1. orig \in Flags /\ in.readable \in BOOLEAN /\ NoFlags \in Flags /\ DOMAIN NoFlags = {}
  BY FlagsInType, NoFlagsType
<1>2. /\ all \in Flags
      /\ \A j \in Keys : {all[i] : i \in DOMAIN all \intersect {j}} = wants(j)
  BY AskedFor
<1>3. out = IF all = NoFlags THEN orig ELSE Extend(Original(in), all)
  BY DEF Merge, AllAsked
<1>4. \A j \in Keys : wants(j) = {} <=> Asked(in, j) = {}
  BY DEF Asked
<1> HIDE DEF all, out, orig, wants
<1>5. DOMAIN all \subseteq Keys
  BY <1>2 DEF Flags
<1>6. all = NoFlags => nothing
  BY <1>1, <1>2, <1>4
<1>7. all # NoFlags => ~ nothing
  <2> SUFFICES ASSUME nothing PROVE all = NoFlags
    OBVIOUS
  <2>1. DOMAIN all = {}
    BY <1>2, <1>4, <1>5
  <2>2. PICK K \in SUBSET Keys : all \in [K -> Values]
    BY <1>2 DEF Flags
  <2> QED
    BY <2>1, <2>2 DEF NoFlags
<1> HIDE DEF nothing
<1>8. {out[j] : j \in DOMAIN out \intersect {k}} =
         IF wants(k) # {} THEN wants(k) ELSE IF k \in DOMAIN orig /\ (in.readable \/ nothing) THEN {orig[k]} ELSE {}
  <2>1. CASE all = NoFlags
    <3>1. wants(k) = {} /\ nothing /\ out = orig
      BY <2>1, <1>1, <1>2, <1>3, <1>6
    <3> QED
      BY <3>1
  <2>2. CASE all # NoFlags
    <3> DEFINE o == Original(in)
    <3>1. o \in Flags /\ (k \in DOMAIN o <=> k \in DOMAIN orig /\ in.readable) /\ (in.readable => o = orig)
      BY <1>1 DEF Original, orig
    <3>2. out = Extend(o, all) /\ ~ nothing
      BY <2>2, <1>3, <1>7
    <3> HIDE DEF o
    <3>3. /\ DOMAIN out = DOMAIN o \union DOMAIN all
          /\ \A j \in DOMAIN all : out[j] = all[j]
          /\ \A j \in DOMAIN o \ DOMAIN all : out[j] = o[j]
      BY <3>1, <3>2, <1>2, ExtendFlags
    <3>4. CASE k \in DOMAIN all
      <4>1. wants(k) = {all[k]}
        BY <3>4, <1>2
      <4>2. {out[j] : j \in DOMAIN out \intersect {k}} = {all[k]}
        BY <3>3, <3>4
      <4> QED
        BY <4>1, <4>2
    <3>5. CASE k \notin DOMAIN all
      <4>1. wants(k) = {}
        BY <3>5, <1>2
      <4>2. {out[j] : j \in DOMAIN out \intersect {k}} = IF k \in DOMAIN o THEN {o[k]} ELSE {}
        BY <3>3, <3>5
      <4> QED
        BY <4>1, <4>2, <3>1, <3>2
    <3> QED
      BY <3>4, <3>5
  <2> QED
    BY <2>1, <2>2
<1> QED
  BY <1>8 DEF out, orig, wants, nothing

\* The references are gone through one by one: b holds what has remained after each.
SiftedBy(b, refs, lost) ==
    /\ b \in [0 .. Len(refs) -> Seq(Widgets)] /\ b[0] = <<>>
    /\ \A n \in 1 .. Len(refs) : b[n] = IF refs[n] \in lost THEN b[n - 1] ELSE Append(b[n - 1], refs[n])

LEMMA SiftSteps ==
    ASSUME NEW refs \in Seq(Widgets), NEW lost
    PROVE  \E b : SiftedBy(b, refs, lost) /\ Remaining(refs, lost) = b[Len(refs)]
<1> DEFINE N == Len(refs)
           D == Seq(Widgets)
           one(n, x) == IF refs[n] \in lost THEN x ELSE Append(x, refs[n])
           step == [p \in (1 .. N) \X D |-> one(p[1], p[2])]
<1>1. N \in Nat /\ <<>> \in D
  BY LenProperties, EmptySeq
<1>2. \A n \in 1 .. N : refs[n] \in Widgets
  BY ElementOfSeq
<1>3. \A n \in 1 .. N, x \in D : one(n, x) \in D
  BY <1>2, AppendProperties
<1> HIDE DEF one, D, N
<1>4. \A n \in 1 .. N, x \in D : step[<<n, x>>] = one(n, x)
  OBVIOUS
<1>5. step \in [(1 .. N) \X D -> D]
  BY <1>3
<1> HIDE DEF step
<1>6. PICK f \in [0 .. N -> D] : f[0] = <<>> /\ \A k \in 1 .. N : f[k] = step[<<k, f[k - 1]>>]
  <2>1. \E f : Recurs(f, N, D, <<>>, step)
    BY <1>1, <1>5, Recursion, Zenon
  <2> QED
    BY <2>1 DEF Recurs
<1>7. \A k \in 1 .. N : f[k] = one(k, f[k - 1])
  <2> TAKE k \in 1 .. N
  <2>1. k - 1 \in 0 .. N
    BY <1>1
  <2> QED
    BY <2>1, <1>4, <1>6
<1> DEFINE body(g) == [n \in 0 .. N |-> IF n = 0 THEN <<>> ELSE one(n, g[n - 1])]
           b == CHOOSE g : g = body(g)
<1>8. f = body(f)
  BY <1>1, <1>6, <1>7
<1>9. Remaining(refs, lost) = b[N]
  BY DEF Remaining, N, one
<1>10. b = body(b)
  BY <1>8
<1> HIDE DEF b
<1>11. b[0] = <<>> /\ \A n \in 1 .. N : b[n] = one(n, b[n - 1])
  BY <1>1, <1>10
<1>12. \A k \in 0 .. N : b[k] \in D
  <2> DEFINE S == {k \in 0 .. N : b[k] \in D}
  <2>1. 0 \in S
    BY <1>1, <1>11
  <2>2. ASSUME NEW k \in 0 .. N - 1, k \in S PROVE k + 1 \in S
    <3>1. k + 1 \in 1 .. N /\ (k + 1) - 1 = k
      BY <1>1
    <3>2. one(k + 1, b[k]) \in D
      BY <3>1, <1>3, <2>2
    <3>3. b[k + 1] = one(k + 1, b[k])
      BY <3>1, <1>11
    <3> QED
      BY <3>1, <3>2, <3>3, <1>1
  <2> HIDE DEF S
  <2>3. \A k \in 0 .. N : k \in S
    BY <1>1, <2>1, <2>2, NatUpTo
  <2> QED
    BY <2>3 DEF S
<1>13. b \in [0 .. N -> D]
  BY <1>10, <1>12
<1> QED
  BY <1>9, <1>11, <1>13 DEF SiftedBy, N, D, one

\* from tells where the members of kept come from among the first n references.
Origin(from, kept, refs, lost, n) ==
    /\ from \in [1 .. Len(kept) -> 1 .. n]
    /\ \A i, j \in 1 .. Len(kept) : i < j => from[i] < from[j]
    /\ \A i \in 1 .. Len(kept) : kept[i] = refs[from[i]]
    /\ \A m \in 1 .. n : (refs[m] \notin lost) = (\E i \in 1 .. Len(kept) : from[i] = m)
HasOrigin(kept, refs, lost, n) == \E from : Origin(from, kept, refs, lost, n)

LEMMA OriginPassed ==
    ASSUME NEW refs \in Seq(Widgets), NEW lost, NEW n \in Nat, NEW kept \in Seq(Widgets),
           HasOrigin(kept, refs, lost, n), refs[n + 1] \in lost
    PROVE  HasOrigin(kept, refs, lost, n + 1)
<1>1. PICK from : Origin(from, kept, refs, lost, n)
  BY DEF HasOrigin
<1>2. Len(kept) \in Nat
  BY LenProperties
<1>3. from \in [1 .. Len(kept) -> 1 .. n + 1]
  BY <1>1 DEF Origin
<1>4. ASSUME NEW m \in 1 .. n + 1
      PROVE  (refs[m] \notin lost) = (\E i \in 1 .. Len(kept) : from[i] = m)
  <2>1. CASE m = n + 1
    <3>1. \A i \in 1 .. Len(kept) : from[i] \in 1 .. n
      BY <1>1 DEF Origin
    <3>2. ~ \E i \in 1 .. Len(kept) : from[i] = m
      BY <3>1, <2>1
    <3>3. ~ (refs[m] \notin lost)
      BY <2>1
    <3> QED
      BY <3>2, <3>3
  <2>2. CASE m # n + 1
    <3>1. m \in 1 .. n
      BY <2>2
    <3> QED
      BY <3>1, <1>1 DEF Origin
  <2> QED
    BY <2>1, <2>2
<1>5. Origin(from, kept, refs, lost, n + 1)
  BY <1>1, <1>3, <1>4 DEF Origin
<1> QED
  BY <1>5 DEF HasOrigin

LEMMA OriginAppended ==
    ASSUME NEW refs \in Seq(Widgets), NEW lost, NEW n \in Nat, NEW kept \in Seq(Widgets),
           HasOrigin(kept, refs, lost, n), refs[n + 1] \notin lost, refs[n + 1] \in Widgets
    PROVE  HasOrigin(Append(kept, refs[n + 1]), refs, lost, n + 1)
<1>1. PICK from : Origin(from, kept, refs, lost, n)
  BY DEF HasOrigin
<1> DEFINE L == Len(kept)
           more == Append(kept, refs[n + 1])
           to == [i \in 1 .. L + 1 |-> IF i = L + 1 THEN n + 1 ELSE from[i]]
<1>2. L \in Nat /\ Len(more) = L + 1 /\ more[L + 1] = refs[n + 1] /\ \A i \in 1 .. L : more[i] = kept[i]
  BY LenProperties, AppendProperties
<1>3. /\ \A i \in 1 .. L : from[i] \in 1 .. n
      /\ \A i, j \in 1 .. L : i < j => from[i] < from[j]
      /\ \A i \in 1 .. L : kept[i] = refs[from[i]]
      /\ \A m \in 1 .. n : (refs[m] \notin lost) = (\E i \in 1 .. L : from[i] = m)
  BY <1>1 DEF Origin
<1>4. to[L + 1] = n + 1 /\ \A i \in 1 .. L : to[i] = from[i]
  BY <1>2
<1>5. to \in [1 .. L + 1 -> 1 .. n + 1]
  BY <1>2, <1>3
<1> HIDE DEF L, more, to
<1>6. ASSUME NEW i \in 1 .. L + 1, NEW j \in 1 .. L + 1, i < j PROVE to[i] < to[j]
  <2>1. i \in 1 .. L /\ from[i] \in 1 .. n /\ to[i] = from[i]
    BY <1>2, <1>3, <1>4, <1>6
  <2>2. CASE j = L + 1
    BY <2>1, <2>2, <1>4
  <2>3. CASE j # L + 1
    <3>1. j \in 1 .. L
      BY <2>3, <1>2
    <3> QED
      BY <3>1, <2>1, <1>3, <1>4, <1>6
  <2> QED
    BY <2>2, <2>3
<1>7. ASSUME NEW i \in 1 .. L + 1 PROVE more[i] = refs[to[i]]
  <2>1. CASE i = L + 1
    BY <2>1, <1>2, <1>4
  <2>2. CASE i # L + 1
    <3>1. i \in 1 .. L
      BY <2>2, <1>2
    <3> QED
      BY <3>1, <1>2, <1>3, <1>4
  <2> QED
    BY <2>1, <2>2
<1>8. ASSUME NEW m \in 1 .. n + 1
      PROVE  (refs[m] \notin lost) = (\E i \in 1 .. L + 1 : to[i] = m)
  <2>1. CASE m = n + 1
    <3>1. L + 1 \in 1 .. L + 1
      BY <1>2
    <3> QED
      BY <3>1, <2>1, <1>4
  <2>2. CASE m # n + 1
    <3>1. m \in 1 .. n
      BY <2>2
    <3>2. (\E i \in 1 .. L + 1 : to[i] = m) = (\E i \in 1 .. L : from[i] = m)
      <4>1. \A i \in 1 .. L + 1 : i = L + 1 \/ i \in 1 .. L
        BY <1>2
      <4>2. \A i \in 1 .. L : i \in 1 .. L + 1
        BY <1>2
      <4> QED
        BY <4>1, <4>2, <1>4, <2>2
    <3> QED
      BY <3>1, <3>2, <1>3
  <2> QED
    BY <2>1, <2>2
<1>9. Origin(to, more, refs, lost, n + 1)
  BY <1>2, <1>5, <1>6, <1>7, <1>8 DEF Origin
<1> QED
  BY <1>9 DEF HasOrigin, more

\* What remains is what is not lost, in its order.
LEMMA RemainsInOrder ==
    ASSUME NEW refs \in Seq(Widgets), NEW lost
    PROVE  Remaining(refs, lost) \in Seq(Widgets) /\ KeptInOrder(Remaining(refs, lost), refs, lost)
<1>1. PICK b : SiftedBy(b, refs, lost) /\ Remaining(refs, lost) = b[Len(refs)]
  BY SiftSteps
<1> DEFINE N == Len(refs)
           S == {n \in 0 .. N : HasOrigin(b[n], refs, lost, n)}
<1>2. N \in Nat /\ \A n \in 1 .. N : refs[n] \in Widgets
  BY LenProperties, ElementOfSeq
<1>3. 0 \in S
  <2> DEFINE from == [i \in {} |-> i]
  <2>1. b[0] = <<>> /\ Len(<<>>) = 0
    BY <1>1 DEF SiftedBy
  <2>2. from \in [1 .. 0 -> 1 .. 0] /\ 1 .. 0 = {}
    OBVIOUS
  <2>3. Origin(from, b[0], refs, lost, 0)
    BY <2>1, <2>2 DEF Origin
  <2> HIDE DEF from
  <2> QED
    BY <2>3, <1>2 DEF HasOrigin
<1>4. ASSUME NEW n \in 0 .. N - 1, n \in S PROVE n + 1 \in S
  <2>1. n \in Nat /\ n + 1 \in 1 .. N /\ (n + 1) - 1 = n /\ n \in 0 .. N
    BY <1>2
  <2>2. b[n] \in Seq(Widgets) /\ HasOrigin(b[n], refs, lost, n) /\ refs[n + 1] \in Widgets
    BY <2>1, <1>1, <1>2, <1>4 DEF SiftedBy
  <2>3. b[n + 1] = IF refs[n + 1] \in lost THEN b[n] ELSE Append(b[n], refs[n + 1])
    BY <2>1, <1>1 DEF SiftedBy
  <2>4. CASE refs[n + 1] \in lost
    <3>1. HasOrigin(b[n], refs, lost, n + 1)
      BY <2>1, <2>2, <2>4, OriginPassed
    <3> QED
      BY <3>1, <2>1, <2>3, <2>4, <1>2
  <2>5. CASE refs[n + 1] \notin lost
    <3>1. HasOrigin(Append(b[n], refs[n + 1]), refs, lost, n + 1)
      BY <2>1, <2>2, <2>5, OriginAppended
    <3>2. b[n + 1] = Append(b[n], refs[n + 1])
      BY <2>3, <2>5
    <3>3. HasOrigin(b[n + 1], refs, lost, n + 1)
      BY <3>1, <3>2
    <3> QED
      BY <3>3, <2>1, <1>2
  <2> QED
    BY <2>4, <2>5
<1> HIDE DEF S
<1>5. \A n \in 0 .. N : n \in S
  BY <1>2, <1>3, <1>4, NatUpTo
<1> DEFINE kept == b[N]
<1>6. kept \in Seq(Widgets) /\ HasOrigin(kept, refs, lost, N)
  BY <1>1, <1>2, <1>5 DEF S, SiftedBy
<1>7. DOMAIN kept = 1 .. Len(kept) /\ DOMAIN refs = 1 .. N
  BY <1>6, LenProperties
<1> HIDE DEF kept, N
<1>8. KeptInOrder(kept, refs, lost)
  <2>1. PICK from : Origin(from, kept, refs, lost, N)
    BY <1>6 DEF HasOrigin
  <2> QED
    BY <2>1, <1>7 DEF Origin, KeptInOrder
<1> QED
  BY <1>1, <1>6, <1>8 DEF kept, N

\* What has nothing to lose remains as it is.
LEMMA AllRemain ==
    ASSUME NEW refs \in Seq(Widgets), NEW lost, \A i \in 1 .. Len(refs) : refs[i] \notin lost
    PROVE  Remaining(refs, lost) = refs
<1>1. PICK b : SiftedBy(b, refs, lost) /\ Remaining(refs, lost) = b[Len(refs)]
  BY SiftSteps
<1> DEFINE N == Len(refs)
           S == {n \in 0 .. N : Len(b[n]) = n /\ \A i \in 1 .. n : b[n][i] = refs[i]}
<1>2. N \in Nat /\ \A n \in 1 .. N : refs[n] \in Widgets
  BY LenProperties, ElementOfSeq
<1>3. 0 \in S
  BY <1>1, <1>2 DEF SiftedBy
<1>4. ASSUME NEW n \in 0 .. N - 1, n \in S PROVE n + 1 \in S
  <2>1. n \in Nat /\ n + 1 \in 1 .. N /\ (n + 1) - 1 = n /\ n \in 0 .. N
    BY <1>2
  <2>2. b[n] \in Seq(Widgets) /\ Len(b[n]) = n /\ (\A i \in 1 .. n : b[n][i] = refs[i]) /\ refs[n + 1] \in Widgets
    BY <2>1, <1>1, <1>2, <1>4 DEF SiftedBy
  <2>3. b[n + 1] = Append(b[n], refs[n + 1])
    BY <2>1, <1>1 DEF SiftedBy
  <2> DEFINE s == b[n]
             e == refs[n + 1]
  <2>4. s \in Seq(Widgets) /\ e \in Widgets
    BY <2>2
  <2> HIDE DEF s, e
  <2>5. Len(Append(s, e)) = Len(s) + 1 /\ Append(s, e)[Len(s) + 1] = e /\ \A i \in 1 .. Len(s) : Append(s, e)[i] = s[i]
    BY <2>4, AppendProperties
  <2>6. Len(b[n + 1]) = n + 1 /\ b[n + 1][n + 1] = refs[n + 1] /\ \A i \in 1 .. n : b[n + 1][i] = refs[i]
    BY <2>2, <2>3, <2>5 DEF s, e
  <2>7. \A i \in 1 .. n + 1 : b[n + 1][i] = refs[i]
    BY <2>1, <2>6
  <2> QED
    BY <2>1, <2>6, <2>7, <1>2
<1> HIDE DEF S
<1>5. \A n \in 0 .. N : n \in S
  BY <1>2, <1>3, <1>4, NatUpTo
<1>6. Len(b[N]) = N /\ (\A i \in 1 .. N : b[N][i] = refs[i]) /\ b[N] \in Seq(Widgets)
  BY <1>1, <1>2, <1>5 DEF S, SiftedBy
<1> QED
  BY <1>1, <1>6, SeqEqual

LayoutTypes ==
    [dock : [Widgets -> BOOLEAN], active : SUBSET Widgets, refs : Seq(Widgets), count : Nat,
     minimized : BOOLEAN, bar : Bars]

\* A layout is its fields.
LEMMA SameLayout ==
    ASSUME NEW a \in LayoutTypes, NEW b \in LayoutTypes,
           a.dock = b.dock, a.active = b.active, a.refs = b.refs, a.count = b.count,
           a.minimized = b.minimized, a.bar = b.bar
    PROVE  a = b
BY DEF LayoutTypes

\* t is l with what is lost left out.
LeftOut(l, keep, lost, t) ==
    /\ t.dock = l.dock /\ t.active = l.active \ lost
    /\ t.refs = Remaining(l.refs, lost) /\ t.count = Len(t.refs)
    /\ t.minimized = ~ keep.ribbon
    /\ t.bar = IF keep.commandbar THEN l.bar ELSE "hidden"
    /\ t \in LayoutTypes

LEMMA TransformFields ==
    ASSUME NEW l \in LayoutTypes, NEW words
    PROVE  LeftOut(l, KeepSpec(words), Hidden(l, KeepSpec(words)), Transform(l, KeepSpec(words)))
<1> DEFINE keep == KeepSpec(words)
<1>0. keep.ribbon = ("ribbon" \in words)
  BY DEF KeepSpec
<1> HIDE DEF keep
<1> DEFINE t == Transform(l, keep)
           lost == Hidden(l, keep)
           kept == Remaining(l.refs, lost)
<1>1. /\ l.dock \in [Widgets -> BOOLEAN] /\ l.active \in SUBSET Widgets /\ l.refs \in Seq(Widgets)
      /\ l.bar \in Bars /\ l = [dock |-> l.dock, active |-> l.active, refs |-> l.refs, count |-> l.count,
                               minimized |-> l.minimized, bar |-> l.bar]
  BY DEF LayoutTypes
<1>2. kept \in Seq(Widgets)
  <2> HIDE DEF lost
  <2> QED
    BY <1>1, RemainsInOrder
<1>3. Len(kept) \in Nat
  BY <1>2, LenProperties
<1>4. t = [[[l EXCEPT !.active = @ \ lost, !.refs = kept, !.count = Len(kept)] EXCEPT
             !.minimized = ~ keep.ribbon, !.bar = IF keep.commandbar THEN @ ELSE "hidden"] EXCEPT !.dock = @]
  <2>1. t = [[l EXCEPT !.active = @ \ lost, !.refs = kept, !.count = Len(kept)] EXCEPT
             !.minimized = ~ keep.ribbon, !.bar = IF keep.commandbar THEN @ ELSE "hidden"]
    BY DEF Transform, StripPanels
  <2> HIDE DEF t, lost, kept
  <2> QED
    BY <2>1, <1>1
<1>5. t = [dock |-> l.dock, active |-> l.active \ lost, refs |-> kept, count |-> Len(kept),
           minimized |-> ~ keep.ribbon, bar |-> IF keep.commandbar THEN l.bar ELSE "hidden"]
  <2> HIDE DEF t, lost, kept
  <2> QED
    BY <1>1, <1>4
<1>6. (IF keep.commandbar THEN l.bar ELSE "hidden") \in Bars
  BY <1>1 DEF Bars
<1> HIDE DEF t, lost, kept
<1>7. t \in LayoutTypes
  BY <1>0, <1>1, <1>2, <1>3, <1>5, <1>6 DEF LayoutTypes
<1> QED
  BY <1>5, <1>7 DEF LeftOut, t, lost, kept, keep

\* What is hidden is what is docked and not listed, under its own name or an alias.
LEMMA HiddenUnlisted ==
    ASSUME NEW l \in LayoutTypes, NEW words \in SUBSET Words
    PROVE  Hidden(l, KeepSpec(words)) =
              {w \in Widgets : l.dock[w] /\ w \notin words \union {PanelOf(x) : x \in words}}
<1> DEFINE panels == {PanelOf(x) : x \in words \ Specials}
           listed == words \union {PanelOf(x) : x \in words}
<1>1. KeepSpec(words).panels = panels
  BY DEF KeepSpec
<1>2. \A w \in Widgets : w # "output" /\ w # "rodeo" /\ w \notin Specials
  BY SettingsAssumption DEF Specials
<1>3. \A w \in Widgets : PanelOf(w) = w
  BY <1>2 DEF PanelOf
<1>4. \A x \in Specials : PanelOf(x) = x
  BY DEF PanelOf, Specials
<1>5. \A w \in Widgets : (w \in panels) = (w \in listed)
  BY <1>2, <1>3, <1>4
<1> HIDE DEF panels, listed
<1>6. Hidden(l, KeepSpec(words)) = {w \in Widgets : l.dock[w] /\ w \notin panels}
  BY <1>1 DEF Hidden
<1>7. Hidden(l, KeepSpec(words)) = {w \in Widgets : l.dock[w] /\ w \notin listed}
  BY <1>5, <1>6
<1> QED
  BY <1>7 DEF listed

\* Only the listed panels are shown, in their order, and nothing is left to strip.
ShowsAsAsked(words, old, new) ==
    LET listed == words \union {PanelOf(w) : w \in words}
        lost == {w \in Widgets : old.dock[w] /\ w \notin listed}
    IN /\ new.active = old.active \ lost
       /\ KeptInOrder(new.refs, old.refs, lost)
       /\ new.count = Len(new.refs)
       /\ (new.minimized = TRUE) = ("ribbon" \notin words)
       /\ "commandbar" \in words => new.bar = old.bar
       /\ "commandbar" \notin words => new.bar = "hidden"
       /\ Transform(new, KeepSpec(words)) = new

LEMMA TransformAsAsked ==
    ASSUME NEW words \in SUBSET Words, NEW old \in LayoutTypes
    PROVE  ShowsAsAsked(words, old, Transform(old, KeepSpec(words)))
<1> DEFINE keep == KeepSpec(words)
           new == Transform(old, keep)
           lost == Hidden(old, keep)
           again == Transform(new, keep)
<1>1. keep.ribbon \in BOOLEAN /\ keep.ribbon = ("ribbon" \in words) /\ keep.commandbar = ("commandbar" \in words)
  BY DEF KeepSpec
<1> HIDE DEF keep
<1>2. LeftOut(old, keep, lost, new) /\ new \in LayoutTypes
  BY TransformFields DEF LeftOut, keep
<1> HIDE DEF new
<1>3. LeftOut(new, keep, Hidden(new, keep), again) /\ again \in LayoutTypes
  <2>1. new \in LayoutTypes
    BY <1>2
  <2> QED
    BY <2>1, TransformFields DEF LeftOut, keep
<1>4. Hidden(new, keep) = lost
  BY <1>2 DEF Hidden, LeftOut
<1> HIDE DEF lost, again
<1>5. old.refs \in Seq(Widgets) /\ new.refs \in Seq(Widgets)
  BY <1>2 DEF LayoutTypes
<1>6. KeptInOrder(new.refs, old.refs, lost)
  BY <1>2, <1>5, RemainsInOrder DEF LeftOut
<1>7. \A i \in 1 .. Len(new.refs) : new.refs[i] \notin lost
  <2>1. DOMAIN new.refs = 1 .. Len(new.refs)
    BY <1>5, LenProperties
  <2> QED
    BY <2>1, <1>6 DEF KeptInOrder
<1>8. Remaining(new.refs, lost) = new.refs
  BY <1>5, <1>7, AllRemain
<1>9. again = new
  <2>1. again.active = new.active
    BY <1>2, <1>3, <1>4 DEF LeftOut
  <2>2. again.refs = new.refs /\ again.count = new.count
    BY <1>2, <1>3, <1>4, <1>8 DEF LeftOut
  <2>3. again.minimized = new.minimized /\ again.bar = new.bar
    BY <1>2, <1>3 DEF LeftOut
  <2>4. again.dock = new.dock
    BY <1>3 DEF LeftOut
  <2> QED
    BY <2>1, <2>2, <2>3, <2>4, <1>2, <1>3, SameLayout
<1>10. lost = {w \in Widgets : old.dock[w] /\ w \notin words \union {PanelOf(x) : x \in words}}
  BY HiddenUnlisted DEF lost, keep
<1>11. (new.minimized = TRUE) = ("ribbon" \notin words)
  BY <1>1, <1>2 DEF LeftOut
<1>12. ("commandbar" \in words => new.bar = old.bar) /\ ("commandbar" \notin words => new.bar = "hidden")
  BY <1>1, <1>2 DEF LeftOut
<1> HIDE DEF lost
<1>13. ShowsAsAsked(words, old, new)
  BY <1>2, <1>6, <1>9, <1>10, <1>11, <1>12 DEF LeftOut, ShowsAsAsked, again, keep
<1> QED
  BY <1>13 DEF new, keep

\* What is written is made of what was given, once.
SettingsInv ==
    /\ stage \in {"flags", "flags set"} => flagsIn \in FlagsIn
    /\ stage = "flags set" => flagsOut = Merge(flagsIn)
    /\ stage \in {"layout", "layout set"} => layoutIn \in [words : SUBSET Words, layout : Layouts]
    /\ stage = "layout set" => layoutOut = Transform(layoutIn.layout, KeepSpec(layoutIn.words))

LEMMA LayoutsType == Layouts \subseteq LayoutTypes
<1> SUFFICES ASSUME NEW l \in Layouts PROVE l \in LayoutTypes
  OBVIOUS
<1>1. /\ l.dock \in {[w \in Widgets |-> w # "frame"]} /\ l.active \in SUBSET Widgets
      /\ l.refs \in SeqOf(Widgets, MaxRefs) /\ l.count \in {0} /\ l.minimized \in BOOLEAN /\ l.bar \in Bars
      /\ l = [dock |-> l.dock, active |-> l.active, refs |-> l.refs, count |-> l.count,
              minimized |-> l.minimized, bar |-> l.bar]
  BY DEF Layouts
<1>2. l.refs \in Seq(Widgets)
  <2>1. PICK m \in 0 .. MaxRefs : l.refs \in [1 .. m -> Widgets]
    BY <1>1 DEF SeqOf
  <2>2. m \in Nat
    BY SettingsAssumption
  <2> QED
    BY <2>1, <2>2, SeqDef
<1>3. l.dock \in [Widgets -> BOOLEAN]
  BY <1>1
<1> QED
  BY <1>1, <1>2, <1>3 DEF LayoutTypes

LEMMA SettingsHold == SettingsInv => SettingsAsAsked
<1> SUFFICES ASSUME SettingsInv PROVE FlagsAsAsked /\ OnlyListedShown
  BY DEF SettingsAsAsked
<1>1. FlagsAsAsked
  <2> SUFFICES ASSUME stage = "flags set" PROVE MergesAsAsked(flagsIn, flagsOut)
    BY DEF FlagsAsAsked, MergesAsAsked
  <2>1. flagsIn \in FlagsIn /\ flagsOut = Merge(flagsIn)
    BY DEF SettingsInv
  <2> QED
    BY <2>1, MergeAsAsked
<1>2. OnlyListedShown
  <2> SUFFICES ASSUME stage = "layout set" PROVE ShowsAsAsked(layoutIn.words, layoutIn.layout, layoutOut)
    BY DEF OnlyListedShown, ShowsAsAsked
  <2>1. /\ layoutIn.words \in SUBSET Words /\ layoutIn.layout \in Layouts
        /\ layoutOut = Transform(layoutIn.layout, KeepSpec(layoutIn.words))
    BY DEF SettingsInv
  <2>2. layoutIn.layout \in LayoutTypes
    BY <2>1, LayoutsType
  <2>3. ShowsAsAsked(layoutIn.words, layoutIn.layout, Transform(layoutIn.layout, KeepSpec(layoutIn.words)))
    BY <2>1, <2>2, TransformAsAsked
  <2> QED
    BY <2>1, <2>3
<1> QED
  BY <1>1, <1>2

\* The flags written are the ones asked for, by the precedence of FlagsAsAsked (the
\* profiler's flags before an override that does not begin with their key as typed), and
\* of the panels only the listed ones are shown, in their order and counted, for any
\* flags, files, panels and layouts.
THEOREM SettingsWritten == SettingsSpec => []SettingsAsAsked
<1>1. SettingsInit => SettingsInv
  BY DEF SettingsInit, SettingsInv
<1>2. SettingsInv /\ [SettingsNext]_settingsVars => SettingsInv'
  <2> SUFFICES ASSUME SettingsInv, [SettingsNext]_settingsVars PROVE SettingsInv'
    OBVIOUS
  <2>1. CASE PatchFlags
    BY <2>1 DEF PatchFlags, SettingsInv
  <2>2. CASE PatchLayout
    BY <2>2 DEF PatchLayout, SettingsInv
  <2>3. CASE UNCHANGED settingsVars
    BY <2>3 DEF settingsVars, SettingsInv
  <2> QED
    BY <2>1, <2>2, <2>3 DEF SettingsNext
<1> QED
  BY <1>1, <1>2, SettingsHold, PTL DEF SettingsSpec
===============================================================================
