----------------------------- MODULE PluginFiles -----------------------------
(***************************************************************************)
(* The plugin files of one host.  Every studio backend installs a plugin   *)
(* named after its build and its port into the directory that all Studios  *)
(* load, and removes it when it exits; the next backend to start sweeps    *)
(* the files of backends that did not get that far.  A file that vanishes  *)
(* unloads the plugin from every open Studio at once.                      *)
(*                                                                         *)
(* A serve is a master and, one port above it, its studio backend; or a    *)
(* studio backend alone, whose master runs on another host.  The sweep     *)
(* reads the directory, then asks the masters one at a time, then looks    *)
(* for running Studios, then deletes: other serves start, launch and exit  *)
(* between these steps.  A master may be too slow to answer, and a running *)
(* Studio may not be found.                                                *)
(***************************************************************************)
EXTENDS FiniteSets

CONSTANTS
    Serves,    \* serve processes, each started at most once
    BuildOf,   \* the build each one runs
    PortOf,    \* the plugin port each one uses
    Remote,    \* the serves that are a studio backend alone
    NoServe    \* nothing answers

ASSUME ServesAssumption ==
    Remote \subseteq Serves /\ NoServe \notin Serves /\ NoServe \notin {BuildOf[s] : s \in Serves}

VARIABLES
    serve,     \* [Serves -> phase]
    entries,   \* the files each sweep still has to judge
    probes,    \* [Serves -> [PortOf -> the build that answered, or NoServe]]
    doomed,    \* the files each sweep has decided to delete
    plugins,   \* [file -> its age]
    studio,    \* the Studio each serve launched
    raced,     \* history: a serve has started while another one swept
    unheard,   \* history: serves that were alive when a sweep asked their port and
               \* that did not answer
    unseen     \* history: serves the Studio of which a sweep has not found

pluginVars == <<serve, entries, probes, doomed, plugins, studio, raced, unheard, unseen>>

File(s) == <<BuildOf[s], PortOf[s]>>
PluginFile == {File(s) : s \in Serves}
Ports == {PortOf[s] : s \in Serves}
Builds == {BuildOf[s] : s \in Serves}

\* A file is `fresh` until Studio has seen it appear (PLUGIN_SETTLE), then
\* `young` until a sweep may judge it (MIN_AGE).
Ages == {"fresh", "young", "old"}
Installed == {f \in PluginFile : plugins[f] # "none"}

Phases == {"off", "master", "probing", "deleting", "up", "gone"}
SweepPhases == {"probing", "deleting"}
Answering == {"master", "probing", "deleting", "up"}
Bound == {"probing", "deleting", "up"}

PluginsInit ==
    /\ serve = [s \in Serves |-> "off"]
    /\ entries = [s \in Serves |-> {}]
    /\ probes = [s \in Serves |-> [p \in Ports |-> NoServe]]
    /\ doomed = [s \in Serves |-> {}]
    /\ plugins = [f \in PluginFile |-> "none"]
    /\ studio = [s \in Serves |-> "none"]
    /\ raced = FALSE
    /\ unheard = {}
    /\ unseen = {}

------------------------------------------------------------------------------
(* Starting a serve: the master answers before its backend binds.          *)

\* The serves on plugin port p, and those of them with a master on the port below.
OnPort(p) == {s \in Serves : PortOf[s] = p /\ serve[s] \in Answering}
MasterOn(p) == OnPort(p) \ Remote

StartMaster(s) ==
    /\ serve[s] = "off" /\ (s \in Remote \/ MasterOn(PortOf[s]) = {})
    /\ serve' = [serve EXCEPT ![s] = "master"]
    /\ raced' = (raced \/ \E t \in Serves : serve[t] \in SweepPhases)
    /\ UNCHANGED <<entries, probes, doomed, plugins, studio, unheard, unseen>>

\* The backend binds its port, which must be free; the sweep lists the directory.
Scan(s) ==
    /\ serve[s] = "master"
    /\ \A t \in OnPort(PortOf[s]) : serve[t] \notin Bound
    /\ serve' = [serve EXCEPT ![s] = "probing"]
    /\ entries' = [entries EXCEPT ![s] = {f \in Installed : plugins[f] = "old"}]
    /\ UNCHANGED <<probes, doomed, plugins, studio, raced, unheard, unseen>>

\* Each master port is asked once; a master that errs or does not answer within
\* PROBE_TIMEOUT counts as gone, and so does one that is elsewhere.
Probe(s, p) ==
    /\ serve[s] = "probing"
    /\ \E f \in entries[s] : f[2] = p
    /\ \E slow \in SUBSET MasterOn(p) :
          LET heard == MasterOn(p) \ slow
          IN /\ probes' = [probes EXCEPT ![s][p] = IF heard = {} THEN NoServe
                                                   ELSE BuildOf[CHOOSE t \in heard : TRUE]]
             /\ unheard' = unheard \union (OnPort(p) \ heard)
    /\ entries' = [entries EXCEPT ![s] = {f \in @ : f[2] # p}]
    /\ doomed' = [doomed EXCEPT ![s] = @ \union {f \in entries[s] : f[2] = p}]
    /\ UNCHANGED <<serve, plugins, studio, raced, unseen>>

\* (Mutant: only Studios that a serve owns count as running.)
OwnedPorts == {PortOf[s] : s \in {t \in Serves : studio[t] = "owned"}}

\* The ports of the running Studios.
Running == {s \in Serves : studio[s] \in {"kept", "owned"}}
LivePorts == {PortOf[s] : s \in Running}

\* (Mutant: a file goes when its master answers, whatever the master's build.)
SweepAnswering(s, missed) ==
    {f \in doomed[s] : probes[s][f[2]] # NoServe \/ f[2] \notin LivePorts \ missed}

\* Until here `doomed` holds the files that were old enough to judge.
SweepDecisions(s, missed) ==
    {f \in doomed[s] : IF probes[s][f[2]] = NoServe THEN f[2] \notin LivePorts \ missed
                                                    ELSE probes[s][f[2]] # f[1]}

\* live_ports finds a Studio by its command line and the bootstrap file named
\* there; where one cannot be read, or none can, the Studios of the ports in
\* `missed` are not found.
Decide(s) ==
    /\ serve[s] = "probing" /\ entries[s] = {}
    /\ serve' = [serve EXCEPT ![s] = "deleting"]
    /\ \E missed \in SUBSET LivePorts :
          /\ doomed' = [doomed EXCEPT ![s] = SweepDecisions(s, missed)]
          /\ unseen' = unseen \union {t \in Running : PortOf[t] \in missed}
    /\ UNCHANGED <<entries, probes, plugins, studio, raced, unheard>>

\* Delete, then install: a file that already carries this build and port is
\* not written again and keeps its age.
Install(s) ==
    LET left == [f \in PluginFile |-> IF f \in doomed[s] THEN "none" ELSE plugins[f]] IN
    /\ serve[s] = "deleting"
    /\ serve' = [serve EXCEPT ![s] = "up"]
    /\ doomed' = [doomed EXCEPT ![s] = {}]
    /\ plugins' = [left EXCEPT ![File(s)] = IF @ = "none" THEN "fresh" ELSE @]
    /\ UNCHANGED <<entries, probes, studio, raced, unheard, unseen>>

------------------------------------------------------------------------------
\* A launch waits until the backend's file, if it is there, has settled.  A
\* sweep that did not hear from s, and has looked for Studios already, will not
\* find this one.
LaunchStudio(s, keep) ==
    /\ serve[s] = "up" /\ studio[s] = "none"
    /\ plugins[File(s)] # "fresh"
    /\ studio' = [studio EXCEPT ![s] = IF keep THEN "kept" ELSE "owned"]
    /\ unseen' = IF s \in unheard /\ \E t \in Serves : serve[t] = "deleting"
                 THEN unseen \union {s} ELSE unseen
    /\ UNCHANGED <<serve, entries, probes, doomed, plugins, raced, unheard>>

StudioQuits(s) ==
    /\ studio[s] \in {"kept", "owned"}
    /\ studio' = [studio EXCEPT ![s] = "ended"]
    /\ UNCHANGED <<serve, entries, probes, doomed, plugins, raced, unheard, unseen>>

\* An orderly exit: the backend kills the Studios it is not to leave behind,
\* and takes its plugin file with it unless it leaves one.
Exit(s) ==
    /\ serve[s] = "up"
    /\ serve' = [serve EXCEPT ![s] = "gone"]
    /\ studio' = [studio EXCEPT ![s] = IF @ = "owned" THEN "ended" ELSE @]
    /\ plugins' = IF studio[s] = "kept" THEN plugins ELSE [plugins EXCEPT ![File(s)] = "none"]
    /\ UNCHANGED <<entries, probes, doomed, raced, unheard, unseen>>

\* A crash or a kill leaves the file, and any Studio, behind.
Dies(s) ==
    /\ serve[s] \in Answering
    /\ serve' = [serve EXCEPT ![s] = "gone"]
    /\ UNCHANGED <<entries, probes, doomed, plugins, studio, raced, unheard, unseen>>

Age(f) ==
    /\ plugins[f] \in {"fresh", "young"}
    /\ plugins' = [plugins EXCEPT ![f] = IF @ = "fresh" THEN "young" ELSE "old"]
    /\ UNCHANGED <<serve, entries, probes, doomed, studio, raced, unheard, unseen>>

PluginsNext ==
    \/ \E s \in Serves :
          \/ StartMaster(s) \/ Scan(s) \/ Decide(s) \/ Install(s)
          \/ StudioQuits(s) \/ Exit(s) \/ Dies(s)
          \/ \E keep \in BOOLEAN : LaunchStudio(s, keep)
          \/ \E p \in Ports : Probe(s, p)
    \/ \E f \in PluginFile : Age(f)

PluginsSpec == PluginsInit /\ [][PluginsNext]_pluginVars

------------------------------------------------------------------------------
\* A backend that is up has its plugin installed: whatever other serves start,
\* sweep, leave behind or crash on, none of them deletes the file a live
\* backend depends on, as long as no serve starts in the middle of a sweep and
\* every sweep that asked at the backend's port was answered by its master.  A
\* master that is slower than PROBE_TIMEOUT or errs is taken for dead, and one
\* on another host never answers: such a backend can lose its file.
LiveBackendHasPlugin ==
    ~raced => \A s \in Serves : serve[s] = "up" /\ s \notin unheard => plugins[File(s)] # "none"

\* A sweep deletes a file from under a running Studio only when a master of
\* another build answers at its port, whether the Studio's own serve was heard
\* or not, as long as no serve starts in the middle of the sweep and the sweep
\* has found the Studio: it could read the Studio's bootstrap, and a Studio of
\* a serve it had not heard from was not launched after it looked.
SweepSparesStudios ==
    [][\A s \in Serves :
          (serve[s] = "deleting" /\ serve'[s] = "up" /\ ~raced) =>
             \A t \in Running \ unseen :
                (plugins[File(t)] # "none" /\ plugins'[File(t)] = "none")
                   => probes[s][PortOf[t]] \notin {NoServe, BuildOf[t]}]_pluginVars
==============================================================================
