-------------------------------- MODULE MCHost --------------------------------
(***************************************************************************)
(* What rodeo's processes and tasks share on one host: a patched settings  *)
(* file, the plugin files, what is written into the settings, and the      *)
(* StudioMCP process.  The four share no state, so a behaviour of the      *)
(* model is about one of them.                                             *)
(***************************************************************************)
EXTENDS FilePatch, PluginFiles, StudioSettings, McpBridge

CONSTANTS h1, h2, h3, p1, p2, s1, s2, s3, s4, buildA, buildB, l1, l2, u1, u2, c1, c2, loop, Parts

VARIABLE part

hostVars == <<vars, pluginVars, settingsVars, mcpVars, part>>

\* Two processes; the second one patches twice.
HandleOwner == [h \in Handles |-> IF h = h1 THEN p1 ELSE p2]

\* Two serves of one build that use the same port one after the other, one of
\* another build elsewhere, and a studio backend alone on the first port.
\* Bound: the last one and the second do not both start in a behaviour.
ServeBuild == [s \in Serves |-> IF s \in {s3, s4} THEN buildB ELSE buildA]
ServePort == [s \in Serves |-> IF s = s3 THEN 3 ELSE 1]

\* A name that begins with the name of one of the profiler's flags; a file with
\* that flag, and one with every flag.
LongerNames == {<<"EnabledToo", "Enabled">>}
SomeFlagFiles == {[k \in {<<"FFlag", "Enabled">>} |-> "false"], [k \in Keys |-> "false"]}

\* Two launches; a launch beside a Studio of the user's; calls of scripts in two Studios,
\* without the loop and with it; and a launch beside the loop and a call.
McpScenes == {{l1, l2}, {l1, u1}, {c1, c2, u1, u2}, {loop, c1, u1, u2}, {loop, l1, c1}}

NoSettings ==
    /\ stage = "none" /\ flagsIn = Nothing /\ layoutIn = Nothing
    /\ flagsOut = NoFlags /\ layoutOut = Nothing

HostInit ==
    /\ part \in Parts
    /\ Init /\ PluginsInit
    /\ IF part = "mcp" THEN McpInit ELSE McpStart({}) /\ up = "no"
    /\ part # "patch" => file = [form |-> "layout", user |-> User]
    /\ IF part = "settings" THEN SettingsInit ELSE NoSettings

\* Bound: operations on a file overlap in the instance where the user had one.
Overlaps == clash' => file.user = User

HostNext ==
    /\ part' = part
    /\ \/ part = "patch" /\ Next /\ Overlaps /\ UNCHANGED <<pluginVars, settingsVars, mcpVars>>
       \/ part = "plugins" /\ PluginsNext /\ serve'[s4] = "off" /\ UNCHANGED <<vars, settingsVars, mcpVars>>
       \/ part = "alone" /\ PluginsNext /\ serve'[s2] = "off" /\ UNCHANGED <<vars, settingsVars, mcpVars>>
       \/ part = "settings" /\ SettingsNext /\ UNCHANGED <<vars, pluginVars, mcpVars>>
       \/ part = "mcp" /\ McpNext /\ UNCHANGED <<vars, pluginVars, settingsVars>>

HostSpec == HostInit /\ [][HostNext]_hostVars
==============================================================================
