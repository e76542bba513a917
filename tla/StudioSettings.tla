---------------------------- MODULE StudioSettings ----------------------------
(***************************************************************************)
(* What rodeo writes into the two settings files it patches: the merge of  *)
(* fflags into ClientAppSettings.json, and the dock layout with only the   *)
(* listed widgets left.  The module computes both for every input of a     *)
(* small domain and compares the result with what the caller asked for.    *)
(***************************************************************************)
EXTENDS Naturals, Sequences, SequencesExt

CONSTANTS
    FlagNames,    \* flags without their prefix; three of them are the profiler's
    Longer,       \* <<n, m>>: the name n is another one that begins with m
    FlagFiles,    \* what a flag file or the settings file may hold
    MaxFlags,     \* bound: flags on the command line
    Widgets,      \* panels: "outputPanel" has an alias, "rodeoPanel" a computed id
    MaxRefs       \* bound: references in a layout container

Values == {"true", "false", "60"}
FlagTypes == {"FFlag", "FInt"}
Keys == FlagTypes \X FlagNames

\* The profiler's flags do not begin with one another, and no panel is called
\* by a word that means something else on the command line.
ASSUME SettingsAssumption ==
    /\ {"Enabled", "Interval", "NumFrames"} \subseteq FlagNames
    /\ \A n, m \in {"Enabled", "Interval", "NumFrames"} : <<n, m>> \notin Longer
    /\ \A f \in FlagFiles : DOMAIN f \subseteq Keys /\ f \in [DOMAIN f -> Values]
    /\ MaxFlags \in Nat /\ MaxRefs \in Nat
    /\ Widgets \intersect {"output", "rodeo", "ribbon", "commandbar", "none"} = {}

VARIABLES stage, flagsIn, flagsOut, layoutIn, layoutOut
settingsVars == <<stage, flagsIn, flagsOut, layoutIn, layoutOut>>

------------------------------------------------------------------------------
(* FFlags.  A flag on the command line may or may not carry its prefix,    *)
(* and may lack its value; then it is ignored.                             *)

Nothing == "nothing"
FlagArgs == [name: FlagNames, prefix: FlagTypes \union {"bare"}, value: Values \union {Nothing}]
NoFlags == [k \in {} |-> "true"]

AutoPrefix(arg) ==
    <<IF arg.prefix # "bare" THEN arg.prefix ELSE IF arg.value = "60" THEN "FInt" ELSE "FFlag", arg.name>>

Insert(flags, key, value) == [k \in {key} \union DOMAIN flags |-> IF k = key THEN value ELSE flags[k]]

Extend(flags, more) ==
    [k \in DOMAIN flags \union DOMAIN more |-> IF k \in DOMAIN more THEN more[k] ELSE flags[k]]

\* One override after the other.
Parse(flags, arg) == IF arg.value = Nothing THEN flags ELSE Insert(flags, AutoPrefix(arg), arg.value)
ParseOverrides(args) ==
    LET upto[n \in 0 .. Len(args)] == IF n = 0 THEN NoFlags ELSE Parse(upto[n - 1], args[n])
    IN upto[Len(args)]

\* An override, as it is typed, begins with flag's key.
BeginsAs(arg, flag) ==
    arg.prefix = flag.prefix /\ (arg.name = flag.name \/ <<arg.name, flag.name>> \in Longer)

\* The flags of a profiled launch.
Enabled == [name |-> "Enabled", prefix |-> "FFlag", value |-> "true"]
Interval == [name |-> "Interval", prefix |-> "FInt", value |-> "60"]
NumFrames == [name |-> "NumFrames", prefix |-> "FInt", value |-> "60"]
ProfileFlags == {Enabled, Interval, NumFrames}

\* Each is added after the overrides unless one of these begins with its key.
Inject(args, flag) == IF \E i \in DOMAIN args : BeginsAs(args[i], flag) THEN args ELSE Append(args, flag)
InjectProfile(args) == Inject(Inject(Inject(args, Enabled), Interval), NumFrames)

\* What the settings held before, if it can be parsed.
Original(in) == IF in.readable THEN in.original ELSE NoFlags

\* (Mutant: the file is applied over the command line.)
MergeFileLast(in) ==
    LET args == IF in.profile THEN InjectProfile(in.args) ELSE in.args
        asked == Extend(ParseOverrides(args), in.file)
    IN IF asked = NoFlags THEN in.original ELSE Extend(Original(in), asked)

\* The flags to set: the file's, and the command line's on top.  With none,
\* nothing is patched.
Merge(in) ==
    LET args == IF in.profile THEN InjectProfile(in.args) ELSE in.args
        asked == Extend(in.file, ParseOverrides(args))
    IN IF asked = NoFlags THEN in.original ELSE Extend(Original(in), asked)

FlagsIn ==
    [args: SeqOf(FlagArgs, MaxFlags), profile: BOOLEAN, file: FlagFiles \union {NoFlags},
     original: FlagFiles \union {NoFlags}, readable: BOOLEAN]

------------------------------------------------------------------------------
(* The dock layout: panel definitions that may be active, and containers   *)
(* that show the panels they refer to and count them.                      *)

Bars == {"shown", "hidden"}
Specials == {"none", "ribbon", "commandbar"}
Words == Widgets \union Specials \union {"output", "rodeo"}

\* An alias stands for its panel; the backend expands `rodeo` to the panel of
\* its own plugin file; any other word is a panel's own identifier.
PanelOf(word) ==
    CASE word = "output" -> "outputPanel" [] word = "rodeo" -> "rodeoPanel" [] OTHER -> word

KeepSpec(words) ==
    [panels |-> {PanelOf(w) : w \in words \ Specials},
     ribbon |-> "ribbon" \in words,
     commandbar |-> "commandbar" \in words]

Hidden(layout, keep) == {w \in Widgets : layout.dock[w] /\ w \notin keep.panels}

\* The references to panels that remain.
Remaining(refs, gone) ==
    LET upto[n \in 0 .. Len(refs)] ==
            IF n = 0 THEN <<>>
            ELSE IF refs[n] \in gone THEN upto[n - 1] ELSE Append(upto[n - 1], refs[n])
    IN upto[Len(refs)]

\* (Mutant: the container keeps its count.)
StripRefs(layout, keep) ==
    [layout EXCEPT !.active = @ \ Hidden(layout, keep),
                   !.refs = Remaining(@, Hidden(layout, keep))]

StripPanels(layout, keep) ==
    LET shown == Remaining(layout.refs, Hidden(layout, keep)) IN
    [layout EXCEPT !.active = @ \ Hidden(layout, keep), !.refs = shown, !.count = Len(shown)]

Transform(layout, keep) ==
    [StripPanels(layout, keep) EXCEPT
        !.minimized = ~keep.ribbon,
        !.bar = IF keep.commandbar THEN @ ELSE "hidden"]

Layouts ==
    [dock: {[w \in Widgets |-> w # "frame"]}, active: SUBSET Widgets, refs: SeqOf(Widgets, MaxRefs),
     count: {0}, minimized: BOOLEAN, bar: Bars]

------------------------------------------------------------------------------
SettingsInit ==
    /\ \/ stage = "flags" /\ flagsIn \in FlagsIn /\ layoutIn = Nothing
       \/ stage = "layout" /\ layoutIn \in [words: SUBSET Words, layout: Layouts] /\ flagsIn = Nothing
    /\ flagsOut = NoFlags /\ layoutOut = Nothing

PatchFlags ==
    /\ stage = "flags"
    /\ stage' = "flags set"
    /\ flagsOut' = Merge(flagsIn)
    /\ UNCHANGED <<flagsIn, layoutIn, layoutOut>>

PatchLayout ==
    /\ stage = "layout"
    /\ stage' = "layout set"
    /\ layoutOut' = Transform(layoutIn.layout, KeepSpec(layoutIn.words))
    /\ UNCHANGED <<flagsIn, flagsOut, layoutIn>>

SettingsNext == PatchFlags \/ PatchLayout

SettingsSpec == SettingsInit /\ [][SettingsNext]_settingsVars

------------------------------------------------------------------------------
\* An override sets a flag if it has a value.
Sets(arg, key) == arg.value # Nothing /\ AutoPrefix(arg) = key
LastSetting(args, key) ==
    {i \in DOMAIN args : Sets(args[i], key) /\ \A j \in i + 1 .. Len(args) : ~ Sets(args[j], key)}

\* What is to be set for a key, if anything, by each of those that may ask.
ByOverrides(in, key) == {in.args[i].value : i \in LastSetting(in.args, key)}
ByProfile(in, key) ==
    {f.value : f \in {g \in ProfileFlags :
        in.profile /\ AutoPrefix(g) = key /\ ~ \E i \in DOMAIN in.args : BeginsAs(in.args[i], g)}}
ByFile(in, key) == {in.file[k] : k \in DOMAIN in.file \intersect {key}}
Asked(in, key) == ByProfile(in, key) \union ByOverrides(in, key) \union ByFile(in, key)

\* For every key: the profiler's flag wins unless an override begins with its
\* key as typed (a longer name does, a name without its prefix or the flag file
\* does not), then the last override that sets it, then the fflag file, then
\* what the user had; no other flag appears.  What the user had is lost when it
\* cannot be parsed and any flag is asked for.
FlagsAsAsked ==
    stage = "flags set" =>
       \A k \in Keys :
          LET in == flagsIn
              had == IF k \in DOMAIN in.original /\ (in.readable \/ \A j \in Keys : Asked(in, j) = {})
                     THEN {in.original[k]} ELSE {}
              want == IF ByProfile(in, k) # {} THEN ByProfile(in, k)
                      ELSE IF ByOverrides(in, k) # {} THEN ByOverrides(in, k)
                      ELSE IF ByFile(in, k) # {} THEN ByFile(in, k) ELSE had
          IN {flagsOut[j] : j \in DOMAIN flagsOut \intersect {k}} = want

\* In a profiled launch what the caller sets by an override is what is set
\* ("skips any fflag the caller already set so explicit user overrides win").
OverridesWin ==
    stage = "flags set" /\ flagsIn.profile =>
       \A k \in Keys : ByOverrides(flagsIn, k) # {} =>
          k \in DOMAIN flagsOut /\ flagsOut[k] \in ByOverrides(flagsIn, k)

\* The members of refs outside gone are what is in kept, in the same order.
KeptInOrder(kept, refs, gone) ==
    \E at \in [DOMAIN kept -> DOMAIN refs] :
       /\ \A i, j \in DOMAIN kept : i < j => at[i] < at[j]
       /\ \A i \in DOMAIN kept : kept[i] = refs[at[i]]
       /\ \A n \in DOMAIN refs : (refs[n] \notin gone) = (\E i \in DOMAIN kept : at[i] = n)

\* What remains visible is exactly what was visible and is listed, in its old
\* order; the containers count what they hold; and stripping a layout twice
\* changes nothing more.
OnlyListedShown ==
    stage = "layout set" =>
       LET words == layoutIn.words
           old == layoutIn.layout
           new == layoutOut
           listed == words \union {PanelOf(w) : w \in words}
           gone == {w \in Widgets : old.dock[w] /\ w \notin listed}
       IN /\ new.active = old.active \ gone
          /\ KeptInOrder(new.refs, old.refs, gone)
          /\ new.count = Len(new.refs)
          /\ (new.minimized = TRUE) = ("ribbon" \notin words)
          /\ "commandbar" \in words => new.bar = old.bar
          /\ "commandbar" \notin words => new.bar = "hidden"
          /\ Transform(new, KeepSpec(words)) = new

\* What rodeo writes into the two files is what the caller listed: flags by
\* precedence, and of the panels only the listed ones, counted.
SettingsAsAsked == FlagsAsAsked /\ OnlyListedShown
==============================================================================
