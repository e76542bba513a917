-------------------------------- MODULE Route --------------------------------
(***************************************************************************)
(* How a sparse routing request becomes a studio mode, a DOM kind and a    *)
(* run context, or an error (RouteSpec::resolve,                           *)
(* rodeo-cli/src/shared/target.rs).                                        *)
(***************************************************************************)
CONSTANT None       \* a field the caller leaves out

Modes == {"edit", "run", "test", "play"}
Kinds == {"edit", "server", "client"}
Contexts == {"plugin", "server", "client", "elevated", "cmdbar"}

Specs == [mode : Modes \cup {None}, kind : Kinds \cup {None}, context : Contexts \cup {None}]
EmptySpec == [mode |-> None, kind |-> None, context |-> None]

Given(v, default) == IF v # None THEN v ELSE default

\* The DOM kinds that exist in each mode, and the contexts of each kind.
KindsIn(mode) ==
    CASE mode = "edit" -> {"edit"}
      [] mode = "run"  -> {"edit", "server"}
      [] OTHER         -> Kinds
ContextsOn(kind) ==
    {"plugin", "elevated"} \cup (IF kind = "edit" THEN {"cmdbar"} ELSE {kind})

\* The defaults: the mode is never inferred, the kind follows the context and
\* then the mode, the context follows the kind.
DefaultKind(context, mode) ==
    CASE context \in {"server", "client"} -> context
      [] context = "cmdbar" -> "edit"
      [] OTHER -> IF mode = "edit" THEN "edit" ELSE "server"
NativeContext(kind) == IF kind = "edit" THEN "plugin" ELSE kind

\* (Mutant: a server or client context implies the mode it needs.)
ModeInferred(spec) ==
    Given(spec.mode, IF spec.context \in {"server", "client"} THEN "test" ELSE "edit")
RouteMode(spec) == Given(spec.mode, "edit")

\* resolve: fill in the defaults; the result is an error unless it is Valid.
Resolve(spec) ==
    LET mode == RouteMode(spec)
        kind == Given(spec.kind, DefaultKind(spec.context, mode))
    IN [mode |-> mode, kind |-> kind, context |-> Given(spec.context, NativeContext(kind))]
Valid(route) == route.kind \in KindsIn(route.mode) /\ route.context \in ContextsOn(route.kind)

\* What a resolved route keeps of what the caller wrote.
Honours(spec, route) ==
    /\ spec.mode # None => route.mode = spec.mode
    /\ spec.kind # None => route.kind = spec.kind
    /\ spec.context # None => route.context = spec.context
=============================================================================
