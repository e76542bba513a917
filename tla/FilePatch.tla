------------------------------ MODULE FilePatch ------------------------------
(***************************************************************************)
(* A settings file of Studio (the fflags JSON or the widget layout plist)  *)
(* patched by several rodeo processes through the `filepatch` crate: the   *)
(* file is renamed to a lock file that carries its owner's name, a patched *)
(* copy is written in its place, and the handle puts the original back.    *)
(* A later patch claims the lock it finds instead of making one, a process *)
(* may die between any two file operations, and a process that starts      *)
(* reverts the locks whose owners are dead.                                *)
(*                                                                         *)
(* A handle is one call of apply.  Its file operations are separate steps, *)
(* with whatever the others do in between; `clash` remembers whether an    *)
(* apply, a restore or a sweep has ever begun while another was under way. *)
(***************************************************************************)
EXTENDS FiniteSets

CONSTANTS
    Handles,   \* calls of apply
    Procs,     \* rodeo processes: no process identifier is used again
    Owner,     \* the process that makes each call
    None       \* "no lock was found"

ASSUME PatchAssumption ==
    /\ Owner \in [Handles -> Procs]
    /\ None \notin Handles
    /\ IsFiniteSet(Handles)

------------------------------------------------------------------------------
(* Contents of a file.  User is what the user had, never empty: a file of  *)
(* length zero is taken for the sentinel once its lock is claimed.         *)

NoFile == [kind |-> "none"]
Sentinel == [kind |-> "sentinel"]
User == [kind |-> "user"]
Rewritten == [kind |-> "rewritten"]

\* A patch, and whether it was built from what the user had.
PatchBy(h, pure) == [kind |-> "patch", by |-> h, pure |-> pure]
Patches == [kind: {"patch"}, by: Handles, pure: BOOLEAN]

Contents == {NoFile, Sentinel, User, Rewritten} \union Patches

\* What a lock holds when the user's file was `c`.
Backup(c) == IF c = NoFile THEN Sentinel ELSE c

------------------------------------------------------------------------------
VARIABLES
    file,     \* which file it is and what the user had: never changes
    target,   \* the file itself
    dir,      \* its directory is there
    lock,     \* the lock file named after each handle
    pc,       \* where each call of apply, or its restore, is
    found,    \* the lock the call listed
    noOrig,   \* Handle.no_original
    read,     \* the content the builder was given
    made,     \* FflagHandle.created_dir
    proc,     \* each process: "new", "up" or "dead"
    todo,     \* the locks a starting process has listed and not yet visited
    cur,      \* the stale lock it is putting back, and whether it is a sentinel
    clash     \* history: two operations have been under way at once

vars == <<file, target, dir, lock, pc, found, noOrig, read, made, proc, todo, cur, clash>>

Locks == {h \in Handles : lock[h] # NoFile}

Resting == {"new", "skipped", "failed", "held", "done", "lost"}
Patching == {"look", "take", "inspect", "read", "build"}
Restoring == {"remove", "put"}

Files == [form: {"fflags", "layout"}, user: {NoFile, User}]

Init ==
    /\ file \in Files
    /\ target = file.user
    /\ dir \in {d \in BOOLEAN : d \/ (file.form = "fflags" /\ file.user = NoFile)}
    /\ lock = [h \in Handles |-> NoFile]
    /\ pc = [h \in Handles |-> "new"]
    /\ found = [h \in Handles |-> None]
    /\ noOrig = [h \in Handles |-> FALSE]
    /\ read = [h \in Handles |-> NoFile]
    /\ made = [h \in Handles |-> FALSE]
    /\ proc = [p \in Procs |-> "new"]
    /\ todo = [p \in Procs |-> {}]
    /\ cur = [p \in Procs |-> None]
    /\ clash = FALSE

------------------------------------------------------------------------------
(* Who is in the middle of something.  A process sweeps before it does     *)
(* anything else; its own launches patch side by side on blocking threads. *)

Sweeping(p) == proc[p] = "up" /\ (todo[p] # {} \/ cur[p] # None)

Working(h) == proc[Owner[h]] = "up" /\ pc[h] \in Patching \union Restoring

\* Nobody who still runs is patching, restoring or sweeping.
Idle == (\A p \in Procs : ~Sweeping(p)) /\ (\A h \in Handles : ~Working(h))

Begins == clash' = (clash \/ ~Idle)

Runs(h) == proc[Owner[h]] = "up"

Goes(h, from, to) == Runs(h) /\ pc[h] = from /\ pc' = [pc EXCEPT ![h] = to]

Elsewhere == <<file, proc, todo, cur, clash>>

------------------------------------------------------------------------------
(* apply: list the locks, then claim one, move the file aside, or write a  *)
(* sentinel; look at what was claimed; read the original; build and write. *)

\* The layout patch is given up when there is no plist; the fflags patch
\* makes its directory first.
Skip(h) ==
    /\ file.form = "layout" /\ target = NoFile /\ ~Sweeping(Owner[h])
    /\ Goes(h, "new", "skipped")
    /\ UNCHANGED <<target, dir, lock, found, noOrig, read, made>> /\ UNCHANGED Elsewhere

Begin(h) ==
    /\ Begins /\ ~Sweeping(Owner[h])
    /\ file.form = "layout" => target # NoFile
    /\ Goes(h, "new", "look")
    /\ dir' = TRUE
    /\ made' = [made EXCEPT ![h] = ~dir]
    /\ UNCHANGED <<target, lock, found, noOrig, read, file, proc, todo, cur>>

List(h) ==
    /\ Goes(h, "look", "take")
    /\ IF Locks = {} THEN found' = found
                     ELSE \E l \in Locks : found' = [found EXCEPT ![h] = l]
    /\ UNCHANGED <<target, dir, lock, noOrig, read, made>> /\ UNCHANGED Elsewhere

Claim(h) ==
    /\ found[h] # None /\ lock[found[h]] # NoFile
    /\ Goes(h, "take", "inspect")
    /\ lock' = [lock EXCEPT ![h] = lock[found[h]], ![found[h]] = NoFile]
    /\ UNCHANGED <<target, dir, found, noOrig, read, made>> /\ UNCHANGED Elsewhere

\* (Mutant: the file is moved aside whether or not a lock was found.)
MoveAsideAnyway(h) ==
    /\ target # NoFile
    /\ Goes(h, "take", "read")
    /\ lock' = [lock EXCEPT ![h] = target]
    /\ target' = NoFile
    /\ noOrig' = [noOrig EXCEPT ![h] = FALSE]
    /\ UNCHANGED <<dir, found, read, made>> /\ UNCHANGED Elsewhere

MoveAside(h) ==
    /\ found[h] = None /\ target # NoFile
    /\ Goes(h, "take", "read")
    /\ lock' = [lock EXCEPT ![h] = target]
    /\ target' = NoFile
    /\ noOrig' = [noOrig EXCEPT ![h] = FALSE]
    /\ UNCHANGED <<dir, found, read, made>> /\ UNCHANGED Elsewhere

WriteSentinel(h) ==
    /\ found[h] = None /\ target = NoFile /\ dir
    /\ Goes(h, "take", "build")
    /\ lock' = [lock EXCEPT ![h] = Sentinel]
    /\ noOrig' = [noOrig EXCEPT ![h] = TRUE]
    /\ UNCHANGED <<target, dir, found, read, made>> /\ UNCHANGED Elsewhere

\* The claim fails when the lock is gone by then, the sentinel when the
\* directory is: apply returns the error and the caller has no handle.
TakeFails(h) ==
    /\ \/ found[h] # None /\ lock[found[h]] = NoFile
       \/ found[h] = None /\ target = NoFile /\ ~dir
    /\ Goes(h, "take", "failed")
    /\ UNCHANGED <<target, dir, lock, found, noOrig, read, made>> /\ UNCHANGED Elsewhere

\* A claimed lock of length zero, or one already gone, means "no original".
Inspect(h) ==
    LET none == lock[h] \in {NoFile, Sentinel} IN
    /\ Goes(h, "inspect", IF none THEN "build" ELSE "read")
    /\ noOrig' = [noOrig EXCEPT ![h] = none]
    /\ UNCHANGED <<target, dir, lock, found, read, made>> /\ UNCHANGED Elsewhere

\* (Mutant: the builder is given the file as it is, not the backup.)
ReadTarget(h) ==
    /\ Goes(h, "read", IF lock[h] = NoFile THEN "failed" ELSE "build")
    /\ read' = [read EXCEPT ![h] = IF target = NoFile THEN lock[h] ELSE target]
    /\ UNCHANGED <<target, dir, lock, found, noOrig, made>> /\ UNCHANGED Elsewhere

ReadBackup(h) ==
    /\ Goes(h, "read", IF lock[h] = NoFile THEN "failed" ELSE "build")
    /\ read' = [read EXCEPT ![h] = lock[h]]
    /\ UNCHANGED <<target, dir, lock, found, noOrig, made>> /\ UNCHANGED Elsewhere

WritePatch(h) ==
    /\ file.form = "layout" => ~noOrig[h]
    /\ dir
    /\ Goes(h, "build", "held")
    /\ target' = PatchBy(h, read[h] = file.user)
    /\ UNCHANGED <<dir, lock, found, noOrig, read, made>> /\ UNCHANGED Elsewhere

\* The plist builder fails on a missing or unreadable plist, and the write
\* fails without the directory.  The lock stays, owned by a live process.
BuildFails(h) ==
    /\ file.form = "layout" \/ ~dir
    /\ Goes(h, "build", "failed")
    /\ UNCHANGED <<target, dir, lock, found, noOrig, read, made>> /\ UNCHANGED Elsewhere

------------------------------------------------------------------------------
(* Handle::restore, once: nothing when the lock has been claimed, else the *)
(* patch is removed and the lock renamed back (or the sentinel removed).   *)

\* Removing the directory fails, silently, unless it is empty.
EmptyDir(t, l) == t = NoFile /\ \A h \in Handles : l[h] = NoFile

LeaveDir(h, t, l) == dir' = (dir /\ ~(made[h] /\ EmptyDir(t, l)))

\* (Mutant: a handle whose lock has been claimed removes the file all the same.)
RestoreAnyway(h) ==
    /\ Begins
    /\ Goes(h, "held", "remove")
    /\ UNCHANGED <<target, dir, lock, found, noOrig, read, made, file, proc, todo, cur>>

Restore(h) ==
    /\ Begins
    /\ Goes(h, "held", IF lock[h] = NoFile THEN "lost" ELSE "remove")
    /\ IF lock[h] = NoFile THEN LeaveDir(h, target, lock) ELSE dir' = dir
    /\ UNCHANGED <<target, lock, found, noOrig, read, made, file, proc, todo, cur>>

RemovePatch(h) ==
    /\ Goes(h, "remove", "put")
    /\ target' = NoFile
    /\ UNCHANGED <<dir, lock, found, noOrig, read, made>> /\ UNCHANGED Elsewhere

\* (Mutant: a sentinel is renamed back like any lock.)
PutBackAll(h, sentinel) ==
    /\ target' = IF lock[h] = NoFile THEN target ELSE lock[h]
    /\ lock' = [lock EXCEPT ![h] = NoFile]

\* The file system after `lock` of h is put back: the sentinel, or a lock
\* already claimed, puts nothing.
PutBack(h, sentinel) ==
    /\ target' = IF sentinel \/ lock[h] = NoFile THEN target ELSE lock[h]
    /\ lock' = [lock EXCEPT ![h] = NoFile]

PutOriginal(h) ==
    /\ Goes(h, "put", "done")
    /\ PutBack(h, noOrig[h])
    /\ LeaveDir(h, target', lock')
    /\ UNCHANGED <<found, noOrig, read, made>> /\ UNCHANGED Elsewhere

------------------------------------------------------------------------------
(* A process starts and sweeps the stale locks; it may die at any step.    *)

Still == <<file, dir, pc, found, noOrig, read, made, clash>>

Start(p) ==
    /\ proc[p] = "new" /\ Begins
    /\ proc' = [proc EXCEPT ![p] = "up"]
    /\ todo' = [todo EXCEPT ![p] = Locks]
    /\ UNCHANGED <<target, lock, cur, file, dir, pc, found, noOrig, read, made>>

\* A lock is left alone when its owner lives or it is already gone.
Visit(p, l) ==
    LET stale == proc[Owner[l]] # "up" /\ lock[l] # NoFile IN
    /\ proc[p] = "up" /\ cur[p] = None /\ l \in todo[p]
    /\ todo' = [todo EXCEPT ![p] = @ \ {l}]
    /\ cur' = [cur EXCEPT ![p] = IF stale THEN [of |-> l, sentinel |-> lock[l] = Sentinel, gone |-> FALSE]
                                          ELSE None]
    /\ UNCHANGED <<target, lock, proc>> /\ UNCHANGED Still

SweepRemove(p) ==
    /\ proc[p] = "up" /\ cur[p] # None /\ ~cur[p].gone
    /\ target' = NoFile
    /\ cur' = [cur EXCEPT ![p].gone = TRUE]
    /\ UNCHANGED <<lock, proc, todo>> /\ UNCHANGED Still

\* A rename that fails ends the whole sweep.
SweepPut(p) ==
    /\ proc[p] = "up" /\ cur[p] # None /\ cur[p].gone
    /\ PutBack(cur[p].of, cur[p].sentinel)
    /\ todo' = [todo EXCEPT ![p] = IF ~cur[p].sentinel /\ lock[cur[p].of] = NoFile THEN {} ELSE @]
    /\ cur' = [cur EXCEPT ![p] = None]
    /\ UNCHANGED proc /\ UNCHANGED Still

Crash(p) ==
    /\ proc[p] = "up"
    /\ proc' = [proc EXCEPT ![p] = "dead"]
    /\ UNCHANGED <<target, lock, todo, cur>> /\ UNCHANGED Still

\* Studio rewrites its own settings on exit, while they are patched.
StudioWrites ==
    /\ Locks # {} /\ target # NoFile
    /\ target' = Rewritten
    /\ UNCHANGED <<lock, proc, todo, cur>> /\ UNCHANGED Still

Next ==
    \/ \E h \in Handles :
          \/ Skip(h) \/ Begin(h) \/ List(h) \/ Claim(h) \/ MoveAside(h) \/ WriteSentinel(h)
          \/ TakeFails(h) \/ Inspect(h) \/ ReadBackup(h) \/ WritePatch(h) \/ BuildFails(h)
          \/ Restore(h) \/ RemovePatch(h) \/ PutOriginal(h)
    \/ \E p \in Procs :
          \/ Start(p) \/ SweepRemove(p) \/ SweepPut(p) \/ Crash(p)
          \/ \E l \in Handles : Visit(p, l)
    \/ StudioWrites

Spec == Init /\ [][Next]_vars

------------------------------------------------------------------------------
\* Every variable holds a value of its kind.
TypeOK ==
    /\ file \in Files
    /\ target \in Contents \ {Sentinel}
    /\ dir \in BOOLEAN
    /\ lock \in [Handles -> Contents]
    /\ pc \in [Handles -> Resting \union Patching \union Restoring]
    /\ found \in [Handles -> Handles \union {None}]
    /\ noOrig \in [Handles -> BOOLEAN]
    /\ read \in [Handles -> Contents]
    /\ made \in [Handles -> BOOLEAN]
    /\ proc \in [Procs -> {"new", "up", "dead"}]
    /\ todo \in [Procs -> SUBSET Handles]
    /\ cur \in [Procs -> {None} \union [of: Handles, sentinel: BOOLEAN, gone: BOOLEAN]]
    /\ clash \in BOOLEAN

\* Whatever dies and whenever, what the user had is never lost: it is in the
\* file when there is no lock, and in the only lock when there is one
\* (filepatch, "the original is preserved through the chain of ownership").
OriginalKept ==
    ~clash =>
       \/ Locks = {} /\ target = file.user
       \/ \E h \in Handles : Locks = {h} /\ lock[h] = Backup(file.user)

\* A patch is built on what the user had, never on another process's patch:
\* what a claim reads is the original it inherited.
BuiltOnOriginal == (~clash /\ target \in Patches) => target.pure

\* While a live handle owns its lock and nobody is at work, the file is that
\* handle's patch, or what Studio made of it: no sweep and no other process's
\* restore takes the patch away from a process that is still using it.
PatchHolds ==
    (~clash /\ Idle) =>
       \A h \in Handles :
          (Runs(h) /\ pc[h] = "held" /\ lock[h] # NoFile)
             => target \in {PatchBy(h, TRUE), PatchBy(h, FALSE), Rewritten}
==============================================================================
