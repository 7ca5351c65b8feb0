----------------------------- MODULE SigintGuard -----------------------------
(***************************************************************************)
(* The sigint_guard of src/datastruct/mem.c around the memtbl operations,  *)
(* one step at a time, against a SIGINT that can arrive between any two    *)
(* steps and whose handler may abort the operation: destroy the table and  *)
(* longjmp.  memtbl_destroy has no guard of its own: it is interrupted     *)
(* between the guarded frees of its loop.                                  *)
(*                                                                         *)
(* The table's map is the real one (BlockMap), which loses entries when it *)
(* resizes and hides some when it deletes.  The history variables lost and *)
(* stale tell which blocks that concerns, so that what the guard promises  *)
(* can be said of all the others.                                          *)
(***************************************************************************)
EXTENDS BlockMap, Sequences

CONSTANT Resets   \* TRUE in it: signal() may reset the handler on delivery

ASSUME GuardAssumption == Resets \subseteq BOOLEAN /\ Resets # {}

VARIABLES disp,      \* the disposition of SIGINT: "DFL", "IGN" or "HND"
          guards,    \* the handlers saved by the open guards, innermost last
          op,        \* the operation in progress, or "none"
          step,      \* its next step
          old,       \* the block it works on, or NULL
          new,       \* the block it has obtained, or NULL
          mp,        \* the table's map
          it,        \* the iterator of memtbl_destroy
          heap,      \* live blocks
          held,      \* blocks whose handles the client has
          run,       \* "running", "handling" a SIGINT, "aborting" in the
                     \* handler, "killed" by a SIGINT, or "wild" after
                     \* undefined behaviour
          expected,  \* history: the disposition the application is entitled to
          lost,      \* history: blocks that a resize of the map or a delete in
                     \* front of their entry made unresolvable, and what a
                     \* destroyed table left
          stale      \* history: blocks that a failed reallocation freed, and
                     \* whose entries the map may still have

vars == <<disp, guards, op, step, old, new, mp, it, heap, held, run, expected, lost, stale>>

process == <<disp, guards, run, expected>>
table == <<mp, it>>
history == <<lost, stale>>

Init ==
  /\ disp = "DFL" /\ guards = <<>> /\ expected = "DFL"
  /\ op = "none" /\ step = "idle" /\ old = NULL /\ new = NULL
  /\ mp = EmptyMap /\ it = DoneIter /\ heap = {} /\ held = {}
  /\ run = "running" /\ lost = {} /\ stale = {}

-----------------------------------------------------------------------------
\* The application installs its handler, or the default one, between calls.
Install(d) ==
  /\ run = "running" /\ op = "none"
  /\ disp' = d /\ expected' = d
  /\ UNCHANGED <<guards, op, step, old, new, table, heap, held, run, history>>

Call(o, b) ==
  /\ run = "running" /\ op = "none"
  /\ op' = o /\ step' = "enter" /\ old' = b /\ new' = NULL
  /\ held' = held \ {b}
  /\ UNCHANGED <<process, table, heap, history>>

\* memtbl_destroy: no handle of the table is used any more.
Destroys ==
  /\ op' = "destroy" /\ step' = "next" /\ old' = NULL /\ new' = NULL
  /\ held' = {}
  /\ it' = map_first_value_iter(mp, Resolvable(mp))
  /\ UNCHANGED <<mp, heap, history>>

CallDestroy ==
  run = "running" /\ op = "none" /\ Destroys /\ UNCHANGED process

\* The calls that are, or make, a mem_free.
Frees == {"free", "destroy"}

-----------------------------------------------------------------------------
At(s) == run \in {"running", "aborting"} /\ step = s

Continue(s) == step' = s /\ UNCHANGED <<op, expected>>

\* signal(SIGINT, SIG_IGN) returns the handler it replaces.
EnterGuard ==
  guards' = Append(guards, disp) /\ disp' = "IGN"

\* Mutant of LeaveGuard: the handler of the application comes back at the end of
\* every guard.
LeaveGuardToApp ==
  /\ guards' = SubSeq(guards, 1, Len(guards) - 1)
  /\ disp' = guards[1]

\* Mutant of LeaveGuard: the guard ends with the default handler.
LeaveGuardToDefault ==
  /\ guards' = SubSeq(guards, 1, Len(guards) - 1)
  /\ disp' = IF Len(guards) = 1 THEN "DFL" ELSE "IGN"

LeaveGuard ==
  /\ guards' = SubSeq(guards, 1, Len(guards) - 1)
  /\ disp' = guards[Len(guards)]

\* Inside the guard a reallocation or a free first looks its block up: the
\* address is NULL when the map does not find it.
Enter ==
  /\ At("enter") /\ EnterGuard
  /\ old' = IF op = "alloc" THEN old ELSE memtbl_p(mp, old)
  /\ Continue(IF op \in Frees THEN "delete" ELSE "malloc")
  /\ UNCHANGED <<new, table, heap, held, run, history>>

\* malloc, or realloc of old to a moved block (a new one when old is NULL); or
\* NULL, and the call is over.
Obtain(b) ==
  /\ At("malloc") /\ b \notin heap /\ mp.entry_count < MaxCount
  /\ new' = b /\ heap' = (heap \ {old}) \cup {b}
  /\ Continue("set")
  /\ UNCHANGED <<disp, guards, old, table, held, run, history>>

\* Mutant of ObtainNothing: the failure returns from inside the guarded block.
ObtainNothingUnguarded ==
  /\ At("malloc") /\ Continue("return")
  /\ UNCHANGED <<disp, guards, old, new, table, heap, held, run, history>>

ObtainNothing ==
  /\ At("malloc") /\ Continue("leave")
  /\ UNCHANGED <<disp, guards, old, new, table, heap, held, run, history>>

\* realloc keeps the block in place: the map is not touched.
KeepInPlace ==
  /\ At("malloc") /\ op = "realloc" /\ old # NULL
  /\ new' = old /\ Continue("leave")
  /\ UNCHANGED <<disp, guards, old, table, heap, held, run, history>>

-----------------------------------------------------------------------------
\* The outcomes of the map_set and the map_delete of the operation.
SetOutcomes == UNION {do_set(mp, Hash[new], new, can_alloc) : can_alloc \in BOOLEAN}

DeleteOutcomes == UNION {do_delete(mp, hash_ptr(old), can_alloc) : can_alloc \in BOOLEAN}

\* The allocations and frees of a map resize have guards of their own.
Resizes ==
  \/ step = "set" /\ \E o \in SetOutcomes : o.resize # "no"
  \/ step = "delete" /\ \E d \in DeleteOutcomes : d.resize # "no"

NestedEnter ==
  /\ At(step) /\ Len(guards) = 1 /\ Resizes
  /\ EnterGuard
  /\ UNCHANGED <<op, step, old, new, table, heap, held, run, expected, history>>

NestedLeave ==
  /\ At(step) /\ Len(guards) = 2
  /\ LeaveGuard
  /\ UNCHANGED <<op, step, old, new, table, heap, held, run, expected, history>>

\* The map becomes m, which does not find some of the blocks S any more.
Becomes(m, S) == mp' = m /\ lost' = (lost \cup S) \ Resolvable(m)

\* A growth may lose every entry, and the new one first of all.
MapSet ==
  /\ At("set") /\ Len(guards) = 1
  /\ \E o \in SetOutcomes :
       /\ o.ret
       /\ Becomes(o.map, IF o.resize = "grew" THEN Resolvable(mp) \cup {new} ELSE {})
  /\ Continue(IF op = "realloc" THEN "delete" ELSE "leave")
  /\ UNCHANGED <<disp, guards, old, new, it, heap, held, run, stale>>

\* map_set could not grow: the new block is freed.  In a reallocation the entry
\* of the old block, which realloc has freed, stays behind.
MapSetFails ==
  /\ At("set") /\ Len(guards) = 1
  /\ \E o \in SetOutcomes : ~o.ret /\ Becomes(o.map, {})
  /\ heap' = heap \ {new} /\ new' = NULL
  /\ stale' = stale \cup ({old} \ {NULL})
  /\ Continue("leave")
  /\ UNCHANGED <<disp, guards, old, it, held, run>>

\* A shrink may lose entries, and an emptied slot hide them.
DeletedTo(d) ==
  Becomes(d.map, IF d.resize = "shrank" \/ CutsChain(mp, hash_ptr(old))
                 THEN Resolvable(mp) \ {old} ELSE {})

\* Mutant of MapDelete: a reallocation deletes the entry it has just set.
MapDeleteNew ==
  /\ At("delete") /\ Len(guards) = 1
  /\ \E d \in do_delete(mp, hash_ptr(IF op = "realloc" THEN new ELSE old), TRUE) : DeletedTo(d)
  /\ Continue(IF op \in Frees THEN "free" ELSE "leave")
  /\ UNCHANGED <<disp, guards, old, new, it, heap, held, run, stale>>

\* A free ignores the result of map_delete.
MapDelete ==
  /\ At("delete") /\ Len(guards) = 1
  /\ \E d \in DeleteOutcomes : (op \in Frees \/ d.ret) /\ DeletedTo(d)
  /\ Continue(IF op \in Frees THEN "free" ELSE "leave")
  /\ UNCHANGED <<disp, guards, old, new, it, heap, held, run, stale>>

\* map_delete did not find the old block, or could not shrink: a reallocation
\* frees the new block and leaves its entry behind.
MapDeleteFails ==
  /\ At("delete") /\ Len(guards) = 1 /\ op = "realloc"
  /\ \E d \in DeleteOutcomes : ~d.ret /\ DeletedTo(d)
  /\ heap' = heap \ {new} /\ new' = NULL
  /\ stale' = stale \cup ({old, new} \ {NULL})
  /\ Continue("leave")
  /\ UNCHANGED <<disp, guards, old, it, held, run>>

\* free(NULL) does nothing; freeing anything but a live block is undefined.
FreeBlock ==
  /\ At("free") /\ heap' = heap \ {old}
  /\ run' = IF old \in heap \cup {NULL} THEN run ELSE "wild"
  /\ Continue("leave")
  /\ UNCHANGED <<disp, guards, old, new, table, held, history>>

\* The loop of memtbl_destroy goes on to its next entry.
Leave ==
  /\ At("leave") /\ LeaveGuard
  /\ it' = IF op = "destroy" THEN map_next_value_iter(mp, it, Resolvable(mp)) ELSE it
  /\ Continue(IF op = "destroy" THEN "next" ELSE "return")
  /\ UNCHANGED <<old, new, mp, heap, held, run, history>>

-----------------------------------------------------------------------------
\* memtbl_destroy frees the value of its iterator.
DestroyNext ==
  /\ At("next") /\ ~map_iter_done(it, Resolvable(mp))
  /\ old' = it.value_handle /\ Continue("enter")
  /\ UNCHANGED <<disp, guards, new, table, heap, held, run, history>>

\* map_destroy, when the iterator is done: from here on the handle of the table
\* refers to freed memory, and blocks the loop has left are out of reach.  mp is
\* the map of the next table.
DestroyUnmaps ==
  /\ At("next") /\ map_iter_done(it, Resolvable(mp))
  /\ mp' = EmptyMap /\ it' = DoneIter /\ lost' = heap /\ stale' = {}
  /\ Continue("return")
  /\ UNCHANGED <<disp, guards, old, new, heap, held, run>>

\* The client stores the result over its old handle; the handler that destroyed
\* the table jumps to where the operation it interrupted began.
Return ==
  /\ At("return") /\ run' = "running"
  /\ op' = "none" /\ step' = "idle" /\ old' = NULL /\ new' = NULL
  /\ held' = held \cup ({new} \ {NULL})
  /\ UNCHANGED <<disp, guards, table, heap, expected, history>>

-----------------------------------------------------------------------------
\* An ignored SIGINT is gone, one that has a handler waits until it has run, and
\* the default action ends the process, in the handler too.
Sigint ==
  /\ disp # "IGN"
  /\ \/ run = "running"
     \/ run \in {"handling", "aborting"} /\ disp = "DFL"
  /\ run' = IF disp = "HND" THEN "handling" ELSE "killed"
  /\ \E resets \in Resets :
       /\ disp' = IF disp = "HND" /\ resets THEN "DFL" ELSE disp
       /\ expected' = IF disp = "HND" /\ resets THEN "DFL" ELSE expected
  /\ UNCHANGED <<guards, op, step, old, new, table, heap, held, history>>

HandlerReturns ==
  /\ run = "handling" /\ run' = "running"
  /\ UNCHANGED <<disp, guards, op, step, old, new, table, heap, held, expected, history>>

\* The handler gives up the interrupted operation: it destroys the table, and the
\* application goes on with a new one.
TableGone == op = "destroy" /\ step = "return"

HandlerAborts ==
  /\ run = "handling" /\ ~TableGone /\ run' = "aborting"
  /\ Destroys /\ guards' = <<>>
  /\ UNCHANGED <<disp, expected>>

\* It dereferences the freed map when memtbl_destroy itself was that far.
HandlerRevisits ==
  /\ run = "handling" /\ TableGone /\ run' = "wild"
  /\ UNCHANGED <<disp, guards, op, step, old, new, table, heap, held, expected, history>>

Stopped == run \in {"killed", "wild"} /\ UNCHANGED vars

Next ==
  \/ \E d \in {"DFL", "HND"} : Install(d)
  \/ Call("alloc", NULL) \/ CallDestroy
  \/ \E b \in held : Call("realloc", b) \/ Call("free", b)
  \/ \E b \in Addr : Obtain(b)
  \/ Enter \/ ObtainNothing \/ KeepInPlace \/ NestedEnter \/ NestedLeave
  \/ MapSet \/ MapSetFails \/ MapDelete \/ MapDeleteFails \/ FreeBlock
  \/ DestroyNext \/ DestroyUnmaps \/ Leave \/ Return
  \/ Sigint \/ HandlerReturns \/ HandlerAborts \/ HandlerRevisits \/ Stopped

Spec == Init /\ [][Next]_vars

-----------------------------------------------------------------------------
Disposition == {"DFL", "IGN", "HND"}

\* Types of the process state, of the operation in progress and of the table.
TypeOK ==
  /\ disp \in Disposition /\ expected \in {"DFL", "HND"}
  /\ guards \in Seq(Disposition) /\ Len(guards) <= 2
  /\ op \in {"none", "alloc", "realloc", "free", "destroy"}
  /\ step \in {"idle", "next", "enter", "malloc", "set", "delete", "free", "leave", "return"}
  /\ old \in Addr \cup {NULL} /\ new \in Addr \cup {NULL}
  /\ mp.entry_count \in 0 .. MaxCount
  /\ it \in [pos : Nat, value_handle : Addr \cup {NULL}]
  /\ heap \subseteq Addr /\ held \subseteq Addr
  /\ lost \subseteq Addr /\ stale \subseteq Addr
  /\ run \in {"running", "handling", "aborting", "killed", "wild"}

\* mem.h 16-18: a handler never sees the table in the middle of an operation.
\* It resolves every live block, so that destroying it can free them all, but
\* for those the map itself has lost; and nothing that is not live, but for the
\* blocks of a failed reallocation.  This holds while the table is being
\* destroyed, too.
HandlerSeesConsistentTable ==
  HashesApart /\ run = "handling" =>
    /\ heap \ lost \subseteq Resolvable(mp)
    /\ Resolvable(mp) \subseteq heap \cup stale

\* What the client had a handle of when it was interrupted is live, whatever the
\* map has lost, and the handler can use all of it the map has not lost.
HandlesAreRegistered ==
  HashesApart /\ run = "handling" => held \subseteq heap \cap (Resolvable(mp) \cup lost)

\* Between calls SIGINT has the disposition the application installed, or the
\* default one a one-shot delivery left; nested guards restore it too.
DispositionRestored == op = "none" /\ run = "running" => disp = expected
=============================================================================
