---------------------------- MODULE AtomicBlock ----------------------------
(****************************************************************************)
(* What a pending-config block promises its caller, in every SDK: the       *)
(* writes made inside the block reach the device's saved configuration      *)
(* together, when the block ends, or not at all.  A nested block is part of *)
(* the block around it, so here there is only the outermost one.  A request *)
(* that fails may leave changes pending after the block; whoever settles    *)
(* them settles all of them.                                                *)
(****************************************************************************)
EXTENDS Naturals

CONSTANT Write     \* configuration changes

VARIABLES
    open,      \* is there a block?
    staged,    \* changes made and not yet saved
    saved,     \* the device's saved configuration
    failures   \* requests that have failed so far

vars == <<open, staged, saved, failures>>

Init ==
    /\ open = FALSE
    /\ staged = {}
    /\ saved = {}
    /\ failures = 0

SaveAll == saved' = saved \cup staged /\ staged' = {}
DropAll == staged' = {} /\ UNCHANGED saved
Stage   == (\E w \in Write : staged' = staged \cup {w}) /\ UNCHANGED saved

Begin ==
    /\ ~open
    /\ open' = TRUE
    /\ UNCHANGED <<staged, saved, failures>>

Put == open /\ Stage /\ UNCHANGED <<open, failures>>

Commit == open /\ SaveAll /\ open' = FALSE /\ UNCHANGED failures

Abort == open /\ DropAll /\ open' = FALSE /\ UNCHANGED failures

\* A request fails, carried out or not, and may end the block.
Fail ==
    /\ failures' = failures + 1
    /\ SaveAll \/ DropAll \/ Stage \/ UNCHANGED <<staged, saved>>
    /\ open' \in {open, FALSE}

\* What a failure has left pending is settled by hand.
Settle ==
    /\ failures > 0 /\ ~open
    /\ SaveAll \/ DropAll
    /\ UNCHANGED <<open, failures>>

Next == Begin \/ Put \/ Commit \/ Abort \/ Fail \/ Settle

Spec == Init /\ [][Next]_vars
=============================================================================
