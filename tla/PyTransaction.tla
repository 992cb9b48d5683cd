---------------------------- MODULE PyTransaction ----------------------------
(****************************************************************************)
(* The pending-config transactions of the Python SDK: CommitContext         *)
(* (_commit.py) and commit, rollback and pending of SonicWallClient         *)
(* (_client.py), used by asyncio tasks that share one client and so one     *)
(* depth counter.  The HTTP layer below is PySession; here a request is     *)
(* carried out, refused, or carried out with its answer lost.               *)
(*                                                                          *)
(* A request that a task waits for is one action, taken when the answer     *)
(* arrives.  Between sending and that action the other tasks run, which is  *)
(* all the freedom the device has to order the requests of several tasks.   *)
(****************************************************************************)
EXTENDS Integers, Sequences, FiniteSets

CONSTANTS
    Task,          \* asyncio tasks sharing the client
    Candidates,    \* number of config-mode endpoints tried (the code has 4)
    ModeEndpoint,  \* the one this firmware has; 0: none
    MaxNest,       \* bound: blocks open inside each other, per task
    MaxBlocks,     \* bound: outermost blocks, per task
    MaxWrites,     \* bound: writes in an outermost block
    MaxFaults,     \* bound: requests refused or answers lost
    MaxCancels,    \* bound: cancellations
    MaxExpiries    \* bound: sessions that expire

ASSUME TaskAssumption == IsFiniteSet(Task)
ASSUME EndpointAssumption ==
    Candidates \in Nat \ {0} /\ ModeEndpoint \in 0..Candidates
ASSUME TransactionBoundsAssumption ==
    /\ MaxNest \in Nat /\ MaxBlocks \in Nat /\ MaxWrites \in Nat
    /\ MaxFaults \in Nat /\ MaxCancels \in Nat /\ MaxExpiries \in Nat

\* The n-th write of the b-th outermost block of task t.
Write == Task \X (1..MaxBlocks) \X (1..MaxWrites)

VARIABLES
    depth,     \* SonicWallClient._pending_depth, shared by all contexts
    frames,    \* the contexts a task is in, innermost first: for each, whether
               \* it has entered config mode (_entered_config_mode)
    pc,        \* what a task is doing
    cand,      \* next config-mode endpoint to try
    flow,      \* is an exception propagating in the task?
    verdict,   \* how the task's last outermost block ended for its caller
    block,     \* outermost blocks the task has begun
    wrote,     \* writes of its current or last outermost block
    mode,      \* device: the session's mode
    staged,    \* device: pending changes
    saved,     \* device: saved configuration
    faults, cancels, expiries

taskVars   == <<pc, cand, flow, verdict, block, wrote>>
deviceVars == <<mode, staged, saved>>
bounds     == <<faults, cancels, expiries>>
vars == <<depth, frames, taskVars, deviceVars, bounds>>

InBlock(t) == frames[t] # <<>>

Context == {"entered", "bare"}
Place == {"body", "enter", "commit", "rollback", "leave"}
Mode == {"exec", "config"}

TypeOK ==
    /\ depth \in Nat
    /\ frames \in [Task -> Seq(Context)]
    /\ pc \in [Task -> Place]
    /\ cand \in [Task -> 1..Candidates]
    /\ flow \in [Task -> {"normal", "raising"}]
    /\ verdict \in [Task -> {"none", "clean", "raised"}]
    /\ block \in [Task -> 0..MaxBlocks]
    /\ wrote \in [Task -> SUBSET Write]
    /\ mode \in Mode
    /\ staged \subseteq Write
    /\ saved \subseteq Write
    /\ faults \in Nat /\ cancels \in Nat /\ expiries \in Nat

Init ==
    /\ depth = 0
    /\ frames = [t \in Task |-> <<>>]
    /\ pc = [t \in Task |-> "body"]
    /\ cand = [t \in Task |-> 1]
    /\ flow = [t \in Task |-> "normal"]
    /\ verdict = [t \in Task |-> "none"]
    /\ block = [t \in Task |-> 0]
    /\ wrote = [t \in Task |-> {}]
    /\ mode = "exec" /\ staged = {} /\ saved = {}
    /\ faults = 0 /\ cancels = 0 /\ expiries = 0

----------------------------------------------------------------------------
(* Pieces shared by the actions *)

Goto(t, where) ==
    /\ pc' = [pc EXCEPT ![t] = where]
    /\ cand' = [cand EXCEPT ![t] = 1]

Fault == faults < MaxFaults /\ faults' = faults + 1 /\ UNCHANGED <<cancels, expiries>>
NoFault == UNCHANGED bounds
Cancel == cancels < MaxCancels /\ cancels' = cancels + 1 /\ UNCHANGED <<faults, expiries>>

\* A request ends: the caller sees success or an exception.
Succeeds(effect) == effect /\ NoFault
Fails(effect) == Fault /\ (effect \/ UNCHANGED deviceVars)

SaveStaged ==
    /\ saved' = saved \cup staged
    /\ staged' = {}
    /\ UNCHANGED mode
DropStaged == staged' = {} /\ UNCHANGED <<saved, mode>>
SetMode(m) == mode' = m /\ UNCHANGED <<staged, saved>>

\* The innermost block is left, with an exception or without: back to the
\* block around it, or to the caller, who sees how the block ended.
Leave(t, how) ==
    /\ frames' = [frames EXCEPT ![t] = Tail(@)]
    /\ Goto(t, "body")
    /\ IF Len(frames[t]) > 1
       THEN flow' = [flow EXCEPT ![t] = how] /\ UNCHANGED verdict
       ELSE /\ flow' = [flow EXCEPT ![t] = "normal"]
            /\ verdict' = [verdict EXCEPT
                             ![t] = IF how = "raising" THEN "raised" ELSE "clean"]
    /\ UNCHANGED <<block, wrote>>

----------------------------------------------------------------------------
(* CommitContext.__aenter__ and _enter_config_mode *)

\* Mutant of Counted: nested contexts are not counted.
CountedOnce(t) == IF InBlock(t) THEN depth ELSE depth + 1

Counted(t) == depth + 1

Enter(t) ==
    /\ pc[t] = "body" /\ flow[t] = "normal"
    /\ Len(frames[t]) < MaxNest
    /\ IF InBlock(t)
       THEN UNCHANGED <<block, wrote, verdict>>
       ELSE /\ block[t] < MaxBlocks
            /\ block' = [block EXCEPT ![t] = @ + 1]
            /\ wrote' = [wrote EXCEPT ![t] = {}]
            /\ verdict' = [verdict EXCEPT ![t] = "none"]
    /\ depth' = Counted(t)
    /\ frames' = [frames EXCEPT ![t] = <<"bare">> \o @]
    /\ Goto(t, IF Counted(t) = 1 THEN "enter" ELSE "body")
    /\ UNCHANGED <<flow, deviceVars, bounds>>

\* The endpoint tried answers: it is the firmware's, or it does not exist.
ModeEntered(t) ==
    /\ pc[t] = "enter" /\ cand[t] = ModeEndpoint
    /\ Succeeds(SetMode("config"))
    /\ frames' = [frames EXCEPT ![t] = <<"entered">> \o Tail(@)]
    /\ Goto(t, "body")
    /\ UNCHANGED <<depth, flow, verdict, block, wrote>>

\* _try_request swallows the error and the next candidate is tried; after the
\* last one the block goes on without config mode.
NextCandidate(t) ==
    IF cand[t] < Candidates
    THEN cand' = [cand EXCEPT ![t] = @ + 1] /\ UNCHANGED pc
    ELSE Goto(t, "body")

ModeEndpointMissing(t) ==
    /\ pc[t] = "enter"
    /\ \/ cand[t] # ModeEndpoint /\ NoFault /\ UNCHANGED deviceVars
       \/ cand[t] = ModeEndpoint /\ Fails(SetMode("config"))
    /\ NextCandidate(t)
    /\ UNCHANGED <<depth, frames, flow, verdict, block, wrote>>

----------------------------------------------------------------------------
(* The body of a block *)

PutWrite(t) ==
    /\ pc[t] = "body" /\ flow[t] = "normal" /\ InBlock(t)
    /\ \E n \in 1..MaxWrites :
         LET w == <<t, block[t], n>>
             Stage == /\ staged' = staged \cup {w}
                      /\ UNCHANGED <<saved, mode>>
         IN /\ w \notin wrote[t]
            /\ \/ /\ Succeeds(Stage)
                  /\ wrote' = [wrote EXCEPT ![t] = @ \cup {w}]
                  /\ UNCHANGED flow
               \/ /\ Fails(Stage)
                  /\ flow' = [flow EXCEPT ![t] = "raising"]
                  /\ UNCHANGED wrote
    /\ UNCHANGED <<depth, frames, pc, cand, verdict, block>>

\* The caller's own code raises, or handles an exception of an inner block.
BodyRaises(t) ==
    /\ pc[t] = "body" /\ flow[t] = "normal" /\ InBlock(t)
    /\ flow' = [flow EXCEPT ![t] = "raising"]
    /\ UNCHANGED <<depth, frames, pc, cand, verdict, block, wrote, deviceVars,
                   bounds>>

BodyHandles(t) ==
    /\ pc[t] = "body" /\ flow[t] = "raising" /\ InBlock(t)
    /\ flow' = [flow EXCEPT ![t] = "normal"]
    /\ UNCHANGED <<depth, frames, pc, cand, verdict, block, wrote, deviceVars,
                   bounds>>

----------------------------------------------------------------------------
(* CommitContext.__aexit__ and _exit_config_mode_if_needed *)

\* Mutants of Nested: an off-by-one in the depth; every context is outermost.
NestedOffByOne == depth - 1 >= 0
NeverNested == FALSE

\* Still inside a block, of this task or of any other.
Nested == depth - 1 > 0

\* Mutant of Resolution: the exception is not looked at.
AlwaysCommit(t) == "commit"

Resolution(t) == IF flow[t] = "raising" THEN "rollback" ELSE "commit"

Exit(t) ==
    /\ pc[t] = "body" /\ InBlock(t)
    /\ depth' = depth - 1
    /\ IF Nested
       THEN Leave(t, flow[t])
       ELSE /\ Goto(t, Resolution(t))
            /\ UNCHANGED <<frames, flow, verdict, block, wrote>>
    /\ UNCHANGED <<deviceVars, bounds>>

\* Mutant of LeaveModeOrBlock: config mode is kept.
LeaveBlockOnly(t) == Leave(t, flow[t])

\* Config mode is left if this context has entered it.
LeaveModeOrBlock(t) ==
    IF Head(frames[t]) = "entered"
    THEN Goto(t, "leave") /\ UNCHANGED <<frames, flow, verdict, block, wrote>>
    ELSE Leave(t, flow[t])

Committed(t) ==
    /\ pc[t] = "commit"
    /\ Succeeds(SaveStaged)
    /\ LeaveModeOrBlock(t)
    /\ UNCHANGED depth

\* CommitError is raised on the spot: neither rollback nor end of config mode.
CommitFails(t) ==
    /\ pc[t] = "commit"
    /\ Fails(SaveStaged)
    /\ Leave(t, "raising")
    /\ UNCHANGED depth

\* A failed rollback is logged; the original exception goes on either way.
RolledBack(t) ==
    /\ pc[t] = "rollback"
    /\ Succeeds(DropStaged) \/ Fails(DropStaged)
    /\ LeaveModeOrBlock(t)
    /\ UNCHANGED depth

ModeLeft(t) ==
    /\ pc[t] = "leave" /\ cand[t] = ModeEndpoint
    /\ Succeeds(SetMode("exec"))
    /\ Leave(t, flow[t])
    /\ UNCHANGED depth

LeaveModeFails(t) ==
    /\ pc[t] = "leave"
    /\ \/ cand[t] # ModeEndpoint /\ NoFault /\ UNCHANGED deviceVars
       \/ cand[t] = ModeEndpoint /\ Fails(SetMode("exec"))
    /\ IF cand[t] < Candidates
       THEN /\ cand' = [cand EXCEPT ![t] = @ + 1]
            /\ UNCHANGED <<frames, pc, flow, verdict, block, wrote>>
       ELSE Leave(t, flow[t])
    /\ UNCHANGED depth

----------------------------------------------------------------------------
(* SonicWallClient.commit and rollback, called outside of a block *)

ManualCommit(t) ==
    /\ pc[t] = "body" /\ ~InBlock(t)
    /\ Succeeds(SaveStaged) \/ Fails(SaveStaged)
    /\ UNCHANGED <<depth, frames, taskVars>>

ManualRollback(t) ==
    /\ pc[t] = "body" /\ ~InBlock(t)
    /\ Succeeds(DropStaged) \/ Fails(DropStaged)
    /\ UNCHANGED <<depth, frames, taskVars>>

----------------------------------------------------------------------------
(* Cancellation: CancelledError passes through every `except Exception` *)

\* __aenter__ is abandoned: __aexit__ will not run for this context, and the
\* depth it has already counted stays.
CancelEnter(t) ==
    /\ pc[t] = "enter"
    /\ Cancel
    /\ \/ cand[t] = ModeEndpoint /\ SetMode("config")
       \/ UNCHANGED deviceVars
    /\ Leave(t, "raising")
    /\ UNCHANGED depth

\* __aexit__ is abandoned, before or after the device has acted.
CancelExit(t) ==
    /\ pc[t] \in {"commit", "rollback", "leave"}
    /\ Cancel
    /\ \/ pc[t] = "commit" /\ SaveStaged
       \/ pc[t] = "rollback" /\ DropStaged
       \/ pc[t] = "leave" /\ cand[t] = ModeEndpoint /\ SetMode("exec")
       \/ UNCHANGED deviceVars
    /\ Leave(t, "raising")
    /\ UNCHANGED depth

----------------------------------------------------------------------------
\* The session expires (external).  The next request logs in again without a
\* word to the transaction; SonicOS keeps pending changes for the session they
\* were made in, or for the device.
SessionExpires ==
    /\ expiries < MaxExpiries
    /\ expiries' = expiries + 1
    /\ mode' = "exec"
    /\ staged' \in {staged, {}}
    /\ UNCHANGED <<depth, frames, taskVars, saved, faults, cancels>>

Next ==
    \/ \E t \in Task :
         \/ Enter(t) \/ ModeEntered(t) \/ ModeEndpointMissing(t)
         \/ PutWrite(t) \/ BodyRaises(t) \/ BodyHandles(t)
         \/ Exit(t) \/ Committed(t) \/ CommitFails(t) \/ RolledBack(t)
         \/ ModeLeft(t) \/ LeaveModeFails(t)
         \/ ManualCommit(t) \/ ManualRollback(t)
         \/ CancelEnter(t) \/ CancelExit(t)
    \/ SessionExpires

Spec == Init /\ [][Next]_vars

----------------------------------------------------------------------------
(* Properties *)

\* A block that ends without an exception has saved all it wrote
\* (CommitContext.__aexit__).
CleanExitCommits ==
    \A t \in Task : verdict[t] = "clean" => wrote[t] \subseteq saved

\* A block left by an exception never gets its writes saved, then or by any
\* later commit (CommitContext.__aexit__), as long as every request succeeds.
RaisedRollsBack ==
    faults = 0 =>
        \A t \in Task : verdict[t] = "raised" => wrote[t] \cap saved = {}

AllClosed == \A t \in Task : ~InBlock(t)

\* No change outlives the blocks: when all are closed, nothing is pending that
\* somebody's next commit would pick up.
NothingLeftStaged == AllClosed => staged = {}

\* The same when no request fails and no task is cancelled, for any interleaving
\* of blocks of several tasks: whoever decrements _pending_depth to zero settles
\* the writes of all, also if others enter while it waits for the answer.
LastOutResolvesAll == faults = 0 /\ cancels = 0 => NothingLeftStaged

\* On a firmware that has config mode, the body of a block runs in it, nested
\* blocks and their exits included, and the mode does not outlive the blocks,
\* failed requests apart (_enter_config_mode, _exit_config_mode_if_needed).
ModeSpansBodies ==
    faults = 0 =>
        /\ AllClosed => mode = "exec"
        /\ ModeEndpoint # 0 =>
              \A t \in Task : InBlock(t) /\ pc[t] = "body" => mode = "config"

\* The contexts whose exit has not begun, numbered from a task's outermost one.
\* A task that is leaving its outermost block still has that one on its stack.
Leaving(t) == pc[t] \in {"commit", "rollback", "leave"}
held == [t \in Task |-> IF Leaving(t) THEN Len(frames[t]) - 1 ELSE Len(frames[t])]
UpTo(h) == {c \in Task \X (1..MaxNest) : c[2] <= h[c[1]]}
Contexts == UpTo(held)

\* _pending_depth counts the contexts entered whose exit has not begun, over all
\* tasks and through every error path; only a cancelled __aenter__ leaves a
\* count behind.  The decision who commits rests on it.
DepthCountsBlocks ==
    /\ depth >= Cardinality(Contexts)
    /\ depth <= Cardinality(Contexts) + cancels

\* What the two facts above rest on: a task that waits for a request of a
\* context is in one, and only a task in a numbered block writes.
FramesInv ==
    \A t \in Task : /\ pc[t] # "body" => InBlock(t)
                    /\ Len(frames[t]) <= MaxNest
                    /\ InBlock(t) => block[t] >= 1

\* The transaction of a task that has the client for itself implements the
\* abstract block: whatever the nesting, the handled exceptions, the config-mode
\* endpoints and the failed requests, all that is pending is saved or nothing, and
\* without a failure it is settled when the block ends (CommitContext).
Atomic == INSTANCE AtomicBlock
            WITH open <- \E t \in Task : InBlock(t) /\ pc[t] # "leave",
                 failures <- faults
AtomicBlocks == Atomic!Spec
=============================================================================
