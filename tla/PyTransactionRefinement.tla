----------------------- MODULE PyTransactionRefinement -----------------------
(****************************************************************************)
(* Proof that the blocks of a task that has the client for itself implement *)
(* AtomicBlock, for every firmware, any nesting and any number of writes,   *)
(* blocks and failed requests, with nobody cancelled and no session         *)
(* expiring.                                                                *)
(*                                                                          *)
(* Three facts carry the proof: the depth is the height of the task's       *)
(* stack, so that Nested is true exactly in an inner block; what is awaited *)
(* at the end of a block is awaited by the outermost one; and nothing is    *)
(* pending outside of a block unless a request has failed.                  *)
(****************************************************************************)
EXTENDS PyTransactionProofs

\* The value of the abstract variable open.
Open(t) == InBlock(t) /\ pc[t] # "leave"

LoneInv(t) ==
    /\ depth = CountOf(t)
    /\ Leaving(t) => Len(frames[t]) = 1
    /\ faults = 0 /\ ~Open(t) => staged = {}

AbstractStep == [Atomic!Next]_(Atomic!vars)

----------------------------------------------------------------------------
(* The abstract steps, in terms of the variables of PyTransaction *)

LEMMA OpenIs ==
    ASSUME NEW t, Task = {t}
    PROVE  /\ (\E u \in Task : InBlock(u) /\ pc[u] # "leave") <=> Open(t)
           /\ (\E u \in Task : InBlock(u) /\ pc[u] # "leave")' <=> Open(t)'
BY DEF Open

\* A step AtomicBlock does not see.
LEMMA Stutters ==
    ASSUME NEW t, Task = {t}, Open(t)' <=> Open(t), UNCHANGED <<staged, saved, faults>>
    PROVE  AbstractStep
BY OpenIs DEF AbstractStep, Atomic!vars

LEMMA Begins ==
    ASSUME NEW t, Task = {t}, ~Open(t), Open(t)', UNCHANGED <<staged, saved, faults>>
    PROVE  AbstractStep
<1>1. Atomic!Begin
  BY OpenIs DEF Atomic!Begin
<1> QED
  BY <1>1 DEF AbstractStep, Atomic!Next

LEMMA Puts ==
    ASSUME NEW t, Task = {t}, Open(t), Open(t)', NEW w \in Write,
           staged' = staged \cup {w}, UNCHANGED <<saved, faults>>
    PROVE  AbstractStep
<1>1. Atomic!Put
  BY OpenIs DEF Atomic!Put, Atomic!Stage
<1> QED
  BY <1>1 DEF AbstractStep, Atomic!Next

LEMMA Ends ==
    ASSUME NEW t, Task = {t}, Open(t), ~Open(t)', UNCHANGED faults,
           SaveStaged \/ DropStaged
    PROVE  AbstractStep
<1>1. CASE SaveStaged
  <2>1. Atomic!Commit
    BY <1>1, OpenIs DEF Atomic!Commit, Atomic!SaveAll, SaveStaged
  <2> QED
    BY <2>1 DEF AbstractStep, Atomic!Next
<1>2. CASE DropStaged
  <2>1. Atomic!Abort
    BY <1>2, OpenIs DEF Atomic!Abort, Atomic!DropAll, DropStaged
  <2> QED
    BY <2>1 DEF AbstractStep, Atomic!Next
<1> QED
  BY <1>1, <1>2

LEMMA FailsAbstractly ==
    ASSUME NEW t, Task = {t}, Open(t)' => Open(t), faults' = faults + 1,
           \/ SaveStaged \/ DropStaged \/ UNCHANGED <<staged, saved>>
           \/ \E w \in Write : staged' = staged \cup {w} /\ UNCHANGED saved
    PROVE  AbstractStep
<1>1. Atomic!SaveAll \/ Atomic!DropAll \/ Atomic!Stage \/ UNCHANGED <<staged, saved>>
  BY DEF Atomic!SaveAll, Atomic!DropAll, Atomic!Stage, SaveStaged, DropStaged
<1>2. (\E u \in Task : InBlock(u) /\ pc[u] # "leave")'
         \in {\E u \in Task : InBlock(u) /\ pc[u] # "leave", FALSE}
  BY OpenIs
<1>3. Atomic!Fail
  BY <1>1, <1>2 DEF Atomic!Fail
<1> QED
  BY <1>3 DEF AbstractStep, Atomic!Next

LEMMA Settles ==
    ASSUME NEW t, Task = {t}, TypeOK, faults # 0, ~Open(t), ~Open(t)', UNCHANGED faults,
           SaveStaged \/ DropStaged
    PROVE  AbstractStep
<1>1. faults > 0
  BY DEF TypeOK
<1>2. Atomic!SaveAll \/ Atomic!DropAll
  BY DEF Atomic!SaveAll, Atomic!DropAll, SaveStaged, DropStaged
<1>3. Atomic!Settle
  BY <1>1, <1>2, OpenIs DEF Atomic!Settle
<1> QED
  BY <1>3 DEF AbstractStep, Atomic!Next

----------------------------------------------------------------------------
(* The steps of the task *)

\* Parts of the stack of the task that has been counted.
LEMMA StackOf ==
    ASSUME NEW t \in Task, TransactionInv
    PROVE  /\ frames[t] \in Seq(Context) /\ Len(frames[t]) \in Nat
           /\ InBlock(t) <=> Len(frames[t]) # 0
           /\ pc[t] # "body" => InBlock(t)
           /\ pc[t] \in Place
BY EmptySeq, LenProperties DEF TransactionInv, TypeOK, FramesInv, InBlock

\* The outermost block is left.
LEMMA LeavesLast ==
    ASSUME NEW t \in Task, TransactionInv, Leaving(t), LoneInv(t), NEW how \in Flow,
           Leave(t, how)
    PROVE  /\ ~InBlock(t)' /\ ~Leaving(t)' /\ pc'[t] = "body"
           /\ CountOf(t)' = CountOf(t)
<1>1. TypeOK /\ FramesInv /\ InBlock(t)
  BY StackOf DEF TransactionInv, Leaving
<1>2. /\ frames' \in [Task -> Seq(Context)] /\ pc'[t] = "body"
      /\ Len(frames'[t]) = Len(frames[t]) - 1
  BY <1>1, LeaveEffect
<1>3. Len(frames[t]) = 1
  BY DEF LoneInv
<1>4. frames'[t] = <<>>
  BY <1>2, <1>3, EmptySeq
<1> QED
  BY <1>2, <1>3, <1>4 DEF InBlock, Leaving, CountOf

LEMMA EnterRefines ==
    ASSUME NEW t, Task = {t}, TransactionInv, TransactionInv', LoneInv(t), Enter(t)
    PROVE  LoneInv(t)' /\ AbstractStep
<1>1. t \in Task /\ pc[t] = "body" /\ frames[t] \in Seq(Context)
  BY StackOf DEF Enter
<1>2. /\ depth' = depth + 1 /\ UNCHANGED <<staged, saved, faults>>
      /\ pc'[t] \in {"enter", "body"}
      /\ frames' = [frames EXCEPT ![t] = <<"bare">> \o frames[t]]
  BY <1>1 DEF Enter, Counted, Goto, deviceVars, bounds, TransactionInv, TypeOK
<1>3. Len(frames'[t]) = Len(frames[t]) + 1
  <2>1. <<"bare">> \in Seq(Context) /\ Len(<<"bare">>) = 1
    BY DEF Context
  <2>2. frames'[t] = <<"bare">> \o frames[t]
    BY <1>1, <1>2 DEF TransactionInv, TypeOK
  <2> QED
    BY <1>1, <2>1, <2>2, ConcatProperties
<1>4. ~Leaving(t) /\ ~Leaving(t)' /\ InBlock(t)' /\ Open(t)'
  <2>1. Len(frames'[t]) # 0
    BY <1>1, <1>3, StackOf
  <2> QED
    BY <1>1, <1>2, <2>1, EmptySeq DEF Leaving, InBlock, Open
<1>5. LoneInv(t)'
  BY <1>2, <1>3, <1>4 DEF LoneInv, CountOf
<1>6. CASE InBlock(t)
  <2>1. Open(t)
    BY <1>1, <1>6 DEF Open
  <2> QED
    BY <1>2, <1>4, <1>5, <2>1, Stutters
<1>7. CASE ~InBlock(t)
  <2>1. ~Open(t)
    BY <1>7 DEF Open
  <2> QED
    BY <1>2, <1>4, <1>5, <2>1, Begins
<1> QED
  BY <1>6, <1>7

\* The stack keeps its height and the task stays in the block.
LEMMA Stays ==
    ASSUME NEW t, Task = {t}, TransactionInv, LoneInv(t), InBlock(t), ~Leaving(t),
           Len(frames'[t]) = Len(frames[t]), InBlock(t)', ~Leaving(t)', UNCHANGED depth
    PROVE  LoneInv(t)' /\ Open(t) /\ Open(t)'
BY DEF LoneInv, CountOf, Open, Leaving

LEMMA ModeEnteredRefines ==
    ASSUME NEW t, Task = {t}, TransactionInv, TransactionInv', LoneInv(t), ModeEntered(t)
    PROVE  LoneInv(t)' /\ AbstractStep
<1>1. t \in Task /\ pc[t] = "enter" /\ InBlock(t) /\ frames[t] \in Seq(Context)
  BY StackOf DEF ModeEntered
<1>2. /\ UNCHANGED <<depth, staged, saved, faults>> /\ pc'[t] = "body"
      /\ frames'[t] = <<"entered">> \o Tail(frames[t])
  BY <1>1 DEF ModeEntered, Succeeds, SetMode, NoFault, Goto, bounds, TransactionInv, TypeOK
<1>3. Len(frames'[t]) = Len(frames[t]) /\ InBlock(t)'
  <2>1. <<"entered">> \in Seq(Context) /\ Len(<<"entered">>) = 1
    BY DEF Context
  <2>2. /\ Tail(frames[t]) \in Seq(Context)
        /\ Len(Tail(frames[t])) = Len(frames[t]) - 1
    BY <1>1, HeadTailProperties DEF InBlock
  <2>3. Len(frames'[t]) = 1 + Len(Tail(frames[t]))
    BY <1>2, <2>1, <2>2, ConcatProperties
  <2>4. Len(frames[t]) \in Nat /\ Len(frames[t]) # 0
    BY <1>1, StackOf
  <2> QED
    BY <2>2, <2>3, <2>4, EmptySeq DEF InBlock
<1>4. ~Leaving(t) /\ ~Leaving(t)'
  BY <1>1, <1>2 DEF Leaving
<1> QED
  BY <1>1, <1>2, <1>3, <1>4, Stays, Stutters

LEMMA ModeEndpointMissingRefines ==
    ASSUME NEW t, Task = {t}, TransactionInv, TransactionInv', LoneInv(t),
           ModeEndpointMissing(t)
    PROVE  LoneInv(t)' /\ AbstractStep
<1>1. t \in Task /\ pc[t] = "enter" /\ InBlock(t)
  BY StackOf DEF ModeEndpointMissing
<1>2. UNCHANGED <<depth, frames, staged, saved>> /\ pc'[t] \in {"enter", "body"}
  BY <1>1 DEF ModeEndpointMissing, NextCandidate, Goto, Fails, SetMode, deviceVars,
              TransactionInv, TypeOK
<1>3. LoneInv(t)' /\ Open(t) /\ Open(t)'
  BY <1>1, <1>2, Stays DEF Leaving, InBlock
<1>4. faults' = faults \/ faults' = faults + 1
  BY DEF ModeEndpointMissing, Fails, Fault, NoFault, bounds
<1> QED
  BY <1>2, <1>3, <1>4, Stutters, FailsAbstractly

LEMMA PutWriteRefines ==
    ASSUME NEW t, Task = {t}, TransactionInv, TransactionInv', LoneInv(t), PutWrite(t)
    PROVE  LoneInv(t)' /\ AbstractStep
<1>1. t \in Task /\ pc[t] = "body" /\ InBlock(t)
  BY DEF PutWrite
<1>2. LoneInv(t)' /\ Open(t) /\ Open(t)'
  BY <1>1, Stays DEF PutWrite, Leaving, InBlock
<1>3. PICK n \in 1..MaxWrites :
        \/ /\ staged' = staged \cup {<<t, block[t], n>>} /\ UNCHANGED <<saved, faults>>
        \/ /\ faults' = faults + 1 /\ UNCHANGED saved
           /\ \/ staged' = staged \cup {<<t, block[t], n>>}
              \/ UNCHANGED staged
  BY DEF PutWrite, Succeeds, Fails, Fault, NoFault, bounds, deviceVars
<1>4. <<t, block[t], n>> \in Write
  BY <1>1, TransactionBoundsAssumption, SMTT(30) DEF TransactionInv, TypeOK, FramesInv, Write
<1> QED
  BY <1>2, <1>3, <1>4, Puts, FailsAbstractly

LEMMA BodyRefines ==
    ASSUME NEW t, Task = {t}, TransactionInv, LoneInv(t), BodyRaises(t) \/ BodyHandles(t)
    PROVE  LoneInv(t)' /\ AbstractStep
<1>1. /\ pc[t] = "body" /\ InBlock(t)
      /\ UNCHANGED <<depth, frames, pc, staged, saved, faults>>
  BY DEF BodyRaises, BodyHandles, deviceVars, bounds
<1> QED
  BY <1>1, Stays, Stutters DEF Leaving, InBlock

LEMMA ExitRefines ==
    ASSUME NEW t, Task = {t}, TransactionInv, TransactionInv', LoneInv(t), Exit(t)
    PROVE  LoneInv(t)' /\ AbstractStep
<1>1. /\ t \in Task /\ TypeOK /\ FramesInv
      /\ pc[t] = "body" /\ InBlock(t) /\ Open(t) /\ ~Leaving(t)
      /\ depth = Len(frames[t]) /\ Len(frames[t]) \in Nat \ {0}
      /\ depth' = depth - 1 /\ UNCHANGED <<staged, saved, faults>>
  BY StackOf DEF Exit, TransactionInv, Leaving, Open, LoneInv, CountOf, deviceVars, bounds
<1>2. CASE Nested
  <2>1. Leave(t, flow[t]) /\ flow[t] \in Flow
    BY <1>1, <1>2 DEF Exit, TypeOK, Flow
  <2>2. pc'[t] = "body" /\ Len(frames'[t]) = Len(frames[t]) - 1
    BY <1>1, <2>1, LeaveEffect
  <2>3. Len(frames'[t]) # 0
    <3>1. depth - 1 > 0
      BY <1>2 DEF Nested
    <3>2. depth = Len(frames[t]) /\ Len(frames[t]) \in Nat
      BY <1>1
    <3>3. depth # 1
      BY <3>1
    <3>4. Len(frames'[t]) = Len(frames[t]) - 1
      BY <2>2
    <3> QED
      BY <3>2, <3>3, <3>4
  <2>4. InBlock(t)' /\ ~Leaving(t)' /\ Open(t)'
    BY <2>2, <2>3, EmptySeq DEF InBlock, Leaving, Open
  <2>5. LoneInv(t)'
    BY <1>1, <2>2, <2>4 DEF LoneInv, CountOf
  <2> QED
    BY <1>1, <2>4, <2>5, Stutters
<1>3. CASE ~Nested
  <2>1. UNCHANGED frames /\ pc'[t] \in {"commit", "rollback"}
    BY <1>1, <1>3 DEF Exit, Goto, Resolution, TypeOK
  <2>2. Len(frames[t]) = 1
    <3>1. ~(depth - 1 > 0)
      BY <1>3 DEF Nested
    <3>2. depth = Len(frames[t]) /\ Len(frames[t]) \in Nat /\ Len(frames[t]) # 0
      BY <1>1
    <3>3. depth \in Nat /\ depth # 0
      BY <3>2
    <3>4. depth = 1
      BY <3>1, <3>3
    <3> QED
      BY <3>2, <3>4
  <2>3. Leaving(t)' /\ Open(t)'
    BY <1>1, <2>1 DEF Leaving, Open, InBlock
  <2>4. LoneInv(t)'
    BY <1>1, <2>1, <2>2, <2>3 DEF LoneInv, CountOf
  <2> QED
    BY <1>1, <2>3, <2>4, Stutters
<1> QED
  BY <1>2, <1>3

\* After the commit or the rollback the block is closed, though config mode may
\* still have to be left.
LEMMA ClosesBlock ==
    ASSUME NEW t, Task = {t}, TransactionInv, LoneInv(t),
           pc[t] \in {"commit", "rollback"}, UNCHANGED depth,
           LeaveModeOrBlock(t) \/ Leave(t, "raising"),
           faults' = 0 => staged' = {}
    PROVE  LoneInv(t)' /\ Open(t) /\ ~Open(t)'
<1>1. /\ t \in Task /\ TypeOK /\ InBlock(t) /\ Leaving(t) /\ Open(t)
      /\ flow[t] \in Flow /\ "raising" \in Flow
      /\ Len(frames[t]) = 1 /\ depth = CountOf(t)
  BY StackOf DEF TransactionInv, TypeOK, Leaving, Open, LoneInv, Flow
<1>2. CASE \E how \in Flow : Leave(t, how)
  <2>1. ~InBlock(t)' /\ ~Leaving(t)' /\ CountOf(t)' = CountOf(t)
    BY <1>1, <1>2, LeavesLast
  <2> QED
    BY <1>1, <2>1 DEF LoneInv, Open
<1>3. CASE Goto(t, "leave") /\ UNCHANGED frames
  <2>1. pc'[t] = "leave"
    BY <1>1, <1>3 DEF Goto, TypeOK
  <2>2. Leaving(t)' /\ ~Open(t)' /\ CountOf(t)' = CountOf(t)
    BY <1>1, <1>3, <2>1 DEF Leaving, Open, CountOf
  <2> QED
    BY <1>1, <1>3, <2>2 DEF LoneInv
<1> QED
  BY <1>1, <1>2, <1>3 DEF LeaveModeOrBlock

LEMMA CommittedRefines ==
    ASSUME NEW t, Task = {t}, TransactionInv, LoneInv(t), Committed(t)
    PROVE  LoneInv(t)' /\ AbstractStep
<1>1. /\ pc[t] = "commit" /\ SaveStaged /\ staged' = {} /\ UNCHANGED <<depth, faults>>
      /\ LeaveModeOrBlock(t)
  BY DEF Committed, Succeeds, NoFault, bounds, SaveStaged
<1> QED
  BY <1>1, ClosesBlock, Ends

LEMMA CommitFailsRefines ==
    ASSUME NEW t, Task = {t}, TransactionInv, LoneInv(t), CommitFails(t)
    PROVE  LoneInv(t)' /\ AbstractStep
<1>1. /\ pc[t] = "commit" /\ UNCHANGED depth /\ faults' = faults + 1
      /\ Leave(t, "raising") /\ (SaveStaged \/ UNCHANGED <<staged, saved>>)
  BY DEF CommitFails, Fails, Fault, deviceVars
<1>2. faults' # 0
  BY <1>1 DEF TransactionInv, TypeOK
<1> QED
  BY <1>1, <1>2, ClosesBlock, FailsAbstractly

LEMMA RolledBackRefines ==
    ASSUME NEW t, Task = {t}, TransactionInv, LoneInv(t), RolledBack(t)
    PROVE  LoneInv(t)' /\ AbstractStep
<1>1. pc[t] = "rollback" /\ UNCHANGED depth /\ LeaveModeOrBlock(t)
  BY DEF RolledBack
<1>2. CASE Succeeds(DropStaged)
  <2>1. DropStaged /\ staged' = {} /\ UNCHANGED faults
    BY <1>2 DEF Succeeds, NoFault, bounds, DropStaged
  <2> QED
    BY <1>1, <2>1, ClosesBlock, Ends
<1>3. CASE Fails(DropStaged)
  <2>1. faults' = faults + 1 /\ (DropStaged \/ UNCHANGED <<staged, saved>>)
    BY <1>3 DEF Fails, Fault, deviceVars
  <2>2. faults' # 0
    BY <2>1 DEF TransactionInv, TypeOK
  <2> QED
    BY <1>1, <2>1, <2>2, ClosesBlock, FailsAbstractly
<1> QED
  BY <1>2, <1>3 DEF RolledBack

\* Leaving config mode does not concern the abstract block.
LEMMA LeaveModeRefines ==
    ASSUME NEW t, Task = {t}, TransactionInv, LoneInv(t), ModeLeft(t) \/ LeaveModeFails(t)
    PROVE  LoneInv(t)' /\ AbstractStep
<1>1. /\ t \in Task /\ pc[t] = "leave" /\ Leaving(t) /\ ~Open(t) /\ flow[t] \in Flow
      /\ UNCHANGED <<depth, staged, saved>>
      /\ faults' = faults \/ faults' = faults + 1
  BY DEF ModeLeft, LeaveModeFails, Leaving, Open, Succeeds, Fails, Fault, NoFault, bounds,
         SetMode, deviceVars, TransactionInv, TypeOK, Flow
<1>2. faults' = 0 => faults = 0
  BY <1>1 DEF TransactionInv, TypeOK
<1>3. CASE Leave(t, flow[t])
  <2>1. ~InBlock(t)' /\ ~Leaving(t)' /\ CountOf(t)' = CountOf(t)
    BY <1>1, <1>3, LeavesLast
  <2>2. LoneInv(t)' /\ ~Open(t)'
    BY <1>1, <1>2, <2>1 DEF LoneInv, Open
  <2> QED
    BY <1>1, <2>2, Stutters, FailsAbstractly
<1>4. CASE UNCHANGED <<frames, pc>>
  <2>1. LoneInv(t)' /\ ~Open(t)'
    BY <1>1, <1>2, <1>4 DEF LoneInv, CountOf, Leaving, Open, InBlock
  <2> QED
    BY <1>1, <2>1, Stutters, FailsAbstractly
<1> QED
  BY <1>3, <1>4 DEF ModeLeft, LeaveModeFails

\* By hand: nothing is pending, or a failed request has left it.
LEMMA ManualRefines ==
    ASSUME NEW t, Task = {t}, TransactionInv, LoneInv(t),
           ManualCommit(t) \/ ManualRollback(t)
    PROVE  LoneInv(t)' /\ AbstractStep
<1>1. /\ TypeOK /\ ~InBlock(t) /\ ~Open(t) /\ UNCHANGED <<depth, frames, pc>>
      /\ ~InBlock(t)' /\ ~Open(t)'
  BY DEF ManualCommit, ManualRollback, TransactionInv, Open, InBlock, taskVars
<1>2. CASE Succeeds(SaveStaged) \/ Succeeds(DropStaged)
  <2>1. (SaveStaged \/ DropStaged) /\ staged' = {} /\ UNCHANGED faults
    BY <1>2 DEF Succeeds, NoFault, bounds, SaveStaged, DropStaged
  <2>2. LoneInv(t)'
    BY <1>1, <2>1 DEF LoneInv, CountOf, Leaving
  <2>3. CASE faults = 0
    <3>1. staged = {}
      BY <1>1, <2>3 DEF LoneInv
    <3>2. UNCHANGED <<staged, saved>>
      BY <2>1, <3>1 DEF SaveStaged, DropStaged
    <3> QED
      BY <1>1, <2>1, <2>2, <3>2, Stutters
  <2>4. CASE faults # 0
    BY <1>1, <2>1, <2>2, <2>4, Settles
  <2> QED
    BY <2>3, <2>4
<1>3. CASE Fails(SaveStaged) \/ Fails(DropStaged)
  <2>1. /\ faults' = faults + 1
        /\ SaveStaged \/ DropStaged \/ UNCHANGED <<staged, saved>>
    BY <1>3 DEF Fails, Fault, deviceVars
  <2>2. faults' # 0
    BY <1>1, <2>1 DEF TypeOK
  <2>3. LoneInv(t)'
    BY <1>1, <2>2 DEF LoneInv, CountOf, Leaving
  <2> QED
    BY <1>1, <2>1, <2>3, FailsAbstractly
<1> QED
  BY <1>2, <1>3 DEF ManualCommit, ManualRollback

----------------------------------------------------------------------------
(* The theorem *)

LEMMA InitRefines ==
    ASSUME NEW t, Task = {t}, Init
    PROVE  LoneInv(t) /\ Atomic!Init
<1>1. frames[t] = <<>> /\ pc[t] = "body" /\ depth = 0 /\ staged = {} /\ saved = {}
      /\ faults = 0
  BY DEF Init
<1>2. ~Open(t) /\ CountOf(t) = 0 /\ ~Leaving(t)
  BY <1>1, EmptySeq DEF Open, InBlock, CountOf, Leaving
<1>3. Atomic!Init
  BY <1>1, <1>2, OpenIs DEF Atomic!Init
<1> QED
  BY <1>1, <1>2, <1>3 DEF LoneInv

LEMMA NextRefines ==
    ASSUME NEW t, Task = {t}, MaxCancels = 0, MaxExpiries = 0,
           TransactionInv, cancels \in Nat, expiries \in Nat, LoneInv(t), [Next]_vars
    PROVE  LoneInv(t)' /\ AbstractStep
<1>1. TransactionInv'
  BY NextInv
<1>2. CASE UNCHANGED vars
  <2>1. UNCHANGED <<depth, frames, pc, staged, saved, faults>>
    BY <1>2 DEF vars, taskVars, deviceVars, bounds
  <2>2. LoneInv(t)' /\ (Open(t)' <=> Open(t))
    BY <2>1 DEF LoneInv, CountOf, Leaving, Open, InBlock
  <2> QED
    BY <2>1, <2>2, Stutters
<1>3. ~SessionExpires /\ ~CancelEnter(t) /\ ~CancelExit(t)
  BY DEF SessionExpires, CancelEnter, CancelExit, Cancel
<1>4. CASE Enter(t)
  BY <1>1, <1>4, EnterRefines
<1>5. CASE ModeEntered(t) \/ ModeEndpointMissing(t)
  BY <1>1, <1>5, ModeEnteredRefines, ModeEndpointMissingRefines
<1>6. CASE PutWrite(t) \/ BodyRaises(t) \/ BodyHandles(t)
  BY <1>1, <1>6, PutWriteRefines, BodyRefines
<1>7. CASE Exit(t)
  BY <1>1, <1>7, ExitRefines
<1>8. CASE Committed(t) \/ CommitFails(t) \/ RolledBack(t)
  BY <1>8, CommittedRefines, CommitFailsRefines, RolledBackRefines
<1>9. CASE ModeLeft(t) \/ LeaveModeFails(t) \/ ManualCommit(t) \/ ManualRollback(t)
  BY <1>9, LeaveModeRefines, ManualRefines
<1> QED
  BY <1>2, <1>3, <1>4, <1>5, <1>6, <1>7, <1>8, <1>9 DEF Next

\* The blocks of one task implement AtomicBlock (CommitContext): all that is
\* pending is saved or dropped together, when the outermost block ends.
THEOREM BlocksAreAtomic ==
    ASSUME NEW CONSTANT t, Task = {t}, MaxCancels = 0, MaxExpiries = 0
    PROVE  Spec => AtomicBlocks
<1>1. Init => TransactionInv /\ LoneInv(t) /\ Atomic!Init
  BY InitInv, InitRefines
<1>2. TransactionInv /\ LoneInv(t) /\ [Next]_vars
         => TransactionInv' /\ LoneInv(t)' /\ [Atomic!Next]_(Atomic!vars)
  BY NextInv, NextRefines DEF AbstractStep, TransactionInv, TypeOK
<1> QED
  BY <1>1, <1>2, PTL DEF Spec, AtomicBlocks, Atomic!Spec

----------------------------------------------------------------------------
(* What a block has written when it ends *)

\* What is awaited at the end of the outermost block.
Resolving(t) ==
    /\ pc[t] = "rollback" => flow[t] = "raising"
    /\ pc[t] = "commit" => flow[t] = "normal"
    /\ InBlock(t) => verdict[t] = "none"

\* What a block has written is pending or saved until a rollback drops it.
KeepsInv(t) ==
    /\ Open(t) /\ pc[t] # "rollback" => wrote[t] \subseteq staged \cup saved
    /\ pc[t] = "leave" /\ flow[t] = "normal" => wrote[t] \subseteq saved
    /\ verdict[t] = "clean" => wrote[t] \subseteq saved

\* Without a failure, what is pending or saved stems from blocks that have begun, and
\* nothing of the open one is saved yet; what a rollback has dropped never is.
DropsInv(t) ==
    faults = 0 =>
       /\ \A w \in wrote[t] : w[2] = block[t]
       /\ \A w \in staged \cup saved : w[2] <= block[t]
       /\ Open(t) => \A w \in saved : w[2] < block[t]
       /\ pc[t] = "leave" /\ flow[t] = "raising" => wrote[t] \cap saved = {}
       /\ verdict[t] = "raised" => wrote[t] \cap saved = {}

\* The state of a task that has the client for itself.
Alone(t) == TransactionInv /\ LoneInv(t) /\ Resolving(t)

\* Taking the innermost context off a stack.
LEMMA TailOf ==
    ASSUME NEW q \in Seq(Context), Len(q) # 0
    PROVE  /\ Tail(q) \in Seq(Context) /\ Len(Tail(q)) = Len(q) - 1
           /\ Tail(q) = <<>> <=> Len(q) = 1
<1>1. q # <<>>
  BY EmptySeq
<1>2. /\ Tail(q) \in Seq(Context) /\ Len(Tail(q)) = Len(q) - 1
  BY <1>1, HeadTailProperties
<1>3. Tail(q) = <<>> <=> Len(Tail(q)) = 0
  BY <1>2, EmptySeq
<1>4. Len(q) \in Nat
  BY LenProperties
<1> QED
  BY <1>2, <1>3, <1>4

\* What a task leaves behind and returns to.
LEMMA Leaves ==
    ASSUME TypeOK, NEW t \in Task, NEW how, Leave(t, how)
    PROVE  /\ frames'[t] = Tail(frames[t]) /\ pc'[t] = "body"
           /\ Len(frames[t]) > 1 => flow'[t] = how /\ verdict'[t] = verdict[t]
           /\ ~(Len(frames[t]) > 1) =>
                 /\ flow'[t] = "normal"
                 /\ verdict'[t] = IF how = "raising" THEN "raised" ELSE "clean"
           /\ block' = block /\ wrote' = wrote
BY DEF TypeOK, Leave, Goto

\* The outermost block is left, for good.
LEMMA LeavesAlone ==
    ASSUME NEW t \in Task, Alone(t), Leaving(t), NEW how, Leave(t, how)
    PROVE  /\ ~InBlock(t)' /\ pc'[t] = "body" /\ flow'[t] = "normal"
           /\ verdict'[t] = IF how = "raising" THEN "raised" ELSE "clean"
           /\ block' = block /\ wrote' = wrote
<1>1. frames[t] \in Seq(Context) /\ Len(frames[t]) = 1 /\ TypeOK
  BY StackOf DEF Alone, LoneInv, TransactionInv
<1>2. Tail(frames[t]) = <<>>
  BY <1>1, TailOf
<1>3. /\ frames'[t] = <<>> /\ pc'[t] = "body" /\ block' = block /\ wrote' = wrote
      /\ flow'[t] = "normal"
      /\ verdict'[t] = IF how = "raising" THEN "raised" ELSE "clean"
  <2>1. ~(Len(frames[t]) > 1)
    BY <1>1
  <2> QED
    BY <1>1, <1>2, <2>1, Leaves
<1> QED
  BY <1>3 DEF InBlock

\* The commit or the rollback is answered: config mode is left next, or the block.
LEMMA ResolvesAlone ==
    ASSUME NEW t \in Task, Alone(t), Leaving(t), LeaveModeOrBlock(t)
    PROVE  /\ block' = block /\ wrote' = wrote
           /\ \/ /\ InBlock(t)' /\ pc'[t] = "leave"
                 /\ flow' = flow /\ verdict' = verdict
              \/ /\ ~InBlock(t)' /\ pc'[t] = "body" /\ flow'[t] = "normal"
                 /\ verdict'[t] = IF flow[t] = "raising" THEN "raised" ELSE "clean"
<1>1. CASE Head(frames[t]) = "entered"
  BY <1>1, StackOf DEF LeaveModeOrBlock, Goto, Alone, TransactionInv, TypeOK, InBlock, Leaving
<1>2. CASE Head(frames[t]) # "entered"
  BY <1>2, LeavesAlone DEF LeaveModeOrBlock
<1> QED
  BY <1>1, <1>2

\* An inner exit leads back into a block; the outermost one begins to settle.
LEMMA ExitsAlone ==
    ASSUME NEW t \in Task, Alone(t), Exit(t)
    PROVE  /\ block' = block /\ wrote' = wrote /\ verdict' = verdict
           /\ UNCHANGED <<mode, staged, saved, faults>>
           /\ InBlock(t) /\ pc[t] = "body" /\ InBlock(t)'
           /\ \/ pc'[t] = "body" /\ frames'[t] = Tail(frames[t]) /\ Len(frames[t]) > 1
              \/ /\ pc'[t] = Resolution(t) /\ flow' = flow /\ frames' = frames
                 /\ Len(frames[t]) = 1
<1>1. /\ TypeOK /\ InBlock(t) /\ pc[t] = "body" /\ ~Leaving(t)
      /\ frames[t] \in Seq(Context) /\ frames[t] # <<>>
      /\ Len(frames[t]) \in Nat /\ Len(frames[t]) # 0
      /\ depth = Len(frames[t])
  BY StackOf DEF Alone, TransactionInv, Exit, Leaving, LoneInv, CountOf, InBlock
<1>2. CASE Nested
  <2>1. Len(frames[t]) > 1 /\ Leave(t, flow[t])
    BY <1>1, <1>2 DEF Nested, Exit
  <2>2. Tail(frames[t]) # <<>>
    <3>1. Tail(frames[t]) = <<>> <=> Len(frames[t]) = 1
      BY <1>1, TailOf, Zenon
    <3>2. Len(frames[t]) # 1
      <4>1. Len(frames[t]) > 1
        BY <2>1
      <4>2. Len(frames[t]) \in Nat
        BY <1>1
      <4>3. \A n \in Nat : n > 1 => n # 1
        OBVIOUS
      <4> QED
        BY <4>1, <4>2, <4>3, Zenon
    <3> QED
      BY <3>1, <3>2, Zenon
  <2>3. verdict' = verdict
    BY <2>1 DEF Leave
  <2>4. /\ frames'[t] = Tail(frames[t]) /\ pc'[t] = "body"
        /\ block' = block /\ wrote' = wrote
    BY <1>1, <2>1, Leaves
  <2>5. UNCHANGED <<mode, staged, saved, faults>>
    BY DEF Exit, deviceVars, bounds
  <2>6. InBlock(t)'
    BY <2>2, <2>4 DEF InBlock
  <2> QED
    BY <1>1, <2>1, <2>3, <2>4, <2>5, <2>6
<1>3. CASE ~Nested
  BY <1>1, <1>3 DEF Nested, Exit, Goto, InBlock, deviceVars, bounds, TypeOK
<1> QED
  BY <1>2, <1>3

\* An inner entry adds a context; the outermost one begins a block.
LEMMA EntersAlone ==
    ASSUME NEW t \in Task, Alone(t), Enter(t)
    PROVE  /\ UNCHANGED <<mode, staged, saved, faults>> /\ pc[t] = "body"
           /\ flow' = flow /\ flow[t] = "normal" /\ InBlock(t)'
           /\ frames'[t] = <<"bare">> \o frames[t]
           /\ cand'[t] = 1
           /\ \/ /\ InBlock(t) /\ UNCHANGED <<block, wrote, verdict>>
                 /\ pc'[t] = "body"
              \/ /\ ~InBlock(t) /\ block'[t] = block[t] + 1 /\ wrote'[t] = {}
                 /\ verdict'[t] = "none" /\ pc'[t] = "enter"
<1>1. /\ TypeOK /\ pc[t] = "body" /\ flow[t] = "normal" /\ ~Leaving(t)
      /\ frames[t] \in Seq(Context)
      /\ Len(frames[t]) \in Nat /\ (InBlock(t) <=> Len(frames[t]) # 0)
      /\ depth = Len(frames[t])
  BY StackOf DEF Alone, TransactionInv, Enter, Leaving, LoneInv, CountOf
<1>2. frames'[t] = <<"bare">> \o frames[t]
  BY <1>1 DEF Enter, TypeOK
<1>3. InBlock(t)'
  <2>1. <<"bare">> \in Seq(Context)
    BY DEF Context
  <2>2. Len(<<"bare">> \o frames[t]) = 1 + Len(frames[t])
    BY <1>1, <2>1, ConcatProperties
  <2> QED
    BY <1>1, <1>2, <2>2, EmptySeq DEF InBlock
<1>4. CASE InBlock(t)
  BY <1>1, <1>2, <1>3, <1>4 DEF Enter, Counted, Goto, deviceVars, bounds, TypeOK
<1>5. CASE ~InBlock(t)
  BY <1>1, <1>2, <1>3, <1>5 DEF Enter, Counted, Goto, deviceVars, bounds, TypeOK
<1> QED
  BY <1>4, <1>5

\* The remaining steps, in which the task does not leave its stack.
\* The tries of the config-mode endpoints concern neither writes nor verdicts.
LEMMA ModeStepsAlone ==
    ASSUME NEW t \in Task, Alone(t), ModeEntered(t) \/ ModeEndpointMissing(t)
    PROVE  /\ UNCHANGED <<staged, saved, flow, verdict, block, wrote>>
           /\ pc[t] = "enter" /\ pc'[t] \in {"enter", "body"}
           /\ InBlock(t) /\ InBlock(t)' /\ (faults' = faults \/ faults' = faults + 1)
<1>1. TypeOK /\ pc[t] = "enter" /\ InBlock(t) /\ ~Leaving(t)
  BY StackOf DEF ModeEntered, ModeEndpointMissing, Alone, TransactionInv, Leaving
<1>2. CASE ModeEntered(t)
  <2>1. frames'[t] = <<"entered">> \o Tail(frames[t])
    BY <1>1, <1>2 DEF ModeEntered, TypeOK
  <2>2. /\ Tail(frames[t]) \in Seq(Context) /\ <<"entered">> \in Seq(Context)
        /\ Len(<<"entered">>) = 1
    BY <1>1, StackOf, TailOf DEF Alone, Context
  <2>3. Len(frames'[t]) = 1 + Len(Tail(frames[t])) /\ Len(Tail(frames[t])) \in Nat
    BY <2>1, <2>2, ConcatProperties, LenProperties
  <2>4. InBlock(t)'
    BY <2>3, EmptySeq DEF InBlock
  <2> QED
    BY <1>1, <1>2, <2>4
       DEF ModeEntered, Succeeds, SetMode, NoFault, bounds, Goto, TypeOK
<1>3. CASE ModeEndpointMissing(t)
  BY <1>1, <1>3
     DEF ModeEndpointMissing, Fails, Fault, SetMode, NoFault, bounds, deviceVars, Goto,
         NextCandidate, TypeOK, InBlock
<1> QED
  BY <1>2, <1>3

\* Every step keeps what is awaited at the end of a block.
LEMMA ResolvingAlone ==
    ASSUME NEW t, Task = {t}, MaxCancels = 0, MaxExpiries = 0, Alone(t),
           cancels \in Nat, expiries \in Nat, [Next]_vars
    PROVE  Resolving(t)'
<1> USE DEF Resolving
<1>a. /\ t \in Task /\ TypeOK /\ Resolving(t)
      /\ pc[t] # "body" => InBlock(t)
      /\ ~SessionExpires /\ ~CancelEnter(t) /\ ~CancelExit(t)
  BY StackOf DEF Alone, TransactionInv, SessionExpires, CancelEnter, CancelExit, Cancel
<1>1. CASE Enter(t)
  BY <1>1, <1>a, EntersAlone
<1>2. CASE ModeEntered(t) \/ ModeEndpointMissing(t)
  BY <1>2, <1>a, ModeStepsAlone
<1>3. CASE PutWrite(t) \/ BodyRaises(t) \/ BodyHandles(t)
  BY <1>3, <1>a DEF PutWrite, BodyRaises, BodyHandles, InBlock
<1>4. CASE Exit(t)
  BY <1>4, <1>a, ExitsAlone DEF Resolution, TypeOK
<1>5. CASE Committed(t) \/ RolledBack(t)
  BY <1>5, <1>a, ResolvesAlone DEF Committed, RolledBack, Leaving
<1>6. CASE CommitFails(t)
  BY <1>6, <1>a, LeavesAlone DEF CommitFails, Leaving
<1>7. CASE ModeLeft(t) \/ LeaveModeFails(t)
  BY <1>7, <1>a, LeavesAlone DEF ModeLeft, LeaveModeFails, Leaving, InBlock
<1>8. CASE ManualCommit(t) \/ ManualRollback(t) \/ UNCHANGED vars
  BY <1>8, <1>a DEF ManualCommit, ManualRollback, taskVars, vars, InBlock
<1> QED
  BY <1>a, <1>1, <1>2, <1>3, <1>4, <1>5, <1>6, <1>7, <1>8 DEF Next

\* Every step keeps the state of a task that has the client for itself.
LEMMA AloneNext ==
    ASSUME NEW t, Task = {t}, MaxCancels = 0, MaxExpiries = 0, Alone(t), [Next]_vars
    PROVE  Alone(t)'
<1>1. cancels \in Nat /\ expiries \in Nat
  BY DEF Alone, TransactionInv, TypeOK
<1> QED
  BY <1>1, NextInv, NextRefines, ResolvingAlone DEF Alone

\* Every step keeps the writes of a block pending or saved.
LEMMA KeepsAlone ==
    ASSUME NEW t, Task = {t}, MaxCancels = 0, MaxExpiries = 0, Alone(t),
           KeepsInv(t), [Next]_vars
    PROVE  KeepsInv(t)'
<1> USE DEF KeepsInv, Open
<1>a. /\ t \in Task /\ TypeOK /\ Resolving(t) /\ KeepsInv(t)
      /\ pc[t] # "body" => InBlock(t)
      /\ InBlock(t) => verdict[t] = "none"
      /\ wrote \in [Task -> SUBSET Write]
      /\ ~SessionExpires /\ ~CancelEnter(t) /\ ~CancelExit(t)
  BY StackOf DEF Alone, TransactionInv, SessionExpires, CancelEnter, CancelExit, Cancel,
         TypeOK, Resolving
<1>1. CASE Enter(t)
  BY <1>1, <1>a, EntersAlone
<1>2. CASE ModeEntered(t) \/ ModeEndpointMissing(t)
  BY <1>2, <1>a, ModeStepsAlone
<1>3. CASE PutWrite(t)
  <2>1. /\ pc[t] = "body" /\ pc' = pc /\ saved' = saved /\ verdict' = verdict
        /\ InBlock(t)' /\ InBlock(t)
    BY <1>3 DEF PutWrite, Succeeds, Fails, deviceVars, InBlock
  <2>2. wrote'[t] \subseteq staged' \cup saved'
    BY <1>3, <1>a DEF PutWrite, Succeeds, Fails, deviceVars
  <2> QED
    BY <1>a, <2>1, <2>2
<1>4. CASE BodyRaises(t) \/ BodyHandles(t)
  BY <1>4, <1>a DEF BodyRaises, BodyHandles, deviceVars, InBlock
<1>5. CASE Exit(t)
  BY <1>5, <1>a, ExitsAlone DEF Resolution
<1>6. CASE Committed(t)
  <2>1. saved' = saved \cup staged /\ pc[t] = "commit" /\ flow[t] = "normal"
    BY <1>6, <1>a DEF Committed, Succeeds, SaveStaged, Resolving
  <2> QED
    BY <1>6, <1>a, <2>1, ResolvesAlone DEF Committed, Leaving
<1>7. CASE RolledBack(t)
  <2>1. pc[t] = "rollback" /\ flow[t] = "raising"
    BY <1>7, <1>a DEF RolledBack, Resolving
  <2> QED
    BY <1>7, <1>a, <2>1, ResolvesAlone DEF RolledBack, Leaving
<1>8. CASE CommitFails(t)
  BY <1>8, <1>a, LeavesAlone DEF CommitFails, Leaving
<1>9. CASE ModeLeft(t) \/ LeaveModeFails(t)
  <2>1. pc[t] = "leave" /\ saved' = saved
    BY <1>9 DEF ModeLeft, LeaveModeFails, Succeeds, Fails, SetMode, deviceVars
  <2>2. CASE Leave(t, flow[t])
    BY <1>a, <2>1, <2>2, LeavesAlone DEF Leaving, TypeOK
  <2>3. CASE UNCHANGED <<frames, pc, flow, verdict, block, wrote>>
    BY <1>a, <2>1, <2>3 DEF InBlock
  <2> QED
    BY <1>9, <2>2, <2>3 DEF ModeLeft, LeaveModeFails
<1>10. CASE ManualCommit(t) \/ ManualRollback(t)
  BY <1>10, <1>a DEF ManualCommit, ManualRollback, taskVars, Succeeds, Fails, SaveStaged,
                DropStaged, deviceVars, InBlock
<1>11. CASE UNCHANGED vars
  BY <1>11, <1>a DEF vars, taskVars, deviceVars, InBlock
<1> QED
  BY <1>a, <1>1, <1>2, <1>3, <1>4, <1>5, <1>6, <1>7, <1>8, <1>9, <1>10, <1>11 DEF Next

\* Every step keeps the writes of an open or abandoned block out of what is saved.
LEMMA DropsAlone ==
    ASSUME NEW t, Task = {t}, MaxCancels = 0, MaxExpiries = 0, Alone(t),
           DropsInv(t), [Next]_vars
    PROVE  DropsInv(t)'
<1> USE DEF DropsInv, Open
<1> SUFFICES ASSUME faults' = 0 PROVE DropsInv(t)'
  OBVIOUS
<1>a. /\ t \in Task /\ TypeOK /\ Resolving(t) /\ DropsInv(t)
      /\ pc[t] # "body" => InBlock(t)
      /\ wrote \in [Task -> SUBSET Write] /\ block[t] \in Nat /\ faults \in Nat
      /\ staged \subseteq Write /\ saved \subseteq Write /\ wrote[t] \subseteq Write
      /\ InBlock(t) => verdict[t] = "none"
      /\ ~SessionExpires /\ ~CancelEnter(t) /\ ~CancelExit(t)
  BY StackOf, TransactionBoundsAssumption
     DEF Alone, TransactionInv, SessionExpires, CancelEnter, CancelExit, Cancel,
         TypeOK, Resolving
<1>c. \A w \in Write : w[2] \in Nat
  BY TransactionBoundsAssumption DEF Write
<1>b. faults = 0 /\ (~Open(t) => staged = {})
  <2>1. faults = 0
    <3>1. faults' = faults \/ faults' = faults + 1
      BY <1>a DEF Next, Enter, ModeEntered, ModeEndpointMissing, PutWrite, BodyRaises,
            BodyHandles, Exit, Committed, CommitFails, RolledBack, ModeLeft,
            LeaveModeFails, ManualCommit, ManualRollback, Succeeds, Fails, Fault, NoFault,
            bounds, vars
    <3> QED
      BY <1>a, <3>1
  <2> QED
    BY <2>1 DEF Alone, LoneInv
<1>1. CASE Enter(t)
  <2>1. CASE InBlock(t)
    BY <1>1, <1>a, <1>c, <1>b, <2>1, EntersAlone
  <2>2. CASE ~InBlock(t)
    BY <1>1, <1>a, <1>c, <1>b, <2>2, EntersAlone
  <2> QED
    BY <2>1, <2>2
<1>2. CASE ModeEntered(t) \/ ModeEndpointMissing(t)
  BY <1>2, <1>a, <1>c, <1>b, ModeStepsAlone
<1>3. CASE PutWrite(t)
  <2>1. /\ pc[t] = "body" /\ pc' = pc /\ saved' = saved /\ verdict' = verdict
        /\ InBlock(t) /\ UNCHANGED block /\ verdict' = verdict
    BY <1>3 DEF PutWrite, Succeeds, Fails, deviceVars
  <2>2. PICK n \in 1..MaxWrites :
           /\ wrote'[t] = wrote[t] \cup {<<t, block[t], n>>}
           /\ staged' = staged \cup {<<t, block[t], n>>}
    BY <1>3, <1>a, <1>b DEF PutWrite, Succeeds, Fails, Fault
  <2>3. <<t, block[t], n>>[2] = block[t]
    OBVIOUS
  <2>4. verdict[t] # "raised" \/ wrote'[t] \cap saved = {}
    BY <1>a, <1>c, <1>b, <2>1, <2>2, <2>3
  <2> QED
    BY <1>a, <1>c, <1>b, <2>1, <2>2, <2>3, <2>4
<1>4. CASE BodyRaises(t) \/ BodyHandles(t)
  BY <1>4, <1>a, <1>c, <1>b DEF BodyRaises, BodyHandles, deviceVars, InBlock
<1>5. CASE Exit(t)
  BY <1>5, <1>a, <1>c, <1>b, ExitsAlone DEF Resolution
<1>6. CASE Committed(t)
  <2>1. /\ saved' = saved \cup staged /\ staged' = {}
        /\ pc[t] = "commit" /\ flow[t] = "normal"
    BY <1>6, <1>a DEF Committed, Succeeds, SaveStaged, Resolving
  <2> QED
    BY <1>6, <1>a, <1>c, <1>b, <2>1, ResolvesAlone DEF Committed, Leaving
<1>7. CASE RolledBack(t)
  <2>1. /\ pc[t] = "rollback" /\ flow[t] = "raising" /\ saved' = saved /\ staged' = {}
        /\ wrote[t] \cap saved = {}
    BY <1>7, <1>a, <1>c, <1>b DEF RolledBack, Resolving, Succeeds, Fails, Fault, DropStaged
  <2> QED
    BY <1>7, <1>a, <1>c, <1>b, <2>1, ResolvesAlone DEF RolledBack, Leaving
<1>8. CASE CommitFails(t)
  BY <1>8, <1>a, <1>c, <1>b DEF CommitFails, Fails, Fault
<1>9. CASE ModeLeft(t) \/ LeaveModeFails(t)
  <2>1. pc[t] = "leave" /\ UNCHANGED <<staged, saved>>
    BY <1>9 DEF ModeLeft, LeaveModeFails, Succeeds, Fails, SetMode, deviceVars
  <2>2. CASE Leave(t, flow[t])
    BY <1>a, <1>c, <1>b, <2>1, <2>2, LeavesAlone DEF Leaving, TypeOK
  <2>3. CASE UNCHANGED <<frames, pc, flow, verdict, block, wrote>>
    BY <1>a, <1>c, <1>b, <2>1, <2>3 DEF InBlock
  <2> QED
    BY <1>9, <2>2, <2>3 DEF ModeLeft, LeaveModeFails
<1>10. CASE ManualCommit(t) \/ ManualRollback(t)
  BY <1>10, <1>a, <1>c, <1>b
     DEF ManualCommit, ManualRollback, taskVars, Succeeds, Fails, Fault, SaveStaged,
         DropStaged, deviceVars, InBlock
<1>11. CASE UNCHANGED vars
  BY <1>11, <1>a, <1>c, <1>b DEF vars, taskVars, deviceVars, InBlock
<1> QED
  BY <1>a, <1>1, <1>2, <1>3, <1>4, <1>5, <1>6, <1>7, <1>8, <1>9, <1>10, <1>11 DEF Next

\* A block that ends without an exception has saved all it wrote, failed requests and
\* handled exceptions included (CommitContext.__aexit__).
THEOREM CleanExits ==
    ASSUME NEW CONSTANT t, Task = {t}, MaxCancels = 0, MaxExpiries = 0
    PROVE  Spec => []CleanExitCommits
<1>1. Init => Alone(t) /\ KeepsInv(t)
  <2> SUFFICES ASSUME Init PROVE Alone(t) /\ KeepsInv(t)
    OBVIOUS
  <2>1. TransactionInv /\ LoneInv(t)
    BY InitInv, InitRefines
  <2> QED
    BY <2>1 DEF Init, Alone, Resolving, KeepsInv, InBlock, Open
<1>2. Alone(t) /\ KeepsInv(t) /\ [Next]_vars => Alone(t)' /\ KeepsInv(t)'
  BY AloneNext, KeepsAlone
<1>3. KeepsInv(t) => CleanExitCommits
  BY DEF KeepsInv, CleanExitCommits
<1> QED
  BY <1>1, <1>2, <1>3, PTL DEF Spec

\* When every request succeeds, a block left by an exception never gets its writes
\* saved (CommitContext.__aexit__).
THEOREM RaisedExits ==
    ASSUME NEW CONSTANT t, Task = {t}, MaxCancels = 0, MaxExpiries = 0
    PROVE  Spec => []RaisedRollsBack
<1>1. Init => Alone(t) /\ DropsInv(t)
  <2> SUFFICES ASSUME Init PROVE Alone(t) /\ DropsInv(t)
    OBVIOUS
  <2>1. TransactionInv /\ LoneInv(t)
    BY InitInv, InitRefines
  <2> QED
    BY <2>1 DEF Init, Alone, Resolving, DropsInv, InBlock, Open
<1>2. Alone(t) /\ DropsInv(t) /\ [Next]_vars => Alone(t)' /\ DropsInv(t)'
  BY AloneNext, DropsAlone
<1>3. DropsInv(t) => RaisedRollsBack
  BY DEF DropsInv, RaisedRollsBack
<1> QED
  BY <1>1, <1>2, <1>3, PTL DEF Spec

----------------------------------------------------------------------------
(* Config mode *)

\* The context that has opened the block.
Outermost(t) == frames[t][Len(frames[t])]

\* No context has entered config mode.
AllBare(t) == \A i \in 1..Len(frames[t]) : frames[t][i] = "bare"

\* The mode of the device is the one the outermost context has entered and will leave;
\* the endpoint the firmware has is not passed over without a failure.
ModeInv(t) ==
    faults = 0 =>
       /\ ~InBlock(t) \/ ModeEndpoint = 0 => mode = "exec"
       /\ ModeEndpoint = 0 => AllBare(t)
       /\ pc[t] = "enter" => Len(frames[t]) = 1
       /\ ModeEndpoint # 0 /\ pc[t] = "enter" => cand[t] <= ModeEndpoint /\ mode = "exec"
       /\ ModeEndpoint # 0 /\ pc[t] = "leave" => cand[t] <= ModeEndpoint
       /\ ModeEndpoint # 0 /\ InBlock(t) /\ pc[t] \in {"body", "commit", "rollback"}
             => mode = "config" /\ Outermost(t) = "entered"

\* A stack and what is under its innermost context.
LEMMA UnderTop ==
    ASSUME NEW q \in Seq(Context), Len(q) > 1
    PROVE  /\ Tail(q)[Len(Tail(q))] = q[Len(q)]
           /\ (\A i \in 1..Len(q) : q[i] = "bare")
                 => \A i \in 1..Len(Tail(q)) : Tail(q)[i] = "bare"
<1>1. Len(q) \in Nat /\ q # <<>>
  BY LenProperties, EmptySeq
<1>2. /\ Tail(q) \in Seq(Context) /\ Len(Tail(q)) = Len(q) - 1
      /\ \A i \in 1..Len(Tail(q)) : Tail(q)[i] = q[i + 1]
  BY <1>1, HeadTailProperties
<1> QED
  BY <1>1, <1>2

\* A stack and the one with a context more.
LEMMA OnTop ==
    ASSUME NEW q \in Seq(Context), NEW c \in Context
    PROVE  LET p == <<c>> \o q
           IN /\ Len(p) = Len(q) + 1
              /\ Len(q) = 0 => p[Len(p)] = c
              /\ Len(q) # 0 => p[Len(p)] = q[Len(q)]
              /\ c = "bare" /\ (\A i \in 1..Len(q) : q[i] = "bare")
                    => \A i \in 1..Len(p) : p[i] = "bare"
<1>1. Len(q) \in Nat /\ <<c>> \in Seq(Context) /\ Len(<<c>>) = 1 /\ <<c>>[1] = c
  BY LenProperties
<1>2. /\ Len(<<c>> \o q) = 1 + Len(q)
      /\ \A i \in 1..(1 + Len(q)) :
            (<<c>> \o q)[i] = IF i <= 1 THEN <<c>>[i] ELSE q[i - 1]
  BY <1>1, ConcatProperties
<1> QED
  BY <1>1, <1>2

\* A step that neither touches the stack nor the device keeps the mode's facts, if the
\* task goes on in the block or at the same place.
LEMMA ModeStays ==
    ASSUME NEW t \in Task, ModeInv(t), faults' = 0 => faults = 0, mode' = mode,
           frames' = frames,
           \/ pc'[t] = pc[t] /\ cand'[t] = cand[t]
           \/ InBlock(t) /\ pc[t] = "body" /\ pc'[t] \in {"commit", "rollback"}
    PROVE  ModeInv(t)'
BY DEF ModeInv, InBlock, Outermost, AllBare

\* The mode when the block has been left.
LEMMA ModeOutside ==
    ASSUME NEW t \in Task, ~InBlock(t)', pc'[t] = "body", mode' = "exec",
           frames'[t] = <<>>
    PROVE  ModeInv(t)'
<1>1. Len(frames'[t]) = 0
  BY EmptySeq
<1>2. AllBare(t)'
  BY <1>1 DEF AllBare
<1> QED
  BY <1>2 DEF ModeInv

\* The mode through the steps of the task, one lemma for each kind of step.
LEMMA EnterKeepsMode ==
    ASSUME NEW t, Task = {t}, Alone(t), ModeInv(t), Enter(t)
    PROVE  ModeInv(t)'
<1>1. /\ t \in Task /\ frames[t] \in Seq(Context) /\ "bare" \in Context
      /\ InBlock(t) <=> Len(frames[t]) # 0
  BY StackOf DEF Alone, Context
<1>2. /\ frames'[t] = <<"bare">> \o frames[t] /\ mode' = mode /\ faults' = faults
      /\ InBlock(t)' /\ pc[t] = "body"
      /\ cand'[t] = 1 /\ pc'[t] = IF InBlock(t) THEN "body" ELSE "enter"
  BY <1>1, EntersAlone
<1>3. /\ Len(frames'[t]) = Len(frames[t]) + 1
      /\ InBlock(t) => Outermost(t)' = Outermost(t)
      /\ AllBare(t) => AllBare(t)'
  BY <1>1, <1>2, OnTop DEF Outermost, AllBare
<1>4. ModeEndpoint # 0 => 1 <= ModeEndpoint
  BY EndpointAssumption
<1>5. CASE InBlock(t)
  BY <1>2, <1>3, <1>5 DEF ModeInv
<1>6. CASE ~InBlock(t)
  <2>1. Len(frames'[t]) = 1
    BY <1>1, <1>3, <1>6
  <2> QED
    BY <1>2, <1>3, <1>4, <1>6, <2>1 DEF ModeInv
<1> QED
  BY <1>5, <1>6

LEMMA ExitKeepsMode ==
    ASSUME NEW t, Task = {t}, Alone(t), ModeInv(t), Exit(t)
    PROVE  ModeInv(t)'
<1>1. t \in Task /\ frames[t] \in Seq(Context)
  BY StackOf DEF Alone
<1>2. CASE pc'[t] = Resolution(t) /\ frames' = frames
  <2>1. pc'[t] \in {"commit", "rollback"}
    BY <1>2 DEF Resolution
  <2> QED
    BY <1>1, <1>2, <2>1, ExitsAlone, ModeStays
<1>3. CASE pc'[t] = "body" /\ frames'[t] = Tail(frames[t]) /\ Len(frames[t]) > 1
  <2>1. Outermost(t)' = Outermost(t) /\ (AllBare(t) => AllBare(t)')
    BY <1>1, <1>3, UnderTop DEF Outermost, AllBare
  <2> QED
    BY <1>1, <1>3, <2>1, ExitsAlone DEF ModeInv
<1> QED
  BY <1>1, <1>2, <1>3, ExitsAlone

LEMMA TriesKeepMode ==
    ASSUME NEW t, Task = {t}, Alone(t), ModeInv(t), ModeEntered(t) \/ ModeEndpointMissing(t)
    PROVE  ModeInv(t)'
<1>1. /\ t \in Task /\ TypeOK /\ frames[t] \in Seq(Context) /\ InBlock(t)
      /\ pc[t] = "enter" /\ InBlock(t)' /\ pc'[t] \in {"enter", "body"}
      /\ faults \in Nat /\ cand[t] \in 1..Candidates
  BY StackOf, ModeStepsAlone DEF Alone, TransactionInv, TypeOK
<1>2. CASE ModeEntered(t)
  <2>1. /\ frames'[t] = <<"entered">> \o Tail(frames[t]) /\ pc'[t] = "body"
        /\ mode' = "config" /\ faults' = faults /\ cand[t] = ModeEndpoint
    BY <1>1, <1>2 DEF ModeEntered, Succeeds, SetMode, NoFault, bounds, Goto, TypeOK
  <2>2. ModeEndpoint # 0
    BY <1>1, <2>1
  <2>3. Len(frames[t]) = 1 => Outermost(t)' = "entered"
    <3> SUFFICES ASSUME Len(frames[t]) = 1 PROVE Outermost(t)' = "entered"
      OBVIOUS
    <3>a. Len(frames[t]) # 0
      OBVIOUS
    <3>b. Tail(frames[t]) \in Seq(Context) /\ Tail(frames[t]) = <<>>
      BY <1>1, <3>a, TailOf, Zenon
    <3>1. Tail(frames[t]) \in Seq(Context) /\ Len(Tail(frames[t])) = 0
      BY <3>b, EmptySeq
    <3> QED
      BY <2>1, <3>1, OnTop DEF Outermost, Context
  <2> QED
    BY <1>1, <2>1, <2>2, <2>3 DEF ModeInv
<1>3. CASE ModeEndpointMissing(t)
  <2>1. SUFFICES ASSUME faults' = 0 PROVE ModeInv(t)'
    BY DEF ModeInv
  <2>2. faults = 0 /\ mode' = mode /\ frames' = frames /\ cand[t] # ModeEndpoint
    BY <1>1, <1>3, <2>1 DEF ModeEndpointMissing, Fails, Fault, NoFault, bounds, deviceVars
  <2>3. \/ pc' = pc /\ cand'[t] = cand[t] + 1
        \/ pc'[t] = "body" /\ ~(cand[t] < Candidates)
    BY <1>1, <1>3 DEF ModeEndpointMissing, NextCandidate, Goto, TypeOK
  <2>4. ModeEndpoint # 0 =>
           cand[t] + 1 <= ModeEndpoint /\ cand[t] < Candidates
    BY <1>1, <2>2, EndpointAssumption DEF ModeInv
  <2> QED
    BY <1>1, <2>2, <2>3, <2>4 DEF ModeInv, AllBare
<1> QED
  BY <1>2, <1>3

LEMMA ResolvesKeepMode ==
    ASSUME NEW t, Task = {t}, Alone(t), ModeInv(t), Committed(t) \/ RolledBack(t)
    PROVE  ModeInv(t)'
<1>1. /\ t \in Task /\ TypeOK /\ frames[t] \in Seq(Context) /\ Leaving(t) /\ InBlock(t)
      /\ pc[t] \in {"commit", "rollback"} /\ Len(frames[t]) = 1 /\ LeaveModeOrBlock(t)
      /\ faults \in Nat
  BY StackOf DEF Alone, TransactionInv, TypeOK, LoneInv, Leaving, Committed, RolledBack
<1>2. mode' = mode /\ (faults' = 0 => faults = 0)
  BY <1>1 DEF Committed, RolledBack, Succeeds, Fails, Fault, NoFault, bounds, SaveStaged,
         DropStaged, deviceVars
<1>3. Head(frames[t]) = Outermost(t) /\ (AllBare(t) => Outermost(t) = "bare")
  BY <1>1 DEF Outermost, AllBare
<1>4. ModeEndpoint # 0 => 1 <= ModeEndpoint
  BY EndpointAssumption
<1>5. CASE Head(frames[t]) = "entered"
  <2>1. frames' = frames /\ pc'[t] = "leave" /\ cand'[t] = 1
    BY <1>1, <1>5 DEF LeaveModeOrBlock, Goto, TypeOK
  <2> QED
    BY <1>1, <1>2, <1>3, <1>4, <1>5, <2>1 DEF ModeInv, AllBare, InBlock
<1>6. CASE Head(frames[t]) # "entered"
  <2>1. Leave(t, flow[t])
    BY <1>1, <1>6 DEF LeaveModeOrBlock
  <2>2. frames'[t] = <<>> /\ pc'[t] = "body" /\ ~InBlock(t)'
    BY <1>1, <2>1, LeavesAlone DEF InBlock
  <2>3. faults' = 0 => mode' = "exec"
    BY <1>1, <1>2, <1>3, <1>6 DEF ModeInv
  <2> QED
    BY <1>1, <2>2, <2>3, ModeOutside DEF ModeInv
<1> QED
  BY <1>5, <1>6

LEMMA LeavesKeepMode ==
    ASSUME NEW t, Task = {t}, Alone(t), ModeInv(t), ModeLeft(t) \/ LeaveModeFails(t)
    PROVE  ModeInv(t)'
<1>1. /\ t \in Task /\ TypeOK /\ Leaving(t) /\ InBlock(t) /\ pc[t] = "leave"
      /\ faults \in Nat /\ cand[t] \in 1..Candidates
  BY StackOf DEF Alone, TransactionInv, TypeOK, Leaving, ModeLeft, LeaveModeFails
<1>2. SUFFICES ASSUME faults' = 0 PROVE ModeInv(t)'
  BY DEF ModeInv
<1>3. Leave(t, flow[t]) => frames'[t] = <<>> /\ pc'[t] = "body" /\ ~InBlock(t)'
  BY <1>1, LeavesAlone DEF InBlock
<1>4. CASE ModeLeft(t)
  <2>1. mode' = "exec" /\ Leave(t, flow[t])
    BY <1>4 DEF ModeLeft, Succeeds, SetMode
  <2> QED
    BY <1>1, <1>3, <2>1, ModeOutside
<1>5. CASE LeaveModeFails(t)
  <2>1. faults = 0 /\ mode' = mode /\ cand[t] # ModeEndpoint
    BY <1>1, <1>2, <1>5 DEF LeaveModeFails, Fails, Fault, NoFault, bounds, deviceVars
  <2>2. CASE cand[t] < Candidates
    <3>1. frames' = frames /\ pc' = pc /\ cand'[t] = cand[t] + 1
      BY <1>1, <1>5, <2>2 DEF LeaveModeFails, TypeOK
    <3>2. ModeEndpoint # 0 => cand[t] + 1 <= ModeEndpoint
      BY <1>1, <2>1, EndpointAssumption DEF ModeInv
    <3> QED
      BY <1>1, <2>1, <3>1, <3>2 DEF ModeInv, AllBare, InBlock
  <2>3. CASE ~(cand[t] < Candidates)
    <3>1. ModeEndpoint = 0
      BY <1>1, <2>1, <2>3, EndpointAssumption DEF ModeInv
    <3>2. mode' = "exec"
      BY <2>1, <3>1 DEF ModeInv
    <3>3. Leave(t, flow[t])
      BY <1>5, <2>3 DEF LeaveModeFails
    <3> QED
      BY <1>1, <1>3, <3>2, <3>3, ModeOutside
  <2> QED
    BY <2>2, <2>3
<1> QED
  BY <1>4, <1>5

\* Every step keeps the mode's facts.
LEMMA ModeAlone ==
    ASSUME NEW t, Task = {t}, MaxCancels = 0, MaxExpiries = 0, Alone(t),
           ModeInv(t), [Next]_vars
    PROVE  ModeInv(t)'
<1>a. /\ t \in Task /\ faults \in Nat
      /\ ~SessionExpires /\ ~CancelEnter(t) /\ ~CancelExit(t)
  BY DEF Alone, TransactionInv, TypeOK, SessionExpires, CancelEnter, CancelExit, Cancel
<1>1. CASE Enter(t) \/ Exit(t)
  BY <1>1, EnterKeepsMode, ExitKeepsMode
<1>2. CASE ModeEntered(t) \/ ModeEndpointMissing(t)
  BY <1>2, TriesKeepMode
<1>3. CASE PutWrite(t)
  <2>1. mode' = mode /\ frames' = frames /\ pc' = pc /\ cand' = cand
        /\ (faults' = 0 => faults = 0)
    BY <1>3, <1>a DEF PutWrite, Succeeds, Fails, Fault, NoFault, bounds, deviceVars
  <2> QED
    BY <1>a, <2>1, ModeStays
<1>4. CASE BodyRaises(t) \/ BodyHandles(t)
  BY <1>4, <1>a, ModeStays DEF BodyRaises, BodyHandles, deviceVars, bounds
<1>5. CASE Committed(t) \/ RolledBack(t)
  BY <1>5, ResolvesKeepMode
<1>6. CASE CommitFails(t)
  BY <1>6, <1>a DEF CommitFails, Fails, Fault, ModeInv
<1>7. CASE ModeLeft(t) \/ LeaveModeFails(t)
  BY <1>7, LeavesKeepMode
<1>8. CASE ManualCommit(t) \/ ManualRollback(t)
  BY <1>8, <1>a, ModeStays
     DEF ManualCommit, ManualRollback, taskVars, Succeeds, Fails, Fault, NoFault, bounds,
         SaveStaged, DropStaged, deviceVars
<1>9. CASE UNCHANGED vars
  BY <1>9, <1>a, ModeStays DEF vars, taskVars, deviceVars, bounds
<1> QED
  BY <1>a, <1>1, <1>2, <1>3, <1>4, <1>5, <1>6, <1>7, <1>8, <1>9 DEF Next

\* Without a failed request the bodies of all blocks, nested ones included, run in
\* config mode where the firmware has it, and the mode ends with the outermost block
\* (_enter_config_mode, _exit_config_mode_if_needed).
THEOREM ModeSpans ==
    ASSUME NEW CONSTANT t, Task = {t}, MaxCancels = 0, MaxExpiries = 0
    PROVE  Spec => []ModeSpansBodies
<1>1. Init => Alone(t) /\ ModeInv(t)
  <2> SUFFICES ASSUME Init PROVE Alone(t) /\ ModeInv(t)
    OBVIOUS
  <2>1. TransactionInv /\ LoneInv(t)
    BY InitInv, InitRefines
  <2>2. AllBare(t)
    BY EmptySeq DEF Init, AllBare
  <2> QED
    BY <2>1, <2>2 DEF Init, Alone, Resolving, ModeInv, InBlock
<1>2. Alone(t) /\ ModeInv(t) /\ [Next]_vars => Alone(t)' /\ ModeInv(t)'
  BY AloneNext, ModeAlone
<1>3. ModeInv(t) => ModeSpansBodies
  BY DEF ModeInv, ModeSpansBodies, AllClosed
<1> QED
  BY <1>1, <1>2, <1>3, PTL DEF Spec
=============================================================================
