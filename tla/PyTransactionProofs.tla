------------------------- MODULE PyTransactionProofs -------------------------
(****************************************************************************)
(* What holds of PyTransaction for every finite set of tasks, every firmware *)
(* and every bound: the types, and that the depth counter shared by all     *)
(* blocks counts the blocks that are open.                                  *)
(****************************************************************************)
EXTENDS PyTransaction, FiniteSetTheorems, SequenceTheorems, TLAPS

\* The inductive invariant.  The counter stays a natural number only because it
\* counts contexts, and a context is left only by the task that is in it.
TransactionInv == TypeOK /\ FramesInv /\ DepthCountsBlocks

----------------------------------------------------------------------------
(* Counting contexts *)

\* There are finitely many contexts.
LEMMA ContextsFinite ==
    ASSUME NEW h
    PROVE  IsFiniteSet(UpTo(h)) /\ Cardinality(UpTo(h)) \in Nat
<1>1. IsFiniteSet(Task) /\ MaxNest \in Nat
  BY TaskAssumption, TransactionBoundsAssumption
<1>2. IsFiniteSet(Task \X (1..MaxNest))
  <2>1. 1 \in Int /\ MaxNest \in Int
    BY <1>1
  <2>2. IsFiniteSet(1..MaxNest)
    BY <2>1, FS_Interval
  <2> QED
    BY <1>1, <2>2, FS_Product, Zenon
<1>3. UpTo(h) \in SUBSET (Task \X (1..MaxNest))
  BY DEF UpTo
<1>4. IsFiniteSet(UpTo(h))
  BY <1>2, <1>3, FS_Subset
<1> QED
  BY <1>4, FS_CardinalityType

\* One more context of one task is one more context.
LEMMA OneMore ==
    ASSUME NEW h \in [Task -> Nat], NEW t \in Task, h[t] < MaxNest
    PROVE  Cardinality(UpTo([h EXCEPT ![t] = h[t] + 1])) = Cardinality(UpTo(h)) + 1
<1> DEFINE k == [h EXCEPT ![t] = h[t] + 1]
           new == <<t, h[t] + 1>>
<1>1. MaxNest \in Nat /\ h[t] \in Nat
  BY TransactionBoundsAssumption
<1>2. new \in Task \X (1..MaxNest) /\ new \notin UpTo(h)
  BY <1>1 DEF UpTo
<1>3. UpTo(k) = UpTo(h) \cup {new}
  <2>1. ASSUME NEW u \in Task, NEW i \in 1..MaxNest
        PROVE  <<u, i>> \in UpTo(k) <=> <<u, i>> \in UpTo(h) \cup {new}
    <3>1. CASE u = t
      BY <1>1, <3>1 DEF UpTo
    <3>2. CASE u # t
      BY <1>1, <3>2 DEF UpTo
    <3> QED
      BY <3>1, <3>2
  <2> QED
    BY <1>2, <2>1 DEF UpTo
<1>4. Cardinality(UpTo(h) \cup {new}) = Cardinality(UpTo(h)) + 1
  BY <1>2, ContextsFinite, FS_AddElement
<1> QED
  BY <1>3, <1>4

\* One context of one task less is one context less.
LEMMA OneLess ==
    ASSUME NEW h \in [Task -> Nat], NEW t \in Task, h[t] \in 1..MaxNest
    PROVE  Cardinality(UpTo([h EXCEPT ![t] = h[t] - 1])) = Cardinality(UpTo(h)) - 1
<1> DEFINE k == [h EXCEPT ![t] = h[t] - 1]
<1>1. MaxNest \in Nat /\ h[t] - 1 \in Nat /\ h[t] - 1 < MaxNest
  BY TransactionBoundsAssumption
<1>2. k \in [Task -> Nat] /\ k[t] = h[t] - 1
  BY <1>1
<1>3. [k EXCEPT ![t] = k[t] + 1] = h
  <2>1. k[t] + 1 = h[t]
    BY <1>1, <1>2
  <2>2. [k EXCEPT ![t] = h[t]] = h
    BY Zenon
  <2> QED
    BY <2>1, <2>2
<1>4. Cardinality(UpTo(h)) = Cardinality(UpTo(k)) + 1
  BY <1>1, <1>2, <1>3, OneMore
<1>5. Cardinality(UpTo(k)) \in Nat
  BY ContextsFinite
<1> QED
  BY <1>4, <1>5

\* How many contexts a task holds is a number within the bound.
LEMMA HeldType ==
    ASSUME TypeOK, FramesInv
    PROVE  /\ held \in [Task -> Nat]
           /\ \A t \in Task : held[t] <= MaxNest
<1> SUFFICES ASSUME NEW t \in Task
             PROVE  held[t] \in Nat /\ held[t] <= MaxNest
  BY DEF held
<1>1. frames[t] \in Seq(Context) /\ Len(frames[t]) <= MaxNest
  BY DEF TypeOK, FramesInv
<1>2. Len(frames[t]) \in Nat /\ MaxNest \in Nat
  BY <1>1, LenProperties, TransactionBoundsAssumption
<1>3. Leaving(t) => Len(frames[t]) >= 1
  <2>1. Leaving(t) => frames[t] # <<>>
    BY DEF Leaving, FramesInv, InBlock
  <2> QED
    BY <1>1, <1>2, <2>1, EmptySeq
<1> QED
  BY <1>1, <1>2, <1>3 DEF held

\* A step of task t changes what t holds and nobody else's count.
LEMMA HeldStep ==
    ASSUME NEW t \in Task,
           \A u \in Task : u # t => pc'[u] = pc[u] /\ frames'[u] = frames[u],
           NEW n,
           n = IF Leaving(t)' THEN Len(frames'[t]) - 1 ELSE Len(frames'[t])
    PROVE  held' = [held EXCEPT ![t] = n]
BY DEF held, Leaving

----------------------------------------------------------------------------
(* What the pieces of the actions do *)

Flow == {"normal", "raising"}
Verdict == {"none", "clean", "raised"}

\* The device's part of the type invariant, and the bounds'.
DeviceType == mode \in Mode /\ staged \subseteq Write /\ saved \subseteq Write
BoundsType == faults \in Nat /\ cancels \in Nat /\ expiries \in Nat

\* A request has one of these effects on the device, or none.
LEMMA Effects ==
    ASSUME TypeOK, SaveStaged \/ DropStaged \/ SetMode("config")
                   \/ SetMode("exec") \/ UNCHANGED deviceVars
    PROVE  DeviceType'
<1>1. DeviceType
  BY DEF TypeOK, DeviceType
<1>2. CASE SaveStaged
  BY <1>1, <1>2 DEF SaveStaged, DeviceType
<1>3. CASE DropStaged
  BY <1>1, <1>3 DEF DropStaged, DeviceType
<1>4. CASE SetMode("config")
  BY <1>1, <1>4 DEF SetMode, DeviceType, Mode
<1>5. CASE SetMode("exec")
  BY <1>1, <1>5 DEF SetMode, DeviceType, Mode
<1>6. CASE UNCHANGED deviceVars
  BY <1>1, <1>6 DEF deviceVars, DeviceType
<1> QED
  BY <1>2, <1>3, <1>4, <1>5, <1>6

\* The bounds only count upwards.
LEMMA Counting ==
    ASSUME TypeOK, Fault \/ NoFault
    PROVE  BoundsType' /\ cancels' = cancels
BY DEF TypeOK, BoundsType, Fault, NoFault, bounds

\* Leaving a block takes one context off the stack of the task and returns it
\* to the code around the block.
LEMMA LeaveEffect ==
    ASSUME TypeOK, FramesInv, NEW t \in Task, InBlock(t), NEW how \in Flow,
           Leave(t, how)
    PROVE  /\ frames' \in [Task -> Seq(Context)]
           /\ pc' \in [Task -> Place] /\ pc'[t] = "body"
           /\ cand' \in [Task -> 1..Candidates]
           /\ flow' \in [Task -> Flow]
           /\ verdict' \in [Task -> Verdict]
           /\ block' = block /\ wrote' = wrote
           /\ Len(frames'[t]) = Len(frames[t]) - 1
           /\ frames'[t] # <<>> => frames[t] # <<>>
           /\ \A u \in Task : u # t => pc'[u] = pc[u] /\ frames'[u] = frames[u]
<1>1. frames[t] \in Seq(Context) /\ frames[t] # <<>>
  BY DEF TypeOK, InBlock
<1>2. Tail(frames[t]) \in Seq(Context) /\ Len(Tail(frames[t])) = Len(frames[t]) - 1
  BY <1>1, HeadTailProperties
<1>3. frames' = [frames EXCEPT ![t] = Tail(frames[t])]
  BY DEF Leave
<1>4. frames \in [Task -> Seq(Context)]
  BY DEF TypeOK
<1>5. /\ frames' \in [Task -> Seq(Context)]
      /\ frames'[t] = Tail(frames[t])
      /\ \A u \in Task : u # t => frames'[u] = frames[u]
  BY <1>2, <1>3, <1>4
<1>6. /\ pc' \in [Task -> Place] /\ pc'[t] = "body"
      /\ \A u \in Task : u # t => pc'[u] = pc[u]
  BY DEF Leave, Goto, TypeOK, Place
<1>7. cand' \in [Task -> 1..Candidates]
  BY EndpointAssumption DEF Leave, Goto, TypeOK
<1>8. flow' \in [Task -> Flow] /\ verdict' \in [Task -> Verdict]
  <2>1. flow \in [Task -> Flow] /\ verdict \in [Task -> Verdict]
    BY DEF TypeOK, Flow, Verdict
  <2>2. CASE Len(frames[t]) > 1
    BY <2>1, <2>2 DEF Leave
  <2>3. CASE ~(Len(frames[t]) > 1)
    <3>1. /\ flow' = [flow EXCEPT ![t] = "normal"]
          /\ verdict' = [verdict EXCEPT
                           ![t] = IF how = "raising" THEN "raised" ELSE "clean"]
      BY <2>3 DEF Leave
    <3>2. "normal" \in Flow /\ "raised" \in Verdict /\ "clean" \in Verdict
      BY DEF Flow, Verdict
    <3> QED
      BY <2>1, <3>1, <3>2
  <2> QED
    BY <2>2, <2>3
<1>9. block' = block /\ wrote' = wrote
  BY DEF Leave
<1> QED
  BY <1>1, <1>2, <1>5, <1>6, <1>7, <1>8, <1>9

\* Going elsewhere within a block changes nothing else of the task.
LEMMA GotoEffect ==
    ASSUME TypeOK, NEW t \in Task, NEW where \in Place, Goto(t, where)
    PROVE  /\ pc' \in [Task -> Place] /\ pc'[t] = where
           /\ cand' \in [Task -> 1..Candidates]
           /\ \A u \in Task : u # t => pc'[u] = pc[u]
BY EndpointAssumption DEF TypeOK, Goto

----------------------------------------------------------------------------
(* Every step of a task preserves the invariant if its parts do *)

\* The types, put together from those of the parts a step may change.
LEMMA Types ==
    ASSUME depth' \in Nat,
           frames' \in [Task -> Seq(Context)],
           pc' \in [Task -> Place],
           cand' \in [Task -> 1..Candidates],
           flow' \in [Task -> Flow],
           verdict' \in [Task -> Verdict],
           block' \in [Task -> 0..MaxBlocks],
           wrote' \in [Task -> SUBSET Write],
           DeviceType', BoundsType'
    PROVE  TypeOK'
BY DEF TypeOK, DeviceType, BoundsType, Flow, Verdict

\* The stacks, from what a step does to the stack of its own task.
LEMMA Stacks ==
    ASSUME FramesInv, NEW t \in Task,
           \A u \in Task : u # t => /\ pc'[u] = pc[u] /\ frames'[u] = frames[u]
                                    /\ block'[u] = block[u],
           pc'[t] # "body" => frames'[t] # <<>>,
           Len(frames'[t]) <= MaxNest,
           frames'[t] # <<>> => block'[t] >= 1
    PROVE  FramesInv'
BY DEF FramesInv, InBlock

\* The counter, from what a step does to the count of its own task: nothing,
\* or an entry or exit that depth follows, or an exit that it does not follow
\* but that is a cancellation.
LEMMA Depths ==
    ASSUME TypeOK, TypeOK', FramesInv, DepthCountsBlocks, NEW t \in Task,
           \/ /\ held' = held
              /\ depth' = depth /\ cancels' >= cancels
           \/ /\ held' = [held EXCEPT ![t] = held[t] + 1] /\ held[t] < MaxNest
              /\ depth' = depth + 1 /\ cancels' = cancels
           \/ /\ held' = [held EXCEPT ![t] = held[t] - 1] /\ held[t] >= 1
              /\ depth' = depth - 1 /\ cancels' = cancels
           \/ /\ held' = [held EXCEPT ![t] = held[t] - 1] /\ held[t] >= 1
              /\ depth' = depth /\ cancels' = cancels + 1
    PROVE  DepthCountsBlocks'
<1> DEFINE n == Cardinality(UpTo(held))
<1>1. depth \in Nat /\ cancels \in Nat /\ depth' \in Nat /\ cancels' \in Nat
  BY DEF TypeOK
<1>2. n \in Nat /\ depth >= n /\ depth <= n + cancels
  BY ContextsFinite DEF DepthCountsBlocks, Contexts
<1>3. held \in [Task -> Nat] /\ held[t] \in 0..MaxNest
  BY HeldType, TransactionBoundsAssumption
<1>4. Contexts' = UpTo(held')
  BY DEF Contexts, UpTo
<1>5. CASE held' = held /\ depth' = depth /\ cancels' >= cancels
  <2>1. Cardinality(Contexts') = n
    BY <1>4, <1>5
  <2> QED
    BY <1>1, <1>2, <1>5, <2>1 DEF DepthCountsBlocks
<1>6. CASE /\ held' = [held EXCEPT ![t] = held[t] + 1] /\ held[t] < MaxNest
           /\ depth' = depth + 1 /\ cancels' = cancels
  <2>1. Cardinality(Contexts') = n + 1
    BY <1>3, <1>4, <1>6, OneMore
  <2> QED
    BY <1>1, <1>2, <1>6, <2>1 DEF DepthCountsBlocks
<1>7. ASSUME held' = [held EXCEPT ![t] = held[t] - 1], held[t] >= 1
      PROVE  Cardinality(Contexts') = n - 1
  <2>1. held[t] \in 1..MaxNest
    BY <1>3, <1>7, TransactionBoundsAssumption
  <2> QED
    BY <1>3, <1>4, <1>7, <2>1, OneLess
<1>8. CASE /\ held' = [held EXCEPT ![t] = held[t] - 1] /\ held[t] >= 1
           /\ depth' = depth - 1 /\ cancels' = cancels
  BY <1>1, <1>2, <1>7, <1>8 DEF DepthCountsBlocks
<1>9. CASE /\ held' = [held EXCEPT ![t] = held[t] - 1] /\ held[t] >= 1
           /\ depth' = depth /\ cancels' = cancels + 1
  BY <1>1, <1>2, <1>7, <1>9 DEF DepthCountsBlocks
<1> QED
  BY <1>5, <1>6, <1>8, <1>9

----------------------------------------------------------------------------
(* Steps that leave the number of contexts as it is *)

CountOf(t) == IF Leaving(t) THEN Len(frames[t]) - 1 ELSE Len(frames[t])

\* A task that goes on inside its blocks, or returns from an exit whose context
\* is no longer counted.
LEMMA SameCount ==
    ASSUME TransactionInv, NEW t \in Task,
           depth' = depth, cancels' >= cancels,
           frames' \in [Task -> Seq(Context)],
           pc' \in [Task -> Place],
           cand' \in [Task -> 1..Candidates],
           flow' \in [Task -> Flow],
           verdict' \in [Task -> Verdict],
           wrote' \in [Task -> SUBSET Write],
           block' = block,
           DeviceType', BoundsType',
           \A u \in Task : u # t => pc'[u] = pc[u] /\ frames'[u] = frames[u],
           pc'[t] # "body" => frames'[t] # <<>>,
           frames'[t] # <<>> => frames[t] # <<>>,
           Len(frames'[t]) <= Len(frames[t]),
           CountOf(t)' = CountOf(t)
    PROVE  TransactionInv'
<1>1. TypeOK /\ FramesInv /\ DepthCountsBlocks
  BY DEF TransactionInv
<1>2. TypeOK'
  BY <1>1, Types DEF TypeOK
<1>3. frames[t] \in Seq(Context) /\ Len(frames[t]) <= MaxNest
      /\ (frames[t] # <<>> => block[t] >= 1)
  BY <1>1 DEF TypeOK, FramesInv, InBlock
<1>4. Len(frames[t]) \in Nat /\ Len(frames'[t]) \in Nat /\ MaxNest \in Nat
  BY <1>3, LenProperties, TransactionBoundsAssumption
<1>5. FramesInv'
  BY <1>1, <1>3, <1>4, Stacks
<1>6. held' = [held EXCEPT ![t] = CountOf(t)']
  BY HeldStep DEF CountOf
<1>7. CountOf(t) = held[t] /\ held \in [Task -> Nat]
  BY <1>1, HeldType DEF held, CountOf
<1>8. held' = held
  BY <1>6, <1>7
<1>9. DepthCountsBlocks'
  BY <1>1, <1>2, <1>8, Depths
<1> QED
  BY <1>2, <1>5, <1>9 DEF TransactionInv

\* The same for a task that goes on inside the same blocks.
LEMMA SameBlocks ==
    ASSUME TransactionInv, NEW t \in Task,
           depth' = depth, cancels' >= cancels,
           frames' \in [Task -> Seq(Context)],
           Len(frames'[t]) = Len(frames[t]),
           frames'[t] # <<>> <=> frames[t] # <<>>,
           pc' \in [Task -> Place],
           pc'[t] \in {"body", "enter"} <=> pc[t] \in {"body", "enter"},
           pc'[t] # "body" => pc[t] # "body",
           cand' \in [Task -> 1..Candidates],
           flow' \in [Task -> Flow],
           verdict' \in [Task -> Verdict],
           wrote' \in [Task -> SUBSET Write],
           block' = block,
           DeviceType', BoundsType',
           \A u \in Task : u # t => pc'[u] = pc[u] /\ frames'[u] = frames[u]
    PROVE  TransactionInv'
<1>1. frames[t] \in Seq(Context) /\ pc[t] \in Place /\ pc'[t] \in Place
      /\ (pc[t] # "body" => frames[t] # <<>>)
  BY DEF TransactionInv, TypeOK, FramesInv, InBlock
<1>2. Len(frames[t]) \in Nat
  BY <1>1, LenProperties
<1>3. Leaving(t)' <=> Leaving(t)
  BY <1>1 DEF Leaving, Place
<1>4. CountOf(t)' = CountOf(t)
  BY <1>3 DEF CountOf
<1>5. Len(frames'[t]) <= Len(frames[t])
  BY <1>2
<1>6. pc'[t] # "body" => frames'[t] # <<>>
  BY <1>1, Zenon
<1> QED
  BY <1>4, <1>5, <1>6, SameCount

\* The same for a task that returns from an exit.
LEMMA ExitReturns ==
    ASSUME TransactionInv, NEW t \in Task,
           pc[t] \in {"commit", "rollback", "leave"},
           NEW how \in Flow, Leave(t, how),
           depth' = depth, cancels' >= cancels, DeviceType', BoundsType'
    PROVE  TransactionInv'
<1>1. TypeOK /\ FramesInv /\ InBlock(t)
  BY DEF TransactionInv, FramesInv
<1>2. frames[t] \in Seq(Context) /\ wrote \in [Task -> SUBSET Write]
  BY <1>1 DEF TypeOK
<1>3. Len(frames[t]) \in Nat
  BY <1>2, LenProperties
<1>4. /\ frames' \in [Task -> Seq(Context)]
      /\ pc' \in [Task -> Place] /\ pc'[t] = "body"
      /\ cand' \in [Task -> 1..Candidates]
      /\ flow' \in [Task -> Flow]
      /\ verdict' \in [Task -> Verdict]
      /\ block' = block /\ wrote' = wrote
      /\ Len(frames'[t]) = Len(frames[t]) - 1
      /\ frames'[t] # <<>> => frames[t] # <<>>
      /\ \A u \in Task : u # t => pc'[u] = pc[u] /\ frames'[u] = frames[u]
  BY <1>1, LeaveEffect
<1>5. Leaving(t) /\ ~Leaving(t)'
  BY <1>4 DEF Leaving
<1>6. CountOf(t)' = CountOf(t)
  BY <1>4, <1>5 DEF CountOf
<1>7. wrote' \in [Task -> SUBSET Write] /\ Len(frames'[t]) <= Len(frames[t])
  BY <1>2, <1>3, <1>4
<1> QED
  BY <1>4, <1>6, <1>7, SameCount

\* What the invariant says of the parts of the state a step leaves alone.
LEMMA Parts ==
    ASSUME TransactionInv
    PROVE  /\ frames \in [Task -> Seq(Context)]
           /\ pc \in [Task -> Place]
           /\ cand \in [Task -> 1..Candidates]
           /\ flow \in [Task -> Flow]
           /\ verdict \in [Task -> Verdict]
           /\ wrote \in [Task -> SUBSET Write]
           /\ block \in [Task -> 0..MaxBlocks]
           /\ DeviceType /\ BoundsType /\ depth \in Nat
BY DEF TransactionInv, TypeOK, Flow, Verdict, DeviceType, BoundsType

----------------------------------------------------------------------------
(* The steps of a block: one lemma per action *)

LEMMA ModeEnteredStep ==
    ASSUME TransactionInv, NEW t \in Task, ModeEntered(t)
    PROVE  TransactionInv'
<1>1. TypeOK /\ InBlock(t) /\ pc[t] = "enter"
  BY DEF TransactionInv, FramesInv, ModeEntered
<1>2. frames[t] \in Seq(Context) /\ frames[t] # <<>>
  BY <1>1 DEF TypeOK, InBlock
<1>3. Tail(frames[t]) \in Seq(Context) /\ Len(Tail(frames[t])) = Len(frames[t]) - 1
  BY <1>2, HeadTailProperties
<1>4. <<"entered">> \in Seq(Context) /\ Len(<<"entered">>) = 1
  BY DEF Context
<1> DEFINE stack == <<"entered">> \o Tail(frames[t])
<1>5. Len(frames[t]) \in Nat \ {0}
  BY <1>2, EmptySeq
<1>6. stack \in Seq(Context) /\ Len(stack) = Len(frames[t])
  BY <1>3, <1>4, <1>5, ConcatProperties
<1>7. stack # <<>>
  BY <1>5, <1>6, EmptySeq
<1>8. frames' = [frames EXCEPT ![t] = stack]
  BY DEF ModeEntered
<1>9. frames' \in [Task -> Seq(Context)] /\ frames'[t] = stack
      /\ \A u \in Task : u # t => frames'[u] = frames[u]
  BY <1>6, <1>8, Parts
<1>10. Goto(t, "body") /\ "body" \in Place
  BY DEF ModeEntered, Place
<1>11. /\ pc' \in [Task -> Place] /\ pc'[t] = "body"
       /\ cand' \in [Task -> 1..Candidates]
       /\ \A u \in Task : u # t => pc'[u] = pc[u]
  BY <1>1, <1>10, GotoEffect
<1>12. SetMode("config") /\ NoFault
  BY DEF ModeEntered, Succeeds
<1>13. DeviceType' /\ BoundsType' /\ cancels' = cancels
  BY <1>1, <1>12, Effects, Counting
<1>14. UNCHANGED <<depth, flow, verdict, block, wrote>> /\ cancels' >= cancels
  BY <1>13, Parts DEF ModeEntered, BoundsType
<1> QED
  BY <1>1, <1>2, <1>6, <1>7, <1>9, <1>11, <1>13, <1>14, Parts, SameBlocks

LEMMA ModeEndpointMissingStep ==
    ASSUME TransactionInv, NEW t \in Task, ModeEndpointMissing(t)
    PROVE  TransactionInv'
<1>1. TypeOK /\ pc[t] = "enter"
  BY DEF TransactionInv, ModeEndpointMissing
<1>2. DeviceType' /\ BoundsType' /\ cancels' = cancels
  BY <1>1, Effects, Counting DEF ModeEndpointMissing, Fails
<1>3. /\ pc' \in [Task -> Place] /\ pc'[t] \in {"body", "enter"}
      /\ cand' \in [Task -> 1..Candidates]
      /\ \A u \in Task : u # t => pc'[u] = pc[u]
  <2>1. CASE cand[t] < Candidates
    <3>1. cand' = [cand EXCEPT ![t] = cand[t] + 1] /\ pc' = pc
      BY <2>1 DEF ModeEndpointMissing, NextCandidate
    <3>2. cand[t] + 1 \in 1..Candidates
      BY <2>1, Parts, EndpointAssumption
    <3> QED
      BY <1>1, <3>1, <3>2, Parts
  <2>2. CASE ~(cand[t] < Candidates)
    <3>1. Goto(t, "body") /\ "body" \in Place
      BY <2>2 DEF ModeEndpointMissing, NextCandidate, Place
    <3> QED
      BY <1>1, <3>1, GotoEffect
  <2> QED
    BY <2>1, <2>2
<1>4. UNCHANGED <<depth, frames, flow, verdict, block, wrote>>
      /\ cancels' >= cancels
  BY <1>2, Parts DEF ModeEndpointMissing, BoundsType
<1> QED
  BY <1>1, <1>2, <1>3, <1>4, Parts, SameBlocks

LEMMA PutWriteStep ==
    ASSUME TransactionInv, NEW t \in Task, PutWrite(t)
    PROVE  TransactionInv'
<1>1. TypeOK /\ pc[t] = "body" /\ frames[t] # <<>> /\ block[t] >= 1
  BY DEF TransactionInv, FramesInv, InBlock, PutWrite
<1>2. PICK n \in 1..MaxWrites :
        LET w == <<t, block[t], n>>
            Stage == /\ staged' = staged \cup {w}
                     /\ UNCHANGED <<saved, mode>>
        IN \/ /\ Succeeds(Stage)
              /\ wrote' = [wrote EXCEPT ![t] = @ \cup {w}]
              /\ UNCHANGED flow
           \/ /\ Fails(Stage)
              /\ flow' = [flow EXCEPT ![t] = "raising"]
              /\ UNCHANGED wrote
  BY DEF PutWrite
<1> DEFINE w == <<t, block[t], n>>
<1>3. w \in Write
  <2>1. block[t] \in 1..MaxBlocks
    BY <1>1, Parts, TransactionBoundsAssumption
  <2> QED
    BY <2>1 DEF Write
<1>4. BoundsType' /\ cancels' = cancels
  BY <1>1, <1>2, Counting DEF Succeeds, Fails
<1>5. DeviceType'
  <2>1. DeviceType
    BY Parts
  <2>2. CASE staged' = staged \cup {w} /\ UNCHANGED <<saved, mode>>
    BY <1>3, <2>1, <2>2 DEF DeviceType
  <2>3. CASE UNCHANGED deviceVars
    BY <2>1, <2>3 DEF DeviceType, deviceVars
  <2> QED
    BY <1>2, <2>2, <2>3 DEF Succeeds, Fails
<1>6. wrote' \in [Task -> SUBSET Write] /\ flow' \in [Task -> Flow]
  BY <1>2, <1>3, Parts DEF Flow
<1>7. UNCHANGED <<depth, frames, pc, cand, verdict, block>> /\ cancels' >= cancels
  BY <1>4, Parts DEF PutWrite, BoundsType
<1> HIDE DEF w
<1> QED
  BY <1>1, <1>4, <1>5, <1>6, <1>7, Parts, SameBlocks

LEMMA BodyStep ==
    ASSUME TransactionInv, NEW t \in Task, BodyRaises(t) \/ BodyHandles(t)
    PROVE  TransactionInv'
<1>1. pc[t] = "body" /\ flow' \in [Task -> Flow]
  BY Parts DEF BodyRaises, BodyHandles, Flow
<1>2. UNCHANGED <<depth, frames, pc, cand, verdict, block, wrote, deviceVars,
                  bounds>>
  BY DEF BodyRaises, BodyHandles
<1>3. DeviceType' /\ BoundsType' /\ cancels' >= cancels
  BY <1>2, Parts DEF DeviceType, BoundsType, deviceVars, bounds
<1> QED
  BY <1>1, <1>2, <1>3, Parts, SameBlocks

\* After the commit or the rollback the exit goes on with the end of config
\* mode, or returns.
LEMMA ResolvedStep ==
    ASSUME TransactionInv, NEW t \in Task, pc[t] \in {"commit", "rollback"},
           LeaveModeOrBlock(t), UNCHANGED depth,
           DeviceType', BoundsType', cancels' = cancels
    PROVE  TransactionInv'
<1>1. cancels' >= cancels /\ TypeOK /\ flow[t] \in Flow
  BY Parts DEF BoundsType, TransactionInv
<1>2. CASE Head(frames[t]) = "entered"
  <2>1. Goto(t, "leave") /\ UNCHANGED <<frames, flow, verdict, block, wrote>>
        /\ "leave" \in Place
    BY <1>2 DEF LeaveModeOrBlock, Place
  <2>2. /\ pc' \in [Task -> Place] /\ pc'[t] = "leave"
        /\ cand' \in [Task -> 1..Candidates]
        /\ \A u \in Task : u # t => pc'[u] = pc[u]
    BY <1>1, <2>1, GotoEffect
  <2> QED
    BY <1>1, <2>1, <2>2, Parts, SameBlocks
<1>3. CASE Head(frames[t]) # "entered"
  <2>1. Leave(t, flow[t])
    BY <1>3 DEF LeaveModeOrBlock
  <2> QED
    BY <1>1, <2>1, ExitReturns
<1> QED
  BY <1>2, <1>3

LEMMA CommittedStep ==
    ASSUME TransactionInv, NEW t \in Task, Committed(t) \/ RolledBack(t)
    PROVE  TransactionInv'
<1>1. TypeOK
  BY DEF TransactionInv
<1>2. DeviceType' /\ BoundsType' /\ cancels' = cancels
  BY <1>1, Effects, Counting DEF Committed, RolledBack, Succeeds, Fails
<1> QED
  BY <1>2, ResolvedStep DEF Committed, RolledBack

LEMMA CommitFailsStep ==
    ASSUME TransactionInv, NEW t \in Task, CommitFails(t)
    PROVE  TransactionInv'
<1>1. TypeOK
  BY DEF TransactionInv
<1>2. DeviceType' /\ BoundsType' /\ cancels' = cancels
  BY <1>1, Effects, Counting DEF CommitFails, Fails
<1>3. cancels' >= cancels /\ "raising" \in Flow
  BY <1>2, Parts DEF BoundsType, Flow
<1>4. pc[t] = "commit" /\ Leave(t, "raising") /\ depth' = depth
  BY DEF CommitFails
<1> QED
  BY <1>2, <1>3, <1>4, ExitReturns

LEMMA LeaveModeStep ==
    ASSUME TransactionInv, NEW t \in Task, ModeLeft(t) \/ LeaveModeFails(t)
    PROVE  TransactionInv'
<1>1. TypeOK /\ pc[t] = "leave" /\ flow[t] \in Flow
  BY Parts DEF TransactionInv, ModeLeft, LeaveModeFails
<1>2. DeviceType' /\ BoundsType' /\ cancels' = cancels
  BY <1>1, Effects, Counting DEF ModeLeft, LeaveModeFails, Succeeds, Fails
<1>3. cancels' >= cancels /\ depth' = depth
  BY <1>2, Parts DEF BoundsType, ModeLeft, LeaveModeFails
<1>4. CASE Leave(t, flow[t])
  BY <1>1, <1>2, <1>3, <1>4, ExitReturns
<1>5. CASE /\ cand[t] < Candidates
           /\ cand' = [cand EXCEPT ![t] = cand[t] + 1]
           /\ UNCHANGED <<frames, pc, flow, verdict, block, wrote>>
  <2>1. cand' \in [Task -> 1..Candidates]
    BY <1>5, Parts, EndpointAssumption
  <2> QED
    BY <1>1, <1>2, <1>3, <1>5, <2>1, Parts, SameBlocks
<1> QED
  BY <1>4, <1>5 DEF ModeLeft, LeaveModeFails

LEMMA CancelExitStep ==
    ASSUME TransactionInv, NEW t \in Task, CancelExit(t)
    PROVE  TransactionInv'
<1>1. TypeOK
  BY DEF TransactionInv
<1>2. DeviceType'
  BY <1>1, Effects DEF CancelExit
<1>3. BoundsType' /\ cancels' >= cancels
  BY Parts DEF CancelExit, Cancel, BoundsType
<1>4. Leave(t, "raising") /\ depth' = depth /\ "raising" \in Flow
  BY DEF CancelExit, Flow
<1> QED
  BY <1>2, <1>3, <1>4, ExitReturns DEF CancelExit

LEMMA ManualStep ==
    ASSUME TransactionInv, NEW t \in Task, ManualCommit(t) \/ ManualRollback(t)
    PROVE  TransactionInv'
<1>1. TypeOK
  BY DEF TransactionInv
<1>2. DeviceType' /\ BoundsType' /\ cancels' = cancels
  BY <1>1, Effects, Counting DEF ManualCommit, ManualRollback, Succeeds, Fails
<1>3. UNCHANGED <<depth, frames, pc, cand, flow, verdict, block, wrote>>
      /\ cancels' >= cancels
  BY <1>2, Parts DEF ManualCommit, ManualRollback, taskVars, BoundsType
<1> QED
  BY <1>2, <1>3, Parts, SameBlocks

----------------------------------------------------------------------------
(* The steps that enter a block, begin its exit or abandon its entry *)

\* The invariant after a step that changes the count of its task.
LEMMA CountChanges ==
    ASSUME TransactionInv, TypeOK', NEW t \in Task,
           \A u \in Task : u # t => /\ pc'[u] = pc[u] /\ frames'[u] = frames[u]
                                    /\ block'[u] = block[u],
           pc'[t] # "body" => frames'[t] # <<>>,
           Len(frames'[t]) <= MaxNest,
           frames'[t] # <<>> => block'[t] >= 1,
           \/ /\ CountOf(t)' = CountOf(t) + 1
              /\ depth' = depth + 1 /\ cancels' = cancels
           \/ /\ CountOf(t)' = CountOf(t) - 1
              /\ depth' = depth - 1 /\ cancels' = cancels
           \/ /\ CountOf(t)' = CountOf(t) - 1
              /\ depth' = depth /\ cancels' = cancels + 1
    PROVE  TransactionInv'
<1>1. TypeOK /\ FramesInv /\ DepthCountsBlocks
  BY DEF TransactionInv
<1>2. FramesInv'
  BY <1>1, Stacks
<1>3. held' = [held EXCEPT ![t] = CountOf(t)']
  BY HeldStep DEF CountOf
<1>4. CountOf(t)' \in Nat /\ CountOf(t)' <= MaxNest
  <2>1. frames'[t] \in Seq(Context) /\ MaxNest \in Nat
    BY TransactionBoundsAssumption DEF TypeOK
  <2>2. Len(frames'[t]) \in Nat
    BY <2>1, LenProperties
  <2>3. Leaving(t)' => Len(frames'[t]) >= 1
    <3>1. Leaving(t)' => frames'[t] # <<>>
      BY DEF Leaving
    <3> QED
      BY <2>1, <2>2, <3>1, EmptySeq
  <2> QED
    BY <2>1, <2>2, <2>3 DEF CountOf
<1>5. CountOf(t) = held[t] /\ held \in [Task -> Nat]
  BY <1>1, HeldType DEF held, CountOf
<1>6. MaxNest \in Nat /\ held[t] \in Nat
  BY <1>5, TransactionBoundsAssumption
<1>7. DepthCountsBlocks'
  <2>1. CASE CountOf(t)' = CountOf(t) + 1
    <3>1. held' = [held EXCEPT ![t] = held[t] + 1] /\ held[t] < MaxNest
      BY <1>3, <1>4, <1>5, <1>6, <2>1
    <3>2. depth' = depth + 1 /\ cancels' = cancels
      BY <1>5, <1>6, <2>1
    <3> QED
      BY <1>1, <3>1, <3>2, Depths
  <2>2. CASE CountOf(t)' = CountOf(t) - 1
    <3>1. held' = [held EXCEPT ![t] = held[t] - 1] /\ held[t] >= 1
      BY <1>3, <1>4, <1>5, <1>6, <2>2
    <3>2. \/ depth' = depth - 1 /\ cancels' = cancels
          \/ depth' = depth /\ cancels' = cancels + 1
      BY <1>5, <1>6, <2>2
    <3> QED
      BY <1>1, <3>1, <3>2, Depths
  <2> QED
    BY <2>1, <2>2
<1> QED
  BY <1>2, <1>7 DEF TransactionInv

LEMMA EnterStep ==
    ASSUME TransactionInv, NEW t \in Task, Enter(t)
    PROVE  TransactionInv'
<1>1. TypeOK /\ pc[t] = "body" /\ Len(frames[t]) < MaxNest
      /\ frames[t] \in Seq(Context) /\ block[t] \in 0..MaxBlocks
      /\ (frames[t] # <<>> => block[t] >= 1)
  BY DEF TransactionInv, TypeOK, FramesInv, InBlock, Enter
<1>2. MaxNest \in Nat /\ MaxBlocks \in Nat /\ Len(frames[t]) \in Nat
  BY <1>1, LenProperties, TransactionBoundsAssumption
<1>3. <<"bare">> \in Seq(Context) /\ Len(<<"bare">>) = 1
  BY DEF Context
<1> DEFINE stack == <<"bare">> \o frames[t]
<1>4. stack \in Seq(Context) /\ Len(stack) = Len(frames[t]) + 1
  BY <1>1, <1>2, <1>3, ConcatProperties
<1>5. stack # <<>>
  BY <1>2, <1>4, EmptySeq
<1>6. frames' = [frames EXCEPT ![t] = stack]
  BY DEF Enter
<1>7. frames' \in [Task -> Seq(Context)] /\ frames'[t] = stack
      /\ \A u \in Task : u # t => frames'[u] = frames[u]
  BY <1>4, <1>6, Parts
<1>8. PICK where \in {"enter", "body"} : Goto(t, where)
  BY DEF Enter
<1>9. where \in Place
  BY <1>8 DEF Place
<1>10. /\ pc' \in [Task -> Place] /\ pc'[t] = where
       /\ cand' \in [Task -> 1..Candidates]
       /\ \A u \in Task : u # t => pc'[u] = pc[u]
  BY <1>1, <1>8, <1>9, GotoEffect
<1>11. /\ block' \in [Task -> 0..MaxBlocks] /\ block'[t] >= 1
       /\ \A u \in Task : u # t => block'[u] = block[u]
       /\ wrote' \in [Task -> SUBSET Write]
       /\ verdict' \in [Task -> Verdict]
  <2>1. CASE InBlock(t)
    BY <1>1, <2>1, Parts DEF Enter, InBlock
  <2>2. CASE ~InBlock(t)
    <3>1. /\ block[t] < MaxBlocks
          /\ block' = [block EXCEPT ![t] = block[t] + 1]
          /\ wrote' = [wrote EXCEPT ![t] = {}]
          /\ verdict' = [verdict EXCEPT ![t] = "none"]
      BY <2>2 DEF Enter
    <3>2. block[t] + 1 \in 0..MaxBlocks /\ block[t] + 1 >= 1
      BY <1>1, <1>2, <3>1
    <3> QED
      BY <3>1, <3>2, Parts DEF Verdict
  <2> QED
    BY <2>1, <2>2
<1>12. depth' = depth + 1 /\ flow' = flow /\ UNCHANGED deviceVars
       /\ UNCHANGED bounds
  BY DEF Enter, Counted
<1>13. DeviceType' /\ BoundsType' /\ cancels' = cancels /\ depth' \in Nat
  BY <1>12, Parts DEF DeviceType, BoundsType, deviceVars, bounds
<1>14. TypeOK'
  BY <1>7, <1>10, <1>11, <1>12, <1>13, Parts, Types
<1>15. CountOf(t) = Len(frames[t]) /\ CountOf(t)' = Len(frames[t]) + 1
  <2>1. ~Leaving(t) /\ ~Leaving(t)'
    BY <1>1, <1>8, <1>10 DEF Leaving
  <2> QED
    BY <1>4, <1>7, <2>1 DEF CountOf
<1>16. Len(frames'[t]) <= MaxNest /\ frames'[t] # <<>>
  BY <1>1, <1>2, <1>4, <1>5, <1>7
<1> HIDE DEF stack
<1> QED
  BY <1>7, <1>10, <1>11, <1>12, <1>13, <1>14, <1>15, <1>16, CountChanges

\* A task that is in a block has been counted.
LEMMA OpenIsCounted ==
    ASSUME TransactionInv, NEW t \in Task, InBlock(t), ~Leaving(t)
    PROVE  /\ frames[t] \in Seq(Context) /\ Len(frames[t]) \in Nat \ {0}
           /\ Len(frames[t]) <= MaxNest
           /\ CountOf(t) = Len(frames[t])
           /\ depth >= 1
<1>1. TypeOK /\ FramesInv /\ DepthCountsBlocks
  BY DEF TransactionInv
<1>2. frames[t] \in Seq(Context) /\ frames[t] # <<>> /\ Len(frames[t]) <= MaxNest
  BY <1>1 DEF TypeOK, FramesInv, InBlock
<1>3. Len(frames[t]) \in Nat \ {0} /\ MaxNest \in Nat
  BY <1>2, EmptySeq, TransactionBoundsAssumption
<1>4. held[t] = Len(frames[t])
  BY DEF held
<1>5. <<t, 1>> \in Contexts
  BY <1>3, <1>4, <1>2 DEF Contexts, UpTo
<1>6. Cardinality(Contexts) \in Nat /\ Cardinality(Contexts) # 0
  BY <1>5, ContextsFinite, FS_EmptySet DEF Contexts
<1> QED
  BY <1>1, <1>2, <1>3, <1>6, Parts DEF DepthCountsBlocks, CountOf

LEMMA ExitStep ==
    ASSUME TransactionInv, NEW t \in Task, Exit(t)
    PROVE  TransactionInv'
<1>1. TypeOK /\ FramesInv /\ pc[t] = "body" /\ InBlock(t) /\ ~Leaving(t)
  BY DEF TransactionInv, Exit, Leaving
<1>2. /\ frames[t] \in Seq(Context) /\ Len(frames[t]) \in Nat \ {0}
      /\ Len(frames[t]) <= MaxNest
      /\ CountOf(t) = Len(frames[t])
      /\ depth >= 1
  BY <1>1, OpenIsCounted
<1>3. frames[t] # <<>> /\ block[t] >= 1
  BY <1>1 DEF FramesInv, InBlock
<1>4. depth' = depth - 1 /\ depth' \in Nat /\ UNCHANGED <<deviceVars, bounds>>
  BY <1>2, Parts DEF Exit
<1>5. DeviceType' /\ BoundsType' /\ cancels' = cancels
  BY <1>4, Parts DEF DeviceType, BoundsType, deviceVars, bounds
<1>6. CASE Nested
  <2>1. Leave(t, flow[t]) /\ flow[t] \in Flow
    BY <1>6, Parts DEF Exit
  <2>2. /\ frames' \in [Task -> Seq(Context)]
        /\ pc' \in [Task -> Place] /\ pc'[t] = "body"
        /\ cand' \in [Task -> 1..Candidates]
        /\ flow' \in [Task -> Flow]
        /\ verdict' \in [Task -> Verdict]
        /\ block' = block /\ wrote' = wrote
        /\ Len(frames'[t]) = Len(frames[t]) - 1
        /\ \A u \in Task : u # t => pc'[u] = pc[u] /\ frames'[u] = frames[u]
    BY <1>1, <2>1, LeaveEffect
  <2>3. TypeOK'
    BY <1>4, <1>5, <2>2, Parts, Types
  <2>4. CountOf(t)' = CountOf(t) - 1
    BY <1>2, <2>2 DEF CountOf, Leaving
  <2>5. Len(frames'[t]) <= MaxNest
    BY <1>2, <2>2, TransactionBoundsAssumption
  <2> QED
    BY <1>3, <1>4, <1>5, <2>2, <2>3, <2>4, <2>5, CountChanges
<1>7. CASE ~Nested
  <2>1. PICK where \in {"commit", "rollback"} : Goto(t, where)
    BY <1>7 DEF Exit, Resolution
  <2>2. where \in Place
    BY <2>1 DEF Place
  <2>3. UNCHANGED <<frames, flow, verdict, block, wrote>>
    BY <1>7 DEF Exit
  <2>4. /\ pc' \in [Task -> Place] /\ pc'[t] = where
        /\ cand' \in [Task -> 1..Candidates]
        /\ \A u \in Task : u # t => pc'[u] = pc[u]
    BY <1>1, <2>1, <2>2, GotoEffect
  <2>5. TypeOK'
    BY <1>4, <1>5, <2>3, <2>4, Parts, Types
  <2>6. CountOf(t)' = CountOf(t) - 1
    BY <1>2, <2>1, <2>3, <2>4 DEF CountOf, Leaving
  <2> QED
    BY <1>2, <1>3, <1>4, <1>5, <2>3, <2>4, <2>5, <2>6, CountChanges
<1> QED
  BY <1>6, <1>7

LEMMA CancelEnterStep ==
    ASSUME TransactionInv, NEW t \in Task, CancelEnter(t)
    PROVE  TransactionInv'
<1>1. TypeOK /\ FramesInv /\ pc[t] = "enter" /\ InBlock(t) /\ ~Leaving(t)
  BY DEF TransactionInv, FramesInv, CancelEnter, Leaving
<1>2. /\ frames[t] \in Seq(Context) /\ Len(frames[t]) \in Nat \ {0}
      /\ Len(frames[t]) <= MaxNest
      /\ CountOf(t) = Len(frames[t])
  BY <1>1, OpenIsCounted
<1>3. block[t] >= 1
  BY <1>1 DEF FramesInv
<1>4. Leave(t, "raising") /\ depth' = depth /\ "raising" \in Flow
  BY DEF CancelEnter, Flow
<1>5. DeviceType'
  BY <1>1, Effects DEF CancelEnter
<1>6. BoundsType' /\ cancels' = cancels + 1
  BY Parts DEF CancelEnter, Cancel, BoundsType
<1>7. /\ frames' \in [Task -> Seq(Context)]
      /\ pc' \in [Task -> Place] /\ pc'[t] = "body"
      /\ cand' \in [Task -> 1..Candidates]
      /\ flow' \in [Task -> Flow]
      /\ verdict' \in [Task -> Verdict]
      /\ block' = block /\ wrote' = wrote
      /\ Len(frames'[t]) = Len(frames[t]) - 1
      /\ \A u \in Task : u # t => pc'[u] = pc[u] /\ frames'[u] = frames[u]
  BY <1>1, <1>4, LeaveEffect
<1>8. TypeOK'
  BY <1>4, <1>5, <1>6, <1>7, Parts, Types
<1>9. CountOf(t)' = CountOf(t) - 1
  BY <1>2, <1>7 DEF CountOf, Leaving
<1>10. Len(frames'[t]) <= MaxNest
  BY <1>2, <1>7, TransactionBoundsAssumption
<1> QED
  BY <1>3, <1>4, <1>6, <1>7, <1>8, <1>9, <1>10, CountChanges

LEMMA ExpiryStep ==
    ASSUME TransactionInv, SessionExpires
    PROVE  TransactionInv'
<1>1. TypeOK /\ FramesInv /\ DepthCountsBlocks
  BY DEF TransactionInv
<1>2. UNCHANGED <<depth, frames, pc, cand, flow, verdict, block, wrote, saved,
                  faults, cancels>>
  BY DEF SessionExpires, taskVars
<1>3. DeviceType' /\ BoundsType'
  BY <1>2, Parts DEF SessionExpires, DeviceType, BoundsType, Mode
<1>4. TypeOK' /\ FramesInv'
  BY <1>1, <1>2, <1>3, Parts, Types DEF FramesInv, InBlock
<1>5. Contexts' = Contexts
  BY <1>2 DEF Contexts, UpTo, held, Leaving
<1> QED
  BY <1>1, <1>2, <1>4, <1>5 DEF TransactionInv, DepthCountsBlocks

----------------------------------------------------------------------------
(* The theorems *)

LEMMA InitInv == Init => TransactionInv
<1> SUFFICES ASSUME Init PROVE TransactionInv
  OBVIOUS
<1>1. <<>> \in Seq(Context) /\ Len(<<>>) = 0
  BY EmptySeq
<1>2. TypeOK
  BY <1>1, EndpointAssumption, TransactionBoundsAssumption
  DEF Init, TypeOK, Place, Mode
<1>3. FramesInv
  BY <1>1, TransactionBoundsAssumption DEF Init, FramesInv, InBlock
<1>4. \A t \in Task : held[t] = 0
  BY <1>1 DEF Init, held, Leaving
<1>5. Contexts = {}
  BY <1>4, TransactionBoundsAssumption DEF Contexts, UpTo
<1>6. DepthCountsBlocks
  BY <1>5, FS_EmptySet DEF DepthCountsBlocks, Init
<1> QED
  BY <1>2, <1>3, <1>6 DEF TransactionInv

LEMMA NextInv == TransactionInv /\ [Next]_vars => TransactionInv'
<1> SUFFICES ASSUME TransactionInv, [Next]_vars PROVE TransactionInv'
  OBVIOUS
<1>1. CASE UNCHANGED vars
  <2>1. UNCHANGED <<depth, frames, pc, cand, flow, verdict, block, wrote, mode,
                    staged, saved, faults, cancels, expiries>>
    BY <1>1 DEF vars, taskVars, deviceVars, bounds
  <2>2. TypeOK' /\ FramesInv'
    BY <2>1 DEF TransactionInv, TypeOK, FramesInv, InBlock
  <2>3. Contexts' = Contexts
    BY <2>1 DEF Contexts, UpTo, held, Leaving
  <2> QED
    BY <2>1, <2>2, <2>3 DEF TransactionInv, DepthCountsBlocks
<1>2. CASE SessionExpires
  BY <1>2, ExpiryStep
<1>3. ASSUME NEW t \in Task, Enter(t) PROVE TransactionInv'
  BY <1>3, EnterStep
<1>4. ASSUME NEW t \in Task, ModeEntered(t) PROVE TransactionInv'
  BY <1>4, ModeEnteredStep
<1>5. ASSUME NEW t \in Task, ModeEndpointMissing(t) PROVE TransactionInv'
  BY <1>5, ModeEndpointMissingStep
<1>6. ASSUME NEW t \in Task, PutWrite(t) PROVE TransactionInv'
  BY <1>6, PutWriteStep
<1>7. ASSUME NEW t \in Task, BodyRaises(t) \/ BodyHandles(t) PROVE TransactionInv'
  BY <1>7, BodyStep
<1>8. ASSUME NEW t \in Task, Exit(t) PROVE TransactionInv'
  BY <1>8, ExitStep
<1>9. ASSUME NEW t \in Task, Committed(t) \/ RolledBack(t) PROVE TransactionInv'
  BY <1>9, CommittedStep
<1>10. ASSUME NEW t \in Task, CommitFails(t) PROVE TransactionInv'
  BY <1>10, CommitFailsStep
<1>11. ASSUME NEW t \in Task, ModeLeft(t) \/ LeaveModeFails(t)
       PROVE  TransactionInv'
  BY <1>11, LeaveModeStep
<1>12. ASSUME NEW t \in Task, ManualCommit(t) \/ ManualRollback(t)
       PROVE  TransactionInv'
  BY <1>12, ManualStep
<1>13. ASSUME NEW t \in Task, CancelEnter(t) PROVE TransactionInv'
  BY <1>13, CancelEnterStep
<1>14. ASSUME NEW t \in Task, CancelExit(t) PROVE TransactionInv'
  BY <1>14, CancelExitStep
<1> QED
  BY <1>1, <1>2, <1>3, <1>4, <1>5, <1>6, <1>7, <1>8, <1>9, <1>10, <1>11, <1>12,
     <1>13, <1>14 DEF Next

\* Every variable keeps its type (type correctness of PyTransaction): the depth
\* in particular never becomes negative.
THEOREM TransactionTyping == Spec => []TypeOK
<1>1. TransactionInv => TypeOK
  BY DEF TransactionInv
<1> QED
  BY <1>1, InitInv, NextInv, PTL DEF Spec

\* The depth all pending() blocks of a client share counts the blocks that are
\* open, for any number of tasks, any nesting, any failures; each cancelled
\* __aenter__, and nothing else, may leave one count behind.
THEOREM DepthCounts == Spec => []DepthCountsBlocks
<1>1. TransactionInv => DepthCountsBlocks
  BY DEF TransactionInv
<1> QED
  BY <1>1, InitInv, NextInv, PTL DEF Spec

----------------------------------------------------------------------------
(* Whoever leaves last resolves all *)

\* Whoever has something pending is still counted, or is settling it.
LastOutInv ==
    faults = 0 /\ cancels = 0 /\ staged # {} =>
        depth > 0 \/ \E t \in Task : pc[t] \in {"commit", "rollback"}

\* A task that is not itself settling keeps who is.
LEMMA StillSettled ==
    ASSUME LastOutInv, NEW t \in Task,
           faults' = 0 /\ cancels' = 0 => faults = 0 /\ cancels = 0,
           staged' # {} => staged # {}, depth' = depth,
           \A u \in Task : u # t => pc'[u] = pc[u],
           pc[t] \notin {"commit", "rollback"}
    PROVE  LastOutInv'
BY DEF LastOutInv

\* Without a failed request or a cancellation nothing outlives the blocks, whatever
\* the interleaving of the blocks of several tasks (CommitContext.__aexit__): the
\* exit that brings _pending_depth to zero settles what all have written.
THEOREM LastOutResolves == Spec => []LastOutResolvesAll
<1>1. Init => LastOutInv
  BY DEF Init, LastOutInv
<1>2. TransactionInv /\ LastOutInv /\ [Next]_vars => LastOutInv'
  <2> SUFFICES ASSUME TransactionInv, LastOutInv, [Next]_vars PROVE LastOutInv'
    OBVIOUS
  <2>a. TypeOK /\ FramesInv /\ depth \in Nat /\ faults \in Nat /\ cancels \in Nat
    BY DEF TransactionInv, TypeOK
  <2>1. ASSUME NEW t \in Task, Enter(t) PROVE LastOutInv'
    <3>1. depth' > 0
      BY <2>1, <2>a DEF Enter, Counted
    <3> QED
      BY <3>1 DEF LastOutInv
  <2>2. ASSUME NEW t \in Task, ModeEntered(t) PROVE LastOutInv'
    BY <2>2, <2>a, StillSettled
       DEF ModeEntered, Succeeds, NoFault, bounds, SetMode, Goto, TypeOK
  <2>3. ASSUME NEW t \in Task, ModeEndpointMissing(t) PROVE LastOutInv'
    <3>1. /\ faults' = 0 /\ cancels' = 0 => faults = 0 /\ cancels = 0
          /\ staged' = staged /\ depth' = depth
      BY <2>3, <2>a
         DEF ModeEndpointMissing, Fails, NoFault, Fault, bounds, SetMode, deviceVars
    <3>2. /\ \A u \in Task : u # t => pc'[u] = pc[u]
          /\ pc[t] \notin {"commit", "rollback"}
      BY <2>3, <2>a DEF ModeEndpointMissing, NextCandidate, Goto, TypeOK
    <3> QED
      BY <3>1, <3>2, StillSettled
  <2>4. ASSUME NEW t \in Task, PutWrite(t) PROVE LastOutInv'
    <3>1. depth >= 1 /\ depth' = depth
      BY <2>4, OpenIsCounted DEF PutWrite, Leaving
    <3> QED
      BY <3>1, <2>a DEF LastOutInv
  <2>5. ASSUME NEW t \in Task, BodyRaises(t) \/ BodyHandles(t) PROVE LastOutInv'
    BY <2>5 DEF BodyRaises, BodyHandles, LastOutInv, deviceVars, bounds
  <2>6. ASSUME NEW t \in Task, Exit(t) PROVE LastOutInv'
    <3>1. CASE Nested
      BY <2>6, <3>1, <2>a DEF Exit, Nested, LastOutInv
    <3>2. CASE ~Nested
      <4>1. pc'[t] \in {"commit", "rollback"}
        BY <2>6, <3>2, <2>a DEF Exit, Goto, Resolution, TypeOK
      <4> QED
        BY <4>1 DEF LastOutInv
    <3> QED
      BY <3>1, <3>2
  <2>7. ASSUME NEW t \in Task, Committed(t) \/ RolledBack(t) \/ CommitFails(t)
        PROVE  LastOutInv'
    <3>1. staged' = {} \/ faults' = faults + 1
      BY <2>7 DEF Committed, RolledBack, CommitFails, Succeeds, Fails, Fault,
                  SaveStaged, DropStaged
    <3> QED
      BY <3>1, <2>a DEF LastOutInv
  <2>8. ASSUME NEW t \in Task, ModeLeft(t) \/ LeaveModeFails(t) PROVE LastOutInv'
    <3>1. /\ faults' = 0 /\ cancels' = 0 => faults = 0 /\ cancels = 0
          /\ staged' = staged /\ depth' = depth
      BY <2>8, <2>a DEF ModeLeft, LeaveModeFails, Succeeds, Fails, NoFault, Fault,
                        bounds, SetMode, deviceVars
    <3>2. /\ \A u \in Task : u # t => pc'[u] = pc[u]
          /\ pc[t] \notin {"commit", "rollback"}
      BY <2>8, <2>a DEF ModeLeft, LeaveModeFails, Leave, Goto, TypeOK
    <3> QED
      BY <3>1, <3>2, StillSettled
  <2>9. ASSUME NEW t \in Task, ManualCommit(t) \/ ManualRollback(t) PROVE LastOutInv'
    <3>1. staged' = {} \/ faults' = faults + 1
      BY <2>9 DEF ManualCommit, ManualRollback, Succeeds, Fails, Fault,
                  SaveStaged, DropStaged
    <3> QED
      BY <3>1, <2>a DEF LastOutInv
  <2>10. ASSUME NEW t \in Task, CancelEnter(t) \/ CancelExit(t) PROVE LastOutInv'
    <3>1. cancels' = cancels + 1
      BY <2>10 DEF CancelEnter, CancelExit, Cancel
    <3> QED
      BY <3>1, <2>a DEF LastOutInv
  <2>11. CASE SessionExpires
    BY <2>11 DEF SessionExpires, LastOutInv, taskVars
  <2>12. CASE UNCHANGED vars
    BY <2>12 DEF vars, LastOutInv, taskVars, deviceVars, bounds
  <2> QED
    BY <2>1, <2>2, <2>3, <2>4, <2>5, <2>6, <2>7, <2>8, <2>9, <2>10, <2>11, <2>12
       DEF Next
<1>3. TransactionInv /\ LastOutInv => LastOutResolvesAll
  <2> SUFFICES ASSUME TransactionInv, LastOutInv, faults = 0, cancels = 0, AllClosed
               PROVE  staged = {}
    BY DEF LastOutResolvesAll, NothingLeftStaged
  <2>1. \A t \in Task : pc[t] = "body" /\ frames[t] = <<>>
    BY DEF AllClosed, TransactionInv, FramesInv, InBlock
  <2>2. \A t \in Task : held[t] = 0
    BY <2>1, EmptySeq DEF held, Leaving
  <2>3. Contexts = {}
    BY <2>2, TransactionBoundsAssumption DEF Contexts, UpTo
  <2>4. depth = 0
    <3>1. Cardinality(Contexts) = 0
      BY <2>3, FS_EmptySet
    <3> QED
      BY <3>1 DEF TransactionInv, TypeOK, DepthCountsBlocks
  <2> QED
    BY <2>1, <2>4 DEF LastOutInv
<1> QED
  BY <1>1, <1>2, <1>3, InitInv, NextInv, PTL DEF Spec
=============================================================================
