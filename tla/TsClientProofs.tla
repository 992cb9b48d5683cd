--------------------------- MODULE TsClientProofs ---------------------------
(****************************************************************************)
(* Six facts about the TypeScript client, for any number of callers and any *)
(* bounds.                                                                  *)
(*                                                                          *)
(* No caller waits for a login that is not under way.  The property is not  *)
(* inductive: a caller waits for the login it finds in authPromise, so that *)
(* one has to be under way.  Two logins may run at once, and each one       *)
(* clears authPromise when it settles, also when it holds the other; that   *)
(* the field is then empty too early is harmless for those who wait,        *)
(* because awaited still names their own login.                             *)
(*                                                                          *)
(* A transaction that no other one overlaps and that returns has saved its  *)
(* write, whatever became of the transactions inside it.  It is the         *)
(* outermost one then, because _pendingDepth counts all that are open.      *)
(*                                                                          *)
(* Types; and three facts about dropped sessions.  A caller that logs in    *)
(* for the second time carries a session younger than the dropped one, so   *)
(* one drop is never seen (HiddenInv), and a transaction that throws was    *)
(* thrown out of its body and is rolled back (ThrownInv).  The sessions     *)
(* granted are bounded because each caller owes at most one login for a     *)
(* dropped session, and pays it (GrantInv).                                 *)
(****************************************************************************)
EXTENDS TsClient, FiniteSetTheorems, TLAPS

Waits == {"waitEnsure", "waitReauth"}

\* A login that a field refers to is under way.
UnderWay(u) == u \in Task /\ pc[u] = "login"

\* The inductive invariant.
WaitInv ==
    /\ pc \in [Task -> Place]
    /\ awaited \in [Task -> Task \cup {NoTask}]
    /\ authPromise # NoTask => UnderWay(authPromise)
    /\ \A t \in Task : pc[t] \in Waits => UnderWay(awaited[t])

\* What a stretch of code does to the login state of its own task.
Moves(t) ==
    \/ StartLogin(t)
    \/ Send(t)
    \/ \E place \in Waits : authPromise # NoTask /\ Await(t, place)
    \/ Idle(t)

----------------------------------------------------------------------------
(* Every stretch of code is one of these moves *)

\* ensureAuthenticated waits for a login only if it finds one.
LEMMA EnsureMoves ==
    ASSUME NEW t \in Task, NEW o, Ensure(t, o)
    PROVE  Moves(t)
BY DEF Ensure, Moves, Waits

LEMMA RequestMoves ==
    ASSUME NEW t \in Task, NEW s, NEW o, Request(t, s, o)
    PROVE  Moves(t)
BY EnsureMoves DEF Request

LEMMA EndCallMoves ==
    ASSUME NEW t \in Task, NEW throws, EndCall(t, throws)
    PROVE  Moves(t)
BY DEF EndCall, End, Moves

LEMMA SettlesMoves ==
    ASSUME NEW t \in Task, NEW s, NEW throws, Settles(t, s, throws)
    PROVE  Moves(t)
BY RequestMoves DEF Settles

LEMMA NestsMoves ==
    ASSUME NEW t \in Task, NEW n, Nests(t, n)
    PROVE  Moves(t)
BY RequestMoves DEF Nests

LEMMA DoneMoves ==
    ASSUME NEW t \in Task, Done(t)
    PROVE  Moves(t)
BY SettlesMoves, EndCallMoves DEF Done

\* An error ends the call or starts the rollback.
LEMMA ThrowsMoves ==
    ASSUME NEW t \in Task, Throws(t)
    PROVE  Moves(t)
BY SettlesMoves, EndCallMoves DEF Throws

\* After an answer, the call ends or sends another request.
LEMMA ReturnsMoves ==
    ASSUME NEW t \in Task, Returns(t)
    PROVE  Moves(t)
BY DoneMoves, NestsMoves, ThrowsMoves DEF Returns

LEMMA FailsMoves ==
    ASSUME NEW t \in Task, Fails(t)
    PROVE  Moves(t)
BY DoneMoves, NestsMoves, ThrowsMoves DEF Fails

\* So does reauthenticate.
LEMMA ReauthenticateMoves ==
    ASSUME NEW t \in Task, Reauthenticate(t)
    PROVE  Moves(t)
BY DEF Reauthenticate, Moves, Waits

----------------------------------------------------------------------------
(* The moves, and the end of a login, keep the invariant *)

\* A task that is not logging in itself leaves the logins of others alone, and
\* waits only for one that is under way.
LEMMA MovesKeep ==
    ASSUME NEW t \in Task, WaitInv, pc[t] # "login", Moves(t)
    PROVE  WaitInv'
<1>1. CASE StartLogin(t)
  BY <1>1, NoTaskAssumption DEF WaitInv, UnderWay, StartLogin, Waits, Place
<1>2. CASE Send(t)
  BY <1>2 DEF WaitInv, UnderWay, Send, Waits, Place
<1>3. ASSUME NEW place \in Waits, authPromise # NoTask, Await(t, place)
      PROVE  WaitInv'
  BY <1>3 DEF WaitInv, UnderWay, Await, Waits, Place
<1>4. CASE Idle(t)
  BY <1>4 DEF WaitInv, UnderWay, Idle, Waits, Place
<1> QED
  BY <1>1, <1>2, <1>3, <1>4 DEF Moves

\* All who wait for a login are woken when it settles; nobody else's login ends.
LEMMA SettleKeeps ==
    ASSUME NEW t \in Task, NEW ok \in BOOLEAN, WaitInv, pc[t] = "login", Settle(t, ok)
    PROVE  WaitInv'
<1>1. pc' \in [Task -> Place]
  BY DEF WaitInv, Settle, Outcome, Place
<1>2. awaited' \in [Task -> Task \cup {NoTask}]
  BY DEF WaitInv, Settle
<1>3. authPromise' = NoTask
  BY DEF Settle
<1>4. ASSUME NEW u \in Task, pc'[u] \in Waits
      PROVE  UnderWay(awaited[u])' 
  <2>1. pc'[u] = pc[u] /\ pc[u] \in Waits /\ awaited[u] # t
    BY <1>4 DEF WaitInv, Settle, Outcome, Waits
  <2>2. awaited'[u] = awaited[u] /\ awaited[u] \in Task /\ pc[awaited[u]] = "login"
    BY <2>1 DEF WaitInv, Settle, UnderWay
  <2>3. pc'[awaited[u]] = pc[awaited[u]]
    BY <2>1, <2>2 DEF Settle
  <2> QED
    BY <2>2, <2>3 DEF UnderWay
<1> QED
  BY <1>1, <1>2, <1>3, <1>4 DEF WaitInv, UnderWay

----------------------------------------------------------------------------

LEMMA WaitInvInit == Init => WaitInv
BY NoTaskAssumption DEF Init, WaitInv, Place, Waits, UnderWay

LEMMA WaitInvNext == WaitInv /\ [Next]_vars => WaitInv'
<1> SUFFICES ASSUME WaitInv, [Next]_vars
             PROVE  WaitInv'
  OBVIOUS
<1>1. ASSUME NEW t \in Task, Call(t)
      PROVE  WaitInv'
  <2>1. PICK o \in {"connect", "request"} : Begin(t, o) /\ Request(t, "none", o)
    BY <1>1 DEF Call
  <2>2. Moves(t) /\ pc[t] # "login"
    BY <2>1, RequestMoves DEF Begin
  <2> QED
    BY <2>2, MovesKeep
<1>2. ASSUME NEW t \in Task, Transaction(t)
      PROVE  WaitInv'
  <2>1. Moves(t) /\ pc[t] # "login"
    BY <1>2, RequestMoves DEF Transaction, Begin
  <2> QED
    BY <2>1, MovesKeep
<1>3. ASSUME NEW t \in Task, Disconnect(t)
      PROVE  WaitInv'
  BY <1>3 DEF Disconnect, auth, WaitInv, UnderWay, Waits, Place
<1>4. ASSUME NEW t \in Task, LoggedIn(t)
      PROVE  WaitInv'
  BY <1>4, SettleKeeps DEF LoggedIn
<1>5. ASSUME NEW t \in Task, LoginFails(t)
      PROVE  WaitInv'
  BY <1>5, SettleKeeps DEF LoginFails
<1>6. ASSUME NEW t \in Task, Resume(t)
      PROVE  WaitInv'
  <2>1. Moves(t) /\ pc[t] # "login"
    BY <1>6, EndCallMoves DEF Resume, Moves
  <2> QED
    BY <2>1, MovesKeep
<1>7. ASSUME NEW t \in Task, Reject(t)
      PROVE  WaitInv'
  <2>1. Moves(t) /\ pc[t] # "login"
    BY <1>7, FailsMoves DEF Reject
  <2> QED
    BY <2>1, MovesKeep
<1>8. ASSUME NEW t \in Task, LoginAfterAll(t)
      PROVE  WaitInv'
  <2>1. Moves(t) /\ pc[t] # "login"
    BY <1>8 DEF LoginAfterAll, Moves
  <2> QED
    BY <2>1, MovesKeep
<1>9. ASSUME NEW t \in Task, Answered(t)
      PROVE  WaitInv'
  <2>1. Moves(t) /\ pc[t] # "login"
    BY <1>9, ReturnsMoves DEF Answered
  <2> QED
    BY <2>1, MovesKeep
<1>10. ASSUME NEW t \in Task, Expired(t)
       PROVE  WaitInv'
  <2>1. Moves(t) /\ pc[t] # "login"
    BY <1>10, FailsMoves, ReauthenticateMoves DEF Expired
  <2> QED
    BY <2>1, MovesKeep
<1>11. ASSUME NEW t \in Task, Lost(t)
       PROVE  WaitInv'
  <2>1. Moves(t) /\ pc[t] # "login"
    BY <1>11, FailsMoves DEF Lost
  <2> QED
    BY <2>1, MovesKeep
<1>12. ASSUME NEW t \in Task, LoggedOut(t)
       PROVE  WaitInv'
  <2>1. Moves(t) /\ pc[t] # "login"
    BY <1>12 DEF LoggedOut, Moves
  <2> QED
    BY <2>1, MovesKeep
<1>13. CASE Drop
  BY <1>13 DEF Drop, auth, WaitInv, UnderWay
<1>15. ASSUME NEW t \in Task, Manual(t)
       PROVE  WaitInv'
  <2>1. PICK o \in {"commit", "rollback"} : Begin(t, o) /\ Request(t, o, o)
    BY <1>15 DEF Manual
  <2>2. Moves(t) /\ pc[t] # "login"
    BY <2>1, RequestMoves DEF Begin
  <2> QED
    BY <2>2, MovesKeep
<1>14. CASE UNCHANGED vars
  BY <1>14 DEF vars, auth, WaitInv, UnderWay
<1> QED
  BY <1>1, <1>2, <1>3, <1>4, <1>5, <1>6, <1>7, <1>8, <1>9, <1>10, <1>11, <1>12,
     <1>13, <1>14, <1>15
  DEF Next, TaskStep

\* A caller that waits for a login waits for one that is still to settle
\* (ensureAuthenticated and reauthenticate in auth.ts), for any number of callers.
THEOREM NobodyWaitsInVain == Spec => []WaitersHaveALogin
<1>1. WaitInv => WaitersHaveALogin
  BY DEF WaitInv, WaitersHaveALogin, UnderWay, Waits
<1> QED
  BY WaitInvInit, WaitInvNext, <1>1, PTL DEF Spec

----------------------------------------------------------------------------
(* Transactions *)

BlockTypes ==
    /\ pc \in [Task -> Place] /\ op \in [Task -> Op] /\ step \in [Task -> Step]
    /\ failed \in [Task -> BOOLEAN] /\ outermost \in [Task -> BOOLEAN]
    /\ depth \in Nat /\ nest \in [Task -> 0..MaxNest]

Counted == depth = Cardinality(Levels)

\* What is true of one task.
Sound(t) ==
    /\ step[t] # "none" <=> t \in Settling
    /\ pc[t] = "logout" => op[t] = "disconnect"
    /\ nest[t] > 0 <=> pc[t] # "idle" /\ op[t] = "transaction"
    /\ nest[t] > 0 /\ t \notin overlapped => outermost[t]
    /\ nest[t] > 1 /\ t \notin overlapped => t \in staged
    /\ nest[t] > 0 /\ step[t] = "commit" /\ t \notin overlapped => t \in staged
    /\ Ended(t) /\ ~failed[t] /\ t \notin overlapped => t \in saved

\* Two tasks that settle what is pending at once have met.
Met == \A t, u \in Settling : t # u => t \in overlapped

\* The inductive invariant.
CommitInv == BlockTypes /\ Counted /\ Met /\ \A t \in Task : Sound(t)

\* What is saved stays saved, and only a task that settles what is pending, or
\* is in a transaction, touches it.
ConfigOf(t) == saved \subseteq saved' /\ (t \in Settling \/ staged' = staged)

\* A step of t: the other tasks stay as they are.
StepOf(t) ==
    /\ \A u \in Task \ {t} : /\ pc'[u] = pc[u] /\ op'[u] = op[u]
                             /\ step'[u] = step[u] /\ failed'[u] = failed[u]
                             /\ outermost'[u] = outermost[u] /\ nest'[u] = nest[u]
    /\ overlapped \subseteq overlapped'
    /\ ConfigOf(t)

LEMMA StepKeeps ==
    ASSUME NEW t \in Task, CommitInv, BlockTypes', Counted', StepOf(t), Met', Sound(t)'
    PROVE  CommitInv'
<1>1. ASSUME NEW u \in Task, u # t
      PROVE  Sound(u)'
  <2>1. u \in Settling' <=> u \in Settling
    BY <1>1 DEF StepOf, Settling
  <2>2. u \in Settling /\ u \notin overlapped => staged' = staged
    BY <1>1 DEF StepOf, ConfigOf, CommitInv, Met
  <2>3. nest[u] > 0 => u \in Settling
    BY DEF CommitInv, Sound, Settling
  <2>4. nest[u] > 1 => nest[u] > 0
    BY DEF CommitInv, BlockTypes
  <2> QED
    BY <1>1, <2>1, <2>2, <2>3, <2>4 DEF StepOf, ConfigOf, CommitInv, Sound, Ended
<1> QED
  BY <1>1 DEF CommitInv

----------------------------------------------------------------------------
(* What _pendingDepth counts *)

LEMMA LevelsFinite == IsFiniteSet(Levels)
<1>1. IsFiniteSet(1..MaxNest)
  BY FS_Interval, TsBoundsAssumption
<1>2. IsFiniteSet(Task \X (1..MaxNest))
  BY <1>1, FiniteTasks, FS_Product, Zenon
<1>3. Levels \subseteq Task \X (1..MaxNest)
  BY DEF Levels
<1> QED
  BY <1>2, <1>3, FS_Subset

\* The levels of one task.
LEMMA OwnLevels ==
    ASSUME NEW t, NEW k \in Nat
    PROVE  IsFiniteSet({t} \X (1..k)) /\ Cardinality({t} \X (1..k)) = k
<1>1. IsFiniteSet({t}) /\ Cardinality({t}) = 1
  BY FS_Singleton
<1>2. IsFiniteSet(1..k) /\ Cardinality(1..k) = k
  BY FS_Interval
<1>3. /\ IsFiniteSet({t} \X (1..k))
      /\ Cardinality({t} \X (1..k)) = Cardinality({t}) * Cardinality(1..k)
  BY <1>1, <1>2, FS_Product, Zenon
<1> QED
  BY <1>1, <1>2, <1>3

\* When one task goes to level n, the count changes by as much.
LEMMA LevelsChange ==
    ASSUME NEW t \in Task, CommitInv, NEW n \in 0..MaxNest,
           nest' = [nest EXCEPT ![t] = n]
    PROVE  /\ nest' \in [Task -> 0..MaxNest]
           /\ nest[t] \in Nat /\ nest[t] <= depth
           /\ Cardinality(Levels') = depth - nest[t] + n
<1> DEFINE Rest == {c \in Levels : c[1] # t}
           Own(k) == {t} \X (1..k)
<1>1. nest \in [Task -> 0..MaxNest] /\ depth = Cardinality(Levels) /\ MaxNest \in Nat
  BY TsBoundsAssumption DEF CommitInv, BlockTypes, Counted
<1>2. nest' \in [Task -> 0..MaxNest] /\ nest[t] \in Nat /\ n \in Nat
  BY <1>1
<1>3. Levels = Rest \cup Own(nest[t])
  BY <1>1, <1>2 DEF Levels
<1>4. Levels' = Rest \cup Own(n)
  BY <1>1, <1>2 DEF Levels
<1>5. IsFiniteSet(Rest) /\ Cardinality(Rest) \in Nat
  BY LevelsFinite, FS_Subset, FS_CardinalityType
<1>6. ASSUME NEW k \in Nat
      PROVE  Cardinality(Rest \cup Own(k)) = Cardinality(Rest) + k
  <2>1. IsFiniteSet(Own(k)) /\ Cardinality(Own(k)) = k
    BY OwnLevels
  <2>2. Rest \cap Own(k) = {}
    OBVIOUS
  <2>3. Cardinality(Rest \cap Own(k)) = 0
    BY <2>2, FS_EmptySet
  <2>4. Cardinality(Rest \cup Own(k)) = Cardinality(Rest) + Cardinality(Own(k))
                                       - Cardinality(Rest \cap Own(k))
    BY <1>5, <2>1, FS_Union
  <2> HIDE DEF Rest, Own
  <2> QED
    BY <1>5, <2>1, <2>3, <2>4
<1>7. depth = Cardinality(Rest) + nest[t]
  BY <1>1, <1>2, <1>3, <1>6
<1>8. Cardinality(Levels') = Cardinality(Rest) + n
  BY <1>2, <1>4, <1>6
<1> HIDE DEF Rest
<1> QED
  BY <1>2, <1>5, <1>7, <1>8

\* Leaving transactions lowers the depth by as many.
LEMMA LeavesCounts ==
    ASSUME NEW t \in Task, CommitInv, NEW n \in 0..nest[t], NEW throws,
           Leaves(t, n, throws)
    PROVE  Counted' /\ depth' \in Nat /\ nest' \in [Task -> 0..MaxNest]
<1>1. n \in 0..MaxNest /\ nest' = [nest EXCEPT ![t] = n] /\ n <= nest[t]
  BY TsBoundsAssumption DEF CommitInv, BlockTypes, Leaves
<1>2. depth' = depth - (nest[t] - n) /\ depth \in Nat
  BY DEF Leaves, CommitInv, BlockTypes
<1>3. /\ nest' \in [Task -> 0..MaxNest] /\ nest[t] \in Nat /\ nest[t] <= depth
      /\ Cardinality(Levels') = depth - nest[t] + n
  BY <1>1, LevelsChange
<1>4. n \in Nat
  BY <1>1
<1>5. depth' = depth - nest[t] + n /\ depth' \in Nat
  BY <1>2, <1>3, <1>4
<1> QED
  BY <1>3, <1>5 DEF Counted

\* Beginning one raises it, for the first after the inner ones have ended.
LEMMA NestsCounts ==
    ASSUME NEW t \in Task, CommitInv, NEW n \in 0..nest[t], n < MaxNest,
           depth' = depth - (nest[t] - n) + 1, nest' = [nest EXCEPT ![t] = n + 1]
    PROVE  Counted' /\ depth' \in Nat /\ nest' \in [Task -> 0..MaxNest]
<1>1. n + 1 \in 0..MaxNest /\ n <= nest[t] /\ n \in Nat /\ depth \in Nat
  BY TsBoundsAssumption DEF CommitInv, BlockTypes
<1>2. /\ nest' \in [Task -> 0..MaxNest] /\ nest[t] \in Nat /\ nest[t] <= depth
      /\ Cardinality(Levels') = depth - nest[t] + (n + 1)
  BY <1>1, LevelsChange
<1>3. depth' = depth - nest[t] + (n + 1) /\ depth' \in Nat
  BY <1>1, <1>2
<1> QED
  BY <1>2, <1>3 DEF Counted

\* If no transaction is open, the depth is zero.
LEMMA NoneIsZero ==
    ASSUME CommitInv, Settling = {}
    PROVE  depth = 0
<1>1. ASSUME NEW c \in Levels
      PROVE  FALSE
  <2>1. c[1] \in Task /\ c[2] \in 1..MaxNest /\ c[2] <= nest[c[1]]
    BY <1>1 DEF Levels
  <2>2. nest[c[1]] \in 0..MaxNest
    BY <2>1 DEF CommitInv, BlockTypes
  <2>3. nest[c[1]] > 0
    BY <2>1, <2>2, TsBoundsAssumption
  <2> QED
    BY <2>1, <2>3 DEF CommitInv, Sound, Settling
<1>2. Levels = {}
  BY <1>1
<1> QED
  BY <1>2, FS_EmptySet DEF CommitInv, Counted

\* Nobody enters or leaves anything.
LEMMA SameBlocks ==
    ASSUME CommitInv, Settling' = Settling, UNCHANGED <<depth, nest, overlapped>>
    PROVE  Counted' /\ Met'
BY DEF CommitInv, BlockTypes, Counted, Levels, Met

----------------------------------------------------------------------------
(* The stretches of code keep the invariant *)

LEMMA ServeKeeps ==
    ASSUME NEW t \in Task, CommitInv, Serve(t)
    PROVE  /\ ConfigOf(t)
           /\ step[t] = "body" => t \in staged'
           /\ step[t] = "commit" => saved' = saved \cup staged
<1>1. step[t] \in Step
  BY DEF CommitInv, BlockTypes
<1> QED
  BY <1>1 DEF Serve, ConfigOf, CommitInv, Sound, Step, config

\* A request, and where it waits.
LEMMA RequestPlace ==
    ASSUME NEW t \in Task, NEW s, NEW o, Request(t, s, o)
    PROVE  \E place \in Place \ {"logout"} :
              pc' = [pc EXCEPT ![t] = place] /\ (place = "idle" => o = "connect")
<1>1. \/ Idle(t) /\ o = "connect"
      \/ Send(t) \/ Await(t, "waitEnsure") \/ StartLogin(t)
  BY DEF Request, Ensure
<1>2. CASE Idle(t) /\ o = "connect"
  BY <1>2 DEF Idle, Place
<1>3. CASE Send(t)
  <2>1. pc' = [pc EXCEPT ![t] = "sent"] /\ "sent" \in Place \ {"logout"} /\ "sent" # "idle"
    BY <1>3 DEF Send, Place
  <2> QED
    BY <2>1
<1>4. CASE Await(t, "waitEnsure")
  <2>1. /\ pc' = [pc EXCEPT ![t] = "waitEnsure"]
        /\ "waitEnsure" \in Place \ {"logout"} /\ "waitEnsure" # "idle"
    BY <1>4 DEF Await, Place
  <2> QED
    BY <2>1
<1>5. CASE StartLogin(t)
  <2>1. /\ pc' = [pc EXCEPT ![t] = "login"]
        /\ "login" \in Place \ {"logout"} /\ "login" # "idle"
    BY <1>5 DEF StartLogin, Place
  <2> QED
    BY <2>1
<1> QED
  BY <1>1, <1>2, <1>3, <1>4, <1>5

\* A task goes on within its call.
LEMMA WaitKeeps ==
    ASSUME NEW t \in Task, CommitInv, pc[t] # "idle",
           NEW place \in Place \ {"idle", "logout"}, pc' = [pc EXCEPT ![t] = place],
           UNCHANGED <<op, step, failed, block, config>>
    PROVE  CommitInv'
<1>1. Settling' = Settling
  BY DEF CommitInv, BlockTypes, Settling
<1>2. Counted' /\ Met' /\ BlockTypes' /\ StepOf(t)
  BY <1>1, SameBlocks DEF CommitInv, BlockTypes, StepOf, ConfigOf, block, config
<1>3. Sound(t)'
  BY <1>1 DEF CommitInv, BlockTypes, Sound, Ended, block, config
<1> QED
  BY <1>2, <1>3, StepKeeps

\* A task in a transaction goes on with its next request, n transactions deep.
LEMMA RequestKeeps ==
    ASSUME NEW t \in Task, CommitInv, nest[t] > 0,
           NEW s \in {"body", "commit", "rollback"}, Request(t, s, op[t]),
           UNCHANGED <<op, failed, outermost, overlapped>>, ConfigOf(t),
           NEW n \in 1..MaxNest, nest' = [nest EXCEPT ![t] = n],
           Counted', depth' \in Nat, nest' \in [Task -> 0..MaxNest],
           (s = "commit" \/ n > 1) /\ t \notin overlapped => t \in staged'
    PROVE  CommitInv'
<1>1. op[t] = "transaction" /\ pc[t] # "idle"
  BY DEF CommitInv, Sound
<1>2. PICK place \in Place \ {"logout"} :
         pc' = [pc EXCEPT ![t] = place] /\ place # "idle"
  BY <1>1, RequestPlace
<1>3. Settling' = Settling /\ t \in Settling
  BY <1>1, <1>2 DEF CommitInv, BlockTypes, Settling
<1>4. Met' /\ BlockTypes' /\ StepOf(t)
  BY <1>2, <1>3 DEF CommitInv, BlockTypes, Met, StepOf, Request, Step
<1>5. nest'[t] = n /\ n > 0
  BY TsBoundsAssumption DEF CommitInv, BlockTypes
<1>6. Sound(t)'
  BY <1>1, <1>2, <1>3, <1>5 DEF CommitInv, BlockTypes, Sound, Ended, Request
<1> QED
  BY <1>4, <1>6, StepKeeps

LEMMA SettlesKeeps ==
    ASSUME NEW t \in Task, CommitInv, nest[t] > 0,
           NEW s \in {"commit", "rollback"}, NEW throws, Settles(t, s, throws), ConfigOf(t),
           s = "commit" /\ t \notin overlapped => t \in staged'
    PROVE  CommitInv'
<1>1. nest[t] \in 0..MaxNest /\ MaxNest \in Nat
  BY TsBoundsAssumption DEF CommitInv, BlockTypes
<1>2. 1 \in 0..nest[t] /\ 1 \in 1..MaxNest
  BY <1>1
<1>3. Counted' /\ depth' \in Nat /\ nest' \in [Task -> 0..MaxNest]
  BY <1>2, LeavesCounts DEF Settles
<1>4. nest' = [nest EXCEPT ![t] = 1]
  BY DEF Settles, Leaves
<1>5. /\ Request(t, s, op[t]) /\ UNCHANGED <<op, failed, outermost, overlapped>>
      /\ s \in {"body", "commit", "rollback"}
  BY DEF Settles
<1>6. (s = "commit" \/ 1 > 1) /\ t \notin overlapped => t \in staged'
  OBVIOUS
<1> QED
  BY <1>2, <1>3, <1>4, <1>5, <1>6, RequestKeeps

LEMMA NestsKeeps ==
    ASSUME NEW t \in Task, CommitInv, nest[t] > 0,
           NEW n \in 1..nest[t], Nests(t, n), ConfigOf(t),
           t \notin overlapped => t \in staged'
    PROVE  CommitInv'
<1>1. n \in 0..nest[t] /\ n + 1 \in 1..MaxNest
  BY TsBoundsAssumption DEF CommitInv, BlockTypes, Nests
<1>2. Counted' /\ depth' \in Nat /\ nest' \in [Task -> 0..MaxNest]
  BY <1>1, NestsCounts DEF Nests
<1> QED
  BY <1>1, <1>2, RequestKeeps DEF Nests

\* A call ends.
LEMMA EndKeeps ==
    ASSUME NEW t \in Task, CommitInv, pc[t] # "idle",
           NEW throws \in BOOLEAN, EndCall(t, throws), ConfigOf(t),
           op[t] = "transaction" /\ ~throws /\ t \notin overlapped => t \in saved'
    PROVE  CommitInv'
<1>1. /\ pc' = [pc EXCEPT ![t] = "idle"] /\ step' = [step EXCEPT ![t] = "none"]
      /\ failed' = [failed EXCEPT ![t] = throws] /\ UNCHANGED <<op, overlapped>>
      /\ outermost' = [outermost EXCEPT ![t] = FALSE]
      /\ nest' = [nest EXCEPT ![t] = 0]
  BY DEF EndCall, End, Idle, Leaves
<1>2. 0 \in 0..nest[t]
  BY TsBoundsAssumption DEF CommitInv, BlockTypes
<1>3. Counted' /\ depth' \in Nat /\ nest' \in [Task -> 0..MaxNest]
  BY <1>2, LeavesCounts DEF EndCall
<1>4. Settling' = Settling \ {t}
  BY <1>1 DEF CommitInv, BlockTypes, Settling
<1>5. Met' /\ BlockTypes' /\ StepOf(t)
  BY <1>1, <1>3, <1>4 DEF CommitInv, BlockTypes, Met, StepOf, Place, Step
<1>6. nest'[t] = 0
  BY <1>1 DEF CommitInv, BlockTypes
<1>7. Sound(t)'
  BY <1>1, <1>4, <1>6 DEF CommitInv, BlockTypes, Sound, Ended
<1> QED
  BY <1>3, <1>5, <1>7, StepKeeps

\* What an error does that nobody handles, whatever the device has done before.
LEMMA ThrowsKeeps ==
    ASSUME NEW t \in Task, CommitInv, pc[t] # "idle", Throws(t), ConfigOf(t)
    PROVE  CommitInv'
<1>1. CASE RollsBack(t)
  <2>1. nest[t] > 0
    BY <1>1 DEF RollsBack, CommitInv, Sound
  <2> QED
    BY <1>1, <2>1, SettlesKeeps DEF Throws
<1>2. CASE ~RollsBack(t)
  BY <1>2, EndKeeps DEF Throws
<1> QED
  BY <1>1, <1>2

\* The body is followed by the commit, the commit by the end.
LEMMA DoneKeeps ==
    ASSUME NEW t \in Task, CommitInv, pc[t] # "idle", Done(t), ConfigOf(t),
           InBody(t) /\ t \notin overlapped => t \in staged',
           op[t] = "transaction" /\ step[t] = "commit" /\ t \notin overlapped => t \in saved'
    PROVE  CommitInv'
<1>1. CASE Commits(t)
  <2>1. nest[t] > 0 /\ InBody(t)
    BY <1>1 DEF Commits, InBody, CommitInv, Sound
  <2> QED
    BY <1>1, <2>1, SettlesKeeps DEF Done
<1>2. CASE ~Commits(t)
  <2>1. ASSUME op[t] = "transaction", step[t] # "rollback", t \notin overlapped
        PROVE  t \in saved'
    <3>1. nest[t] > 0 /\ t \in Settling
      BY <2>1 DEF CommitInv, Sound, Settling
    <3>2. outermost[t] /\ step[t] # "none" /\ step[t] \in Step
      BY <2>1, <3>1 DEF CommitInv, BlockTypes, Sound
    <3>3. step[t] = "commit"
      BY <1>2, <2>1, <3>2 DEF Commits, Step
    <3> QED
      BY <2>1, <3>3
  <2> DEFINE throws == op[t] = "transaction" /\ step[t] = "rollback"
  <2>2. throws \in BOOLEAN /\ EndCall(t, throws)
    BY <1>2 DEF Done
  <2>3. op[t] = "transaction" /\ ~throws /\ t \notin overlapped => t \in saved'
    BY <2>1
  <2> HIDE DEF throws
  <2> QED
    BY <2>2, <2>3, EndKeeps
<1> QED
  BY <1>1, <1>2

LEMMA AnsweredKeeps ==
    ASSUME NEW t \in Task, CommitInv, Answered(t)
    PROVE  CommitInv'
<1>1. /\ ConfigOf(t) /\ pc[t] = "sent"
      /\ step[t] = "body" => t \in staged'
      /\ step[t] = "commit" => saved' = saved \cup staged
  BY ServeKeeps DEF Answered
<1>2. op[t] = "transaction" => nest[t] > 0
  BY <1>1 DEF CommitInv, Sound
<1>3. op[t] = "transaction" /\ step[t] = "commit" /\ t \notin overlapped => t \in saved'
  BY <1>1, <1>2 DEF CommitInv, Sound
<1>4. CASE Done(t)
  BY <1>1, <1>3, <1>4, DoneKeeps DEF InBody
<1>5. CASE Throws(t)
  BY <1>1, <1>5, ThrowsKeeps
<1>6. ASSUME InBody(t), NEW n \in 1..nest[t], Nests(t, n)
      PROVE  CommitInv'
  BY <1>1, <1>2, <1>6, NestsKeeps DEF InBody
<1> QED
  BY <1>4, <1>5, <1>6 DEF Answered, Returns

\* A request that fails in an inner transaction leaves the outer one's write
\* where it is.
LEMMA FailsKeeps ==
    ASSUME NEW t \in Task, CommitInv, pc[t] # "idle", Fails(t), ConfigOf(t),
           nest[t] > 1 /\ t \notin overlapped => t \in staged'
    PROVE  CommitInv'
<1>1. CASE Throws(t)
  BY <1>1, ThrowsKeeps
<1>2. CASE InBody(t) /\ nest[t] > 1 /\ Done(t)
  BY <1>2, DoneKeeps DEF InBody
<1>3. ASSUME InBody(t), nest[t] > 1, NEW n \in 1..(nest[t] - 1), Nests(t, n)
      PROVE  CommitInv'
  <2>1. nest[t] > 0 /\ n \in 1..nest[t]
    BY <1>3, TsBoundsAssumption DEF CommitInv, BlockTypes
  <2> QED
    BY <1>3, <2>1, NestsKeeps
<1> QED
  BY <1>1, <1>2, <1>3 DEF Fails

----------------------------------------------------------------------------

LEMMA CommitInvInit == Init => CommitInv
<1> SUFFICES ASSUME Init
             PROVE  CommitInv
  OBVIOUS
<1>1. Settling = {}
  BY DEF Init, Settling
<1>2. Levels = {}
  BY TsBoundsAssumption DEF Init, Levels
<1>3. Counted
  BY <1>2, FS_EmptySet DEF Init, Counted
<1> QED
  BY <1>1, <1>3, TsBoundsAssumption
  DEF Init, CommitInv, BlockTypes, Met, Sound, Ended, Place, Op, Step

\* Waking those who wait for a login changes no call.
LEMMA SettleKeepsBlocks ==
    ASSUME NEW t \in Task, NEW ok \in BOOLEAN, CommitInv, pc[t] = "login", Settle(t, ok)
    PROVE  CommitInv'
<1>1. /\ pc' \in [Task -> Place] /\ UNCHANGED <<block, op, step, failed, config>>
      /\ \A u \in Task : /\ pc'[u] = "idle" <=> pc[u] = "idle"
                         /\ pc'[u] = "logout" <=> pc[u] = "logout"
  BY DEF CommitInv, BlockTypes, Settle, Outcome, Place
<1>2. Settling' = Settling
  BY <1>1 DEF Settling
<1>3. Counted' /\ Met' /\ BlockTypes'
  BY <1>1, <1>2, SameBlocks DEF CommitInv, BlockTypes, block
<1>4. ASSUME NEW u \in Task
      PROVE  Sound(u)'
  BY <1>1, <1>2 DEF CommitInv, Sound, Ended, block, config
<1> QED
  BY <1>3, <1>4 DEF CommitInv

\* One more task settles what is pending: it meets those that do so already.
LEMMA MeetsKeeps ==
    ASSUME NEW t \in Task, CommitInv, t \notin Settling, Settling' = Settling \cup {t},
           Meets(t)
    PROVE  Met' /\ overlapped \subseteq overlapped'
BY DEF CommitInv, Met, Meets

LEMMA CommitInvNext == CommitInv /\ [Next]_vars => CommitInv'
<1> SUFFICES ASSUME CommitInv, [Next]_vars
             PROVE  CommitInv'
  OBVIOUS
<1>1. ASSUME NEW t \in Task, Call(t)
      PROVE  CommitInv'
  <2>1. PICK o \in {"connect", "request"} : Begin(t, o) /\ Request(t, "none", o)
    BY <1>1 DEF Call
  <2>2. PICK place \in Place \ {"logout"} :
           pc' = [pc EXCEPT ![t] = place] /\ (place = "idle" => o = "connect")
    BY <2>1, RequestPlace
  <2>3. /\ op' = [op EXCEPT ![t] = o] /\ step' = [step EXCEPT ![t] = "none"]
        /\ failed' = [failed EXCEPT ![t] = FALSE] /\ UNCHANGED <<block, config>>
        /\ pc[t] = "idle"
    BY <1>1, <2>1 DEF Call, Begin, Request
  <2>4. Settling' = Settling
    BY <2>2, <2>3 DEF CommitInv, BlockTypes, Settling
  <2>5. Counted' /\ Met' /\ BlockTypes' /\ StepOf(t)
    BY <2>2, <2>3, <2>4, SameBlocks DEF CommitInv, BlockTypes, StepOf, ConfigOf, Op, Step,
                                        block, config
  <2>6. Sound(t)'
    BY <2>2, <2>3, <2>4 DEF CommitInv, BlockTypes, Sound, Ended, Settling, block
  <2> QED
    BY <2>5, <2>6, StepKeeps
<1>2. ASSUME NEW t \in Task, Transaction(t)
      PROVE  CommitInv'
  <2>1. PICK place \in Place \ {"logout"} :
           pc' = [pc EXCEPT ![t] = place] /\ place # "idle"
    BY <1>2, RequestPlace DEF Transaction
  <2>2. /\ op' = [op EXCEPT ![t] = "transaction"] /\ step' = [step EXCEPT ![t] = "body"]
        /\ failed' = [failed EXCEPT ![t] = FALSE] /\ UNCHANGED config
        /\ pc[t] = "idle" /\ depth' = depth + 1 /\ nest' = [nest EXCEPT ![t] = 1]
        /\ outermost' = [outermost EXCEPT ![t] = depth = 0]
        /\ 0 < MaxNest /\ Meets(t)
    BY <1>2 DEF Transaction, Begin, Request
  <2>3. t \notin Settling /\ Settling' = Settling \cup {t} /\ nest[t] = 0
    <3>1. nest[t] \in Nat /\ ~(nest[t] > 0)
      BY <2>2, TsBoundsAssumption DEF CommitInv, BlockTypes, Sound
    <3> QED
      BY <2>1, <2>2, <3>1 DEF CommitInv, BlockTypes, Settling
  <2>4. Counted' /\ depth' \in Nat /\ nest' \in [Task -> 0..MaxNest]
    <3>1. 0 \in 0..nest[t] /\ depth' = depth - (nest[t] - 0) + 1
                          /\ nest' = [nest EXCEPT ![t] = 0 + 1]
      BY <2>2, <2>3 DEF CommitInv, BlockTypes
    <3> QED
      BY <2>2, <3>1, NestsCounts
  <2>5. Met' /\ overlapped \subseteq overlapped'
    BY <2>2, <2>3, MeetsKeeps
  <2>6. BlockTypes' /\ StepOf(t)
    BY <2>1, <2>2, <2>4, <2>5
    DEF CommitInv, BlockTypes, StepOf, ConfigOf, Op, Step, config
  <2>7. nest'[t] = 1 /\ (t \notin overlapped' => outermost'[t])
    BY <2>2, NoneIsZero DEF CommitInv, BlockTypes, Meets
  <2>8. Sound(t)'
    BY <2>1, <2>2, <2>3, <2>7 DEF CommitInv, BlockTypes, Sound, Ended
  <2> QED
    BY <2>4, <2>5, <2>6, <2>8, StepKeeps
<1>3. ASSUME NEW t \in Task, Manual(t)
      PROVE  CommitInv'
  <2>1. PICK o \in {"commit", "rollback"} : Begin(t, o) /\ Request(t, o, o)
    BY <1>3 DEF Manual
  <2>2. PICK place \in Place \ {"logout"} :
           pc' = [pc EXCEPT ![t] = place] /\ place # "idle"
    BY <2>1, RequestPlace
  <2>3. /\ op' = [op EXCEPT ![t] = o] /\ step' = [step EXCEPT ![t] = o]
        /\ failed' = [failed EXCEPT ![t] = FALSE] /\ UNCHANGED config
        /\ pc[t] = "idle" /\ Meets(t) /\ UNCHANGED <<depth, nest, outermost>>
    BY <1>3, <2>1 DEF Manual, Begin, Request
  <2>4. t \notin Settling /\ Settling' = Settling \cup {t}
    BY <2>2, <2>3 DEF CommitInv, BlockTypes, Settling
  <2>5. Met' /\ overlapped \subseteq overlapped'
    BY <2>3, <2>4, MeetsKeeps
  <2>6. Counted' /\ BlockTypes' /\ StepOf(t)
    BY <2>2, <2>3, <2>5
    DEF CommitInv, BlockTypes, Counted, Levels, StepOf, ConfigOf, Op, Step, config
  <2>7. nest[t] \in Nat /\ ~(nest[t] > 0)
    BY <2>3, TsBoundsAssumption DEF CommitInv, BlockTypes, Sound
  <2>8. Sound(t)'
    BY <2>2, <2>3, <2>4, <2>7 DEF CommitInv, BlockTypes, Sound, Ended
  <2> QED
    BY <2>5, <2>6, <2>8, StepKeeps
<1>4. ASSUME NEW t \in Task, Disconnect(t)
      PROVE  CommitInv'
  <2>1. Settling' = Settling
    BY <1>4 DEF CommitInv, BlockTypes, Disconnect, Settling
  <2>2. Counted' /\ Met' /\ BlockTypes' /\ StepOf(t)
    BY <1>4, <2>1, SameBlocks DEF CommitInv, BlockTypes, Disconnect, StepOf, ConfigOf,
                                  Place, Op, block, config
  <2>3. Sound(t)'
    BY <1>4, <2>1 DEF CommitInv, BlockTypes, Disconnect, Sound, Ended, block, config
  <2> QED
    BY <2>2, <2>3, StepKeeps
<1>5. ASSUME NEW t \in Task, LoggedIn(t)
      PROVE  CommitInv'
  BY <1>5, SettleKeepsBlocks DEF LoggedIn
<1>6. ASSUME NEW t \in Task, LoginFails(t)
      PROVE  CommitInv'
  BY <1>6, SettleKeepsBlocks DEF LoginFails
<1>7. ASSUME NEW t \in Task, Resume(t)
      PROVE  CommitInv'
  <2>1. CASE op[t] = "connect"
    BY <1>7, <2>1, EndKeeps DEF Resume, ConfigOf, config
  <2>2. CASE op[t] # "connect"
    BY <1>7, <2>2, WaitKeeps DEF Resume, Send, Place
  <2> QED
    BY <2>1, <2>2
<1>8. ASSUME NEW t \in Task, Reject(t)
      PROVE  CommitInv'
  <2>1. ConfigOf(t) /\ (nest[t] > 1 /\ t \notin overlapped => t \in staged')
    BY <1>8 DEF Reject, ConfigOf, config, CommitInv, Sound
  <2> QED
    BY <1>8, <2>1, FailsKeeps DEF Reject
<1>9. ASSUME NEW t \in Task, LoginAfterAll(t)
      PROVE  CommitInv'
  BY <1>9, WaitKeeps DEF LoginAfterAll, StartLogin, Place
<1>10. ASSUME NEW t \in Task, Answered(t)
       PROVE  CommitInv'
  BY <1>10, AnsweredKeeps
<1>11. ASSUME NEW t \in Task, Expired(t)
       PROVE  CommitInv'
  <2>1. CASE retrying[t]
    <3>1. ConfigOf(t) /\ (nest[t] > 1 /\ t \notin overlapped => t \in staged')
      BY <1>11 DEF Expired, ConfigOf, config, CommitInv, Sound
    <3> QED
      BY <1>11, <2>1, <3>1, FailsKeeps DEF Expired
  <2>2. CASE ~retrying[t]
    BY <1>11, <2>2, WaitKeeps DEF Expired, Reauthenticate, StartLogin, Await, Place
  <2> QED
    BY <2>1, <2>2
<1>12. ASSUME NEW t \in Task, Lost(t)
       PROVE  CommitInv'
  <2>1. ConfigOf(t)
    BY <1>12, ServeKeeps DEF Lost, ConfigOf, config
  <2>2. CASE InBody(t)
    <3>1. nest[t] > 1 /\ t \notin overlapped => t \in staged'
      BY <1>12, <2>2, ServeKeeps DEF Lost, InBody, config, CommitInv, Sound
    <3> QED
      BY <1>12, <2>1, <3>1, FailsKeeps DEF Lost
  <2>3. CASE ~InBody(t)
    BY <1>12, <2>1, <2>3, ThrowsKeeps DEF Lost, Fails
  <2> QED
    BY <2>2, <2>3
<1>13. ASSUME NEW t \in Task, LoggedOut(t)
       PROVE  CommitInv'
  <2>1. /\ op[t] = "disconnect" /\ pc' = [pc EXCEPT ![t] = "idle"]
        /\ UNCHANGED <<block, op, step, failed, config>>
    BY <1>13 DEF LoggedOut, Idle, CommitInv, Sound
  <2>2. Settling' = Settling
    BY <2>1 DEF CommitInv, BlockTypes, Settling
  <2>3. Counted' /\ Met' /\ BlockTypes' /\ StepOf(t)
    BY <2>1, <2>2, SameBlocks DEF CommitInv, BlockTypes, StepOf, ConfigOf, Place, block,
                                  config
  <2>4. Sound(t)'
    BY <2>1, <2>2 DEF CommitInv, BlockTypes, Sound, Ended, block, config
  <2> QED
    BY <2>3, <2>4, StepKeeps
<1>14. ASSUME UNCHANGED <<block, pc, op, step, failed, config>>
       PROVE  CommitInv'
  BY <1>14 DEF block, config, CommitInv, BlockTypes, Counted, Levels, Met, Sound, Settling,
               Ended
<1> QED
  BY <1>1, <1>2, <1>3, <1>4, <1>5, <1>6, <1>7, <1>8, <1>9, <1>10, <1>11, <1>12, <1>13,
     <1>14
  DEF Next, TaskStep, Drop, vars

\* A transaction that returns has saved its write unless another one met it
\* (transaction() in client.ts), for any number of callers, logins, failed
\* exchanges and transactions inside it.
THEOREM TransactionCommits == Spec => []CommittedUnlessOverlapped
<1>1. CommitInv => CommittedUnlessOverlapped
  BY DEF CommitInv, Sound, CommittedUnlessOverlapped
<1> QED
  BY CommitInvInit, CommitInvNext, <1>1, PTL DEF Spec

----------------------------------------------------------------------------
(* Sessions and tokens *)

\* What a stretch of code does to the login state of its task when it ends a call or
\* goes on with another request.
Goes(t) ==
    /\ retrying' = [retrying EXCEPT ![t] = FALSE]
    /\ \/ Idle(t)
       \/ Send(t) /\ session # NoSession
       \/ Await(t, "waitEnsure") /\ session = NoSession /\ authPromise # NoTask
       \/ StartLogin(t) /\ session = NoSession /\ authPromise = NoTask

\* Every way to go on is one of these.
LEMMA RequestGoes ==
    ASSUME NEW t \in Task, NEW s, NEW o, Request(t, s, o)
    PROVE  Goes(t) /\ step' = [step EXCEPT ![t] = s]
BY DEF Request, Ensure, Goes

LEMMA EndCallGoes ==
    ASSUME NEW t \in Task, NEW throws, EndCall(t, throws)
    PROVE  Goes(t) /\ step' = [step EXCEPT ![t] = "none"] /\ pc' = [pc EXCEPT ![t] = "idle"]
           /\ failed' = [failed EXCEPT ![t] = throws] /\ UNCHANGED op
BY DEF EndCall, End, Goes, Idle

LEMMA SettlesGoes ==
    ASSUME NEW t \in Task, NEW s, NEW throws, Settles(t, s, throws)
    PROVE  Goes(t) /\ step' = [step EXCEPT ![t] = s] /\ UNCHANGED <<op, failed>>
BY RequestGoes DEF Settles

LEMMA NestsGoes ==
    ASSUME NEW t \in Task, NEW n, Nests(t, n)
    PROVE  Goes(t) /\ step' = [step EXCEPT ![t] = "body"] /\ UNCHANGED <<op, failed>>
BY RequestGoes DEF Nests

LEMMA DoneGoes ==
    ASSUME NEW t \in Task, Done(t)
    PROVE  Goes(t)
BY SettlesGoes, EndCallGoes DEF Done

LEMMA ThrowsGoes ==
    ASSUME NEW t \in Task, Throws(t)
    PROVE  Goes(t)
BY SettlesGoes, EndCallGoes DEF Throws

LEMMA ReturnsGoes ==
    ASSUME NEW t \in Task, Returns(t)
    PROVE  Goes(t)
BY DoneGoes, NestsGoes, ThrowsGoes DEF Returns

LEMMA FailsGoes ==
    ASSUME NEW t \in Task, Fails(t)
    PROVE  Goes(t)
BY DoneGoes, NestsGoes, ThrowsGoes DEF Fails

\* The types of the variables the calls do not tell.
TokenTypes ==
    /\ session \in 0..issued /\ authPromise \in Task \cup {NoTask}
    /\ retrying \in [Task -> BOOLEAN] /\ token \in [Task -> 0..issued]
    /\ issued \in Nat /\ live \subseteq 1..issued

\* The types of what is written.
ConfigTypes == staged \subseteq Task /\ saved \subseteq Task /\ overlapped \subseteq Task

\* A stretch of code gives its task the session there is, or none.
LEMMA GoesTypes ==
    ASSUME NEW t \in Task, TokenTypes, Goes(t), UNCHANGED <<session, live, issued>>
    PROVE  TokenTypes'
BY DEF TokenTypes, Goes, Idle, Send, Await, StartLogin, NoSession

\* The session granted is the last one.
LEMMA Granted ==
    ASSUME TokenTypes, issued' = issued + 1, UNCHANGED <<token, retrying>>,
           authPromise' = NoTask, live' \subseteq live \cup {issued'},
           session' \in {session, issued'}
    PROVE  TokenTypes'
<1>1. issued' \in Nat /\ 0..issued \subseteq 0..issued' /\ issued' \in 1..issued'
      /\ 1..issued \subseteq 1..issued'
  BY DEF TokenTypes
<1> QED
  BY <1>1 DEF TokenTypes

\* Every step keeps the types of sessions and tokens.
LEMMA TokenTypesNext == TokenTypes /\ [Next]_vars => TokenTypes'
<1> SUFFICES ASSUME TokenTypes, [Next]_vars
             PROVE  TokenTypes'
  OBVIOUS
<1>1. ASSUME NEW t \in Task, Call(t) \/ Manual(t) \/ Transaction(t)
      PROVE  TokenTypes'
  BY <1>1, RequestGoes, GoesTypes DEF Call, Manual, Transaction, Begin
<1>2. ASSUME NEW t \in Task, Disconnect(t)
      PROVE  TokenTypes'
  BY <1>2 DEF Disconnect, auth, TokenTypes
<1>3. ASSUME NEW t \in Task, LoggedIn(t)
      PROVE  TokenTypes'
  BY <1>3, Granted DEF LoggedIn, Settle
<1>4. ASSUME NEW t \in Task, LoginFails(t)
      PROVE  TokenTypes'
  <2>1. authPromise' = NoTask /\ UNCHANGED <<token, retrying, session>>
    BY <1>4 DEF LoginFails, Settle
  <2>2. CASE UNCHANGED <<live, issued>>
    BY <2>1, <2>2 DEF TokenTypes
  <2>3. CASE issued' = issued + 1 /\ live' = live \cup {issued'}
    BY <2>1, <2>3, Granted
  <2> QED
    BY <1>4, <2>2, <2>3 DEF LoginFails
<1>5. ASSUME NEW t \in Task, Resume(t)
      PROVE  TokenTypes'
  <2>1. CASE op[t] = "connect"
    BY <1>5, <2>1, EndCallGoes, GoesTypes DEF Resume
  <2>2. CASE op[t] # "connect"
    BY <1>5, <2>2 DEF Resume, Send, TokenTypes
  <2> QED
    BY <2>1, <2>2
<1>6. ASSUME NEW t \in Task, Reject(t) \/ Lost(t)
      PROVE  TokenTypes'
  BY <1>6, FailsGoes, GoesTypes DEF Reject, Lost
<1>7. ASSUME NEW t \in Task, LoginAfterAll(t)
      PROVE  TokenTypes'
  BY <1>7 DEF LoginAfterAll, StartLogin, TokenTypes, NoSession
<1>8. ASSUME NEW t \in Task, Answered(t)
      PROVE  TokenTypes'
  BY <1>8, ReturnsGoes, GoesTypes DEF Answered
<1>9. ASSUME NEW t \in Task, Expired(t)
      PROVE  TokenTypes'
  <2>1. CASE retrying[t]
    BY <1>9, <2>1, FailsGoes, GoesTypes DEF Expired
  <2>2. CASE ~retrying[t]
    <3>1. /\ session' = 0 /\ retrying' = [retrying EXCEPT ![t] = TRUE]
          /\ token' = [token EXCEPT ![t] = 0] /\ UNCHANGED <<live, issued>>
          /\ authPromise' \in {t, authPromise}
      BY <1>9, <2>2 DEF Expired, Reauthenticate, StartLogin, Await, NoSession
    <3> QED
      BY <3>1 DEF TokenTypes
  <2> QED
    BY <2>1, <2>2
<1>10. ASSUME NEW t \in Task, LoggedOut(t)
       PROVE  TokenTypes'
  <2>1. /\ session' = 0 /\ token' = [token EXCEPT ![t] = 0] /\ live' \subseteq live
        /\ UNCHANGED <<issued, authPromise, retrying>>
    BY <1>10 DEF LoggedOut, Idle, NoSession
  <2> QED
    BY <2>1 DEF TokenTypes
<1>11. CASE Drop
  BY <1>11 DEF Drop, auth, TokenTypes
<1>12. CASE UNCHANGED vars
  BY <1>12 DEF vars, auth, TokenTypes
<1> QED
  BY <1>1, <1>2, <1>3, <1>4, <1>5, <1>6, <1>7, <1>8, <1>9, <1>10, <1>11, <1>12
  DEF Next, TaskStep

----------------------------------------------------------------------------
(* Type correctness *)

\* What counts the events the properties speak of.
CountTypes == drops \in Nat /\ faults \in Nat /\ disconnects \in Nat

\* Only what a task writes is pending or saved.
LEMMA ServeTypes ==
    ASSUME NEW t \in Task, ConfigTypes, Serve(t) \/ UNCHANGED config, UNCHANGED overlapped,
           step[t] \in Step
    PROVE  ConfigTypes'
BY DEF ConfigTypes, Serve, Step, config

\* Going on changes neither what has met nor what is pending.
LEMMA GoesOnAlone ==
    ASSUME NEW t \in Task, Returns(t) \/ Fails(t)
    PROVE  UNCHANGED overlapped
BY DEF Returns, Fails, Done, Throws, Nests, Settles, EndCall, End

\* Every step keeps the types of what is written and counted.
LEMMA ConfigTypesNext ==
    BlockTypes /\ ConfigTypes /\ CountTypes /\ [Next]_vars => ConfigTypes' /\ CountTypes'
<1> SUFFICES ASSUME BlockTypes, ConfigTypes, CountTypes, [Next]_vars
             PROVE  ConfigTypes' /\ CountTypes'
  OBVIOUS
<1> USE DEF ConfigTypes, CountTypes
<1>a. \A t \in Task : step[t] \in Step
  BY DEF BlockTypes
<1>1. ASSUME NEW t \in Task, Call(t)
      PROVE  ConfigTypes' /\ CountTypes'
  BY <1>1 DEF Call, Begin, block, config
<1>2. ASSUME NEW t \in Task, Manual(t) \/ Transaction(t)
      PROVE  ConfigTypes' /\ CountTypes'
  <2>1. /\ overlapped' = overlapped \/ overlapped' = overlapped \cup Settling \cup {t}
        /\ Settling \subseteq Task
    BY <1>2 DEF Manual, Transaction, Meets, Settling
  <2>2. UNCHANGED <<staged, saved, drops, faults, disconnects>>
    BY <1>2 DEF Manual, Transaction, Begin, config
  <2> QED
    BY <2>1, <2>2
<1>3. ASSUME NEW t \in Task, Disconnect(t)
      PROVE  ConfigTypes' /\ CountTypes'
  BY <1>3 DEF Disconnect, block, config
<1>4. ASSUME NEW t \in Task, LoggedIn(t) \/ LoginFails(t)
      PROVE  ConfigTypes' /\ CountTypes'
  <2>1. UNCHANGED <<staged, saved, overlapped>>
    BY <1>4 DEF LoggedIn, LoginFails, Settle, block, config
  <2>2. CountTypes'
    <3>1. CASE LoggedIn(t)
      BY <3>1 DEF LoggedIn, counts, others
    <3>2. CASE LoginFails(t)
      BY <3>2 DEF LoginFails, Fault
    <3> QED
      BY <1>4, <3>1, <3>2
  <2> QED
    BY <2>1, <2>2
<1>5. ASSUME NEW t \in Task, Resume(t)
      PROVE  ConfigTypes' /\ CountTypes'
  BY <1>5 DEF Resume, EndCall, End, block, config, counts, others
<1>6. ASSUME NEW t \in Task, Reject(t)
      PROVE  ConfigTypes' /\ CountTypes'
  BY <1>6, GoesOnAlone DEF Reject, config, others
<1>7. ASSUME NEW t \in Task, LoginAfterAll(t)
      PROVE  ConfigTypes' /\ CountTypes'
  BY <1>7 DEF LoginAfterAll, block, config, counts, others
<1>8. ASSUME NEW t \in Task, Answered(t)
      PROVE  ConfigTypes' /\ CountTypes'
  <2>1. ConfigTypes'
    BY <1>8, <1>a, GoesOnAlone, ServeTypes DEF Answered
  <2> QED
    BY <1>8, <2>1 DEF Answered, others
<1>9. ASSUME NEW t \in Task, Expired(t)
      PROVE  ConfigTypes' /\ CountTypes'
  BY <1>9, GoesOnAlone DEF Expired, block, config, others
<1>10. ASSUME NEW t \in Task, Lost(t)
       PROVE  ConfigTypes' /\ CountTypes'
  <2>1. ConfigTypes'
    BY <1>10, <1>a, GoesOnAlone, ServeTypes DEF Lost
  <2> QED
    BY <1>10, <2>1 DEF Lost, Fault
<1>11. ASSUME NEW t \in Task, LoggedOut(t)
       PROVE  ConfigTypes' /\ CountTypes'
  BY <1>11 DEF LoggedOut, block, config, counts, others, Fault
<1>12. CASE Drop
  BY <1>12 DEF Drop, block, config
<1>13. CASE UNCHANGED vars
  BY <1>13 DEF vars, block, config, counts, others
<1> QED
  BY <1>1, <1>2, <1>3, <1>4, <1>5, <1>6, <1>7, <1>8, <1>9, <1>10, <1>11, <1>12, <1>13
  DEF Next, TaskStep

\* All that is known of the types and of the calls.
ClientInv == CommitInv /\ WaitInv /\ TokenTypes /\ ConfigTypes /\ CountTypes

\* It holds at first, and every step keeps it.
LEMMA ClientInvInit == Init => ClientInv
BY CommitInvInit, WaitInvInit
   DEF Init, ClientInv, TokenTypes, ConfigTypes, CountTypes, NoSession

LEMMA ClientInvNext == ClientInv /\ [Next]_vars => ClientInv'
BY CommitInvNext, WaitInvNext, TokenTypesNext, ConfigTypesNext DEF ClientInv, CommitInv

\* Sessions, tokens, logins and transactions have the types of TsClient: no token is one the
\* device has not granted, and _pendingDepth is the number of open transactions.
THEOREM TypeCorrect == Spec => []TypeOK
<1>1. ClientInv => TypeOK
  BY DEF ClientInv, CommitInv, BlockTypes, Counted, Sound, WaitInv, TokenTypes, ConfigTypes,
         TypeOK
<1> QED
  BY ClientInvInit, ClientInvNext, <1>1, PTL DEF Spec

----------------------------------------------------------------------------
(* One dropped session *)

\* At most one session was dropped, and nothing else went wrong.
OneDrop == drops <= 1 /\ disconnects = 0 /\ faults = 0

\* The sessions that have ended.
Gone == (1..issued) \ live

\* What is known of a caller: a second login means that a session older than the one
\* it carries is gone.
Served(t) ==
    /\ pc[t] \notin {"rejected", "logout"}
    /\ pc[t] = "woken" => session # 0
    /\ pc[t] = "sent" => token[t] # 0
    /\ retrying[t] => pc[t] \in {"login", "waitReauth", "wokenReauth", "woken", "sent"}
    /\ retrying[t] => \E d \in Gone : /\ pc[t] = "woken" => d < session
                                      /\ pc[t] = "sent" => d < token[t]
    /\ pc[t] = "idle" /\ op[t] # "transaction" => ~failed[t]

\* The inductive invariant.
HiddenInv ==
    OneDrop => /\ drops = 0 => Gone = {}
               /\ \A d, e \in Gone : d = e
               /\ \A t \in Task : Served(t)

\* How a call ends whose requests all succeed.
LEMMA ReturnsFailed ==
    ASSUME NEW t \in Task, BlockTypes, Returns(t)
    PROVE  /\ op' = op /\ \A u \in Task \ {t} : failed'[u] = failed[u]
           /\ op[t] # "transaction" => pc'[t] = "idle" /\ ~failed'[t]
<1>1. CASE Done(t)
  <2>1. CASE Commits(t)
    BY <1>1, <2>1, SettlesGoes DEF Done, Commits
  <2>2. CASE ~Commits(t)
    <3> DEFINE throws == op[t] = "transaction" /\ step[t] = "rollback"
    <3>1. EndCall(t, throws)
      BY <1>1, <2>2 DEF Done
    <3>2. throws \in BOOLEAN /\ (op[t] # "transaction" => ~throws)
      OBVIOUS
    <3> HIDE DEF throws
    <3>3. pc' = [pc EXCEPT ![t] = "idle"] /\ failed' = [failed EXCEPT ![t] = throws]
          /\ op' = op
      BY <3>1, EndCallGoes
    <3> QED
      BY <3>2, <3>3 DEF BlockTypes
  <2> QED
    BY <2>1, <2>2
<1>2. CASE Throws(t) /\ InBody(t)
  BY <1>2, SettlesGoes, EndCallGoes DEF Throws, BlockTypes, InBody
<1>3. ASSUME InBody(t), NEW n, Nests(t, n)
      PROVE  op' = op /\ failed' = failed /\ op[t] = "transaction"
  BY <1>3, NestsGoes DEF InBody
<1> QED
  BY <1>1, <1>2, <1>3 DEF Returns

\* A task goes on, with its session or without.
LEMMA GoesHidden ==
    ASSUME NEW t \in Task, ClientInv, HiddenInv, Goes(t),
           UNCHANGED <<session, live, issued, drops, faults, disconnects>>,
           \A u \in Task \ {t} : failed'[u] = failed[u] /\ op'[u] = op[u],
           pc'[t] = "idle" /\ op'[t] # "transaction" => ~failed'[t]
    PROVE  HiddenInv'
<1> SUFFICES ASSUME OneDrop' PROVE HiddenInv'
  BY DEF HiddenInv
<1>1. Gone' = Gone /\ OneDrop
  BY DEF Gone, OneDrop
<1>2. pc \in [Task -> Place] /\ token \in [Task -> 0..issued] /\ retrying \in [Task -> BOOLEAN]
  BY DEF ClientInv, WaitInv, TokenTypes
<1>3. ASSUME NEW u \in Task, u # t
      PROVE  Served(u)'
  <2>1. pc'[u] = pc[u] /\ token'[u] = token[u] /\ retrying'[u] = retrying[u]
    BY <1>2, <1>3 DEF Goes, Idle, Send, Await, StartLogin
  <2> QED
    BY <1>1, <1>3, <2>1 DEF HiddenInv, Served
<1>4. Served(t)'
  BY <1>1, <1>2 DEF Served, Goes, Idle, Send, Await, StartLogin, NoSession
<1> QED
  BY <1>1, <1>3, <1>4 DEF HiddenInv

\* No request is sent twice in vain, and no login fails.
LEMMA NeverInVain ==
    ASSUME NEW t \in Task, ClientInv, HiddenInv, OneDrop
    PROVE  ~Reject(t) /\ ~(Expired(t) /\ retrying[t])
<1>1. Served(t) /\ \A d, e \in Gone : d = e
  BY DEF HiddenInv
<1>2. ASSUME pc[t] = "sent", token[t] \notin live, retrying[t]
      PROVE  FALSE
  <2>1. token[t] \in 0..issued /\ token[t] # 0 /\ issued \in Nat
    BY <1>1, <1>2 DEF Served, ClientInv, TokenTypes
  <2>2. token[t] \in Gone
    BY <1>2, <2>1 DEF Gone
  <2>3. PICK d \in Gone : d < token[t]
    BY <1>1, <1>2 DEF Served
  <2>4. d = token[t]
    BY <1>1, <2>2, <2>3
  <2> QED
    BY <2>1, <2>3, <2>4
<1> QED
  BY <1>1, <1>2 DEF Reject, Expired, Served

\* Every step keeps it, up to the second drop.
LEMMA HiddenInvNext == ClientInv /\ HiddenInv /\ [Next]_vars => HiddenInv'
<1> SUFFICES ASSUME ClientInv, HiddenInv, [Next]_vars, OneDrop'
             PROVE  HiddenInv'
  BY DEF HiddenInv
<1>a. /\ BlockTypes /\ pc \in [Task -> Place] /\ token \in [Task -> 0..issued]
      /\ retrying \in [Task -> BOOLEAN] /\ op \in [Task -> Op] /\ failed \in [Task -> BOOLEAN]
      /\ session \in 0..issued /\ issued \in Nat /\ live \subseteq 1..issued
      /\ drops \in Nat /\ faults \in Nat /\ disconnects \in Nat
  BY DEF ClientInv, CommitInv, BlockTypes, TokenTypes, CountTypes
<1>1. ASSUME NEW t \in Task, Call(t) \/ Manual(t) \/ Transaction(t)
      PROVE  HiddenInv'
  <2>1. Goes(t)
    BY <1>1, RequestGoes DEF Call, Manual, Transaction
  <2>2. PICK o \in Op : op' = [op EXCEPT ![t] = o] /\ failed' = [failed EXCEPT ![t] = FALSE]
    BY <1>1 DEF Call, Manual, Transaction, Begin, Op
  <2>3. UNCHANGED <<session, live, issued, drops, faults, disconnects>>
    BY <1>1 DEF Call, Manual, Transaction, Begin
  <2> QED
    BY <1>a, <2>1, <2>2, <2>3, GoesHidden
<1>2. ASSUME NEW t \in Task, Disconnect(t)
      PROVE  HiddenInv'
  BY <1>2, <1>a DEF Disconnect, OneDrop
<1>3. ASSUME NEW t \in Task, LoggedIn(t)
      PROVE  HiddenInv'
  <2>1. /\ session' = issued + 1 /\ issued' = issued + 1 /\ live' = live \cup {issued + 1}
        /\ UNCHANGED <<token, retrying, op, failed, drops, faults, disconnects>>
    BY <1>3 DEF LoggedIn, Settle, counts, others
  <2>2. Gone' = Gone /\ OneDrop
    BY <1>a, <2>1 DEF Gone, OneDrop
  <2>3. ASSUME NEW u \in Task
        PROVE  Served(u)'
    <3>1. Served(u) /\ pc[u] # "woken"
      BY <1>3, <2>2 DEF HiddenInv, LoggedIn, Quiet
    <3>2. \A d \in Gone : d < session'
      BY <1>a, <2>1 DEF Gone
    <3>3. session' # 0
      BY <1>a, <2>1
    <3>4. \/ pc'[u] = pc[u]
          \/ pc'[u] = "woken" /\ pc[u] \in {"login", "waitEnsure"}
          \/ pc'[u] = "wokenReauth" /\ pc[u] = "waitReauth"
      BY <1>3 DEF LoggedIn, Settle, Outcome
    <3>5. token'[u] = token[u] /\ retrying'[u] = retrying[u] /\ op'[u] = op[u]
          /\ failed'[u] = failed[u]
      BY <2>1
    <3> QED
      BY <2>2, <3>1, <3>2, <3>3, <3>4, <3>5 DEF Served
  <2> QED
    BY <2>1, <2>2, <2>3 DEF HiddenInv
<1>4. ASSUME NEW t \in Task, LoginFails(t) \/ Lost(t)
      PROVE  HiddenInv'
  <2>1. faults' = faults + 1
    BY <1>4 DEF LoginFails, Lost, Fault
  <2> QED
    BY <1>a, <2>1 DEF OneDrop
<1>5. ASSUME NEW t \in Task, Resume(t)
      PROVE  HiddenInv'
  <2>1. UNCHANGED <<session, live, issued, drops, faults, disconnects>> /\ pc[t] = "woken"
    BY <1>5 DEF Resume, counts, others
  <2>2. CASE op[t] = "connect"
    <3>1. Goes(t) /\ failed' = [failed EXCEPT ![t] = FALSE] /\ op' = op
      BY <1>5, <2>2, EndCallGoes DEF Resume
    <3> QED
      BY <1>a, <2>1, <3>1, GoesHidden
  <2>3. CASE op[t] # "connect"
    <3>1. /\ pc' = [pc EXCEPT ![t] = "sent"] /\ token' = [token EXCEPT ![t] = session]
          /\ UNCHANGED <<op, retrying, failed>>
      BY <1>5, <2>3 DEF Resume, Send
    <3>2. Gone' = Gone /\ OneDrop
      BY <2>1 DEF Gone, OneDrop
    <3>3. ASSUME NEW u \in Task
          PROVE  Served(u)'
      <4>1. Served(u)
        BY <3>2 DEF HiddenInv
      <4> QED
        BY <1>a, <2>1, <3>1, <3>2, <4>1 DEF Served
    <3> QED
      BY <2>1, <3>2, <3>3 DEF HiddenInv
  <2> QED
    BY <2>2, <2>3
<1>6. ASSUME NEW t \in Task, Reject(t)
      PROVE  HiddenInv'
  BY <1>6, NeverInVain DEF Reject, others, OneDrop
<1>7. ASSUME NEW t \in Task, LoginAfterAll(t)
      PROVE  HiddenInv'
  <2>1. /\ pc' = [pc EXCEPT ![t] = "login"] /\ token' = [token EXCEPT ![t] = 0]
        /\ UNCHANGED <<session, op, retrying, failed, live, issued, drops, faults,
                       disconnects>>
        /\ pc[t] = "wokenReauth"
    BY <1>7 DEF LoginAfterAll, StartLogin, NoSession, counts, others
  <2>2. Gone' = Gone /\ OneDrop
    BY <2>1 DEF Gone, OneDrop
  <2>3. ASSUME NEW u \in Task
        PROVE  Served(u)'
    <3>1. Served(u)
      BY <2>2 DEF HiddenInv
    <3> QED
      BY <1>a, <2>1, <2>2, <3>1 DEF Served
  <2> QED
    BY <2>1, <2>2, <2>3 DEF HiddenInv
<1>8. ASSUME NEW t \in Task, Answered(t)
      PROVE  HiddenInv'
  <2>1. Goes(t) /\ UNCHANGED <<session, live, issued, drops, faults, disconnects>>
    BY <1>8, ReturnsGoes DEF Answered, others
  <2>2. /\ op' = op /\ \A u \in Task \ {t} : failed'[u] = failed[u]
        /\ op[t] # "transaction" => pc'[t] = "idle" /\ ~failed'[t]
    BY <1>8, <1>a, ReturnsFailed DEF Answered
  <2> QED
    BY <2>1, <2>2, GoesHidden
<1>9. ASSUME NEW t \in Task, Expired(t)
      PROVE  HiddenInv'
  <2>1. OneDrop /\ UNCHANGED <<live, issued, drops, faults, disconnects>>
    BY <1>9 DEF Expired, others, OneDrop
  <2>2. ~retrying[t] /\ pc[t] = "sent" /\ token[t] \notin live
    BY <1>9, <2>1, NeverInVain DEF Expired
  <2>3. /\ retrying' = [retrying EXCEPT ![t] = TRUE] /\ token' = [token EXCEPT ![t] = 0]
        /\ pc'[t] \in {"login", "waitReauth"} /\ UNCHANGED <<op, failed>>
        /\ \A u \in Task \ {t} : pc'[u] = pc[u]
    BY <1>9, <1>a, <2>2 DEF Expired, Reauthenticate, StartLogin, Await, NoSession
  <2>4. Gone' = Gone
    BY <2>1 DEF Gone
  <2>5. token[t] \in Gone
    BY <1>a, <2>1, <2>2 DEF Gone, HiddenInv, Served
  <2>6. ASSUME NEW u \in Task
        PROVE  Served(u)'
    <3>1. Served(u) /\ pc[u] # "woken"
      BY <1>9, <2>1 DEF HiddenInv, Expired, Quiet
    <3>2. CASE u = t
      BY <1>a, <2>3, <2>4, <2>5, <3>2 DEF Served
    <3>3. CASE u # t
      BY <1>a, <2>3, <2>4, <3>1, <3>3 DEF Served
    <3> QED
      BY <3>2, <3>3
  <2> QED
    BY <2>1, <2>4, <2>6 DEF HiddenInv
<1>10. ASSUME NEW t \in Task, LoggedOut(t)
       PROVE  HiddenInv'
  <2>1. CASE UNCHANGED <<drops, faults, disconnects>>
    BY <1>10, <2>1 DEF LoggedOut, HiddenInv, Served, OneDrop
  <2>2. CASE Fault
    BY <1>a, <2>2 DEF Fault, OneDrop
  <2> QED
    BY <1>10, <2>1, <2>2 DEF LoggedOut, counts, others
<1>11. CASE Drop
  <2>1. PICK s \in live : live' = live \ {s}
    BY <1>11 DEF Drop
  <2>2. /\ drops' = drops + 1
        /\ UNCHANGED <<session, issued, pc, op, token, retrying, failed, faults, disconnects>>
    BY <1>11 DEF Drop, auth
  <2>3. drops = 0 /\ OneDrop /\ Gone = {}
    BY <1>a, <2>2 DEF OneDrop, HiddenInv
  <2>4. Gone' = {s}
    BY <1>a, <2>1, <2>2, <2>3 DEF Gone
  <2>5. ASSUME NEW u \in Task
        PROVE  Served(u)'
    <3>1. Served(u) /\ ~retrying[u]
      BY <2>3 DEF HiddenInv, Served
    <3> QED
      BY <2>2, <3>1 DEF Served
  <2> QED
    BY <2>2, <2>3, <2>4, <2>5 DEF HiddenInv
<1>12. CASE UNCHANGED vars
  BY <1>12 DEF vars, auth, counts, others, HiddenInv, Served, Gone, OneDrop
<1> QED
  BY <1>1, <1>2, <1>3, <1>4, <1>5, <1>6, <1>7, <1>8, <1>9, <1>10, <1>11, <1>12
  DEF Next, TaskStep

\* At first nobody has seen a drop.
LEMMA HiddenInvInit == Init => HiddenInv
BY DEF Init, HiddenInv, Served, Gone, OneDrop

\* One dropped session is not seen by the callers (the single retry after reauthenticate
\* in client.ts), for any number of callers, however their logins overlap.
THEOREM OneDropIsHidden == Spec => []OneDropHidden
<1>1. HiddenInv => OneDropHidden
  BY DEF HiddenInv, Served, OneDropHidden, OneDrop
<1> QED
  BY ClientInvInit, ClientInvNext, HiddenInvInit, HiddenInvNext, <1>1, PTL DEF Spec

----------------------------------------------------------------------------
(* A transaction that throws *)

\* The write of a transaction that no other one overlaps is not saved before its
\* commit, and a transaction that has thrown leaves nothing behind.
Unsaved(t) ==
    t \notin overlapped =>
        /\ nest[t] > 0 /\ step[t] # "commit" => t \notin saved
        /\ Ended(t) /\ failed[t] => t \notin saved \cup staged

\* The inductive invariant.
ThrownInv == OneDrop => \A t \in Task : Unsaved(t)

\* A step of t leaves the calls of the others, and what they have written, alone.
LEMMA OthersUnsaved ==
    ASSUME NEW t \in Task, CommitInv, ThrownInv, OneDrop,
           \A u \in Task \ {t} : /\ pc'[u] = "idle" <=> pc[u] = "idle"
                                 /\ op'[u] = op[u] /\ step'[u] = step[u]
                                 /\ failed'[u] = failed[u] /\ nest'[u] = nest[u],
           overlapped \subseteq overlapped',
           staged' \subseteq staged \cup {t}, saved' \subseteq saved \cup staged,
           t \in Settling \/ saved' = saved,
           Unsaved(t)'
    PROVE  ThrownInv'
<1>1. ASSUME NEW u \in Task, u # t
      PROVE  Unsaved(u)'
  <2>1. nest[u] > 0 /\ t \in Settling => u \in overlapped
    BY <1>1 DEF CommitInv, Sound, Settling, Met
  <2>2. Unsaved(u)
    BY DEF ThrownInv
  <2> QED
    BY <1>1, <2>1, <2>2 DEF Unsaved, Ended
<1> QED
  BY <1>1 DEF ThrownInv

\* Going on concerns the task's own call only.
LEMMA GoesOnFrame ==
    ASSUME NEW t \in Task, BlockTypes, Returns(t) \/ Fails(t)
    PROVE  /\ op' = op /\ overlapped' = overlapped
           /\ \A u \in Task \ {t} : /\ pc'[u] = pc[u] /\ step'[u] = step[u]
                                    /\ failed'[u] = failed[u] /\ nest'[u] = nest[u]
<1> USE DEF BlockTypes
<1>1. ASSUME NEW s, NEW throws, Settles(t, s, throws) \/ EndCall(t, throws)
      PROVE  /\ op' = op /\ overlapped' = overlapped
             /\ \A u \in Task \ {t} : /\ pc'[u] = pc[u] /\ step'[u] = step[u]
                                      /\ failed'[u] = failed[u] /\ nest'[u] = nest[u]
  <2>1. \A u \in Task \ {t} : pc'[u] = pc[u]
    BY <1>1, SettlesGoes, EndCallGoes DEF Goes, Idle, Send, Await, StartLogin
  <2>2. \A u \in Task \ {t} : step'[u] = step[u]
    BY <1>1, SettlesGoes, EndCallGoes
  <2>3. \A u \in Task \ {t} : failed'[u] = failed[u]
    BY <1>1, SettlesGoes, EndCallGoes
  <2>4. \A u \in Task \ {t} : nest'[u] = nest[u]
    BY <1>1 DEF Settles, EndCall, Leaves
  <2>5. op' = op /\ overlapped' = overlapped
    BY <1>1 DEF Settles, EndCall, End
  <2> QED
    BY <2>1, <2>2, <2>3, <2>4, <2>5
<1>2. ASSUME NEW n, Nests(t, n)
      PROVE  /\ op' = op /\ overlapped' = overlapped
             /\ \A u \in Task \ {t} : /\ pc'[u] = pc[u] /\ step'[u] = step[u]
                                      /\ failed'[u] = failed[u] /\ nest'[u] = nest[u]
  <2>1. \A u \in Task \ {t} : pc'[u] = pc[u] /\ step'[u] = step[u]
    BY <1>2, NestsGoes DEF Goes, Idle, Send, Await, StartLogin
  <2>2. \A u \in Task \ {t} : nest'[u] = nest[u]
    BY <1>2 DEF Nests
  <2> QED
    BY <1>2, <2>1, <2>2 DEF Nests
<1>3. (\E s, throws : Settles(t, s, throws) \/ EndCall(t, throws)) \/ \E n : Nests(t, n)
  BY DEF Returns, Fails, Done, Throws
<1> QED
  BY <1>1, <1>2, <1>3

\* A transaction that goes on is not over; one that ends throws after its rollback,
\* unless it is an inner one of another's.
LEMMA GoesOnUnsaved ==
    ASSUME NEW t \in Task, CommitInv, Unsaved(t), Returns(t), Serve(t), pc[t] = "sent"
    PROVE  Unsaved(t)'
<1> USE DEF Ended
<1>a. /\ pc \in [Task -> Place] /\ op \in [Task -> Op] /\ step \in [Task -> Step]
      /\ failed \in [Task -> BOOLEAN] /\ nest \in [Task -> 0..MaxNest] /\ Sound(t)
      /\ op' = op /\ overlapped' = overlapped
  BY GoesOnFrame DEF CommitInv, BlockTypes
<1> SUFFICES ASSUME t \notin overlapped PROVE Unsaved(t)'
  BY <1>a DEF Unsaved
<1>1. CASE op[t] # "transaction"
  <2>1. nest'[t] = 0
    <3>1. ~InBody(t) /\ ~Commits(t) /\ ~RollsBack(t)
      BY <1>1 DEF InBody, Commits, RollsBack
    <3>2. \E throws : EndCall(t, throws)
      BY <3>1 DEF Returns, Done
    <3> QED
      BY <1>a, <3>2 DEF EndCall, Leaves
  <2> QED
    BY <1>1, <1>a, <2>1 DEF Unsaved
<1>2. CASE op[t] = "transaction"
  <2>1. nest[t] > 0 /\ outermost[t] /\ step[t] \in {"body", "commit", "rollback"}
    BY <1>2, <1>a DEF Sound, Settling, Step
  <2>2. ASSUME NEW s \in Step, Request(t, s, op[t])
        PROVE  pc'[t] # "idle" /\ step'[t] = s
    BY <1>2, <1>a, <2>2, RequestPlace DEF Request
  <2>3. ASSUME NEW s \in Step, Request(t, s, op[t]), t \notin saved'
        PROVE  Unsaved(t)'
    BY <2>2, <2>3 DEF Unsaved
  <2>4. CASE step[t] = "body"
    <3>1. t \notin saved /\ saved' = saved
      BY <2>1, <2>4, <1>a DEF Unsaved, Serve
    <3>2. \E s \in Step : Request(t, s, op[t])
      <4>1. Commits(t) /\ RollsBack(t)
        BY <1>2, <2>1, <2>4 DEF Commits, RollsBack
      <4> QED
        BY <4>1 DEF Returns, Done, Throws, Settles, Nests, Step
    <3> QED
      BY <2>3, <3>1, <3>2
  <2>5. CASE step[t] = "commit"
    <3>1. EndCall(t, FALSE)
      BY <1>2, <2>5 DEF Returns, Done, Commits, InBody
    <3>2. ~failed'[t] /\ nest'[t] = 0
      BY <1>a, <3>1 DEF EndCall, End, Leaves
    <3> QED
      BY <3>2 DEF Unsaved
  <2>6. CASE step[t] = "rollback"
    <3>1. t \notin saved /\ saved' = saved /\ staged' = {}
      BY <2>1, <2>6, <1>a DEF Unsaved, Serve
    <3>2. nest'[t] = 0
      BY <1>a, <2>6 DEF Returns, Done, Commits, InBody, EndCall, Leaves
    <3> QED
      BY <3>1, <3>2 DEF Unsaved
  <2> QED
    BY <2>1, <2>4, <2>5, <2>6
<1> QED
  BY <1>1, <1>2

\* Every step keeps it, up to the second drop.
LEMMA ThrownInvNext ==
    ClientInv /\ HiddenInv /\ ThrownInv /\ [Next]_vars => ThrownInv'
<1> SUFFICES ASSUME ClientInv, HiddenInv, ThrownInv, [Next]_vars, OneDrop'
             PROVE  ThrownInv'
  BY DEF ThrownInv
<1>a. /\ CommitInv /\ BlockTypes /\ pc \in [Task -> Place] /\ op \in [Task -> Op]
      /\ step \in [Task -> Step] /\ failed \in [Task -> BOOLEAN]
      /\ nest \in [Task -> 0..MaxNest] /\ MaxNest \in Nat
      /\ drops \in Nat /\ faults \in Nat /\ disconnects \in Nat
      /\ \A u \in Task : Sound(u) /\ step[u] \in Step
  BY TsBoundsAssumption DEF ClientInv, CommitInv, BlockTypes, CountTypes
<1>b. OneDrop => \A u \in Task : Unsaved(u)
  BY DEF ThrownInv
<1>1. ASSUME NEW t \in Task, Call(t)
      PROVE  ThrownInv'
  <2>1. OneDrop /\ UNCHANGED <<staged, saved, block>> /\ pc[t] = "idle"
    BY <1>1 DEF Call, Begin, config, OneDrop
  <2>2. PICK o \in {"connect", "request"} :
           Request(t, "none", o) /\ op' = [op EXCEPT ![t] = o]
           /\ failed' = [failed EXCEPT ![t] = FALSE]
    BY <1>1 DEF Call, Begin
  <2>3. Goes(t) /\ step' = [step EXCEPT ![t] = "none"]
    BY <2>2, RequestGoes
  <2>4. \A u \in Task \ {t} : pc'[u] = pc[u]
    BY <1>a, <2>3 DEF Goes, Idle, Send, Await, StartLogin
  <2>5. nest'[t] = 0
    BY <1>a, <2>1 DEF Sound, block
  <2>6. Unsaved(t)'
    BY <1>a, <2>2, <2>5 DEF Unsaved, Ended
  <2> QED
    BY <1>a, <2>1, <2>2, <2>3, <2>4, <2>6, OthersUnsaved DEF block
<1>2. ASSUME NEW t \in Task, Manual(t)
      PROVE  ThrownInv'
  <2>1. /\ OneDrop /\ UNCHANGED <<staged, saved, nest>> /\ pc[t] = "idle"
        /\ overlapped \subseteq overlapped'
    BY <1>2 DEF Manual, Meets, Begin, config, OneDrop
  <2>2. PICK o \in {"commit", "rollback"} :
           Request(t, o, o) /\ op' = [op EXCEPT ![t] = o]
           /\ failed' = [failed EXCEPT ![t] = FALSE]
    BY <1>2 DEF Manual, Begin
  <2>3. Goes(t) /\ step' = [step EXCEPT ![t] = o]
    BY <2>2, RequestGoes
  <2>4. \A u \in Task \ {t} : pc'[u] = pc[u]
    BY <1>a, <2>3 DEF Goes, Idle, Send, Await, StartLogin
  <2>5. nest'[t] = 0
    BY <1>a, <2>1 DEF Sound
  <2>6. Unsaved(t)'
    BY <1>a, <2>2, <2>5 DEF Unsaved, Ended
  <2> QED
    BY <1>a, <2>1, <2>2, <2>3, <2>4, <2>6, OthersUnsaved
<1>3. ASSUME NEW t \in Task, Transaction(t)
      PROVE  ThrownInv'
  <2>1. /\ OneDrop /\ UNCHANGED <<staged, saved>> /\ pc[t] = "idle"
        /\ overlapped \subseteq overlapped' /\ t \notin saved \cup staged
    BY <1>3 DEF Transaction, Meets, Begin, config, OneDrop
  <2>2. /\ Request(t, "body", "transaction") /\ op' = [op EXCEPT ![t] = "transaction"]
        /\ failed' = [failed EXCEPT ![t] = FALSE] /\ nest' = [nest EXCEPT ![t] = 1]
    BY <1>3 DEF Transaction, Begin
  <2>3. Goes(t) /\ step' = [step EXCEPT ![t] = "body"]
    BY <2>2, RequestGoes
  <2>4. \A u \in Task \ {t} : pc'[u] = pc[u]
    BY <1>a, <2>3 DEF Goes, Idle, Send, Await, StartLogin
  <2>6. Unsaved(t)'
    BY <1>a, <2>1, <2>2 DEF Unsaved, Ended
  <2> QED
    BY <1>a, <2>1, <2>2, <2>3, <2>4, <2>6, OthersUnsaved
<1>4. ASSUME NEW t \in Task, Disconnect(t)
      PROVE  ThrownInv'
  BY <1>4, <1>a DEF Disconnect, OneDrop
<1>5. ASSUME NEW t \in Task, LoggedIn(t)
      PROVE  ThrownInv'
  <2>1. OneDrop /\ UNCHANGED <<staged, saved, block, op, step, failed>>
    BY <1>5 DEF LoggedIn, Settle, config, counts, others, OneDrop
  <2>2. \A u \in Task : pc'[u] = "idle" <=> pc[u] = "idle"
    BY <1>5, <1>a DEF LoggedIn, Settle, Outcome
  <2> QED
    BY <2>1, <2>2 DEF block, ThrownInv, Unsaved, Ended
<1>6. ASSUME NEW t \in Task, LoginFails(t) \/ Lost(t)
      PROVE  ThrownInv'
  <2>1. faults' = faults + 1
    BY <1>6 DEF LoginFails, Lost, Fault
  <2> QED
    BY <1>a, <2>1 DEF OneDrop
<1>7. ASSUME NEW t \in Task, Resume(t)
      PROVE  ThrownInv'
  <2>1. OneDrop /\ UNCHANGED <<staged, saved, overlapped, op>> /\ pc[t] = "woken"
    BY <1>7 DEF Resume, Send, EndCall, End, block, config, counts, others, OneDrop
  <2>2. CASE op[t] = "connect"
    <3>1. /\ pc' = [pc EXCEPT ![t] = "idle"] /\ step' = [step EXCEPT ![t] = "none"]
          /\ failed' = [failed EXCEPT ![t] = FALSE] /\ nest' = [nest EXCEPT ![t] = 0]
      BY <1>7, <2>2 DEF Resume, EndCall, End, Idle, Leaves
    <3>2. Unsaved(t)'
      BY <1>a, <3>1 DEF Unsaved, Ended
    <3> QED
      BY <1>a, <2>1, <3>1, <3>2, OthersUnsaved
  <2>3. CASE op[t] # "connect"
    <3>1. pc' = [pc EXCEPT ![t] = "sent"] /\ UNCHANGED <<step, failed, nest>>
      BY <1>7, <2>3 DEF Resume, Send, block
    <3>2. Unsaved(t)'
      BY <1>a, <1>b, <2>1, <3>1 DEF Unsaved, Ended
    <3> QED
      BY <1>a, <2>1, <3>1, <3>2, OthersUnsaved
  <2> QED
    BY <2>2, <2>3
<1>8. ASSUME NEW t \in Task, Reject(t)
      PROVE  ThrownInv'
  BY <1>8, NeverInVain DEF Reject, others, OneDrop
<1>9. ASSUME NEW t \in Task, LoginAfterAll(t)
      PROVE  ThrownInv'
  <2>1. /\ OneDrop /\ UNCHANGED <<staged, saved, block, op, step, failed>>
        /\ pc[t] # "idle" /\ pc' = [pc EXCEPT ![t] = "login"]
    BY <1>9 DEF LoginAfterAll, StartLogin, config, counts, others, OneDrop
  <2> QED
    BY <1>a, <2>1 DEF block, ThrownInv, Unsaved, Ended
<1>10. ASSUME NEW t \in Task, Answered(t)
       PROVE  ThrownInv'
  <2>1. OneDrop /\ pc[t] = "sent" /\ Serve(t) /\ Returns(t)
    BY <1>10 DEF Answered, others, OneDrop
  <2>2. staged' \subseteq staged \cup {t} /\ saved' \subseteq saved \cup staged
        /\ (t \in Settling \/ saved' = saved)
    BY <1>a, <2>1 DEF Serve, Step, config, Sound
  <2>3. Unsaved(t)'
    BY <1>a, <1>b, <2>1, GoesOnUnsaved
  <2> QED
    BY <1>a, <2>1, <2>2, <2>3, GoesOnFrame, OthersUnsaved
<1>11. ASSUME NEW t \in Task, Expired(t)
       PROVE  ThrownInv'
  <2>1. OneDrop /\ UNCHANGED <<staged, saved>>
    BY <1>11 DEF Expired, others, config, OneDrop
  <2>2. ~retrying[t] /\ pc[t] = "sent"
    BY <1>11, <2>1, NeverInVain DEF Expired
  <2>3. /\ UNCHANGED <<op, step, failed, block>> /\ pc'[t] \in {"login", "waitReauth"}
        /\ \A u \in Task \ {t} : pc'[u] = pc[u]
    BY <1>11, <1>a, <2>2 DEF Expired, Reauthenticate, StartLogin, Await
  <2> QED
    BY <1>a, <2>1, <2>2, <2>3 DEF block, ThrownInv, Unsaved, Ended
<1>12. ASSUME NEW t \in Task, LoggedOut(t)
       PROVE  ThrownInv'
  <2>1. /\ op[t] = "disconnect" /\ UNCHANGED <<staged, saved, block, op, step, failed>>
        /\ pc' = [pc EXCEPT ![t] = "idle"]
    BY <1>12, <1>a DEF LoggedOut, Idle, config, Sound
  <2>2. OneDrop
    BY <1>12, <1>a DEF LoggedOut, Fault, counts, others, OneDrop
  <2> QED
    BY <1>a, <2>1, <2>2 DEF block, ThrownInv, Unsaved, Ended
<1>13. ASSUME UNCHANGED <<block, pc, op, step, failed, config>>, drops' \in {drops, drops + 1},
             UNCHANGED <<faults, disconnects>>
       PROVE  ThrownInv'
  <2>1. OneDrop
    BY <1>a, <1>13 DEF OneDrop
  <2> QED
    BY <2>1, <1>13 DEF block, config, ThrownInv, Unsaved, Ended
<1>14. Drop \/ UNCHANGED vars => ThrownInv'
  BY <1>a, <1>13 DEF Drop, vars, counts, others
<1> QED
  BY <1>1, <1>2, <1>3, <1>4, <1>5, <1>6, <1>7, <1>8, <1>9, <1>10, <1>11, <1>12, <1>14
  DEF Next, TaskStep

\* A transaction that throws has saved nothing and left nothing pending (the catch block of
\* transaction() in client.ts), if no exchange failed and at most one session was dropped.
THEOREM ThrownIsUndone == Spec => []ThrownLeavesNothing
<1>1. Init => ThrownInv
  BY DEF Init, ThrownInv, Unsaved, Ended
<1>2. ThrownInv => ThrownLeavesNothing
  BY DEF ThrownInv, Unsaved, ThrownLeavesNothing, OneDrop
<1> QED
  BY ClientInvInit, ClientInvNext, HiddenInvInit, HiddenInvNext, ThrownInvNext,
     <1>1, <1>2, PTL DEF Spec

----------------------------------------------------------------------------
(* The sessions the device grants *)

\* While nobody logs out: who has been told of a login has a session, and what is sent
\* carries one.
ToldInv ==
    disconnects = 0 =>
        \A t \in Task : /\ pc[t] # "logout"
                        /\ pc[t] = "woken" => session # 0
                        /\ pc[t] = "sent" => token[t] # 0

\* The logins still to come for the sessions dropped so far.  A caller owes one from
\* the answer that tells it of the drop until it has logged in (session 0), and before
\* that for a dead session it carries or will be given.
Owes(t, s) ==
    IF s = 0 THEN pc[t] \in {"login", "waitReauth", "wokenReauth"}
    ELSE /\ s \notin live
         /\ \/ session = s
            \/ pc[t] = "sent" /\ ~retrying[t] /\ token[t] = s
\* A caller and a session, for each login owed.
Owed == {c \in Task \X (0..issued) : Owes(c[1], c[2])}

\* The login of the next caller that finds neither a session nor a login.
Extra == IF session = NoSession /\ authPromise = NoTask THEN 1 ELSE 0

\* The inductive invariant: what has been granted and what is owed.
GrantInv ==
    disconnects = 0 =>
        issued + Extra + Cardinality(Owed) <= 1 + Cardinality(Task) * drops + faults

\* How many are owed at most.
LEMMA Within ==
    ASSUME NEW A, NEW B, IsFiniteSet(A), IsFiniteSet(B), NEW C, C \subseteq A \cup B
    PROVE  /\ Cardinality(A) \in Nat /\ Cardinality(B) \in Nat /\ Cardinality(C) \in Nat
           /\ Cardinality(C) <= Cardinality(A) + Cardinality(B)
<1>1. IsFiniteSet(A \cap B) /\ IsFiniteSet(A \cup B) /\ IsFiniteSet(C)
  BY FS_Union, FS_Subset
<1>2. Cardinality(A \cup B) = Cardinality(A) + Cardinality(B) - Cardinality(A \cap B)
  BY FS_Union
<1>3. Cardinality(C) <= Cardinality(A \cup B)
  BY <1>1, FS_Subset
<1>4. /\ Cardinality(A) \in Nat /\ Cardinality(B) \in Nat /\ Cardinality(C) \in Nat
      /\ Cardinality(A \cap B) \in Nat /\ Cardinality(A \cup B) \in Nat
  BY <1>1, FS_CardinalityType
<1> QED
  BY <1>2, <1>3, <1>4

\* They are finitely many.
LEMMA OwedFinite ==
    ASSUME TokenTypes
    PROVE  IsFiniteSet(Owed)
<1>1. issued \in Nat
  BY DEF TokenTypes
<1>2. IsFiniteSet(0..issued)
  BY <1>1, FS_Interval
<1>3. IsFiniteSet(Task \X (0..issued))
  BY <1>2, FiniteTasks, FS_Product, Zenon
<1>4. Owed \subseteq Task \X (0..issued)
  BY DEF Owed
<1> QED
  BY <1>3, <1>4, FS_Subset

\* The logins owed by all tasks for one session.
LEMMA OneEach ==
    ASSUME NEW s
    PROVE  IsFiniteSet(Task \X {s}) /\ Cardinality(Task \X {s}) = Cardinality(Task)
<1>1. IsFiniteSet({s}) /\ Cardinality({s}) = 1
  BY FS_Singleton
<1>2. IsFiniteSet(Task \X {s}) /\ Cardinality(Task \X {s}) = Cardinality(Task) * 1
  BY <1>1, FiniteTasks, FS_Product, Zenon
<1>3. Cardinality(Task) \in Nat
  BY FiniteTasks, FS_CardinalityType
<1>4. \A n \in Nat : n * 1 = n
  OBVIOUS
<1> QED
  BY <1>2, <1>3, <1>4, Zenon

\* The bound, when k more are owed and j are paid.
LEMMA Balances ==
    ASSUME ClientInv, GrantInv, disconnects = 0, disconnects' = 0, drops' = drops,
           faults' \in {faults, faults + 1}, issued' \in {issued, issued + 1},
           NEW P, P \subseteq Owed, NEW N, IsFiniteSet(N), Owed' \subseteq (Owed \ P) \cup N,
           issued' + Extra' + Cardinality(N) + faults
              <= issued + Extra + Cardinality(P) + faults'
    PROVE  GrantInv'
<1>1. IsFiniteSet(Owed) /\ IsFiniteSet(P) /\ IsFiniteSet(Owed \ P) /\ Owed \cap P = P
  BY OwedFinite, FS_Subset DEF ClientInv
<1>2. Cardinality(Owed \ P) = Cardinality(Owed) - Cardinality(P)
  <2>1. Cardinality(Owed \ P) = Cardinality(Owed) - Cardinality(Owed \cap P)
    BY <1>1, FS_Difference
  <2> QED
    BY <1>1, <2>1
<1>3. /\ Cardinality(Owed \ P) \in Nat /\ Cardinality(N) \in Nat /\ Cardinality(Owed') \in Nat
      /\ Cardinality(Owed') <= Cardinality(Owed \ P) + Cardinality(N)
  BY <1>1, Within
<1>4. /\ Cardinality(Owed) \in Nat /\ Cardinality(P) \in Nat /\ Cardinality(Task) \in Nat
  BY <1>1, FiniteTasks, FS_CardinalityType
<1>5. /\ issued \in Nat /\ faults \in Nat /\ drops \in Nat
      /\ Extra \in Nat /\ Extra' \in Nat
      /\ issued' \in Nat /\ faults' \in Nat
  BY DEF ClientInv, TokenTypes, CountTypes, Extra
<1> DEFINE b == Cardinality(Task) * drops
<1>6. b \in Nat
  BY <1>4, <1>5
<1>7. issued + Extra + Cardinality(Owed) <= 1 + b + faults
  BY DEF GrantInv
<1>8. issued' + Extra' + Cardinality(Owed') <= 1 + b + faults'
  <2> HIDE DEF b
  <2> QED
    BY <1>1, <1>2, <1>3, <1>4, <1>5, <1>6, <1>7
<1> QED
  BY <1>8 DEF GrantInv

\* Nobody owes more, and the login to come for the next caller has not become one more.
LEMMA NobodyOwesMore ==
    ASSUME ClientInv, GrantInv, disconnects = 0, disconnects' = 0, drops' = drops,
           faults' \in {faults, faults + 1}, issued' = issued, Owed' \subseteq Owed,
           Extra' <= Extra
    PROVE  GrantInv'
<1>1. IsFiniteSet({}) /\ Cardinality({}) = 0
  BY FS_EmptySet
<1>2. issued \in Nat /\ Extra \in Nat /\ Extra' \in Nat /\ faults \in Nat /\ faults' \in Nat
  BY DEF ClientInv, TokenTypes, CountTypes, Extra
<1>3. issued' + Extra' + Cardinality({}) + faults
         <= issued + Extra + Cardinality({}) + faults'
  BY <1>1, <1>2
<1>4. {} \subseteq Owed /\ Owed' \subseteq (Owed \ {}) \cup {}
  OBVIOUS
<1> QED
  BY <1>1, <1>3, <1>4, Balances

\* One caller owes one more login: it was the next to log in.
LEMMA OneOwesMore ==
    ASSUME ClientInv, GrantInv, disconnects = 0, disconnects' = 0, drops' = drops,
           faults' \in {faults, faults + 1}, issued' = issued,
           NEW c, Owed' \subseteq Owed \cup {c}, Extra = 1, Extra' = 0
    PROVE  GrantInv'
<1>1. /\ IsFiniteSet({}) /\ Cardinality({}) = 0
      /\ IsFiniteSet({c}) /\ Cardinality({c}) = 1
  BY FS_EmptySet, FS_Singleton
<1>2. issued \in Nat /\ Extra \in Nat /\ Extra' \in Nat /\ faults \in Nat /\ faults' \in Nat
  BY DEF ClientInv, TokenTypes, CountTypes, Extra
<1>3. issued' + Extra' + Cardinality({c}) + faults
         <= issued + Extra + Cardinality({}) + faults'
  <2>1. issued' + Extra' + 1 + faults <= issued + Extra + 0 + faults'
    <3>1. \A i, f, g \in Nat : f <= g => i + 0 + 1 + f <= i + 1 + 0 + g
      OBVIOUS
    <3>2. issued' = issued /\ Extra' = 0 /\ Extra = 1
      OBVIOUS
    <3>3. faults <= faults'
      BY <1>2
    <3> QED
      BY <1>2, <3>1, <3>2, <3>3, Zenon
  <2> QED
    BY <1>1, <2>1, Zenon
<1>4. {} \subseteq Owed /\ Owed' \subseteq (Owed \ {}) \cup {c}
  OBVIOUS
<1> QED
  BY <1>1, <1>3, <1>4, Balances

\* A login that ends was owed.
LEMMA LoginPays ==
    ASSUME ClientInv, GrantInv, disconnects = 0, disconnects' = 0, drops' = drops,
           faults' \in {faults, faults + 1}, issued' \in {issued, issued + 1},
           NEW c \in Owed, Owed' \subseteq Owed \ {c},
           faults' = faults => Extra' = 0
    PROVE  GrantInv'
<1>1. /\ IsFiniteSet({}) /\ Cardinality({}) = 0
      /\ IsFiniteSet({c}) /\ Cardinality({c}) = 1
  BY FS_EmptySet, FS_Singleton
<1>2. /\ issued \in Nat /\ Extra \in {0, 1} /\ Extra' \in {0, 1} /\ faults \in Nat
      /\ faults' \in Nat /\ issued' \in Nat
  BY DEF ClientInv, TokenTypes, CountTypes, Extra
<1>3. issued' + Extra' + Cardinality({}) + faults
         <= issued + Extra + Cardinality({c}) + faults'
  BY <1>1, <1>2
<1>4. {c} \subseteq Owed /\ Owed' \subseteq (Owed \ {c}) \cup {}
  OBVIOUS
<1> QED
  BY <1>1, <1>3, <1>4, Balances

\* A caller learns that its session is gone: the login it owed for it is the one it
\* owes now.
LEMMA OwesAnother ==
    ASSUME ClientInv, GrantInv, disconnects = 0, disconnects' = 0, drops' = drops,
           faults' = faults, issued' = issued,
           NEW c \in Owed, NEW d, Owed' \subseteq (Owed \ {c}) \cup {d}, Extra' = 0
    PROVE  GrantInv'
<1>1. /\ IsFiniteSet({c}) /\ Cardinality({c}) = 1
      /\ IsFiniteSet({d}) /\ Cardinality({d}) = 1
  BY FS_Singleton
<1>2. issued \in Nat /\ Extra \in Nat /\ faults \in Nat
  BY DEF ClientInv, TokenTypes, CountTypes, Extra
<1>3. issued' + Extra' + Cardinality({d}) + faults
         <= issued + Extra + Cardinality({c}) + faults'
  BY <1>1, <1>2
<1> QED
  BY <1>1, <1>3, Balances

\* A dropped session costs every caller a login at most.
LEMMA AllOweOne ==
    ASSUME ClientInv, GrantInv, disconnects = 0, disconnects' = 0, drops' = drops + 1,
           faults' = faults, issued' = issued, Extra' = Extra,
           NEW s, Owed' \subseteq Owed \cup (Task \X {s})
    PROVE  GrantInv'
<1> DEFINE n == Cardinality(Task)
           b == n * drops
<1>1. IsFiniteSet(Owed) /\ IsFiniteSet(Task \X {s}) /\ Cardinality(Task \X {s}) = n
  BY OwedFinite, OneEach DEF ClientInv
<1>2. /\ Cardinality(Owed) \in Nat /\ Cardinality(Owed') \in Nat
      /\ Cardinality(Owed') <= Cardinality(Owed) + n
  BY <1>1, Within
<1>3. issued \in Nat /\ Extra \in Nat /\ faults \in Nat /\ drops \in Nat /\ n \in Nat
  BY FiniteTasks, FS_CardinalityType DEF ClientInv, TokenTypes, CountTypes, Extra
<1>4. n * drops' = b + n /\ b \in Nat
  BY <1>3
<1>5. issued + Extra + Cardinality(Owed) <= 1 + b + faults
  BY DEF GrantInv
<1>6. issued' + Extra' + Cardinality(Owed') <= 1 + (b + n) + faults'
  <2> HIDE DEF n, b
  <2> QED
    BY <1>2, <1>3, <1>4, <1>5
<1>7. issued' + Extra' + Cardinality(Owed') <= 1 + n * drops' + faults'
  BY <1>4, <1>6, Zenon
<1> QED
  BY <1>7 DEF GrantInv

\* Every step keeps what callers are told.
LEMMA ToldInvNext == ClientInv /\ ToldInv /\ [Next]_vars => ToldInv'
<1> SUFFICES ASSUME ClientInv, ToldInv, [Next]_vars, disconnects' = 0
             PROVE  ToldInv'
  BY DEF ToldInv
<1>a. /\ pc \in [Task -> Place] /\ token \in [Task -> 0..issued] /\ issued \in Nat
      /\ disconnects \in Nat
  BY DEF ClientInv, WaitInv, TokenTypes, CountTypes
<1>1. ASSUME NEW t \in Task, Goes(t), UNCHANGED <<session, disconnects>>
      PROVE  ToldInv'
  BY <1>1, <1>a DEF ToldInv, Goes, Idle, Send, Await, StartLogin, NoSession
<1>2. ASSUME NEW t \in Task, Call(t) \/ Manual(t) \/ Transaction(t)
      PROVE  ToldInv'
  BY <1>1, <1>2, RequestGoes DEF Call, Manual, Transaction, Begin
<1>3. ASSUME NEW t \in Task, Disconnect(t)
      PROVE  ToldInv'
  BY <1>3, <1>a DEF Disconnect
<1>4. ASSUME NEW t \in Task, LoggedIn(t)
      PROVE  ToldInv'
  <2>1. session' # 0 /\ UNCHANGED <<token, disconnects>>
    BY <1>4, <1>a DEF LoggedIn, Settle, counts, others
  <2>2. \A u \in Task : pc'[u] = pc[u] \/ pc'[u] \in {"woken", "wokenReauth"}
    BY <1>4 DEF LoggedIn, Settle, Outcome
  <2> QED
    BY <2>1, <2>2 DEF ToldInv
<1>5. ASSUME NEW t \in Task, LoginFails(t)
      PROVE  ToldInv'
  <2>1. UNCHANGED <<token, disconnects, session>>
    BY <1>5, <1>a DEF LoginFails, Settle, Fault
  <2>2. \A u \in Task : pc'[u] = pc[u] \/ pc'[u] \in {"rejected", "wokenReauth"}
    BY <1>5 DEF LoginFails, Settle, Outcome
  <2> QED
    BY <2>1, <2>2 DEF ToldInv
<1>6. ASSUME NEW t \in Task, Resume(t)
      PROVE  ToldInv'
  <2>1. UNCHANGED <<session, disconnects>> /\ pc[t] = "woken"
    BY <1>6 DEF Resume, counts, others
  <2>2. CASE op[t] = "connect"
    BY <1>1, <1>6, <2>1, <2>2, EndCallGoes DEF Resume
  <2>3. CASE op[t] # "connect"
    BY <1>6, <1>a, <2>1, <2>3 DEF Resume, Send, ToldInv
  <2> QED
    BY <2>2, <2>3
<1>7. ASSUME NEW t \in Task, Reject(t) \/ Lost(t)
      PROVE  ToldInv'
  BY <1>1, <1>7, FailsGoes DEF Reject, Lost, Fault, others
<1>8. ASSUME NEW t \in Task, LoginAfterAll(t)
      PROVE  ToldInv'
  BY <1>8, <1>a DEF LoginAfterAll, StartLogin, counts, others, ToldInv
<1>9. ASSUME NEW t \in Task, Answered(t)
      PROVE  ToldInv'
  BY <1>1, <1>9, ReturnsGoes DEF Answered, others
<1>10. ASSUME NEW t \in Task, Expired(t)
       PROVE  ToldInv'
  <2>1. CASE retrying[t]
    BY <1>1, <1>10, <2>1, FailsGoes DEF Expired, others
  <2>2. CASE ~retrying[t]
    <3>1. \A u \in Task : pc[u] # "woken"
      BY <1>10 DEF Expired, Quiet
    <3>2. /\ disconnects' = disconnects /\ pc'[t] \in {"login", "waitReauth"}
          /\ \A u \in Task \ {t} : pc'[u] = pc[u] /\ token'[u] = token[u]
      BY <1>10, <1>a, <2>2 DEF Expired, Reauthenticate, StartLogin, Await, others
    <3>3. pc'[t] # "woken" /\ pc'[t] # "sent" /\ pc'[t] # "logout"
      BY <3>2
    <3> QED
      BY <3>1, <3>2, <3>3 DEF ToldInv
  <2> QED
    BY <2>1, <2>2
<1>11. ASSUME NEW t \in Task, LoggedOut(t)
       PROVE  ToldInv'
  BY <1>11, <1>a DEF LoggedOut, Fault, counts, others, ToldInv
<1>12. CASE Drop
  BY <1>12 DEF Drop, auth, ToldInv
<1>13. CASE UNCHANGED vars
  BY <1>13 DEF vars, auth, counts, others, ToldInv
<1> QED
  BY <1>2, <1>3, <1>4, <1>5, <1>6, <1>7, <1>8, <1>9, <1>10, <1>11, <1>12, <1>13
  DEF Next, TaskStep

\* Going on costs a login only if there is none to wait for.
LEMMA GoesGrants ==
    ASSUME NEW t \in Task, ClientInv, GrantInv, disconnects = 0, Goes(t),
           UNCHANGED <<session, live, issued, drops, disconnects>>,
           faults' \in {faults, faults + 1}
    PROVE  GrantInv'
<1>a. /\ pc \in [Task -> Place] /\ token \in [Task -> 0..issued] /\ issued \in Nat
      /\ retrying \in [Task -> BOOLEAN] /\ session \in 0..issued
  BY DEF ClientInv, WaitInv, TokenTypes
<1>1. ASSUME NEW u \in Task, u # t, NEW s
      PROVE  Owes(u, s)' <=> Owes(u, s)
  BY <1>1, <1>a DEF Owes, Goes, Idle, Send, Await, StartLogin
<1>2. CASE ~StartLogin(t)
  <2>1. ASSUME NEW s, Owes(t, s)'
        PROVE  Owes(t, s)
    BY <1>2, <1>a, <2>1 DEF Owes, Goes, Idle, Send, Await
  <2>2. Owed' \subseteq Owed
    BY <1>1, <2>1 DEF Owed
  <2>3. Extra' = Extra /\ Extra \in Nat
    BY <1>2 DEF Extra, Goes, Idle, Send, Await
  <2>4. Extra' <= Extra
    BY <2>3
  <2> QED
    BY <2>2, <2>4, NobodyOwesMore
<1>3. CASE StartLogin(t) /\ session = NoSession /\ authPromise = NoTask
  <2>1. ASSUME NEW s, Owes(t, s)', s # 0
        PROVE  Owes(t, s)
    BY <1>3, <1>a, <2>1 DEF Owes, StartLogin
  <2>2. Owed' \subseteq Owed \cup {<<t, 0>>}
    BY <1>1, <2>1 DEF Owed
  <2>3. Extra' = 0 /\ Extra = 1
    BY <1>3, NoTaskAssumption DEF Extra, StartLogin
  <2> QED
    BY <2>2, <2>3, OneOwesMore
<1>4. CASE StartLogin(t) /\ ~(session = NoSession /\ authPromise = NoTask)
  <2>1. pc'[t] = "login"
    BY <1>4, <1>a DEF StartLogin
  <2> QED
    BY <1>4, <1>a, <2>1 DEF Goes, Idle, Send, Await
<1> QED
  BY <1>2, <1>3, <1>4

\* Every step keeps the bound.
LEMMA GrantInvNext ==
    ClientInv /\ ToldInv /\ GrantInv /\ [Next]_vars => GrantInv'
<1> SUFFICES ASSUME ClientInv, ToldInv, GrantInv, [Next]_vars, disconnects' = 0
             PROVE  GrantInv'
  BY DEF GrantInv
<1>a. /\ pc \in [Task -> Place] /\ token \in [Task -> 0..issued] /\ issued \in Nat
      /\ retrying \in [Task -> BOOLEAN] /\ session \in 0..issued /\ live \subseteq 1..issued
      /\ disconnects \in Nat /\ faults \in Nat /\ NoTask \notin Task
  BY NoTaskAssumption DEF ClientInv, WaitInv, TokenTypes, CountTypes
<1>1. ASSUME NEW t \in Task, Call(t) \/ Manual(t) \/ Transaction(t)
      PROVE  GrantInv'
  <2>1. Goes(t)
    BY <1>1, RequestGoes DEF Call, Manual, Transaction
  <2>2. UNCHANGED <<session, live, issued, drops, faults, disconnects>>
    BY <1>1 DEF Call, Manual, Transaction, Begin
  <2> QED
    BY <2>1, <2>2, GoesGrants
<1>2. ASSUME NEW t \in Task, Disconnect(t)
      PROVE  GrantInv'
  BY <1>2, <1>a DEF Disconnect
<1>3. ASSUME NEW t \in Task, LoggedIn(t) \/ LoginFails(t)
      PROVE  GrantInv'
  <2>1. /\ pc[t] = "login" /\ disconnects' = disconnects /\ drops' = drops
        /\ faults' \in {faults, faults + 1} /\ issued' \in {issued, issued + 1}
        /\ \A s \in 0..issued : s \in live' <=> s \in live
        /\ issued + 1 <= issued' => issued + 1 \in live'
        /\ session' \in {session, issued'} /\ (session' = session \/ issued' \in live')
        /\ faults' = faults => session' = issued + 1
        /\ UNCHANGED <<token, retrying>>
    <3>1. CASE LoggedIn(t)
      <4>1. /\ session' = issued + 1 /\ issued' = issued + 1
            /\ live' = live \cup {issued + 1}
            /\ UNCHANGED <<drops, faults, disconnects, token, retrying>>
        BY <3>1 DEF LoggedIn, Settle, counts, others
      <4> QED
        BY <1>a, <3>1, <4>1 DEF LoggedIn
    <3>2. CASE LoginFails(t)
      <4>1. /\ session' = session /\ faults' = faults + 1
            /\ UNCHANGED <<drops, disconnects, token, retrying>>
        BY <3>2 DEF LoginFails, Settle, Fault
      <4>2. \/ live' = live /\ issued' = issued
            \/ live' = live \cup {issued + 1} /\ issued' = issued + 1
        BY <3>2 DEF LoginFails
      <4> QED
        BY <1>a, <3>2, <4>1, <4>2 DEF LoginFails
    <3> QED
      BY <1>3, <3>1, <3>2
  <2>2. /\ pc'[t] \in {"woken", "rejected"}
        /\ \A u \in Task : \/ pc'[u] = pc[u]
                           \/ pc'[u] \in {"woken", "rejected"}
                           \/ pc'[u] = "wokenReauth" /\ pc[u] = "waitReauth"
    BY <1>3 DEF LoggedIn, LoginFails, Settle, Outcome
  <2>3. <<t, 0>> \in Owed
    BY <1>a, <2>1 DEF Owed, Owes
  <2>4. ASSUME NEW u \in Task, NEW s \in 0..issued', Owes(u, s)'
        PROVE  s \in 0..issued /\ Owes(u, s) /\ <<u, s>> # <<t, 0>>
    BY <1>a, <2>1, <2>2, <2>4 DEF Owes
  <2>5. Owed' \subseteq Owed \ {<<t, 0>>}
    BY <2>4 DEF Owed
  <2>6. faults' = faults => Extra' = 0
    BY <1>a, <2>1 DEF Extra, NoSession
  <2> QED
    BY <2>1, <2>3, <2>5, <2>6, LoginPays
<1>4. ASSUME NEW t \in Task, Resume(t)
      PROVE  GrantInv'
  <2>1. UNCHANGED <<session, live, issued, drops, faults, disconnects>> /\ pc[t] = "woken"
    BY <1>4 DEF Resume, counts, others
  <2>2. CASE op[t] = "connect"
    BY <1>4, <2>1, <2>2, EndCallGoes, GoesGrants DEF Resume
  <2>3. CASE op[t] # "connect"
    <3>1. /\ pc' = [pc EXCEPT ![t] = "sent"] /\ token' = [token EXCEPT ![t] = session]
          /\ UNCHANGED <<retrying, authPromise>> /\ session # 0
      BY <1>4, <2>1, <2>3 DEF Resume, Send, ToldInv
    <3>a. ASSUME NEW u \in Task, NEW s, Owes(u, s)'
          PROVE  Owes(u, s)
      <4>1. CASE u = t
        BY <1>a, <2>1, <3>1, <3>a, <4>1 DEF Owes
      <4>2. CASE u # t
        BY <1>a, <2>1, <3>1, <3>a, <4>2 DEF Owes
      <4> QED
        BY <4>1, <4>2
    <3>2. Owed' \subseteq Owed
      BY <2>1, <3>a DEF Owed
    <3>3. Extra' = Extra /\ Extra \in Nat
      BY <2>1, <3>1 DEF Extra
    <3>4. Extra' <= Extra
      BY <3>3
    <3> QED
      BY <2>1, <3>2, <3>4, NobodyOwesMore
  <2> QED
    BY <2>2, <2>3
<1>5. ASSUME NEW t \in Task, Reject(t) \/ Lost(t)
      PROVE  GrantInv'
  <2>1. UNCHANGED <<session, live, issued, drops, disconnects>>
        /\ faults' \in {faults, faults + 1}
    BY <1>5 DEF Reject, Lost, Fault, others
  <2> QED
    BY <1>5, <2>1, FailsGoes, GoesGrants DEF Reject, Lost
<1>6. ASSUME NEW t \in Task, LoginAfterAll(t)
      PROVE  GrantInv'
  <2>1. /\ pc' = [pc EXCEPT ![t] = "login"] /\ token' = [token EXCEPT ![t] = 0]
        /\ pc[t] = "wokenReauth" /\ authPromise' = t
        /\ UNCHANGED <<session, retrying, live, issued, drops, faults, disconnects>>
    BY <1>6 DEF LoginAfterAll, StartLogin, NoSession, counts, others
  <2>2. Owed' \subseteq Owed
    BY <1>a, <2>1 DEF Owed, Owes
  <2>3. Extra' = 0 /\ Extra \in Nat
    BY <1>a, <2>1 DEF Extra
  <2>4. Extra' <= Extra
    BY <2>3
  <2> QED
    BY <2>1, <2>2, <2>4, NobodyOwesMore
<1>7. ASSUME NEW t \in Task, Answered(t)
      PROVE  GrantInv'
  <2>1. UNCHANGED <<session, live, issued, drops, faults, disconnects>>
    BY <1>7 DEF Answered, others
  <2> QED
    BY <1>7, <2>1, ReturnsGoes, GoesGrants DEF Answered
<1>8. ASSUME NEW t \in Task, Expired(t)
      PROVE  GrantInv'
  <2>1. UNCHANGED <<live, issued, drops, faults, disconnects>> /\ pc[t] = "sent"
        /\ token[t] \notin live /\ token[t] # 0
    BY <1>8 DEF Expired, others, ToldInv
  <2>2. CASE retrying[t]
    BY <1>8, <2>1, <2>2, FailsGoes, GoesGrants DEF Expired
  <2>3. CASE ~retrying[t]
    <3>1. /\ session' = 0 /\ pc'[t] \in {"login", "waitReauth"} /\ authPromise' # NoTask
          /\ \A u \in Task \ {t} : /\ pc'[u] = pc[u] /\ token'[u] = token[u]
                                   /\ retrying'[u] = retrying[u]
      BY <1>8, <1>a, <2>3 DEF Expired, Reauthenticate, StartLogin, Await, NoSession
    <3>2. <<t, token[t]>> \in Owed
      BY <1>a, <2>1, <2>3 DEF Owed, Owes
    <3>3. ASSUME NEW u \in Task, NEW s \in 0..issued, Owes(u, s)', <<u, s>> # <<t, 0>>
          PROVE  Owes(u, s) /\ <<u, s>> # <<t, token[t]>>
      <4>1. pc'[t] # "sent"
        BY <3>1
      <4>2. CASE u = t
        BY <1>a, <2>1, <3>1, <3>3, <4>1, <4>2 DEF Owes
      <4>3. CASE u # t
        BY <1>a, <2>1, <3>1, <3>3, <4>3 DEF Owes
      <4> QED
        BY <4>2, <4>3
    <3>4. Owed' \subseteq (Owed \ {<<t, token[t]>>}) \cup {<<t, 0>>}
      BY <2>1, <3>3 DEF Owed
    <3>5. Extra' = 0
      BY <3>1 DEF Extra
    <3> QED
      BY <2>1, <3>2, <3>4, <3>5, OwesAnother
  <2> QED
    BY <2>2, <2>3
<1>9. ASSUME NEW t \in Task, LoggedOut(t)
      PROVE  GrantInv'
  BY <1>9, <1>a DEF LoggedOut, Fault, counts, others, ToldInv
<1>10. CASE Drop
  <2>1. PICK d \in live : live' = live \ {d}
    BY <1>10 DEF Drop
  <2>2. /\ drops' = drops + 1
        /\ UNCHANGED <<session, authPromise, pc, token, retrying, issued, faults, disconnects>>
    BY <1>10 DEF Drop, auth
  <2>3. \A u \in Task, s \in 0..issued : Owes(u, s)' => Owes(u, s) \/ s = d
    BY <2>1, <2>2 DEF Owes
  <2>4. Owed' \subseteq Owed \cup (Task \X {d})
    BY <2>2, <2>3 DEF Owed
  <2>5. Extra' = Extra
    BY <2>2 DEF Extra
  <2> QED
    BY <2>2, <2>4, <2>5, AllOweOne
<1>11. CASE UNCHANGED vars
  BY <1>11 DEF vars, auth, counts, others, GrantInv, Owed, Owes, Extra
<1> QED
  BY <1>1, <1>2, <1>3, <1>4, <1>5, <1>6, <1>7, <1>8, <1>9, <1>10, <1>11
  DEF Next, TaskStep

\* A client that is not logged out is granted one session, and one more for each caller and
\* each dropped session (authPromise in auth.ts), failed logins apart.
THEOREM SessionsAreBounded == Spec => []SessionsPerDrop
<1>1. Init => ToldInv /\ GrantInv
  <2> SUFFICES ASSUME Init PROVE ToldInv /\ GrantInv
    OBVIOUS
  <2>1. Owed = {}
    BY DEF Init, Owed, Owes
  <2>2. Cardinality(Owed) = 0
    BY <2>1, FS_EmptySet
  <2>3. Cardinality(Task) \in Nat
    BY FiniteTasks, FS_CardinalityType
  <2>4. Extra = 1 /\ issued = 0 /\ drops = 0 /\ faults = 0
    BY DEF Init, Extra
  <2>5. GrantInv
    BY <2>2, <2>3, <2>4 DEF GrantInv
  <2> QED
    BY <2>5 DEF Init, ToldInv
<1>2. ClientInv /\ GrantInv => SessionsPerDrop
  <2> SUFFICES ASSUME ClientInv, GrantInv, disconnects = 0
               PROVE  issued <= 1 + Cardinality(Task) * drops + faults
    BY DEF SessionsPerDrop
  <2> DEFINE b == Cardinality(Task) * drops
  <2>1. /\ issued \in Nat /\ Extra \in Nat /\ Cardinality(Owed) \in Nat /\ drops \in Nat
        /\ faults \in Nat /\ Cardinality(Task) \in Nat
    BY OwedFinite, FiniteTasks, FS_CardinalityType
       DEF ClientInv, TokenTypes, CountTypes, Extra
  <2>2. issued + Extra + Cardinality(Owed) <= 1 + b + faults
    BY DEF GrantInv
  <2>3. b \in Nat
    BY <2>1
  <2> HIDE DEF b
  <2>4. issued <= 1 + b + faults
    BY <2>1, <2>2, <2>3
  <2> QED
    BY <2>4 DEF b
<1> QED
  BY ClientInvInit, ClientInvNext, ToldInvNext, GrantInvNext, <1>1, <1>2, PTL DEF Spec
=============================================================================
