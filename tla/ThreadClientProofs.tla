------------------------- MODULE ThreadClientProofs -------------------------
(****************************************************************************)
(* Facts about the Go and the Java client, for any number of threads and    *)
(* any bounds.                                                              *)
(*                                                                          *)
(* The mutex is held exactly by the login that is under way: every path out *)
(* of a login, the refused one and the lost one included, gives it back,    *)
(* and every other call leaves it alone.                                    *)
(*                                                                          *)
(* A transaction that no other one overlaps and that returns has saved its  *)
(* write: only transactions touch the pending configuration, so the write   *)
(* is still pending when the commit arrives.  One that fails leaves it      *)
(* pending only when its last request was not carried out.                  *)
(*                                                                          *)
(* One dropped session is not seen by the callers, and the device grants    *)
(* one session and at most one for each thread and loss: an account of what *)
(* has been granted and of the logins still owed, which every loss raises   *)
(* by no more than the number of threads.                                   *)
(****************************************************************************)
EXTENDS ThreadClient, TLAPS, FiniteSetTheorems

\* The inductive invariant: LockIsReleased and the types it rests on.
LockInv ==
    /\ pc \in [Thread -> Place]
    /\ holder \in Thread \cup {NoThread}
    /\ LockIsReleased

\* A thread goes on to wait for anything but the answer to a login.
Moves(t) == \E place \in Place \ {"login"} : Wait(t, place)

\* How the calls of other threads see a request begin,
LEMMA RequestMoves ==
    ASSUME NEW t \in Thread, NEW s, Request(t, s)
    PROVE  Moves(t)
BY DEF Request, Moves, Place

\* a call end,
LEMMA EndCallMoves ==
    ASSUME NEW t \in Thread, NEW fails, EndCall(t, fails)
    PROVE  Moves(t)
BY DEF EndCall, Moves, Place

\* An error ends the call or starts the rollback.
LEMMA ThrowsMoves ==
    ASSUME NEW t \in Thread, Throws(t)
    PROVE  Moves(t)
BY RequestMoves, EndCallMoves DEF Throws

\* An answer ends the call or starts the commit.
LEMMA ReturnsMoves ==
    ASSUME NEW t \in Thread, Returns(t)
    PROVE  Moves(t)
BY RequestMoves, EndCallMoves, ThrowsMoves DEF Returns

\* and a 401 retried.
LEMMA RetriesOnceMoves ==
    ASSUME NEW t \in Thread, RetriesOnce(t)
    PROVE  Moves(t)
BY ThrowsMoves DEF RetriesOnce, Moves, Place

----------------------------------------------------------------------------
(* What happens to the mutex *)

\* Whoever is not logging in leaves the mutex alone.
LEMMA MovesKeep ==
    ASSUME NEW t \in Thread, LockInv, pc[t] # "login", Moves(t), UNCHANGED holder
    PROVE  LockInv'
BY NoThreadAssumption DEF LockInv, LockIsReleased, Moves, Wait

\* A login starts with the mutex, which was free.
LEMMA LoginTakes ==
    ASSUME NEW t \in Thread, LockInv, Free, Wait(t, "login"), holder' = t
    PROVE  LockInv'
BY NoThreadAssumption DEF LockInv, LockIsReleased, Free, Wait, Place

\* Its end, whatever it is, gives the mutex back.
LEMMA LoginGivesBack ==
    ASSUME NEW t \in Thread, LockInv, pc[t] = "login", Moves(t), holder' = NoThread
    PROVE  LockInv'
BY NoThreadAssumption DEF LockInv, LockIsReleased, Moves, Wait

----------------------------------------------------------------------------

\* The invariant of the lock holds at first,
LEMMA LockInvInit == Init => LockInv
BY NoThreadAssumption DEF Init, LockInv, LockIsReleased, Place

\* and every step keeps it.
LEMMA LockInvNext == LockInv /\ [Next]_vars => LockInv'
<1> SUFFICES ASSUME LockInv, [Next]_vars
             PROVE  LockInv'
  OBVIOUS
<1>1. ASSUME NEW t \in Thread, Call(t)
      PROVE  LockInv'
  <2>1. PICK o \in {"connect", "request"} : Begin(t, o, "none")
    BY <1>1 DEF Call
  <2> QED
    BY <2>1, RequestMoves, MovesKeep DEF Begin
<1>2. ASSUME NEW t \in Thread, Transaction(t)
      PROVE  LockInv'
  BY <1>2, RequestMoves, MovesKeep DEF Transaction, Begin
<1>3. ASSUME NEW t \in Thread, Disconnect(t)
      PROVE  LockInv'
  <2>1. Moves(t) /\ pc[t] # "login" /\ UNCHANGED holder
    BY <1>3 DEF Disconnect, Moves, Place
  <2> QED
    BY <2>1, MovesKeep
<1>4. ASSUME NEW t \in Thread, Ensure(t)
      PROVE  LockInv'
  <2>1. CASE session = NoSession
    BY <1>4, <2>1, LoginTakes DEF Ensure
  <2>2. CASE session # NoSession
    <3>1. Moves(t) /\ pc[t] # "login" /\ UNCHANGED holder
      BY <1>4, <2>2, EndCallMoves DEF Ensure, Moves, Place
    <3> QED
      BY <3>1, MovesKeep
  <2> QED
    BY <2>1, <2>2
<1>5. ASSUME NEW t \in Thread, Reauthenticate(t)
      PROVE  LockInv'
  BY <1>5, LoginTakes DEF Reauthenticate
<1>6. ASSUME NEW t \in Thread, LoggedIn(t)
      PROVE  LockInv'
  <2>1. Moves(t)
    BY <1>6, EndCallMoves DEF LoggedIn, Moves, Place
  <2> QED
    BY <1>6, <2>1, LoginGivesBack DEF LoggedIn
<1>7. ASSUME NEW t \in Thread, LoginFails(t)
      PROVE  LockInv'
  BY <1>7, ThrowsMoves, LoginGivesBack DEF LoginFails, Unlock
<1>8. ASSUME NEW t \in Thread, ReadToken(t)
      PROVE  LockInv'
  <2>1. Moves(t) /\ pc[t] # "login" /\ UNCHANGED holder
    BY <1>8 DEF ReadToken, Moves, Place
  <2> QED
    BY <2>1, MovesKeep
<1>9. ASSUME NEW t \in Thread, Logout(t)
      PROVE  LockInv'
  <2>1. Moves(t) /\ pc[t] # "login" /\ UNCHANGED holder
    BY <1>9 DEF Logout, Moves, Place
  <2> QED
    BY <2>1, MovesKeep
<1>10. ASSUME NEW t \in Thread, Answered(t)
       PROVE  LockInv'
  BY <1>10, ReturnsMoves, MovesKeep DEF Answered
<1>11. ASSUME NEW t \in Thread, Expired(t)
       PROVE  LockInv'
  BY <1>11, RetriesOnceMoves, MovesKeep DEF Expired
<1>12. ASSUME NEW t \in Thread, Lost(t)
       PROVE  LockInv'
  BY <1>12, ThrowsMoves, MovesKeep DEF Lost
<1>13. ASSUME NEW t \in Thread, Deleted(t)
       PROVE  LockInv'
  <2>1. Moves(t) /\ pc[t] # "login" /\ UNCHANGED holder
    BY <1>13 DEF Deleted, Moves, Place
  <2> QED
    BY <2>1, MovesKeep
<1>14. CASE Drop
  BY <1>14 DEF Drop, LockInv, LockIsReleased
<1>15. CASE UNCHANGED vars
  BY <1>15 DEF vars, LockInv, LockIsReleased
<1> QED
  BY <1>1, <1>2, <1>3, <1>4, <1>5, <1>6, <1>7, <1>8, <1>9, <1>10, <1>11, <1>12,
     <1>13, <1>14, <1>15
  DEF Next

\* The mutex is held exactly by the login under way (authManager.mu in auth.go,
\* the lock of AuthManager.java), for any number of threads.
THEOREM MutexHeldByLoginOnly == Spec => []LockIsReleased
<1>1. LockInv => LockIsReleased
  BY DEF LockInv
<1> QED
  BY LockInvInit, LockInvNext, <1>1, PTL DEF Spec

----------------------------------------------------------------------------
(* Transactions *)

\* The types of what a transaction keeps.
BlockTypes ==
    /\ pc \in [Thread -> Place] /\ op \in [Thread -> Op]
    /\ step \in [Thread -> Step] /\ failed \in [Thread -> BOOLEAN]

\* What is true of one thread.
Sound(t) ==
    /\ step[t] # "none" <=> t \in InBlock
    /\ pc[t] \in {"logout", "deleting"} => op[t] = "disconnect"
    /\ step[t] = "commit" /\ t \notin overlapped => t \in staged
    /\ Ended(t) /\ ~failed[t] /\ t \notin overlapped => t \in saved

\* Two transactions at once have met.
Met == \A t, u \in InBlock : t # u => t \in overlapped

\* The inductive invariant.
CommitInv == BlockTypes /\ Met /\ \A t \in Thread : Sound(t)

\* A step of t: the other threads stay as they are, what is saved stays saved,
\* and only a thread in a transaction touches what is pending.
StepOf(t) ==
    /\ \A u \in Thread \ {t} : /\ pc'[u] = pc[u] /\ op'[u] = op[u]
                               /\ step'[u] = step[u] /\ failed'[u] = failed[u]
    /\ saved \subseteq saved' /\ overlapped \subseteq overlapped'
    /\ t \in InBlock \/ staged' = staged

\* A step of a block that leaves the writes alone keeps the invariant.
LEMMA StepKeeps ==
    ASSUME NEW t \in Thread, CommitInv, BlockTypes', StepOf(t), Met', Sound(t)'
    PROVE  CommitInv'
<1>1. ASSUME NEW u \in Thread, u # t
      PROVE  Sound(u)'
  <2>1. u \in InBlock' <=> u \in InBlock
    BY <1>1 DEF StepOf, InBlock
  <2>2. u \in InBlock /\ u \notin overlapped => staged' = staged
    BY <1>1 DEF StepOf, CommitInv, Met
  <2> QED
    BY <1>1, <2>1, <2>2 DEF StepOf, CommitInv, Sound, Ended
<1> QED
  BY <1>1 DEF CommitInv

\* Nobody enters a transaction.
LEMMA MetKept ==
    ASSUME CommitInv, InBlock' \subseteq InBlock, UNCHANGED overlapped
    PROVE  Met'
BY DEF CommitInv, Met

\* The device serving a request keeps it.
LEMMA ServeKeeps ==
    ASSUME NEW t \in Thread, CommitInv, Serve(t)
    PROVE  /\ saved \subseteq saved'
           /\ t \in InBlock \/ staged' = staged
           /\ step[t] = "body" => t \in staged'
           /\ step[t] = "commit" => saved' = saved \cup staged
<1>1. step[t] \in Step
  BY DEF CommitInv, BlockTypes
<1> QED
  BY <1>1 DEF Serve, CommitInv, Sound, Step, config

\* A thread goes on within its call.
LEMMA WaitKeeps ==
    ASSUME NEW t \in Thread, CommitInv, pc[t] # "idle",
           NEW place \in Place \ {"idle", "logout"}, Wait(t, place),
           place = "deleting" => op[t] = "disconnect",
           UNCHANGED <<op, step, failed, overlapped, config>>
    PROVE  CommitInv'
<1>1. BlockTypes' /\ StepOf(t)
  BY DEF CommitInv, BlockTypes, Wait, StepOf, config
<1>2. Met'
  BY MetKept DEF CommitInv, BlockTypes, Wait, InBlock
<1>3. Sound(t)'
  BY DEF CommitInv, BlockTypes, Wait, Sound, InBlock, Ended, config
<1> QED
  BY <1>1, <1>2, <1>3, StepKeeps

\* What an error does, whatever the device has done before.
LEMMA ThrowsKeeps ==
    ASSUME NEW t \in Thread, CommitInv, pc[t] # "idle", Throws(t),
           UNCHANGED <<op, overlapped>>,
           saved \subseteq saved', t \in InBlock \/ staged' = staged
    PROVE  CommitInv'
<1>1. BlockTypes' /\ StepOf(t)
  BY DEF CommitInv, BlockTypes, Throws, Request, EndCall, Wait, StepOf, Place, Step
<1>2. Met'
  BY MetKept DEF CommitInv, BlockTypes, Throws, Request, EndCall, Wait, InBlock
<1>3. Sound(t)'
  BY DEF CommitInv, BlockTypes, Throws, RollsBack, Request, EndCall, Wait, Sound,
         InBlock, Ended, Place, Step
<1> QED
  BY <1>1, <1>2, <1>3, StepKeeps

\* connect() and the calls outside of transactions end.
LEMMA EndKeeps ==
    ASSUME NEW t \in Thread, CommitInv, NEW fails \in BOOLEAN, EndCall(t, fails),
           op[t] # "transaction", UNCHANGED <<op, overlapped, config>>
    PROVE  CommitInv'
<1>1. BlockTypes' /\ StepOf(t)
  BY DEF CommitInv, BlockTypes, EndCall, Wait, StepOf, Place, Step, config
<1>2. Met'
  BY MetKept DEF CommitInv, BlockTypes, EndCall, Wait, InBlock
<1>3. Sound(t)'
  BY DEF CommitInv, BlockTypes, EndCall, Wait, Sound, InBlock, Ended, Place, Step
<1> QED
  BY <1>1, <1>2, <1>3, StepKeeps

\* The answer to a request: the body is followed by the commit, the commit by
\* the end.
LEMMA AnsweredKeeps ==
    ASSUME NEW t \in Thread, CommitInv, Answered(t)
    PROVE  CommitInv'
<1>1. /\ saved \subseteq saved' /\ (t \in InBlock \/ staged' = staged)
      /\ step[t] = "body" => t \in staged'
      /\ step[t] = "commit" => saved' = saved \cup staged
      /\ pc[t] = "sent" /\ UNCHANGED <<op, overlapped>>
  BY ServeKeeps DEF Answered
<1>2. CASE Throws(t)
  BY <1>1, <1>2, ThrowsKeeps
<1>3. CASE Commits(t) /\ Request(t, "commit") /\ UNCHANGED failed
  <2>1. BlockTypes' /\ StepOf(t)
    BY <1>1, <1>3 DEF CommitInv, BlockTypes, Request, Wait, StepOf, Place, Step
  <2>2. Met'
    BY <1>1, <1>3, MetKept DEF CommitInv, BlockTypes, Commits, Request, Wait, InBlock
  <2>3. Sound(t)'
    BY <1>1, <1>3 DEF CommitInv, BlockTypes, Commits, Request, Wait, Sound, InBlock,
                      Ended, Place, Step
  <2> QED
    BY <2>1, <2>2, <2>3, StepKeeps
<1>4. CASE ~Commits(t) /\ EndCall(t, step[t] = "rollback")
  <2>1. BlockTypes' /\ StepOf(t)
    BY <1>1, <1>4 DEF CommitInv, BlockTypes, EndCall, Wait, StepOf, Place, Step
  <2>2. Met'
    BY <1>1, <1>4, MetKept DEF CommitInv, BlockTypes, EndCall, Wait, InBlock
  <2>3. ASSUME op[t] = "transaction", step[t] # "rollback", t \notin overlapped
        PROVE  t \in saved'
    <3>1. step[t] = "commit"
      BY <1>1, <1>4, <2>3 DEF CommitInv, BlockTypes, Commits, Sound, InBlock, Step
    <3> QED
      BY <1>1, <2>3, <3>1 DEF CommitInv, Sound
  <2>4. Sound(t)'
    BY <1>1, <1>4, <2>3 DEF CommitInv, BlockTypes, EndCall, Wait, Sound, InBlock,
                            Ended, Place, Step
  <2> QED
    BY <2>1, <2>2, <2>4, StepKeeps
<1> QED
  BY <1>2, <1>3, <1>4 DEF Answered, Returns

\* The invariant of the commit holds at first,
LEMMA CommitInvInit == Init => CommitInv
BY DEF Init, CommitInv, BlockTypes, Met, Sound, InBlock, Ended, Place, Op, Step

\* and every step keeps it.
LEMMA CommitInvNext == CommitInv /\ [Next]_vars => CommitInv'
<1> SUFFICES ASSUME CommitInv, [Next]_vars
             PROVE  CommitInv'
  OBVIOUS
<1>1. ASSUME NEW t \in Thread, Call(t)
      PROVE  CommitInv'
  <2>1. PICK o \in {"connect", "request"} : Begin(t, o, "none")
    BY <1>1 DEF Call
  <2>2. BlockTypes' /\ StepOf(t)
    BY <1>1, <2>1 DEF CommitInv, BlockTypes, Call, Begin, Request, Wait, StepOf, Place,
                      Op, Step, config
  <2>3. Met'
    BY <1>1, <2>1, MetKept DEF CommitInv, BlockTypes, Call, Begin, Request, Wait, InBlock
  <2>4. Sound(t)'
    BY <2>1 DEF CommitInv, BlockTypes, Begin, Request, Wait, Sound, InBlock, Ended,
                Place, Op, Step
  <2> QED
    BY <2>2, <2>3, <2>4, StepKeeps
<1>2. ASSUME NEW t \in Thread, Transaction(t)
      PROVE  CommitInv'
  <2>1. BlockTypes' /\ StepOf(t)
    BY <1>2 DEF CommitInv, BlockTypes, Transaction, Begin, Request, Wait, StepOf, Place,
                Op, Step, config
  <2>2. InBlock' = InBlock \cup {t}
    BY <1>2 DEF CommitInv, BlockTypes, Transaction, Begin, Request, Wait, InBlock
  <2>3. Met'
    BY <1>2, <2>2 DEF CommitInv, Met, Transaction
  <2>4. Sound(t)'
    BY <1>2 DEF CommitInv, BlockTypes, Transaction, Begin, Request, Wait, Sound, InBlock,
                Ended, Place, Op, Step
  <2> QED
    BY <2>1, <2>3, <2>4, StepKeeps
<1>3. ASSUME NEW t \in Thread, Disconnect(t)
      PROVE  CommitInv'
  <2>1. BlockTypes' /\ StepOf(t)
    BY <1>3 DEF CommitInv, BlockTypes, Disconnect, Wait, StepOf, Place, Op, config
  <2>2. Met'
    BY <1>3, MetKept DEF CommitInv, BlockTypes, Disconnect, Wait, InBlock
  <2>3. Sound(t)'
    BY <1>3 DEF CommitInv, BlockTypes, Disconnect, Wait, Sound, InBlock, Ended, Place, Op
  <2> QED
    BY <2>1, <2>2, <2>3, StepKeeps
<1>4. ASSUME NEW t \in Thread, Ensure(t)
      PROVE  CommitInv'
  <2>1. pc[t] = "ensure" /\ UNCHANGED <<op, overlapped, config>>
    BY <1>4 DEF Ensure, Local
  <2>2. \/ \E place \in {"login", "ready"} : Wait(t, place) /\ UNCHANGED <<step, failed>>
        \/ op[t] = "connect" /\ EndCall(t, FALSE)
    BY <1>4 DEF Ensure
  <2> QED
    BY <2>1, <2>2, WaitKeeps, EndKeeps DEF Place
<1>5. ASSUME NEW t \in Thread, Reauthenticate(t)
      PROVE  CommitInv'
  BY <1>5, WaitKeeps DEF Reauthenticate, Local, Place
<1>6. ASSUME NEW t \in Thread, LoggedIn(t)
      PROVE  CommitInv'
  <2>1. pc[t] = "login" /\ UNCHANGED <<op, overlapped, config>>
    BY <1>6 DEF LoggedIn, Local
  <2>2. \/ Wait(t, "ready") /\ UNCHANGED <<step, failed>>
        \/ op[t] = "connect" /\ EndCall(t, FALSE)
    BY <1>6 DEF LoggedIn
  <2> QED
    BY <2>1, <2>2, WaitKeeps, EndKeeps DEF Place
<1>7. ASSUME NEW t \in Thread, LoginFails(t)
      PROVE  CommitInv'
  BY <1>7, ThrowsKeeps DEF LoginFails, Local, config
<1>8. ASSUME NEW t \in Thread, ReadToken(t)
      PROVE  CommitInv'
  BY <1>8, WaitKeeps DEF ReadToken, Local, Place
<1>9. ASSUME NEW t \in Thread, Logout(t)
      PROVE  CommitInv'
  <2>1. op[t] = "disconnect"
    BY <1>9 DEF Logout, CommitInv, Sound
  <2>2. CASE Wait(t, "deleting")
    BY <1>9, <2>1, <2>2, WaitKeeps DEF Logout, Local, Place
  <2>3. CASE Wait(t, "idle")
    <3>1. BlockTypes' /\ StepOf(t)
      BY <1>9, <2>3 DEF CommitInv, BlockTypes, Logout, Local, Wait, StepOf, Place, config
    <3>2. Met'
      BY <1>9, <2>1, <2>3, MetKept DEF CommitInv, BlockTypes, Logout, Local, Wait, InBlock
    <3>3. Sound(t)'
      BY <1>9, <2>1, <2>3 DEF CommitInv, BlockTypes, Logout, Local, Wait, Sound, InBlock,
                              Ended, Place
    <3> QED
      BY <3>1, <3>2, <3>3, StepKeeps
  <2> QED
    BY <1>9, <2>2, <2>3 DEF Logout
<1>10. ASSUME NEW t \in Thread, Answered(t)
       PROVE  CommitInv'
  BY <1>10, AnsweredKeeps
<1>11. ASSUME NEW t \in Thread, Expired(t)
       PROVE  CommitInv'
  <2>1. pc[t] = "sent" /\ UNCHANGED <<op, overlapped, config>>
    BY <1>11 DEF Expired, Local
  <2>2. CASE Throws(t)
    BY <2>1, <2>2, ThrowsKeeps DEF config
  <2>3. CASE Wait(t, "reauth") /\ UNCHANGED <<step, failed>>
    BY <2>1, <2>3, WaitKeeps DEF Place
  <2> QED
    BY <1>11, <2>2, <2>3 DEF Expired, RetriesOnce
<1>12. ASSUME NEW t \in Thread, Lost(t)
       PROVE  CommitInv'
  <2>1. saved \subseteq saved' /\ (t \in InBlock \/ staged' = staged)
    BY <1>12, ServeKeeps DEF Lost, config
  <2> QED
    BY <1>12, <2>1, ThrowsKeeps DEF Lost
<1>13. ASSUME NEW t \in Thread, Deleted(t)
       PROVE  CommitInv'
  <2>1. op[t] = "disconnect"
    BY <1>13 DEF Deleted, CommitInv, Sound
  <2>2. BlockTypes' /\ StepOf(t)
    BY <1>13 DEF CommitInv, BlockTypes, Deleted, Local, Wait, StepOf, Place, config
  <2>3. Met'
    BY <1>13, <2>1, MetKept DEF CommitInv, BlockTypes, Deleted, Local, Wait, InBlock
  <2>4. Sound(t)'
    BY <1>13, <2>1 DEF CommitInv, BlockTypes, Deleted, Local, Wait, Sound, InBlock,
                       Ended, Place
  <2> QED
    BY <2>2, <2>3, <2>4, StepKeeps
<1>14. CASE Drop
  BY <1>14 DEF Drop, Local, config, CommitInv, BlockTypes, Met, Sound, InBlock, Ended
<1>15. CASE UNCHANGED vars
  BY <1>15 DEF vars, config, CommitInv, BlockTypes, Met, Sound, InBlock, Ended
<1> QED
  BY <1>1, <1>2, <1>3, <1>4, <1>5, <1>6, <1>7, <1>8, <1>9, <1>10, <1>11, <1>12,
     <1>13, <1>14, <1>15
  DEF Next

\* A transaction that returns has saved its write unless another one met it
\* (Client.Transaction in commit.go, SonicWallClient.transaction), for any number
\* of threads, sessions, logins and failed exchanges.
THEOREM TransactionCommits == Spec => []CommittedUnlessOverlapped
<1>1. CommitInv => CommittedUnlessOverlapped
  BY DEF CommitInv, Sound, CommittedUnlessOverlapped
<1> QED
  BY CommitInvInit, CommitInvNext, <1>1, PTL DEF Spec

----------------------------------------------------------------------------
(* What a failed transaction leaves pending *)

\* The step at which a transaction may fail for good.
Final == IF sdk = "go" THEN {"commit", "rollback"} ELSE {"rollback"}

\* The inductive invariant.
PendingInv ==
    /\ sdk \in {"go", "java"} /\ thrownAt \in [Thread -> Step]
    /\ PendingOnlyAfter

\* A step of t adds no write to what is pending but its own.
LEMMA PendingKept ==
    ASSUME NEW t \in Thread, PendingInv, sdk' = sdk, thrownAt' \in [Thread -> Step],
           \A u \in Thread \ {t} : /\ pc'[u] = pc[u] /\ op'[u] = op[u]
                                   /\ failed'[u] = failed[u] /\ thrownAt'[u] = thrownAt[u],
           overlapped \subseteq overlapped', staged' \subseteq staged \cup {t},
           Ended(t)' /\ failed'[t] /\ t \notin overlapped' /\ t \in staged'
               => thrownAt'[t] \in Final
    PROVE  PendingInv'
BY DEF PendingInv, PendingOnlyAfter, Ended, Final

\* An error ends the transaction only at its last step.
LEMMA ThrowsPending ==
    ASSUME NEW t \in Thread, CommitInv, PendingInv, Throws(t), pc[t] # "idle",
           UNCHANGED <<sdk, op, overlapped>>, staged' \subseteq staged \cup {t}
    PROVE  PendingInv'
<1>a. BlockTypes /\ Sound(t) /\ sdk \in {"go", "java"} /\ thrownAt \in [Thread -> Step]
  BY DEF CommitInv, PendingInv
<1>1. thrownAt' = [thrownAt EXCEPT ![t] = step[t]]
  BY DEF Throws
<1>2. /\ \A u \in Thread \ {t} : pc'[u] = pc[u] /\ op'[u] = op[u] /\ failed'[u] = failed[u]
      /\ pc'[t] = "idle" => ~RollsBack(t)
  BY <1>a DEF BlockTypes, Throws, Request, EndCall, Wait
<1>3. step[t] \in Step
  BY <1>a DEF BlockTypes
<1>4. thrownAt' \in [Thread -> Step] /\ thrownAt'[t] = step[t]
      /\ \A u \in Thread \ {t} : thrownAt'[u] = thrownAt[u]
  BY <1>a, <1>1, <1>3
<1>5. ASSUME Ended(t)'
      PROVE  step[t] \in Final
  <2>1. op[t] = "transaction" /\ ~RollsBack(t)
    BY <1>2, <1>5 DEF Ended
  <2>2. step[t] # "none"
    BY <1>a, <2>1 DEF Sound, InBlock
  <2> QED
    BY <1>a, <1>3, <2>1, <2>2 DEF RollsBack, Final, Step
<1> QED
  BY <1>2, <1>4, <1>5, PendingKept

\* A step that ends no transaction of t.
LEMMA GoesPending ==
    ASSUME NEW t \in Thread, PendingInv, UNCHANGED <<sdk, overlapped>>,
           thrownAt' \in [Thread -> Step],
           \A u \in Thread \ {t} : /\ pc'[u] = pc[u] /\ op'[u] = op[u]
                                   /\ failed'[u] = failed[u] /\ thrownAt'[u] = thrownAt[u],
           staged' \subseteq staged \cup {t},
           pc'[t] # "idle" \/ op'[t] # "transaction" \/ ~failed'[t] \/ t \notin staged'
    PROVE  PendingInv'
BY PendingKept DEF Ended

\* Only a body adds to what is pending, and a rollback leaves nothing of it.
LEMMA ServePending ==
    ASSUME NEW t \in Thread, BlockTypes, Serve(t)
    PROVE  /\ staged' \subseteq staged \cup {t}
           /\ step[t] = "rollback" => staged' = {}
<1>1. step[t] \in Step
  BY DEF BlockTypes
<1> QED
  BY <1>1 DEF Serve, Step, config

\* Every step keeps what is known of pending writes.
LEMMA PendingInvNext == CommitInv /\ PendingInv /\ [Next]_vars => PendingInv'
<1> SUFFICES ASSUME CommitInv, PendingInv, [Next]_vars
             PROVE  PendingInv'
  OBVIOUS
<1>a. BlockTypes /\ thrownAt \in [Thread -> Step]
      /\ \A u \in Thread : Sound(u)
  BY DEF CommitInv, PendingInv
<1>b. /\ pc \in [Thread -> Place] /\ op \in [Thread -> Op]
      /\ step \in [Thread -> Step] /\ failed \in [Thread -> BOOLEAN]
  BY <1>a DEF BlockTypes
<1>0. ASSUME NEW t \in Thread, NEW o, NEW s, Begin(t, o, s),
             overlapped \subseteq overlapped'
      PROVE  PendingInv'
  <2>1. thrownAt' \in [Thread -> Step] /\ \A u \in Thread \ {t} : thrownAt'[u] = thrownAt[u]
    BY <1>0, <1>a DEF Begin, Step
  <2>2. /\ \A u \in Thread \ {t} : pc'[u] = pc[u] /\ op'[u] = op[u] /\ failed'[u] = failed[u]
        /\ pc'[t] = "ensure"
    BY <1>0, <1>b DEF Begin, Request, Wait
  <2>3. UNCHANGED <<sdk, staged>>
    BY <1>0 DEF Begin, config
  <2>4. ~Ended(t)'
    BY <2>2 DEF Ended
  <2> QED
    BY <1>0, <2>1, <2>2, <2>3, <2>4, PendingKept
<1>1. ASSUME NEW t \in Thread, Call(t)
      PROVE  PendingInv'
  BY <1>0, <1>1 DEF Call
<1>2. ASSUME NEW t \in Thread, Transaction(t)
      PROVE  PendingInv'
  BY <1>0, <1>2 DEF Transaction
<1>3. ASSUME NEW t \in Thread, Disconnect(t)
      PROVE  PendingInv'
  <2>1. /\ \A u \in Thread \ {t} : pc'[u] = pc[u] /\ op'[u] = op[u]
        /\ pc'[t] # "idle" /\ UNCHANGED <<sdk, failed, thrownAt, overlapped, staged>>
    BY <1>3, <1>b DEF Disconnect, Wait, config
  <2> QED
    BY <1>a, <2>1, GoesPending
<1>4. ASSUME NEW t \in Thread, Ensure(t) \/ LoggedIn(t)
      PROVE  PendingInv'
  <2>1. /\ UNCHANGED <<sdk, op, thrownAt, overlapped, staged>>
        /\ \A u \in Thread \ {t} : pc'[u] = pc[u] /\ failed'[u] = failed[u]
    BY <1>4, <1>b DEF Ensure, LoggedIn, Local, config, Wait, EndCall
  <2>2. pc'[t] # "idle" \/ op'[t] # "transaction"
    BY <1>4, <1>b DEF Ensure, LoggedIn, Local, Wait, EndCall
  <2> QED
    BY <1>a, <2>1, <2>2, GoesPending
<1>5. ASSUME NEW t \in Thread, Reauthenticate(t) \/ ReadToken(t)
      PROVE  PendingInv'
  <2>1. /\ UNCHANGED <<sdk, op, thrownAt, overlapped, staged, failed>>
        /\ \A u \in Thread \ {t} : pc'[u] = pc[u]
        /\ pc'[t] # "idle"
    BY <1>5, <1>b DEF Reauthenticate, ReadToken, Local, config, Wait
  <2> QED
    BY <1>a, <2>1, GoesPending
<1>6. ASSUME NEW t \in Thread, Logout(t) \/ Deleted(t)
      PROVE  PendingInv'
  <2>1. /\ UNCHANGED <<sdk, op, thrownAt, overlapped, staged, failed>>
        /\ \A u \in Thread \ {t} : pc'[u] = pc[u]
    BY <1>6, <1>b DEF Logout, Deleted, Local, config, Wait
  <2>2. op[t] = "disconnect"
    BY <1>6, <1>a DEF Logout, Deleted, Sound
  <2> QED
    BY <1>a, <2>1, <2>2, GoesPending
<1>7. ASSUME NEW t \in Thread, LoginFails(t)
      PROVE  PendingInv'
  BY <1>7, ThrowsPending DEF LoginFails, Local, config
<1>8. ASSUME NEW t \in Thread, Answered(t)
      PROVE  PendingInv'
  <2>1. /\ staged' \subseteq staged \cup {t} /\ (step[t] = "rollback" => staged' = {})
        /\ UNCHANGED <<sdk, op, overlapped>> /\ pc[t] # "idle"
    BY <1>8, <1>a, ServePending DEF Answered
  <2>2. CASE Throws(t)
    BY <2>1, <2>2, ThrowsPending
  <2>3. CASE Request(t, "commit") /\ UNCHANGED <<failed, thrownAt>>
    <3>1. pc'[t] # "idle" /\ \A u \in Thread \ {t} : pc'[u] = pc[u]
      BY <1>b, <2>3 DEF Request, Wait
    <3> QED
      BY <1>a, <2>1, <2>3, <3>1, GoesPending
  <2>4. CASE EndCall(t, step[t] = "rollback") /\ UNCHANGED thrownAt
    <3>1. \A u \in Thread \ {t} : pc'[u] = pc[u] /\ failed'[u] = failed[u]
      BY <1>b, <2>4 DEF EndCall, Wait
    <3>2. failed'[t] => step[t] = "rollback"
      BY <1>b, <2>4 DEF EndCall
    <3>3. ~failed'[t] \/ t \notin staged'
      BY <2>1, <3>2
    <3> QED
      BY <1>a, <2>1, <2>4, <3>1, <3>3, GoesPending
  <2> QED
    BY <1>8, <2>2, <2>3, <2>4 DEF Answered, Returns
<1>9. ASSUME NEW t \in Thread, Expired(t)
      PROVE  PendingInv'
  <2>1. UNCHANGED <<sdk, op, overlapped, staged>> /\ pc[t] # "idle"
    BY <1>9 DEF Expired, Local, config
  <2>2. CASE Throws(t)
    BY <2>1, <2>2, ThrowsPending
  <2>3. CASE Wait(t, "reauth") /\ UNCHANGED <<failed, thrownAt>>
    <3>1. pc'[t] # "idle" /\ \A u \in Thread \ {t} : pc'[u] = pc[u]
      BY <1>b, <2>3 DEF Wait
    <3> QED
      BY <1>a, <2>1, <2>3, <3>1, GoesPending
  <2> QED
    BY <1>9, <2>2, <2>3 DEF Expired, RetriesOnce
<1>10. ASSUME NEW t \in Thread, Lost(t)
       PROVE  PendingInv'
  <2>1. staged' \subseteq staged \cup {t}
    BY <1>10, <1>a, ServePending DEF Lost, config
  <2> QED
    BY <1>10, <2>1, ThrowsPending DEF Lost
<1>11. CASE Drop
  BY <1>11 DEF Drop, Local, config, PendingInv, PendingOnlyAfter, Ended
<1>12. CASE UNCHANGED vars
  BY <1>12 DEF vars, config, PendingInv, PendingOnlyAfter, Ended
<1> QED
  BY <1>1, <1>2, <1>3, <1>4, <1>5, <1>6, <1>7, <1>8, <1>9, <1>10, <1>11, <1>12 DEF Next

\* A transaction that fails and that no other one met leaves its write pending only if
\* the rollback failed or, in Go, the commit (Client.Transaction in commit.go returns the
\* error of CommitPending without a rollback; SonicWallClient.transaction rolls back).
THEOREM PendingOnlyAfterFailure == Spec => []PendingOnlyAfter
<1>1. Init => PendingInv
  BY DEF Init, PendingInv, PendingOnlyAfter, Ended, Step
<1>2. PendingInv => PendingOnlyAfter
  BY DEF PendingInv
<1> QED
  BY CommitInvInit, CommitInvNext, <1>1, <1>2, PendingInvNext, PTL DEF Spec

----------------------------------------------------------------------------
(* Sessions and the requests that carry them *)

\* The types of sessions, tokens and of what counts the losses.
TokenTypes ==
    /\ session \in 0..issued /\ issued \in Nat /\ live \subseteq 1..issued
    /\ token \in [Thread -> 0..issued] /\ retrying \in [Thread -> BOOLEAN]
    /\ drops \in Nat /\ faults \in Nat /\ disconnects \in Nat

\* A call ends, or its next request begins: the token is given back.
Goes(t) ==
    /\ Wait(t, "idle") \/ Wait(t, "ensure")
    /\ Carry(t, NoSession) /\ retrying' = [retrying EXCEPT ![t] = FALSE]

\* Both ways of going on do that.
LEMMA RequestGoes ==
    ASSUME NEW t, NEW s, Request(t, s)
    PROVE  Goes(t)
BY DEF Request, Goes

\* The end of a call does.
LEMMA EndCallGoes ==
    ASSUME NEW t, NEW fails, EndCall(t, fails)
    PROVE  Goes(t)
BY DEF EndCall, Goes

\* An error does.
LEMMA ThrowsGoes ==
    ASSUME NEW t, Throws(t)
    PROVE  Goes(t)
BY RequestGoes, EndCallGoes DEF Throws

\* An answer does.
LEMMA ReturnsGoes ==
    ASSUME NEW t, Returns(t)
    PROVE  Goes(t)
BY RequestGoes, EndCallGoes, ThrowsGoes DEF Returns

\* A session is granted.
Grants == issued' = issued + 1 /\ live' = live \cup {issued'}

\* The session granted is the last one.
LEMMA GrantsTypes ==
    ASSUME TokenTypes, Grants
    PROVE  /\ issued' \in Nat /\ live' \subseteq 1..issued'
           /\ 0..issued \subseteq 0..issued' /\ issued' \in 0..issued'
BY DEF TokenTypes, Grants

\* What a step may do to sessions and tokens.
LEMMA TokenTypesKept ==
    ASSUME NEW t \in Thread, TokenTypes,
           Grants \/ (issued' = issued /\ live' \subseteq live),
           session' \in {session, NoSession, issued'},
           token' = token \/ Carry(t, NoSession) \/ Carry(t, session),
           retrying' = retrying \/ (\E b \in BOOLEAN : retrying' = [retrying EXCEPT ![t] = b]),
           drops' \in {drops, drops + 1}, faults' \in {faults, faults + 1},
           disconnects' \in {disconnects, disconnects + 1}
    PROVE  TokenTypes'
<1>1. issued' \in Nat /\ live' \subseteq 1..issued' /\ 0..issued \subseteq 0..issued'
      /\ issued' \in 0..issued'
  <2>1. CASE Grants
    BY <2>1, GrantsTypes
  <2>2. CASE issued' = issued /\ live' \subseteq live
    BY <2>2 DEF TokenTypes
  <2> QED
    BY <2>1, <2>2
<1>2. 0 \in 0..issued /\ session \in 0..issued
  BY DEF TokenTypes
<1>3. session' \in 0..issued' /\ token' \in [Thread -> 0..issued']
  BY <1>1, <1>2 DEF TokenTypes, Carry, NoSession
<1> QED
  BY <1>1, <1>3 DEF TokenTypes

\* Every step keeps the types of sessions and tokens.
LEMMA TokenTypesNext == TokenTypes /\ [Next]_vars => TokenTypes'
<1> SUFFICES ASSUME TokenTypes, [Next]_vars
             PROVE  TokenTypes'
  OBVIOUS
<1> DEFINE Same == UNCHANGED <<session, issued, live>>
           NoCount == UNCHANGED <<drops, faults, disconnects>>
<1>0. ASSUME NEW t \in Thread, Goes(t), session' \in {session, issued'},
             Grants \/ (issued' = issued /\ live' \subseteq live),
             faults' \in {faults, faults + 1}, UNCHANGED <<drops, disconnects>>
      PROVE  TokenTypes'
  BY <1>0, TokenTypesKept DEF Goes
<1>1. ASSUME NEW t \in Thread, Call(t) \/ Transaction(t)
      PROVE  TokenTypes'
  <2>1. Goes(t) /\ Same /\ NoCount
    BY <1>1, RequestGoes DEF Call, Transaction, Begin, device
  <2> QED
    BY <1>0, <2>1
<1>2. ASSUME NEW t \in Thread, Disconnect(t)
      PROVE  TokenTypes'
  BY <1>2, TokenTypesKept DEF Disconnect, device
<1>3. ASSUME NEW t \in Thread, Ensure(t)
      PROVE  TokenTypes'
  <2>1. Same /\ NoCount
    BY <1>3 DEF Ensure, device, counts
  <2>2. CASE Goes(t)
    BY <1>0, <2>1, <2>2
  <2>3. CASE UNCHANGED <<token, retrying>>
    BY <2>1, <2>3, TokenTypesKept
  <2> QED
    BY <1>3, <2>2, <2>3, EndCallGoes DEF Ensure
<1>4. ASSUME NEW t \in Thread, Reauthenticate(t)
      PROVE  TokenTypes'
  BY <1>4, TokenTypesKept DEF Reauthenticate, device, counts
<1>5. ASSUME NEW t \in Thread, LoggedIn(t)
      PROVE  TokenTypes'
  <2>1. Grants /\ session' = issued' /\ NoCount
    BY <1>5 DEF LoggedIn, Grants, counts
  <2>2. CASE Goes(t)
    BY <1>0, <2>1, <2>2
  <2>3. CASE UNCHANGED <<token, retrying>>
    BY <2>1, <2>3, TokenTypesKept
  <2> QED
    BY <1>5, <2>2, <2>3, EndCallGoes DEF LoggedIn
<1>6. ASSUME NEW t \in Thread, LoginFails(t)
      PROVE  TokenTypes'
  <2>1. /\ Grants \/ (issued' = issued /\ live' = live)
        /\ session' = session /\ faults' = faults + 1 /\ UNCHANGED <<drops, disconnects>>
    BY <1>6 DEF LoginFails, Grants, Fault, device
  <2>2. Goes(t)
    BY <1>6, ThrowsGoes DEF LoginFails
  <2> QED
    BY <1>0, <2>1, <2>2
<1>7. ASSUME NEW t \in Thread, ReadToken(t) \/ Logout(t)
      PROVE  TokenTypes'
  <2>1. UNCHANGED <<issued, live, retrying>> /\ NoCount
    BY <1>7 DEF ReadToken, Logout, device, counts
  <2>2. session' \in {session, NoSession} /\ (token' = token \/ Carry(t, session))
    BY <1>7 DEF ReadToken, Logout
  <2> QED
    BY <2>1, <2>2, TokenTypesKept
<1>8. ASSUME NEW t \in Thread, Answered(t)
      PROVE  TokenTypes'
  <2>1. Goes(t) /\ Same /\ NoCount
    BY <1>8, ReturnsGoes DEF Answered, device, counts
  <2> QED
    BY <1>0, <2>1
<1>9. ASSUME NEW t \in Thread, Expired(t)
      PROVE  TokenTypes'
  <2>1. Same /\ NoCount
    BY <1>9 DEF Expired, device, counts
  <2>2. CASE Goes(t)
    BY <1>0, <2>1, <2>2
  <2>3. CASE Carry(t, NoSession) /\ retrying' = [retrying EXCEPT ![t] = TRUE]
    BY <2>1, <2>3, TokenTypesKept
  <2> QED
    BY <1>9, <2>2, <2>3, ThrowsGoes DEF Expired, RetriesOnce
<1>10. ASSUME NEW t \in Thread, Lost(t)
       PROVE  TokenTypes'
  <2>1. Goes(t) /\ Same /\ faults' = faults + 1 /\ UNCHANGED <<drops, disconnects>>
    BY <1>10, ThrowsGoes DEF Lost, device, Fault
  <2> QED
    BY <1>0, <2>1
<1>11. ASSUME NEW t \in Thread, Deleted(t)
       PROVE  TokenTypes'
  <2>1. UNCHANGED <<issued, session, retrying>> /\ Carry(t, NoSession) /\ live' \subseteq live
    BY <1>11 DEF Deleted
  <2>2. faults' \in {faults, faults + 1} /\ UNCHANGED <<drops, disconnects>>
    BY <1>11 DEF Deleted, Fault, counts
  <2> QED
    BY <2>1, <2>2, TokenTypesKept
<1>12. CASE Drop
  BY <1>12 DEF Drop, Local, TokenTypes
<1>13. CASE UNCHANGED vars
  BY <1>13 DEF vars, device, counts, TokenTypes
<1> QED
  BY <1>1, <1>2, <1>3, <1>4, <1>5, <1>6, <1>7, <1>8, <1>9, <1>10, <1>11, <1>12, <1>13
  DEF Next

----------------------------------------------------------------------------
(* One dropped session *)

\* At most one session was dropped, and nothing else went wrong.
OneDrop == drops <= 1 /\ disconnects = 0 /\ faults = 0

\* The sessions that have ended.
Gone == (1..issued) \ live

\* What is known of a caller: a retry follows the one drop, and the session it is given
\* is a later one.
Served(t) ==
    /\ pc[t] \notin {"logout", "deleting"}
    /\ pc[t] \in {"ready", "sent"} => issued > 0
    /\ pc[t] = "sent" => token[t] # 0
    /\ pc[t] = "reauth" => retrying[t]
    /\ retrying[t] => Gone # {}
    /\ retrying[t] /\ pc[t] # "reauth" => session \notin Gone
    /\ retrying[t] /\ pc[t] = "sent" => token[t] \in live
    /\ op[t] # "transaction" => ~failed[t]

\* The inductive invariant: whoever finds the mutex free finds a session, after the first.
HiddenInv ==
    OneDrop => /\ drops = 0 => Gone = {}
               /\ issued > 0 /\ Free => session # 0
               /\ \A t \in Thread : Served(t)

\* A call goes on, or ends without an error.
LEMMA GoesHidden ==
    ASSUME NEW t \in Thread, LockInv, CommitInv, TokenTypes, HiddenInv, Goes(t),
           UNCHANGED <<session, live, issued, holder, drops, faults, disconnects>>,
           \A u \in Thread \ {t} : failed'[u] = failed[u] /\ op'[u] = op[u],
           op'[t] # "transaction" => ~failed'[t]
    PROVE  HiddenInv'
<1> SUFFICES ASSUME OneDrop' PROVE HiddenInv'
  BY DEF HiddenInv
<1>1. Gone' = Gone /\ OneDrop /\ (Free' <=> Free)
  BY DEF Gone, OneDrop, Free
<1>2. pc \in [Thread -> Place] /\ token \in [Thread -> 0..issued]
      /\ retrying \in [Thread -> BOOLEAN]
  BY DEF LockInv, TokenTypes
<1>3. ASSUME NEW u \in Thread, u # t
      PROVE  Served(u)'
  <2>1. pc'[u] = pc[u] /\ token'[u] = token[u] /\ retrying'[u] = retrying[u]
    BY <1>2, <1>3 DEF Goes, Wait, Carry
  <2>2. Served(u)
    BY <1>1 DEF HiddenInv
  <2> QED
    BY <1>1, <1>3, <2>1, <2>2 DEF Served
<1>4. Served(t)'
  <2>1. pc'[t] \in {"idle", "ensure"} /\ ~retrying'[t]
    BY <1>2 DEF Goes, Wait
  <2> QED
    BY <2>1 DEF Served
<1> QED
  BY <1>1, <1>3, <1>4 DEF HiddenInv

\* The request after a second login is not refused.
LEMMA NeverInVain ==
    ASSUME NEW t \in Thread, HiddenInv, OneDrop
    PROVE  ~(Expired(t) /\ retrying[t])
BY DEF HiddenInv, Served, Expired

\* How a call outside of transactions ends whose requests succeed.
LEMMA ReturnsFailed ==
    ASSUME NEW t \in Thread, CommitInv, Returns(t), op' = op
    PROVE  /\ \A u \in Thread \ {t} : failed'[u] = failed[u]
           /\ op'[t] # "transaction" => ~failed'[t]
<1>a. failed \in [Thread -> BOOLEAN] /\ (step[t] = "rollback" => op[t] = "transaction")
  BY DEF CommitInv, BlockTypes, Sound, InBlock
<1>1. CASE Throws(t) /\ op[t] = "transaction"
  BY <1>1, <1>a DEF Throws, EndCall
<1>2. CASE Commits(t) /\ UNCHANGED failed
  BY <1>2 DEF Commits
<1>3. CASE EndCall(t, step[t] = "rollback")
  <2>1. failed' = [failed EXCEPT ![t] = (step[t] = "rollback")]
    BY <1>3 DEF EndCall
  <2> QED
    BY <1>a, <2>1
<1> QED
  BY <1>1, <1>2, <1>3 DEF Returns

\* Every step keeps it, up to the second drop.
LEMMA HiddenInvNext ==
    LockInv /\ CommitInv /\ TokenTypes /\ HiddenInv /\ [Next]_vars => HiddenInv'
<1> SUFFICES ASSUME LockInv, CommitInv, TokenTypes, HiddenInv, [Next]_vars, OneDrop'
             PROVE  HiddenInv'
  BY DEF HiddenInv
<1>a. /\ pc \in [Thread -> Place] /\ op \in [Thread -> Op] /\ failed \in [Thread -> BOOLEAN]
      /\ token \in [Thread -> 0..issued] /\ retrying \in [Thread -> BOOLEAN]
      /\ session \in 0..issued /\ issued \in Nat /\ live \subseteq 1..issued
      /\ drops \in Nat /\ faults \in Nat /\ disconnects \in Nat
      /\ holder \in Thread \cup {NoThread}
  BY DEF LockInv, CommitInv, BlockTypes, TokenTypes
<1>b. ASSUME NEW t \in Thread, OneDrop,
             UNCHANGED <<token, retrying, live, issued, op, failed, drops>>,
             pc'[t] \notin {"logout", "deleting", "sent", "reauth"},
             pc'[t] = "ready" => issued > 0,
             \A u \in Thread \ {t} : pc'[u] = pc[u],
             session' \in {session, 0}, session' = 0 => issued = 0 \/ ~Free',
             ~Free \/ ~Free' \/ UNCHANGED <<session, holder>>,
             retrying[t] => session' \notin Gone
      PROVE  HiddenInv'
  <2>1. Gone' = Gone /\ 0 \notin Gone
    BY <1>b DEF Gone
  <2>2. ASSUME NEW u \in Thread
        PROVE  Served(u)'
    <3>1. Served(u)
      BY <1>b DEF HiddenInv
    <3>2. CASE u = t
      BY <1>b, <2>1, <3>1, <3>2 DEF Served
    <3>3. CASE u # t
      BY <1>b, <2>1, <3>1, <3>3 DEF Served
    <3> QED
      BY <3>2, <3>3
  <2> QED
    BY <1>b, <2>1, <2>2 DEF HiddenInv, Free
<1>1. ASSUME NEW t \in Thread, Call(t) \/ Transaction(t)
      PROVE  HiddenInv'
  <2>1. PICK o, s : Begin(t, o, s)
    BY <1>1 DEF Call, Transaction
  <2>2. Goes(t) /\ UNCHANGED <<session, live, issued, holder, drops, faults, disconnects>>
    BY <2>1, RequestGoes DEF Begin, device
  <2>3. /\ \A u \in Thread \ {t} : failed'[u] = failed[u] /\ op'[u] = op[u]
        /\ ~failed'[t]
    BY <1>a, <2>1 DEF Begin
  <2> QED
    BY <2>2, <2>3, GoesHidden
<1>2. ASSUME NEW t \in Thread, Disconnect(t)
      PROVE  HiddenInv'
  BY <1>2, <1>a DEF Disconnect, OneDrop
<1>3. ASSUME NEW t \in Thread, Ensure(t)
      PROVE  HiddenInv'
  <2>1. /\ pc[t] = "ensure" /\ Free /\ OneDrop
        /\ UNCHANGED <<op, session, live, issued, drops, faults, disconnects>>
    BY <1>3 DEF Ensure, device, counts, Local, OneDrop
  <2>2. CASE holder' = t /\ Wait(t, "login") /\ UNCHANGED <<token, retrying, failed>>
    <3>1. pc'[t] = "login" /\ \A u \in Thread \ {t} : pc'[u] = pc[u]
      BY <1>a, <2>2 DEF Wait
    <3>2. ~Free'
      BY <2>2, NoThreadAssumption DEF Free
    <3>3. retrying[t] => session \notin Gone
      BY <2>1 DEF HiddenInv, Served
    <3> QED
      BY <1>b, <2>1, <2>2, <3>1, <3>2, <3>3
  <2>3. CASE /\ session # NoSession /\ UNCHANGED <<holder, token, retrying, failed>>
             /\ Wait(t, "ready")
    <3>1. pc'[t] = "ready" /\ \A u \in Thread \ {t} : pc'[u] = pc[u]
      BY <1>a, <2>3 DEF Wait
    <3>2. issued > 0 /\ session # 0
      BY <1>a, <2>3 DEF NoSession
    <3>3. retrying[t] => session \notin Gone
      BY <2>1 DEF HiddenInv, Served
    <3> QED
      BY <1>b, <2>1, <2>3, <3>1, <3>2, <3>3
  <2>4. CASE EndCall(t, FALSE) /\ UNCHANGED holder
    <3>1. /\ \A u \in Thread \ {t} : failed'[u] = failed[u] /\ op'[u] = op[u]
          /\ ~failed'[t]
      BY <1>a, <2>1, <2>4 DEF EndCall
    <3> QED
      BY <2>1, <2>4, <3>1, EndCallGoes, GoesHidden
  <2> QED
    BY <1>3, <2>2, <2>3, <2>4 DEF Ensure
<1>4. ASSUME NEW t \in Thread, Reauthenticate(t)
      PROVE  HiddenInv'
  <2>1. /\ OneDrop /\ session' = 0 /\ holder' = t /\ pc'[t] = "login"
        /\ UNCHANGED <<token, retrying, live, issued, op, failed, drops>>
        /\ \A u \in Thread \ {t} : pc'[u] = pc[u]
    BY <1>4, <1>a DEF Reauthenticate, device, counts, Local, OneDrop, Wait, NoSession
  <2>2. ~Free' /\ 0 \notin Gone
    BY <2>1, NoThreadAssumption DEF Free, Gone
  <2> QED
    BY <1>b, <2>1, <2>2
<1>5. ASSUME NEW t \in Thread, LoggedIn(t)
      PROVE  HiddenInv'
  <2>1. /\ session' = issued + 1 /\ issued' = issued + 1 /\ live' = live \cup {issued + 1}
        /\ UNCHANGED <<op, drops, faults, disconnects>> /\ pc[t] = "login"
    BY <1>5 DEF LoggedIn, counts, Local
  <2>2. Gone' = Gone /\ OneDrop /\ session' \notin Gone' /\ session' # 0 /\ issued' > 0
    BY <1>a, <2>1 DEF Gone, OneDrop
  <2>3. /\ pc'[t] \in {"idle", "ready"}
        /\ retrying'[t] => retrying[t]
        /\ failed'[t] => failed[t]
        /\ \A u \in Thread \ {t} : /\ pc'[u] = pc[u] /\ token'[u] = token[u]
                                   /\ retrying'[u] = retrying[u] /\ failed'[u] = failed[u]
    <3>1. CASE EndCall(t, FALSE)
      BY <1>a, <3>1 DEF EndCall, Wait, Carry
    <3>2. CASE Wait(t, "ready") /\ UNCHANGED <<token, retrying, failed>>
      BY <1>a, <3>2 DEF Wait
    <3> QED
      BY <1>5, <3>1, <3>2 DEF LoggedIn
  <2>4. ASSUME NEW u \in Thread
        PROVE  Served(u)'
    <3>1. Served(u)
      BY <2>2 DEF HiddenInv
    <3>2. CASE u = t
      BY <2>1, <2>2, <2>3, <3>1, <3>2 DEF Served
    <3>3. CASE u # t
      BY <2>1, <2>2, <2>3, <3>1, <3>3 DEF Served
    <3> QED
      BY <3>2, <3>3
  <2> QED
    BY <2>1, <2>2, <2>4 DEF HiddenInv
<1>6. ASSUME NEW t \in Thread, LoginFails(t) \/ Lost(t)
      PROVE  HiddenInv'
  <2>1. faults' = faults + 1
    BY <1>6 DEF LoginFails, Lost, Fault
  <2> QED
    BY <1>a, <2>1 DEF OneDrop
<1>7. ASSUME NEW t \in Thread, ReadToken(t)
      PROVE  HiddenInv'
  <2>1. /\ OneDrop /\ pc[t] = "ready" /\ Free /\ pc' = [pc EXCEPT ![t] = "sent"]
        /\ token' = [token EXCEPT ![t] = session]
        /\ UNCHANGED <<session, holder, live, issued, op, retrying, failed, drops>>
    BY <1>7 DEF ReadToken, device, counts, Local, OneDrop, Wait, Carry
  <2>2. Gone' = Gone
    BY <2>1 DEF Gone
  <2>3. issued > 0 /\ session # 0
    BY <2>1 DEF HiddenInv, Served
  <2>4. session \notin Gone => session \in live
    BY <1>a, <2>3 DEF Gone
  <2>5. ASSUME NEW u \in Thread
        PROVE  Served(u)'
    <3>1. Served(u)
      BY <2>1 DEF HiddenInv
    <3>2. CASE u = t
      BY <1>a, <2>1, <2>2, <2>3, <2>4, <3>1, <3>2 DEF Served
    <3>3. CASE u # t
      BY <1>a, <2>1, <2>2, <3>1, <3>3 DEF Served
    <3> QED
      BY <3>2, <3>3
  <2> QED
    BY <2>1, <2>2, <2>3, <2>5 DEF HiddenInv
<1>8. ASSUME NEW t \in Thread, Logout(t) \/ Deleted(t)
      PROVE  HiddenInv'
  <2>1. pc[t] \in {"logout", "deleting"}
    BY <1>8 DEF Logout, Deleted
  <2>2. OneDrop
    <3>1. CASE UNCHANGED counts
      BY <3>1 DEF counts, OneDrop
    <3>2. CASE Fault
      BY <1>a, <3>2 DEF Fault, OneDrop
    <3> QED
      BY <1>8, <3>1, <3>2 DEF Logout, Deleted
  <2> QED
    BY <2>1, <2>2 DEF HiddenInv, Served
<1>9. ASSUME NEW t \in Thread, Answered(t)
      PROVE  HiddenInv'
  <2>1. /\ Goes(t)
        /\ UNCHANGED <<session, live, issued, holder, drops, faults, disconnects, op>>
    BY <1>9, ReturnsGoes DEF Answered, device, counts
  <2>2. /\ \A u \in Thread \ {t} : failed'[u] = failed[u]
        /\ op'[t] # "transaction" => ~failed'[t]
    BY <1>9, <2>1, ReturnsFailed DEF Answered
  <2> QED
    BY <2>1, <2>2, GoesHidden
<1>10. ASSUME NEW t \in Thread, Expired(t)
       PROVE  HiddenInv'
  <2>1. /\ OneDrop /\ pc[t] = "sent" /\ token[t] \notin live
        /\ UNCHANGED <<op, session, holder, live, issued, drops>>
    BY <1>10 DEF Expired, device, counts, Local, OneDrop
  <2>2. ~retrying[t]
    BY <1>10, <2>1, NeverInVain
  <2>3. /\ retrying' = [retrying EXCEPT ![t] = TRUE] /\ token' = [token EXCEPT ![t] = 0]
        /\ pc' = [pc EXCEPT ![t] = "reauth"] /\ failed' = failed
    BY <1>10, <2>2 DEF Expired, RetriesOnce, Carry, Wait, NoSession
  <2>4. Gone' = Gone
    BY <2>1 DEF Gone
  <2>5. Gone # {}
    <3>1. token[t] \in 1..issued
      BY <1>a, <2>1 DEF HiddenInv, Served
    <3> QED
      BY <2>1, <3>1 DEF Gone
  <2>6. ASSUME NEW u \in Thread
        PROVE  Served(u)'
    <3>1. Served(u)
      BY <2>1 DEF HiddenInv
    <3>2. CASE u = t
      BY <1>a, <2>1, <2>3, <2>4, <2>5, <3>1, <3>2 DEF Served
    <3>3. CASE u # t
      BY <1>a, <2>1, <2>3, <2>4, <3>1, <3>3 DEF Served
    <3> QED
      BY <3>2, <3>3
  <2> QED
    BY <2>1, <2>4, <2>6 DEF HiddenInv, Free
<1>11. CASE Drop
  <2>1. PICK s \in live : live' = live \ {s}
    BY <1>11 DEF Drop
  <2>2. /\ drops' = drops + 1
        /\ UNCHANGED <<session, issued, holder, pc, op, token, retrying, failed, faults,
                       disconnects>>
    BY <1>11 DEF Drop, Local
  <2>3. drops = 0 /\ OneDrop /\ Gone = {}
    BY <1>a, <2>2 DEF OneDrop, HiddenInv
  <2>4. ASSUME NEW u \in Thread
        PROVE  Served(u)'
    <3>1. Served(u) /\ ~retrying[u]
      BY <2>3 DEF HiddenInv, Served
    <3> QED
      BY <2>2, <3>1 DEF Served
  <2>5. drops' # 0
    BY <2>2, <2>3
  <2>6. issued' > 0 /\ Free' => session' # 0
    BY <2>2, <2>3 DEF HiddenInv, Free
  <2> QED
    BY <2>4, <2>5, <2>6 DEF HiddenInv
<1>12. CASE UNCHANGED vars
  BY <1>12 DEF vars, device, counts, HiddenInv, Served, Gone, OneDrop, Free
<1> QED
  BY <1>1, <1>2, <1>3, <1>4, <1>5, <1>6, <1>7, <1>8, <1>9, <1>10, <1>11, <1>12 DEF Next

\* At first nobody has seen a drop.
LEMMA HiddenInvInit == Init => TokenTypes /\ HiddenInv
BY DEF Init, TokenTypes, HiddenInv, Served, Gone, OneDrop, NoSession

\* One dropped session is not seen by the callers (the single retry after reauthenticate
\* in client.go and ApiTransport.java), for any number of threads, however their logins
\* overlap.
THEOREM OneDropIsHidden == Spec => []OneDropHidden
<1>1. HiddenInv => OneDropHidden
  BY DEF HiddenInv, Served, OneDropHidden, OneDrop
<1> QED
  BY LockInvInit, LockInvNext, CommitInvInit, CommitInvNext, TokenTypesNext, HiddenInvInit,
     HiddenInvNext, <1>1, PTL DEF Spec

----------------------------------------------------------------------------
(* The sessions the device grants *)

\* A session that has ended, or that its logout is about to end.
Dead(s) == s \notin live \/ \E u \in Thread : pc[u] = "deleting" /\ token[u] = s

\* A thread that will log in without looking for a session first: it has been told of
\* the loss of one, or carries or will be given one that is lost.
Owes(t) ==
    \/ pc[t] \in {"reauth", "login"}
    \/ pc[t] = "sent" /\ ~retrying[t] /\ Dead(token[t])
    \/ pc[t] = "ready" /\ ~retrying[t] /\ Free /\ Dead(session)
    \/ session # 0 /\ Dead(session)
\* The threads that owe a login.
Owed == {t \in Thread : Owes(t)}

\* The logouts still to come.
Leaving == {t \in Thread : pc[t] = "logout"}

\* The login of the next thread that finds no session.
Extra == IF session = NoSession /\ Free THEN 1 ELSE 0

\* What is granted, owed, and granted to the logouts to come.
Granted == issued + Extra + Cardinality(Owed) + Cardinality(Thread) * Cardinality(Leaving)
\* What can end a session.
Losses == drops + disconnects + faults

\* The inductive invariant.
GrantInv == Granted <= 1 + Cardinality(Thread) * Losses

\* The sets are finite.
LEMMA OwedFinite ==
    /\ IsFiniteSet(Owed) /\ IsFiniteSet(Leaving)
    /\ Cardinality(Owed) \in Nat /\ Cardinality(Leaving) \in Nat
    /\ Cardinality(Thread) \in Nat /\ Cardinality(Owed) <= Cardinality(Thread)
<1>1. Owed \subseteq Thread /\ Leaving \subseteq Thread
  BY DEF Owed, Leaving
<1> QED
  BY <1>1, FiniteThreads, FS_Subset, FS_CardinalityType

\* The same after a step.
LEMMA OwedFiniteNext ==
    /\ IsFiniteSet(Owed') /\ IsFiniteSet(Leaving')
    /\ Cardinality(Owed') \in Nat /\ Cardinality(Leaving') \in Nat
    /\ Cardinality(Owed') <= Cardinality(Thread)
<1>1. Owed' \subseteq Thread /\ Leaving' \subseteq Thread
  BY DEF Owed, Leaving
<1> QED
  BY <1>1, FiniteThreads, FS_Subset, FS_CardinalityType

\* The numbers of the bound.
LEMMA Numbers ==
    ASSUME TokenTypes
    PROVE  /\ issued \in Nat /\ Extra \in {0, 1} /\ Extra' \in {0, 1} /\ Losses \in Nat
           /\ 1 \in Nat /\ 0 \in Nat
BY DEF TokenTypes, Extra, Losses

\* All threads but one.
LEMMA AllButOne ==
    ASSUME NEW t \in Thread
    PROVE  /\ IsFiniteSet(Thread \ {t}) /\ Cardinality(Thread) \in Nat \ {0}
           /\ Cardinality(Thread \ {t}) = Cardinality(Thread) - 1
<1>1. IsFiniteSet(Thread \ {t}) /\ Cardinality(Thread \ {t}) = Cardinality(Thread) - 1
  BY FiniteThreads, FS_RemoveElement
<1>2. Cardinality(Thread) # 0
  BY FiniteThreads, FS_EmptySet
<1> QED
  BY <1>1, <1>2, FiniteThreads, FS_CardinalityType

\* Nobody owes more.
LEMMA NobodyOwesMore ==
    ASSUME TokenTypes, GrantInv, issued' = issued, Owed' \subseteq Owed,
           Leaving' = Leaving, Extra' <= Extra, Losses' \in {Losses, Losses + 1}
    PROVE  GrantInv'
<1> DEFINE n == Cardinality(Thread)
           m == Cardinality(Leaving)
           a == n * m
           b == n * Losses
<1>1. Cardinality(Owed') <= Cardinality(Owed)
  BY OwedFinite, FS_Subset
<1>2. /\ n \in Nat /\ m \in Nat /\ Cardinality(Owed) \in Nat /\ Cardinality(Owed') \in Nat
  BY OwedFinite, OwedFiniteNext
<1>3. a \in Nat /\ b \in Nat /\ n * (Losses + 1) = b + n
  BY <1>2, Numbers
<1>4. issued + Extra + Cardinality(Owed) + a <= 1 + b
  BY DEF GrantInv, Granted
<1>5. issued' + Extra' + Cardinality(Owed') + a <= 1 + b
  <2> HIDE DEF a, b
  <2> QED
    BY <1>1, <1>2, <1>3, <1>4, Numbers
<1>6. b <= n * Losses'
  <2>1. CASE Losses' = Losses
    BY <1>3, <2>1
  <2>2. CASE Losses' = Losses + 1
    BY <1>2, <1>3, <2>2
  <2> QED
    BY <2>1, <2>2
<1>7. n * Losses' \in Nat
  BY <1>2, Numbers
<1>8. issued' + Extra' + Cardinality(Owed') + a <= 1 + n * Losses'
  <2> HIDE DEF a, b, n
  <2> QED
    BY <1>2, <1>3, <1>5, <1>6, <1>7, Numbers
<1>9. n * Cardinality(Leaving') = a
  OBVIOUS
<1> QED
  BY <1>8, <1>9 DEF GrantInv, Granted

\* The next thread logs in: that login was to come.
LEMMA OneOwesMore ==
    ASSUME TokenTypes, GrantInv, issued' = issued, NEW t \in Thread,
           Owed' \subseteq Owed \cup {t}, Leaving' = Leaving, Extra = 1, Extra' = 0,
           Losses' = Losses
    PROVE  GrantInv'
<1> DEFINE a == Cardinality(Thread) * Cardinality(Leaving)
           b == Cardinality(Thread) * Losses
<1>1. IsFiniteSet(Owed \cup {t}) /\ Cardinality(Owed \cup {t}) <= Cardinality(Owed) + 1
      /\ Cardinality(Owed \cup {t}) \in Nat
  <2>1. /\ IsFiniteSet(Owed \cup {t})
        /\ \/ Cardinality(Owed \cup {t}) = Cardinality(Owed)
           \/ Cardinality(Owed \cup {t}) = Cardinality(Owed) + 1
    BY OwedFinite, FS_AddElement
  <2> QED
    BY <2>1, OwedFinite
<1>2. Cardinality(Owed') <= Cardinality(Owed \cup {t})
  BY <1>1, FS_Subset
<1>3. /\ Cardinality(Owed) \in Nat /\ Cardinality(Owed') \in Nat /\ a \in Nat /\ b \in Nat
  BY OwedFinite, OwedFiniteNext, Numbers
<1>4. issued + Extra + Cardinality(Owed) + a <= 1 + b
  BY DEF GrantInv, Granted
<1>5. issued' + Extra' + Cardinality(Owed') + a <= 1 + b
  <2> HIDE DEF a, b
  <2> QED
    BY <1>1, <1>2, <1>3, <1>4, Numbers
<1> QED
  BY <1>5 DEF GrantInv, Granted

\* A login that ends was owed.
LEMMA LoginPays ==
    ASSUME TokenTypes, GrantInv, issued' = issued + 1, NEW t \in Owed,
           Owed' \subseteq Owed \ {t}, Leaving' = Leaving, Extra' = 0, Losses' = Losses
    PROVE  GrantInv'
<1> DEFINE a == Cardinality(Thread) * Cardinality(Leaving)
           b == Cardinality(Thread) * Losses
<1>1. IsFiniteSet(Owed \ {t}) /\ Cardinality(Owed \ {t}) = Cardinality(Owed) - 1
  BY OwedFinite, FS_RemoveElement
<1>2. Cardinality(Owed') <= Cardinality(Owed \ {t})
  BY <1>1, FS_Subset
<1>3. /\ Cardinality(Owed) \in Nat /\ Cardinality(Owed') \in Nat /\ a \in Nat /\ b \in Nat
  BY OwedFinite, OwedFiniteNext, Numbers
<1>4. issued + Extra + Cardinality(Owed) + a <= 1 + b
  BY DEF GrantInv, Granted
<1>5. issued' + Extra' + Cardinality(Owed') + a <= 1 + b
  <2> HIDE DEF a, b
  <2> QED
    BY <1>1, <1>2, <1>3, <1>4, Numbers
<1> QED
  BY <1>5 DEF GrantInv, Granted

\* A loss makes every thread owe a login, or every other thread and the next one.
LEMMA LossPays ==
    ASSUME TokenTypes, GrantInv, Leaving' = Leaving, Losses' = Losses + 1,
           \/ issued' = issued /\ Extra' = Extra
           \/ \E t \in Owed : Owed' \subseteq Thread \ {t} /\ issued' \in {issued, issued + 1}
    PROVE  GrantInv'
<1> DEFINE n == Cardinality(Thread)
           a == n * Cardinality(Leaving)
           b == n * Losses
<1>1. /\ n \in Nat /\ Cardinality(Owed) \in Nat /\ Cardinality(Owed') \in Nat /\ a \in Nat
      /\ b \in Nat /\ Cardinality(Owed') <= n
  BY OwedFinite, OwedFiniteNext, Numbers
<1>2. issued + Extra + Cardinality(Owed) + a <= 1 + b
  BY DEF GrantInv, Granted
<1>3. n * Losses' = b + n
  BY <1>1, Numbers
<1>4. issued' + Extra' + Cardinality(Owed') + a <= 1 + (b + n)
  <2>1. CASE issued' = issued /\ Extra' = Extra
    <3> HIDE DEF a, b, n
    <3> QED
      BY <1>1, <1>2, <2>1, Numbers
  <2>2. CASE \E t \in Owed : Owed' \subseteq Thread \ {t} /\ issued' \in {issued, issued + 1}
    <3>1. PICK t \in Owed : Owed' \subseteq Thread \ {t} /\ issued' \in {issued, issued + 1}
      BY <2>2
    <3>2. t \in Thread
      BY DEF Owed
    <3>3. Cardinality(Owed') <= Cardinality(Thread \ {t})
      BY <3>1, <3>2, AllButOne, FS_Subset
    <3>4. Cardinality(Owed') <= n - 1
      BY <3>2, <3>3, AllButOne
    <3>5. Cardinality(Owed) # 0
      BY OwedFinite, FS_EmptySet
    <3> HIDE DEF a, b, n
    <3> QED
      BY <1>1, <1>2, <3>1, <3>4, <3>5, Numbers
  <2> QED
    BY <2>1, <2>2
<1>5. n * Cardinality(Leaving') = a
  OBVIOUS
<1>6. issued' + Extra' + Cardinality(Owed') + a <= 1 + n * Losses'
  BY <1>3, <1>4, Zenon
<1> QED
  BY <1>5, <1>6 DEF GrantInv, Granted

\* A logout is announced.
LEMMA LogoutAnnounced ==
    ASSUME TokenTypes, GrantInv, issued' = issued, Extra' = Extra, Owed' \subseteq Owed,
           Losses' = Losses + 1, NEW t, t \notin Leaving, Leaving' = Leaving \cup {t}
    PROVE  GrantInv'
<1> DEFINE n == Cardinality(Thread)
           m == Cardinality(Leaving)
           a == n * m
           b == n * Losses
<1>1. Cardinality(Leaving') = m + 1
  BY OwedFinite, FS_AddElement
<1>2. Cardinality(Owed') <= Cardinality(Owed)
  BY OwedFinite, FS_Subset
<1>3. n \in Nat /\ m \in Nat /\ Cardinality(Owed) \in Nat /\ Cardinality(Owed') \in Nat
  BY OwedFinite, OwedFiniteNext
<1>4. a \in Nat /\ b \in Nat /\ n * (Losses + 1) = b + n /\ n * (m + 1) = a + n
  BY <1>3, Numbers
<1>5. issued + Extra + Cardinality(Owed) + a <= 1 + b
  BY DEF GrantInv, Granted
<1>6. issued' + Extra' + Cardinality(Owed') + (a + n) <= 1 + (b + n)
  <2> HIDE DEF a, b, n
  <2> QED
    BY <1>2, <1>3, <1>4, <1>5, Numbers
<1>7. n * Cardinality(Leaving') = a + n /\ n * Losses' = b + n
  BY <1>1, <1>4
<1>8. issued' + Extra' + Cardinality(Owed') + n * Cardinality(Leaving') <= 1 + n * Losses'
  BY <1>6, <1>7, Zenon
<1> QED
  BY <1>8 DEF GrantInv, Granted

\* It happens: the other threads may have to log in again, and the next one.
LEMMA LogoutHappens ==
    ASSUME TokenTypes, GrantInv, issued' = issued, NEW t \in Leaving,
           Leaving' = Leaving \ {t}, Owed' \subseteq Owed \/ Owed' \subseteq Thread \ {t},
           Extra' = Extra \/ Owed' \subseteq Thread \ {t}, Losses' = Losses
    PROVE  GrantInv'
<1> DEFINE n == Cardinality(Thread)
           m == Cardinality(Leaving')
           a == n * m
           b == n * Losses
<1>1. /\ Cardinality(Leaving) = m + 1 /\ m \in Nat
  <2>1. m = Cardinality(Leaving) - 1
    BY OwedFinite, FS_RemoveElement
  <2> QED
    BY <2>1, OwedFinite, OwedFiniteNext
<1>2. n \in Nat /\ Cardinality(Owed) \in Nat /\ Cardinality(Owed') \in Nat
      /\ Cardinality(Owed') <= n
  BY OwedFinite, OwedFiniteNext
<1>3. a \in Nat /\ b \in Nat /\ n * (m + 1) = a + n
  BY <1>1, <1>2, Numbers
<1>4. issued + Extra + Cardinality(Owed) + (a + n) <= 1 + b
  <2>1. issued + Extra + Cardinality(Owed) + n * Cardinality(Leaving) <= 1 + b
    BY DEF GrantInv, Granted
  <2>2. n * Cardinality(Leaving) = a + n
    BY <1>1, <1>3
  <2> QED
    BY <2>1, <2>2, Zenon
<1>5. issued' + Extra' + Cardinality(Owed') + a <= 1 + b
  <2>1. CASE Owed' \subseteq Thread \ {t}
    <3>1. t \in Thread
      BY DEF Leaving
    <3>2. Cardinality(Owed') <= n - 1
      <4>1. Cardinality(Owed') <= Cardinality(Thread \ {t})
        BY <2>1, <3>1, AllButOne, FS_Subset
      <4> QED
        BY <3>1, <4>1, AllButOne
    <3> HIDE DEF a, b, n, m
    <3> QED
      BY <1>2, <1>3, <1>4, <3>2, Numbers
  <2>2. CASE Owed' \subseteq Owed /\ Extra' = Extra
    <3> HIDE DEF a, b, n, m
    <3> QED
      BY <1>2, <1>3, <1>4, <2>2, Numbers
  <2> QED
    BY <2>1, <2>2
<1> QED
  BY <1>5 DEF GrantInv, Granted

\* While a login holds the mutex there is no session.
EmptyInv == ~Free => session = NoSession

\* Every step keeps that.
LEMMA EmptyInvNext == LockInv /\ EmptyInv /\ [Next]_vars => EmptyInv'
<1> SUFFICES ASSUME LockInv, EmptyInv, [Next]_vars
             PROVE  EmptyInv'
  OBVIOUS
<1>1. ASSUME NEW t \in Thread, Ensure(t)
      PROVE  EmptyInv'
  BY <1>1 DEF Ensure, EmptyInv, Free
<1>2. ASSUME NEW t \in Thread, Reauthenticate(t)
      PROVE  EmptyInv'
  BY <1>2 DEF Reauthenticate, EmptyInv
<1>3. ASSUME NEW t \in Thread, LoggedIn(t) \/ LoginFails(t)
      PROVE  EmptyInv'
  BY <1>3 DEF LoggedIn, LoginFails, Unlock, EmptyInv, Free
<1>4. ASSUME NEW t \in Thread, Logout(t)
      PROVE  EmptyInv'
  BY <1>4 DEF Logout, EmptyInv
<1>5. CASE UNCHANGED <<session, holder>>
  BY <1>5 DEF EmptyInv, Free
<1>6. ASSUME NEW t \in Thread, Call(t) \/ Transaction(t) \/ Disconnect(t)
      PROVE  UNCHANGED <<session, holder>>
  BY <1>6 DEF Call, Transaction, Begin, Disconnect
<1>7. ASSUME NEW t \in Thread, ReadToken(t) \/ Answered(t) \/ Expired(t) \/ Lost(t) \/ Deleted(t)
      PROVE  UNCHANGED <<session, holder>>
  BY <1>7 DEF ReadToken, Answered, Expired, Lost, Deleted
<1>8. Drop \/ UNCHANGED vars => UNCHANGED <<session, holder>>
  BY DEF Drop, vars
<1> QED
  BY <1>1, <1>2, <1>3, <1>4, <1>5, <1>6, <1>7, <1>8 DEF Next

\* A thread that begins or ends no logout leaves what is dead as it is.
LEMMA DeadKept ==
    ASSUME NEW t \in Thread, pc[t] # "deleting", pc'[t] # "deleting", live' = live,
           \A u \in Thread \ {t} : pc'[u] = pc[u] /\ token'[u] = token[u],
           NEW s
    PROVE  Dead(s)' <=> Dead(s)
BY DEF Dead

\* It neither comes to leave nor has left.
LEMMA LeavingKept ==
    ASSUME NEW t \in Thread, pc[t] # "logout", pc'[t] # "logout",
           \A u \in Thread \ {t} : pc'[u] = pc[u]
    PROVE  Leaving' = Leaving
BY DEF Leaving

\* A call goes on or ends: nobody owes more.
LEMMA GoesGrants ==
    ASSUME NEW t \in Thread, LockInv, TokenTypes, GrantInv, Goes(t),
           pc[t] \in {"idle", "ensure", "sent"},
           UNCHANGED <<session, live, issued, holder>>, Losses' \in {Losses, Losses + 1}
    PROVE  GrantInv'
<1>1. /\ pc'[t] \in {"idle", "ensure"}
      /\ \A u \in Thread \ {t} : /\ pc'[u] = pc[u] /\ token'[u] = token[u]
                                 /\ retrying'[u] = retrying[u]
  BY DEF LockInv, TokenTypes, Goes, Wait, Carry
<1>2. \A s : Dead(s)' <=> Dead(s)
  BY <1>1, DeadKept
<1>3. Owed' \subseteq Owed
  BY <1>1, <1>2 DEF Owed, Owes, Free
<1>4. Leaving' = Leaving
  BY <1>1, LeavingKept
<1>5. Extra' = Extra
  BY DEF Extra, Free
<1>6. Extra' <= Extra
  BY <1>5, Numbers
<1> QED
  BY <1>3, <1>4, <1>6, NobodyOwesMore

\* Every step keeps the bound.
LEMMA GrantInvNext ==
    LockInv /\ TokenTypes /\ EmptyInv /\ GrantInv /\ [Next]_vars => GrantInv'
<1> SUFFICES ASSUME LockInv, TokenTypes, EmptyInv, GrantInv, [Next]_vars
             PROVE  GrantInv'
  OBVIOUS
<1>a. /\ pc \in [Thread -> Place] /\ token \in [Thread -> 0..issued]
      /\ retrying \in [Thread -> BOOLEAN]
      /\ session \in 0..issued /\ issued \in Nat /\ live \subseteq 1..issued
      /\ drops \in Nat /\ faults \in Nat /\ disconnects \in Nat
  BY DEF LockInv, TokenTypes
<1>b. UNCHANGED counts => Losses' = Losses
  BY DEF counts, Losses
<1>c. Fault => Losses' = Losses + 1
  BY <1>a DEF Fault, Losses
<1>d. Extra \in {0, 1} /\ Extra' \in {0, 1}
  BY Numbers
<1>1. ASSUME NEW t \in Thread, Call(t) \/ Transaction(t)
      PROVE  GrantInv'
  <2>1. PICK o, s : Begin(t, o, s)
    BY <1>1 DEF Call, Transaction
  <2>2. /\ Goes(t) /\ pc[t] = "idle"
        /\ UNCHANGED <<session, live, issued, holder, drops, faults, disconnects>>
    BY <2>1, RequestGoes DEF Begin, device
  <2>3. Losses' = Losses
    BY <2>2 DEF Losses
  <2> QED
    BY <2>2, <2>3, GoesGrants
<1>2. ASSUME NEW t \in Thread, Disconnect(t)
      PROVE  GrantInv'
  <2>1. /\ pc[t] = "idle" /\ pc'[t] = "logout" /\ \A u \in Thread \ {t} : pc'[u] = pc[u]
        /\ UNCHANGED <<session, holder, live, issued, token, retrying, drops, faults>>
        /\ disconnects' = disconnects + 1
    BY <1>2, <1>a DEF Disconnect, Wait, device
  <2>2. \A s : Dead(s)' <=> Dead(s)
    BY <2>1, DeadKept
  <2>3. Owed' \subseteq Owed
    BY <2>1, <2>2 DEF Owed, Owes, Free
  <2>4. Leaving' = Leaving \cup {t} /\ t \notin Leaving
    BY <2>1 DEF Leaving
  <2>5. Extra' = Extra
    BY <2>1 DEF Extra, Free
  <2>6. Losses' = Losses + 1
    BY <1>a, <2>1 DEF Losses
  <2> QED
    BY <2>1, <2>3, <2>4, <2>5, <2>6, LogoutAnnounced
<1>3. ASSUME NEW t \in Thread, Ensure(t)
      PROVE  GrantInv'
  <2>1. pc[t] = "ensure" /\ Free /\ UNCHANGED <<session, live, issued>> /\ Losses' = Losses
    BY <1>3, <1>b DEF Ensure, device
  <2>2. CASE session = NoSession /\ holder' = t /\ Wait(t, "login")
             /\ UNCHANGED <<token, retrying>>
    <3>1. pc'[t] = "login" /\ \A u \in Thread \ {t} : pc'[u] = pc[u]
      BY <1>a, <2>2 DEF Wait
    <3>2. \A s : Dead(s)' <=> Dead(s)
      BY <2>1, <2>2, <3>1, DeadKept
    <3>3. ~Free'
      BY <2>2, NoThreadAssumption DEF Free
    <3>4. Owed' \subseteq Owed \cup {t}
      BY <2>1, <2>2, <3>1, <3>2, <3>3 DEF Owed, Owes
    <3>5. Leaving' = Leaving
      BY <2>1, <3>1, LeavingKept
    <3>6. Extra = 1 /\ Extra' = 0
      BY <2>1, <2>2, <3>3 DEF Extra
    <3> QED
      BY <2>1, <3>4, <3>5, <3>6, OneOwesMore
  <2>3. CASE session # NoSession /\ UNCHANGED <<holder, token, retrying>> /\ Wait(t, "ready")
    <3>1. pc'[t] = "ready" /\ \A u \in Thread \ {t} : pc'[u] = pc[u]
      BY <1>a, <2>3 DEF Wait
    <3>2. \A s : Dead(s)' <=> Dead(s)
      BY <2>1, <2>3, <3>1, DeadKept
    <3>3. Owed' \subseteq Owed
      BY <2>1, <2>3, <3>1, <3>2 DEF Owed, Owes, Free, NoSession
    <3>4. Leaving' = Leaving
      BY <2>1, <3>1, LeavingKept
    <3>5. Extra' = Extra
      BY <2>1, <2>3 DEF Extra, Free
    <3>6. Extra' <= Extra
      BY <1>d, <3>5
    <3> QED
      BY <2>1, <3>3, <3>4, <3>6, NobodyOwesMore
  <2>4. CASE EndCall(t, FALSE) /\ UNCHANGED holder
    BY <2>1, <2>4, EndCallGoes, GoesGrants
  <2> QED
    BY <1>3, <2>2, <2>3, <2>4 DEF Ensure
<1>4. ASSUME NEW t \in Thread, Reauthenticate(t)
      PROVE  GrantInv'
  <2>1. /\ pc[t] = "reauth" /\ pc'[t] = "login" /\ \A u \in Thread \ {t} : pc'[u] = pc[u]
        /\ session' = 0 /\ holder' = t /\ UNCHANGED <<token, retrying, live, issued>>
        /\ Losses' = Losses
    BY <1>4, <1>a, <1>b DEF Reauthenticate, Wait, device, NoSession
  <2>2. \A s : Dead(s)' <=> Dead(s)
    BY <2>1, DeadKept
  <2>3. ~Free'
    BY <2>1, NoThreadAssumption DEF Free
  <2>4. Owed' \subseteq Owed
    BY <2>1, <2>2, <2>3 DEF Owed, Owes
  <2>5. Leaving' = Leaving
    BY <2>1, LeavingKept
  <2>6. Extra' = 0
    BY <2>3 DEF Extra
  <2>7. Extra' <= Extra
    BY <1>d, <2>6
  <2> QED
    BY <2>1, <2>4, <2>5, <2>7, NobodyOwesMore
<1>5. ASSUME NEW t \in Thread, LoggedIn(t)
      PROVE  GrantInv'
  <2>1. /\ pc[t] = "login" /\ session' = issued + 1 /\ issued' = issued + 1
        /\ live' = live \cup {issued + 1} /\ Losses' = Losses
    BY <1>5, <1>b DEF LoggedIn
  <2>2. /\ pc'[t] \in {"idle", "ready"}
        /\ \A u \in Thread \ {t} : /\ pc'[u] = pc[u] /\ token'[u] = token[u]
                                   /\ retrying'[u] = retrying[u]
    <3>1. CASE EndCall(t, FALSE)
      BY <1>a, <3>1 DEF EndCall, Wait, Carry
    <3>2. CASE Wait(t, "ready") /\ UNCHANGED <<token, retrying>>
      BY <1>a, <3>2 DEF Wait
    <3> QED
      BY <1>5, <3>1, <3>2 DEF LoggedIn
  <2>3. /\ issued + 1 \notin 0..issued /\ session' # 0
        /\ \A u \in Thread : token[u] # issued + 1
    BY <1>a, <2>1
  <2>4. \A s \in 0..issued : Dead(s)' <=> Dead(s)
    BY <2>1, <2>2, <2>3 DEF Dead
  <2>5. ~Dead(session)'
    BY <2>1, <2>2, <2>3 DEF Dead
  <2>6. ASSUME NEW u \in Thread, Owes(u)'
        PROVE  u # t /\ Owes(u)
    <3>1. pc'[u] \in {"reauth", "login"} \/ (pc'[u] = "sent" /\ ~retrying'[u] /\ Dead(token[u])')
      BY <2>2, <2>5, <2>6 DEF Owes
    <3>2. u # t
      BY <2>2, <3>1
    <3>3. token'[u] \in 0..issued
      BY <1>a, <2>2, <3>2
    <3> QED
      BY <2>2, <2>4, <3>1, <3>2, <3>3 DEF Owes
  <2>7. Owed' \subseteq Owed \ {t} /\ t \in Owed
    BY <2>1, <2>6 DEF Owed, Owes
  <2>8. Leaving' = Leaving
    BY <2>1, <2>2, LeavingKept
  <2>9. Extra' = 0
    BY <2>3 DEF Extra, NoSession
  <2> QED
    BY <2>1, <2>7, <2>8, <2>9, LoginPays
<1>6. ASSUME NEW t \in Thread, LoginFails(t)
      PROVE  GrantInv'
  <2>1. /\ pc[t] = "login" /\ session' = session /\ Losses' = Losses + 1 /\ Goes(t)
        /\ issued' \in {issued, issued + 1}
    BY <1>6, <1>c, ThrowsGoes DEF LoginFails, device
  <2>2. session = 0
    BY <2>1, NoThreadAssumption DEF LockInv, LockIsReleased, EmptyInv, Free, NoSession
  <2>3. pc'[t] \in {"idle", "ensure"} /\ \A u \in Thread \ {t} : pc'[u] = pc[u]
    BY <1>a, <2>1 DEF Goes, Wait
  <2>4. Owed' \subseteq Thread \ {t} /\ t \in Owed
    BY <2>1, <2>2, <2>3 DEF Owed, Owes
  <2>5. Leaving' = Leaving
    BY <2>1, <2>3, LeavingKept
  <2> QED
    BY <2>1, <2>4, <2>5, LossPays
<1>7. ASSUME NEW t \in Thread, ReadToken(t)
      PROVE  GrantInv'
  <2>1. /\ pc[t] = "ready" /\ Free /\ pc'[t] = "sent" /\ token'[t] = session
        /\ \A u \in Thread \ {t} : pc'[u] = pc[u] /\ token'[u] = token[u]
        /\ UNCHANGED <<session, holder, retrying, live, issued>> /\ Losses' = Losses
    BY <1>7, <1>a, <1>b DEF ReadToken, Wait, Carry, device
  <2>2. \A s : Dead(s)' <=> Dead(s)
    BY <2>1, DeadKept
  <2>3. Owed' \subseteq Owed
    BY <2>1, <2>2 DEF Owed, Owes, Free
  <2>4. Leaving' = Leaving
    BY <2>1, LeavingKept
  <2>5. Extra' = Extra
    BY <2>1 DEF Extra, Free
  <2>6. Extra' <= Extra
    BY <1>d, <2>5
  <2> QED
    BY <2>1, <2>3, <2>4, <2>6, NobodyOwesMore
<1>8. ASSUME NEW t \in Thread, Logout(t)
      PROVE  GrantInv'
  <2>1. /\ pc[t] = "logout" /\ Free /\ session' = 0
        /\ UNCHANGED <<holder, retrying, live, issued>> /\ Losses' = Losses
        /\ \A u \in Thread \ {t} : pc'[u] = pc[u]
    BY <1>8, <1>a, <1>b DEF Logout, Wait, device, NoSession
  <2>2. pc'[t] \in {"idle", "deleting"}
    BY <1>8, <1>a DEF Logout, Wait
  <2>3. Leaving' = Leaving \ {t} /\ t \in Leaving
    BY <2>1, <2>2 DEF Leaving
  <2>4. Owed' \subseteq Thread \ {t}
    BY <2>1, <2>2 DEF Owed, Owes
  <2> QED
    BY <2>1, <2>3, <2>4, LogoutHappens
<1>9. ASSUME NEW t \in Thread, Answered(t)
      PROVE  GrantInv'
  <2>1. Goes(t) /\ pc[t] = "sent" /\ UNCHANGED <<session, live, issued, holder>>
        /\ Losses' = Losses
    BY <1>9, <1>b, ReturnsGoes DEF Answered, device
  <2> QED
    BY <2>1, GoesGrants
<1>10. ASSUME NEW t \in Thread, Expired(t)
       PROVE  GrantInv'
  <2>1. /\ pc[t] = "sent" /\ token[t] \notin live
        /\ UNCHANGED <<session, live, issued, holder>> /\ Losses' = Losses
    BY <1>10, <1>b DEF Expired, device
  <2>2. CASE retrying[t]
    BY <1>10, <2>1, <2>2, ThrowsGoes, GoesGrants DEF Expired, RetriesOnce
  <2>3. CASE ~retrying[t]
    <3>1. /\ pc'[t] = "reauth"
          /\ \A u \in Thread \ {t} : /\ pc'[u] = pc[u] /\ token'[u] = token[u]
                                     /\ retrying'[u] = retrying[u]
      BY <1>10, <1>a, <2>3 DEF Expired, RetriesOnce, Wait, Carry
    <3>2. \A s : Dead(s)' <=> Dead(s)
      BY <2>1, <3>1, DeadKept
    <3>3. Owes(t)
      BY <2>1, <2>3 DEF Owes, Dead
    <3>4. Owed' \subseteq Owed
      BY <2>1, <3>1, <3>2, <3>3 DEF Owed, Owes, Free
    <3>5. Leaving' = Leaving
      BY <2>1, <3>1, LeavingKept
    <3>6. Extra' = Extra
      BY <2>1 DEF Extra, Free
    <3>7. Extra' <= Extra
      BY <1>d, <3>6
    <3> QED
      BY <2>1, <3>4, <3>5, <3>7, NobodyOwesMore
  <2> QED
    BY <2>2, <2>3
<1>11. ASSUME NEW t \in Thread, Lost(t)
       PROVE  GrantInv'
  <2>1. Goes(t) /\ pc[t] = "sent" /\ UNCHANGED <<session, live, issued, holder>>
        /\ Losses' = Losses + 1
    BY <1>11, <1>c, ThrowsGoes DEF Lost, device
  <2> QED
    BY <2>1, GoesGrants
<1>12. ASSUME NEW t \in Thread, Deleted(t)
       PROVE  GrantInv'
  <2>1. /\ pc[t] = "deleting" /\ pc'[t] = "idle" /\ live \ {token[t]} \subseteq live'
        /\ \A u \in Thread \ {t} : pc'[u] = pc[u] /\ token'[u] = token[u]
        /\ UNCHANGED <<session, holder, retrying, issued>>
    BY <1>12, <1>a DEF Deleted, Wait, Carry
  <2>2. Losses' \in {Losses, Losses + 1}
    BY <1>12, <1>b, <1>c DEF Deleted
  <2>3. \A s : Dead(s)' => Dead(s)
    BY <2>1 DEF Dead
  <2>4. Owed' \subseteq Owed
    BY <2>1, <2>3 DEF Owed, Owes, Free
  <2>5. Leaving' = Leaving
    BY <2>1, LeavingKept
  <2>6. Extra' = Extra
    BY <2>1 DEF Extra, Free
  <2>7. Extra' <= Extra
    BY <1>d, <2>6
  <2> QED
    BY <2>1, <2>2, <2>4, <2>5, <2>7, NobodyOwesMore
<1>13. CASE Drop
  <2>1. drops' = drops + 1 /\ UNCHANGED <<session, holder, pc, issued, faults, disconnects>>
    BY <1>13 DEF Drop
  <2>2. Losses' = Losses + 1
    BY <1>a, <2>1 DEF Losses
  <2>3. Leaving' = Leaving /\ Extra' = Extra
    BY <2>1 DEF Leaving, Extra, Free
  <2> QED
    BY <2>1, <2>2, <2>3, LossPays
<1>14. CASE UNCHANGED vars
  BY <1>14 DEF vars, device, counts, GrantInv, Granted, Losses, Owed, Owes, Dead, Leaving,
               Extra, Free
<1> QED
  BY <1>1, <1>2, <1>3, <1>4, <1>5, <1>6, <1>7, <1>8, <1>9, <1>10, <1>11, <1>12, <1>13, <1>14
  DEF Next

\* The device grants one session, and at most one more for each thread and each session
\* dropped, logged out or given up (the mutex of auth.go and AuthManager.java), for any
\* number of threads and losses.
THEOREM SessionsAreBounded == Spec => []SessionsPerLoss
<1>1. Init => EmptyInv /\ GrantInv
  <2> SUFFICES ASSUME Init PROVE EmptyInv /\ GrantInv
    OBVIOUS
  <2>1. Owed = {} /\ Leaving = {}
    BY DEF Init, Owed, Owes, Leaving, NoSession
  <2>2. Cardinality(Owed) = 0 /\ Cardinality(Leaving) = 0
    BY <2>1, FS_EmptySet
  <2>3. Cardinality(Thread) \in Nat
    BY FiniteThreads, FS_CardinalityType
  <2>4. Extra = 1 /\ issued = 0 /\ Losses = 0
    BY DEF Init, Extra, Free, Losses
  <2>5. GrantInv
    BY <2>2, <2>3, <2>4 DEF GrantInv, Granted
  <2> QED
    BY <2>5 DEF Init, EmptyInv
<1>2. TokenTypes /\ GrantInv => SessionsPerLoss
  <2> SUFFICES ASSUME TokenTypes, GrantInv
               PROVE  issued <= 1 + Cardinality(Thread) * Losses
    BY DEF SessionsPerLoss, Losses
  <2> DEFINE a == Cardinality(Thread) * Cardinality(Leaving)
             b == Cardinality(Thread) * Losses
  <2>1. a \in Nat /\ b \in Nat /\ Cardinality(Owed) \in Nat
    BY OwedFinite, Numbers
  <2>2. issued + Extra + Cardinality(Owed) + a <= 1 + b
    BY DEF GrantInv, Granted
  <2>3. issued <= 1 + b
    <3> HIDE DEF a, b
    <3> QED
      BY <2>1, <2>2, Numbers
  <2> QED
    BY <2>3
<1> QED
  BY LockInvInit, LockInvNext, HiddenInvInit, TokenTypesNext, EmptyInvNext, GrantInvNext,
     <1>1, <1>2, PTL DEF Spec
=============================================================================
