--------------------------- MODULE PySessionProofs ---------------------------
(****************************************************************************)
(* What holds of PySession for every set of tasks, every session limit and  *)
(* every bound: types, the exclusion the lock gives, and the freshness of   *)
(* the session a request carries; with connect() awaited first, that the    *)
(* client never goes back to an older session and how many it opens; and    *)
(* what a caller may conclude from the result it gets.                      *)
(****************************************************************************)
EXTENDS PySession, SequenceTheorems, FiniteSetTheorems, TLAPS

\* Taking one task out of the queue of the lock leaves a queue of tasks.
LEMMA RemovedFromQueue ==
    ASSUME NEW S, NEW q \in Seq(S), NEW i \in 1..Len(q)
    PROVE  SubSeq(q, 1, i - 1) \o SubSeq(q, i + 1, Len(q)) \in Seq(S)
<1>1. Len(q) \in Nat /\ \A j \in 1..Len(q) : q[j] \in S
  BY ElementOfSeq, LenProperties
<1>2. SubSeq(q, 1, i - 1) \in Seq(S)
  BY <1>1, SubSeqProperties
<1>3. SubSeq(q, i + 1, Len(q)) \in Seq(S)
  BY <1>1, SubSeqProperties
<1> QED
  BY <1>2, <1>3, ConcatProperties

\* The lock is handed to a task, or to nobody.
LEMMA ReleaseType ==
    ASSUME TypeOK, Release
    PROVE  holder' \in Task \cup {NoTask} /\ waiters' \in Seq(Task)
<1>1. CASE waiters = <<>>
  BY <1>1 DEF TypeOK, Release
<1>2. CASE waiters # <<>>
  <2>1. waiters \in Seq(Task)
    BY DEF TypeOK
  <2>2. Head(waiters) \in Task /\ Tail(waiters) \in Seq(Task)
    BY <1>2, <2>1, HeadTailProperties
  <2> QED
    BY <1>2, <2>2 DEF Release
<1> QED
  BY <1>1, <1>2

\* The literals the actions use.
LEMMA Names ==
    /\ "idle" \in Place /\ "wait" \in Place /\ "challenge" \in Place
    /\ "credentials" \in Place /\ "request" \in Place /\ "logout" \in Place
    /\ "none" \in Phase /\ "connect" \in Phase
    /\ "ensure" \in Phase /\ "reauth" \in Phase
    /\ "none" \in Exchange /\ "sent" \in Exchange /\ "challenge" \in Exchange
    /\ "denied" \in Exchange /\ "granted" \in Exchange
    /\ "ok" \in Exchange /\ "expired" \in Exchange
    /\ "none" \in Result /\ "ok" \in Result
    /\ "auth_error" \in Result /\ "error" \in Result
BY DEF Place, Phase, Exchange, Result

\* The parts of the state every segment changes keep their types.
LEMMA SuspendType ==
    ASSUME TypeOK, NEW t \in Task, NEW where \in Place,
           NEW exchange \in Exchange, NEW tok \in Nat,
           Suspend(t, where, exchange, tok)
    PROVE  /\ pc' \in [Task -> Place]
           /\ wire' \in [Task -> Exchange]
           /\ carried' \in [Task -> Nat]
BY DEF TypeOK, Suspend

LEMMA ReturnType ==
    ASSUME TypeOK, NEW t \in Task, NEW result \in Result, Return(t, result)
    PROVE  /\ pc' \in [Task -> Place]
           /\ wire' \in [Task -> Exchange]
           /\ carried' \in [Task -> Nat]
           /\ outcome' \in [Task -> Result]
BY SuspendType, Names DEF TypeOK, Return

LEMMA SendType ==
    ASSUME TypeOK, NEW t \in Task, NEW where \in Place, NEW tok \in Nat,
           Send(t, where, tok)
    PROVE  /\ pc' \in [Task -> Place]
           /\ wire' \in [Task -> Exchange]
           /\ carried' \in [Task -> Nat]
           /\ outcome' \in [Task -> Result]
<1>1. CASE closed
  BY <1>1, ReturnType, Names DEF Send
<1>2. CASE ~closed
  BY <1>2, SuspendType, Names DEF TypeOK, Send
<1> QED
  BY <1>1, <1>2

\* So does the entry into the locked part of ensure_ and reauthenticate.
LEMMA AcquireType ==
    ASSUME TypeOK, NEW t \in Task, AcquireAndAuthenticate(t)
    PROVE  /\ pc' \in [Task -> Place]
           /\ wire' \in [Task -> Exchange]
           /\ carried' \in [Task -> Nat]
           /\ outcome' \in [Task -> Result]
           /\ holder' \in Task \cup {NoTask}
           /\ waiters' \in Seq(Task)
<1>1. CASE holder = NoTask
  BY <1>1, SendType, Names DEF TypeOK, AcquireAndAuthenticate
<1>2. CASE holder # NoTask
  <2>1. Append(waiters, t) \in Seq(Task)
    BY DEF TypeOK
  <2> QED
    BY <1>2, <2>1, SuspendType, Names DEF TypeOK, AcquireAndAuthenticate
<1> QED
  BY <1>1, <1>2

\* A failed handshake: the caller gets the error, the lock is passed on.
LEMMA AuthFailsType ==
    ASSUME TypeOK, NEW t \in Task, NEW result \in Result, AuthFails(t, result)
    PROVE  /\ pc' \in [Task -> Place]
           /\ wire' \in [Task -> Exchange]
           /\ carried' \in [Task -> Nat]
           /\ outcome' \in [Task -> Result]
           /\ holder' \in Task \cup {NoTask}
           /\ waiters' \in Seq(Task)
<1>1. holder' \in Task \cup {NoTask} /\ waiters' \in Seq(Task)
  <2>1. CASE phase[t] = "connect"
    BY <2>1 DEF AuthFails, TypeOK, lockVars
  <2>2. CASE phase[t] # "connect"
    BY <2>2, ReleaseType DEF AuthFails
  <2> QED
    BY <2>1, <2>2
<1> QED
  BY <1>1, ReturnType DEF AuthFails

\* The lock when the handshake under it starts or, on a closed client, fails.
LEMMA AuthenticateOrReleaseType ==
    ASSUME TypeOK, NEW t \in Task, AuthenticateOrRelease(t)
    PROVE  /\ pc' \in [Task -> Place]
           /\ wire' \in [Task -> Exchange]
           /\ carried' \in [Task -> Nat]
           /\ outcome' \in [Task -> Result]
           /\ holder' \in Task \cup {NoTask}
           /\ waiters' \in Seq(Task)
<1>1. holder' \in Task \cup {NoTask} /\ waiters' \in Seq(Task)
  <2>1. CASE closed
    BY <2>1, ReleaseType DEF AuthenticateOrRelease
  <2>2. CASE ~closed
    BY <2>2 DEF AuthenticateOrRelease, TypeOK, lockVars
  <2> QED
    BY <2>1, <2>2
<1> QED
  BY <1>1, SendType, Names DEF AuthenticateOrRelease

\* A device step answers one exchange and leaves the client as it is.
LEMMA AnswerType ==
    ASSUME TypeOK, NEW t \in Task, NEW reply \in Exchange, NEW tok \in Nat,
           Answer(t, reply, tok)
    PROVE  /\ wire' \in [Task -> Exchange]
           /\ carried' \in [Task -> Nat]
           /\ UNCHANGED <<token, httpx, newest, holder, waiters, pc, phase,
                          first, outcome>>
BY DEF TypeOK, Answer, clientVars, lockVars

\* TypeOK is inductive: it holds in every reachable state.
THEOREM Typing == Spec => []TypeOK
<1>1. Init => TypeOK
  <2>1. <<>> \in Seq(Task)
    BY EmptySeq
  <2> QED
    BY <2>1, Names DEF Init, TypeOK
<1>2. TypeOK /\ [Next]_vars => TypeOK'
  <2> SUFFICES ASSUME TypeOK, [Next]_vars
               PROVE  TypeOK'
    OBVIOUS
  <2> USE DEF closed, clientVars, lockVars, deviceVars, bounds
  <2>1. ASSUME NEW t \in Task, Request(t)
        PROVE  TypeOK'
    <3>1. CASE token # 0
      BY <2>1, <3>1, SendType, Names
         DEF TypeOK, Request, Start
    <3>2. CASE token = 0
      <4>1. AcquireAndAuthenticate(t)
        BY <2>1, <3>2 DEF Request
      <4>2. /\ phase' \in [Task -> Phase] /\ first' \in [Task -> Nat]
            /\ applied' \in [Task -> Nat] /\ calls' \in Nat
            /\ UNCHANGED <<token, httpx, newest, live, issued, drops, faults>>
        BY <2>1, Names DEF TypeOK, Request, Start
      <4> QED
        BY <4>1, <4>2, AcquireType DEF TypeOK
    <3> QED
      BY <3>1, <3>2
  <2>2. ASSUME NEW t \in Task, Connect(t)
        PROVE  TypeOK'
    <3>1. Send(t, "challenge", 0)
      BY <2>2 DEF Connect
    <3>2. /\ phase' \in [Task -> Phase] /\ calls' \in Nat
          /\ UNCHANGED <<token, httpx, newest, holder, waiters, first, applied,
                         live, issued, drops, faults>>
      BY <2>2, Names DEF TypeOK, Connect, Start
    <3> QED
      BY <3>1, <3>2, SendType, Names DEF TypeOK
  <2>3. ASSUME NEW t \in Task, Disconnect(t)
        PROVE  TypeOK'
    <3>1. CASE token = 0 \/ closed
      BY <2>3, <3>1, ReturnType, Names, SMTT(30)
         DEF TypeOK, Disconnect, Start
    <3>2. CASE ~(token = 0 \/ closed)
      BY <2>3, <3>2, SendType, Names, SMTT(30)
         DEF TypeOK, Disconnect, Start
    <3> QED
      BY <3>1, <3>2
  <2>4. ASSUME NEW t \in Task, EnsureGranted(t)
        PROVE  TypeOK'
    <3>1. CASE token # 0
      BY <2>4, <3>1, SendType, ReleaseType, Names
         DEF TypeOK, EnsureGranted
    <3>2. CASE token = 0
      BY <2>4, <3>2, AuthenticateOrReleaseType
         DEF TypeOK, EnsureGranted
    <3> QED
      BY <3>1, <3>2
  <2>5. ASSUME NEW t \in Task, ReauthGranted(t)
        PROVE  TypeOK'
    BY <2>5, AuthenticateOrReleaseType
       DEF TypeOK, ReauthGranted
  <2>6. ASSUME NEW t \in Task, ChallengeReceived(t)
        PROVE  TypeOK'
    <3>1. CASE closed
      BY <2>6, <3>1, AuthFailsType, Names
         DEF TypeOK, ChallengeReceived
    <3>2. CASE ~closed
      BY <2>6, <3>2, SendType, Names
         DEF TypeOK, ChallengeReceived
    <3> QED
      BY <3>1, <3>2
  <2>7. ASSUME NEW t \in Task, AuthRefused(t)
        PROVE  TypeOK'
    BY <2>7, AuthFailsType, Names
       DEF TypeOK, AuthRefused
  <2>8. ASSUME NEW t \in Task, TokenReceived(t)
        PROVE  TypeOK'
    <3>1. CASE phase[t] = "connect"
      BY <2>8, <3>1, ReturnType, Names
         DEF TypeOK, TokenReceived
    <3>2. CASE phase[t] # "connect"
      BY <2>8, <3>2, SendType, ReleaseType, Names
         DEF TypeOK, TokenReceived
    <3> QED
      BY <3>1, <3>2
  <2>9. ASSUME NEW t \in Task, ReplyOk(t)
        PROVE  TypeOK'
    BY <2>9, ReturnType, Names
       DEF TypeOK, ReplyOk
  <2>10. ASSUME NEW t \in Task, ReplyExpired(t)
         PROVE  TypeOK'
    BY <2>10, AcquireType, Names
       DEF TypeOK, ReplyExpired
  <2>11. ASSUME NEW t \in Task, RetryExpired(t)
         PROVE  TypeOK'
    BY <2>11, ReturnType, Names
       DEF TypeOK, RetryExpired
  <2>12. ASSUME NEW t \in Task, LoggedOut(t)
         PROVE  TypeOK'
    BY <2>12, ReturnType, Names
       DEF TypeOK, LoggedOut
  <2>13. ASSUME NEW t \in Task, ExchangeLost(t)
         PROVE  TypeOK'
    <3>1. CASE InAuth(t) /\ AuthFails(t, "error") /\ UNCHANGED <<token, httpx>>
      BY <2>13, <3>1, AuthFailsType, Names
         DEF TypeOK, ExchangeLost, Fault
    <3>2. CASE Return(t, "error") /\ UNCHANGED <<token, httpx, lockVars>>
      BY <2>13, <3>2, ReturnType, Names, SMTT(30)
         DEF TypeOK, ExchangeLost, Fault
    <3>3. CASE /\ Return(t, "ok") /\ UNCHANGED lockVars
               /\ token' = 0 /\ httpx' = "closed"
      BY <2>13, <3>3, ReturnType, Names, SMTT(30)
         DEF TypeOK, ExchangeLost, Fault
    <3> QED
      BY <2>13, <3>1, <3>2, <3>3 DEF ExchangeLost
  <2>14. ASSUME NEW t \in Task, CancelWaiting(t)
         PROVE  TypeOK'
    <3>1. holder' \in Task \cup {NoTask} /\ waiters' \in Seq(Task)
      <4>1. CASE holder = t
        BY <2>14, <4>1, ReleaseType DEF CancelWaiting
      <4>2. CASE holder # t
        <5>1. waiters \in Seq(Task) /\ holder \in Task \cup {NoTask}
          BY DEF TypeOK
        <5>2. PICK i \in 1..Len(waiters) :
                 waiters' = SubSeq(waiters, 1, i - 1) \o
                            SubSeq(waiters, i + 1, Len(waiters))
          BY <2>14, <4>2 DEF CancelWaiting
        <5>3. UNCHANGED holder
          BY <2>14, <4>2 DEF CancelWaiting
        <5> QED
          BY <5>1, <5>2, <5>3, RemovedFromQueue
      <4> QED
        BY <4>1, <4>2
    <3>2. Return(t, "error") /\ faults' \in Nat
      BY <2>14 DEF TypeOK, CancelWaiting, Fault
    <3>3. UNCHANGED <<token, httpx, newest, phase, first, live, issued, applied,
                      calls, drops>>
      BY <2>14 DEF CancelWaiting, Fault
    <3> QED
      BY <3>1, <3>2, <3>3, ReturnType, Names DEF TypeOK
  <2>15. ASSUME NEW t \in Task, CancelLogout(t)
         PROVE  TypeOK'
    BY <2>15, ReturnType, Names, SMTT(30)
       DEF TypeOK, CancelLogout, Fault
  <2>16. ASSUME NEW t \in Task, DeviceChallenge(t)
         PROVE  TypeOK'
    BY <2>16, AnswerType, Names
       DEF TypeOK, DeviceChallenge
  <2>17. ASSUME NEW t \in Task, DeviceLogin(t)
         PROVE  TypeOK'
    <3>1. UNCHANGED <<applied, calls, drops, faults>>
      BY <2>17 DEF DeviceLogin
    <3>2. CASE Cardinality(live) < SessionLimit
      <4>1. Answer(t, "granted", issued + 1) /\ issued + 1 \in Nat
        BY <2>17, <3>2 DEF TypeOK, DeviceLogin
      <4>2. issued' \in Nat /\ live' \subseteq Nat
        BY <2>17, <3>2, <4>1 DEF TypeOK, DeviceLogin
      <4> QED
        BY <3>1, <4>1, <4>2, AnswerType, Names DEF TypeOK
    <3>3. CASE ~(Cardinality(live) < SessionLimit)
      BY <2>17, <3>1, <3>3, AnswerType, Names DEF TypeOK, DeviceLogin
    <3> QED
      BY <3>2, <3>3
  <2>18. ASSUME NEW t \in Task, DeviceRefuses(t)
         PROVE  TypeOK'
    <3>1. Answer(t, "denied", 0) /\ faults' \in Nat
      BY <2>18 DEF TypeOK, DeviceRefuses, Fault
    <3>2. UNCHANGED <<live, issued, applied, calls, drops>>
      BY <2>18 DEF DeviceRefuses, Fault
    <3> QED
      BY <3>1, <3>2, AnswerType, Names DEF TypeOK
  <2>19. ASSUME NEW t \in Task, DeviceServe(t)
         PROVE  TypeOK'
    <3>1. UNCHANGED <<live, issued, calls, drops, faults>>
      BY <2>19 DEF DeviceServe
    <3>2. \E reply \in {"ok", "expired"} : Answer(t, reply, carried[t])
      BY <2>19 DEF DeviceServe
    <3>3. applied' \in [Task -> Nat]
      <4>1. applied \in [Task -> Nat]
        BY DEF TypeOK
      <4>2. applied' = applied \/ applied' = [applied EXCEPT ![t] = @ + 1]
        BY <2>19 DEF DeviceServe
      <4> QED
        BY <4>1, <4>2
    <3>4. carried[t] \in Nat
      BY DEF TypeOK
    <3> QED
      BY <3>1, <3>2, <3>3, <3>4, AnswerType, Names DEF TypeOK
  <2>20. ASSUME NEW t \in Task, DeviceLogout(t)
         PROVE  TypeOK'
    BY <2>20, AnswerType, Names
       DEF TypeOK, DeviceLogout
  <2>21. CASE DeviceDrops
    BY <2>21 DEF TypeOK, DeviceDrops
  <2>22. CASE UNCHANGED vars
    BY <2>22 DEF TypeOK, vars
  <2> QED
    BY <2>1, <2>2, <2>3, <2>4, <2>5, <2>6, <2>7, <2>8, <2>9, <2>10, <2>11, <2>12, <2>13, <2>14, <2>15, <2>16, <2>17, <2>18, <2>19, <2>20, <2>21, <2>22
       DEF Next, ClientStep, DeviceStep, Rest
<1> QED
  BY <1>1, <1>2, PTL DEF Spec
----------------------------------------------------------------------------
\* A step of t leaves the exchanges of the other tasks alone.
LEMMA SuspendEffect ==
    ASSUME TypeOK, NEW t \in Task, NEW where, NEW exchange, NEW tok,
           Suspend(t, where, exchange, tok)
    PROVE  /\ pc'[t] = where /\ wire'[t] = exchange /\ carried'[t] = tok
           /\ \A u \in Task \ {t} : /\ pc'[u] = pc[u]
                                    /\ wire'[u] = wire[u]
                                    /\ carried'[u] = carried[u]
BY DEF TypeOK, Suspend

\* What a task that does not go into a handshake leaves behind, if it held the
\* lock or was in no handshake of its own, keeps the exclusion.
LEMMA LeavesLock ==
    ASSUME TypeOK, LockExcludes, NEW t \in Task,
           \A u \in Task \ {t} : pc'[u] = pc[u] /\ phase'[u] = phase[u],
           ~Locked(t)', holder = t \/ holder' = holder
    PROVE  LockExcludes'
BY DEF LockExcludes, Locked, InAuth

\* The locked part is entered by the task that has got the lock.
LEMMA EntersLock ==
    ASSUME TypeOK, LockExcludes, NEW t \in Task,
           \A u \in Task \ {t} : pc'[u] = pc[u] /\ phase'[u] = phase[u],
           holder \in {NoTask, t}, holder' = t
    PROVE  LockExcludes'
BY NoTaskAssumption DEF LockExcludes, Locked, InAuth

\* A step of t keeps the invariant if it keeps t's part of it.
LEMMA StepOf ==
    ASSUME TypeOK, SessionInv, NEW t \in Task,
           \A u \in Task \ {t} :
              /\ pc'[u] = pc[u] /\ wire'[u] = wire[u] /\ carried'[u] = carried[u]
              /\ phase'[u] = phase[u] /\ first'[u] = first[u],
           issued' \in Nat, issued <= issued', token' <= issued',
           LockExcludes', TaskInv(t)'
    PROVE  SessionInv'
<1>1. ASSUME NEW u \in Task \ {t} PROVE TaskInv(u)'
  <2>1. TaskInv(u) /\ first[u] \in Nat /\ carried[u] \in Nat /\ issued \in Nat
    BY DEF SessionInv, TypeOK
  <2> QED
    BY <2>1 DEF TaskInv, CarriesFreshToken, InAuth
<1> QED
  BY <1>1 DEF SessionInv

\* A segment that sends: on a closed client the operation ends instead.
LEMMA SendEffect ==
    ASSUME TypeOK, NEW t \in Task, NEW where, NEW tok, Send(t, where, tok)
    PROVE  /\ \A u \in Task \ {t} : /\ pc'[u] = pc[u]
                                    /\ wire'[u] = wire[u]
                                    /\ carried'[u] = carried[u]
           /\ closed => pc'[t] = "idle" /\ wire'[t] = "none" /\ carried'[t] = 0
           /\ ~closed => pc'[t] = where /\ wire'[t] = "sent" /\ carried'[t] = tok
<1>1. CASE closed
  BY <1>1, SuspendEffect DEF Send, Return
<1>2. CASE ~closed
  BY <1>2, SuspendEffect DEF Send
<1> QED
  BY <1>1, <1>2

LEMMA AnswerEffect ==
    ASSUME TypeOK, NEW t \in Task, NEW reply, NEW tok, Answer(t, reply, tok)
    PROVE  /\ \A u \in Task \ {t} : /\ pc'[u] = pc[u]
                                    /\ wire'[u] = wire[u]
                                    /\ carried'[u] = carried[u]
           /\ wire'[t] = reply /\ carried'[t] = tok
           /\ UNCHANGED <<token, holder, pc, phase, first>>
BY DEF TypeOK, Answer, clientVars, lockVars

\* Entering the locked part, at once or by joining the queue.
LEMMA AcquireEffect ==
    ASSUME TypeOK, LockExcludes, NEW t \in Task, ~Locked(t),
           \A u \in Task \ {t} : phase'[u] = phase[u],
           AcquireAndAuthenticate(t)
    PROVE  /\ \A u \in Task \ {t} : /\ pc'[u] = pc[u]
                                    /\ wire'[u] = wire[u]
                                    /\ carried'[u] = carried[u]
           /\ pc'[t] \in {"idle", "wait", "challenge"}
           /\ wire'[t] \in {"none", "sent"}
           /\ carried'[t] = 0
           /\ LockExcludes'
<1>1. CASE holder = NoTask /\ closed
  <2>1. Send(t, "challenge", 0) /\ holder' = holder
    BY <1>1 DEF AcquireAndAuthenticate
  <2>2. pc'[t] = "idle"
    BY <1>1, <2>1, SendEffect
  <2> QED
    BY <1>1, <2>1, <2>2, SendEffect, LeavesLock DEF Locked, InAuth
<1>2. CASE holder = NoTask /\ ~closed
  <2>1. Send(t, "challenge", 0) /\ holder' = t
    BY <1>2 DEF AcquireAndAuthenticate
  <2> QED
    BY <1>2, <2>1, SendEffect, EntersLock
<1>3. CASE holder # NoTask
  <2>1. Suspend(t, "wait", "none", 0) /\ holder' = holder
    BY <1>3 DEF AcquireAndAuthenticate
  <2>2. pc'[t] = "wait"
    BY <2>1, SuspendEffect
  <2> QED
    BY <2>1, <2>2, SuspendEffect, LeavesLock DEF Locked, InAuth
<1> QED
  BY <1>1, <1>2, <1>3

\* A task that is answered goes on to nothing, or to another exchange, outside
\* the handshakes: its own part of the invariant.
LEMMA QuietTask ==
    ASSUME TypeOK, NEW t \in Task,
           pc'[t] \in {"idle", "wait", "logout"},
           wire'[t] \in {"none", "sent"},
           first'[t] \in Nat, first'[t] <= issued', carried'[t] <= issued'
    PROVE  TaskInv(t)' /\ ~Locked(t)'
BY DEF TaskInv, CarriesFreshToken, InAuth, Locked

\* The numbers the invariant is about.
LEMMA Numbers ==
    ASSUME TypeOK, SessionInv
    PROVE  /\ issued \in Nat /\ token \in Nat /\ 0 <= issued /\ issued <= issued
           /\ token <= issued /\ LockExcludes
           /\ \A t \in Task : /\ first[t] \in Nat /\ first[t] <= issued
                              /\ carried[t] \in Nat /\ carried[t] <= issued
                              /\ CarriesFreshToken(t)
BY DEF TypeOK, SessionInv, TaskInv

\* The part of the invariant about a task that sends.
LEMMA SendingTask ==
    ASSUME TypeOK, NEW t \in Task, NEW tok \in Nat,
           NEW where \in {"challenge", "credentials", "request"},
           Send(t, where, tok),
           issued' \in Nat, tok <= issued', first'[t] \in Nat, first'[t] <= issued',
           phase'[t] # "none",
           where = "request" => tok > (IF phase'[t] = "reauth" THEN first'[t] ELSE 0)
    PROVE  TaskInv(t)'
<1>1. CASE closed
  BY <1>1, SendEffect DEF TaskInv, CarriesFreshToken, InAuth
<1>2. CASE ~closed
  BY <1>2, SendEffect DEF TaskInv, CarriesFreshToken, InAuth
<1> QED
  BY <1>1, <1>2

\* Only connect() is in a handshake without the lock.
LEMMA HandshakeUnderLock ==
    ASSUME TypeOK, SessionInv, NEW t \in Task, InAuth(t), phase[t] # "connect"
    PROVE  holder = t
BY DEF TypeOK, Phase, SessionInv, TaskInv, LockExcludes, Locked

\* The shapes most steps have.  An operation returns, giving up the lock only
\* if it had it ...
LEMMA OperationEnds ==
    ASSUME TypeOK, SessionInv, NEW t \in Task, NEW result, Return(t, result),
           token' \in {0, token}, UNCHANGED <<issued, phase, first>>,
           holder = t \/ holder' = holder
    PROVE  SessionInv'
<1>1. /\ pc'[t] = "idle" /\ wire'[t] = "none" /\ carried'[t] = 0
      /\ \A u \in Task \ {t} : /\ pc'[u] = pc[u] /\ wire'[u] = wire[u]
                               /\ carried'[u] = carried[u]
  BY SuspendEffect DEF Return
<1>2. first[t] <= issued
  BY DEF SessionInv, TaskInv
<1>3. TaskInv(t)' /\ ~Locked(t)'
  BY <1>1, <1>2, QuietTask DEF TypeOK
<1>4. LockExcludes'
  BY <1>1, <1>3, LeavesLock DEF SessionInv
<1> QED
  BY <1>1, <1>3, <1>4, StepOf, Numbers

\* ... a handshake fails ...
LEMMA HandshakeFails ==
    ASSUME TypeOK, SessionInv, NEW t \in Task, InAuth(t), NEW result,
           AuthFails(t, result), UNCHANGED <<token, issued, phase, first>>
    PROVE  SessionInv'
<1>1. CASE phase[t] = "connect"
  <2>1. Return(t, result) /\ holder' = holder
    BY <1>1 DEF AuthFails, lockVars
  <2> QED
    BY <2>1, OperationEnds
<1>2. CASE phase[t] # "connect"
  BY <1>2, HandshakeUnderLock, OperationEnds DEF AuthFails
<1> QED
  BY <1>1, <1>2

\* ... a task with the lock starts one ...
LEMMA HandshakeStarts ==
    ASSUME TypeOK, SessionInv, NEW t \in Task, holder = t,
           phase[t] \in {"ensure", "reauth"}, AuthenticateOrRelease(t),
           token' \in {0, token}, UNCHANGED <<issued, phase, first>>
    PROVE  SessionInv'
<1>1. Send(t, "challenge", 0)
  BY DEF AuthenticateOrRelease
<1>2. LockExcludes'
  <2>1. CASE closed
    BY <1>1, <2>1, SendEffect, LeavesLock DEF SessionInv, Locked, InAuth
  <2>2. CASE ~closed
    BY <1>1, <2>2, SendEffect, EntersLock
       DEF AuthenticateOrRelease, SessionInv, lockVars
  <2> QED
    BY <2>1, <2>2
<1>3. TaskInv(t)'
  BY <1>1, SendingTask, Numbers
<1> QED
  BY <1>1, <1>2, <1>3, SendEffect, StepOf, Numbers

\* ... or the device answers.
LEMMA DeviceAnswers ==
    ASSUME TypeOK, SessionInv, NEW t \in Task, NEW reply, NEW tok,
           Answer(t, reply, tok), issued' \in Nat, issued <= issued',
           TaskInv(t)'
    PROVE  SessionInv'
<1>1. /\ \A u \in Task \ {t} : /\ pc'[u] = pc[u] /\ wire'[u] = wire[u]
                               /\ carried'[u] = carried[u]
      /\ UNCHANGED <<token, holder, pc, phase, first>>
  BY AnswerEffect
<1>2. LockExcludes'
  BY <1>1 DEF SessionInv, LockExcludes, Locked, InAuth
<1>3. token' <= issued'
  BY <1>1 DEF TypeOK, SessionInv
<1> QED
  BY <1>1, <1>2, <1>3, StepOf

\* The invariant of the session layer holds in every reachable state.
THEOREM SessionInvariant == Spec => []SessionInv
<1>1. Init => SessionInv
  BY DEF Init, SessionInv, LockExcludes, Locked, InAuth, TaskInv,
         CarriesFreshToken
<1>2. TypeOK /\ SessionInv /\ [Next]_vars => SessionInv'
  <2> SUFFICES ASSUME TypeOK, SessionInv, [Next]_vars
               PROVE  SessionInv'
    OBVIOUS
  <2> USE DEF clientVars, lockVars, deviceVars, bounds
  <2>1. ASSUME NEW t \in Task, Request(t)
        PROVE  SessionInv'
    <3>1. /\ phase'[t] = "ensure" /\ first'[t] = 0 /\ pc[t] = "idle"
          /\ \A u \in Task \ {t} : phase'[u] = phase[u] /\ first'[u] = first[u]
          /\ UNCHANGED <<token, issued>>
      BY <2>1 DEF TypeOK, Request, Start
    <3>2. CASE token = 0
      <4>1. AcquireAndAuthenticate(t)
        BY <2>1, <3>2 DEF Request
      <4>2. ~Locked(t)
        BY <3>1 DEF Locked, InAuth
      <4>3. /\ pc'[t] \in {"idle", "wait", "challenge"}
            /\ wire'[t] \in {"none", "sent"} /\ carried'[t] = 0
            /\ \A u \in Task \ {t} : /\ pc'[u] = pc[u]
                                     /\ wire'[u] = wire[u]
                                     /\ carried'[u] = carried[u]
            /\ LockExcludes'
        BY <3>1, <4>1, <4>2, AcquireEffect DEF SessionInv
      <4>4. TaskInv(t)'
        BY <3>1, <4>3 DEF TypeOK, TaskInv, CarriesFreshToken, InAuth
      <4> QED
        BY <3>1, <4>3, <4>4, StepOf, Numbers
    <3>3. CASE token # 0
      <4>1. Send(t, "request", token) /\ UNCHANGED holder
        BY <2>1, <3>3 DEF Request
      <4>2. ~Locked(t)'
        BY <4>1, SendEffect DEF Locked, InAuth
      <4>3. LockExcludes'
        BY <3>1, <4>1, <4>2, SendEffect, LeavesLock DEF SessionInv
      <4>4. TaskInv(t)'
        BY <3>1, <3>3, <4>1, SendingTask, Numbers
      <4> QED
        BY <3>1, <4>1, <4>3, <4>4, SendEffect, StepOf, Numbers
    <3> QED
      BY <3>2, <3>3
  <2>2. ASSUME NEW t \in Task, Connect(t)
        PROVE  SessionInv'
    <3>1. /\ phase'[t] = "connect" /\ Send(t, "challenge", 0)
          /\ \A u \in Task \ {t} : phase'[u] = phase[u]
          /\ UNCHANGED <<token, issued, first, holder>>
      BY <2>2 DEF TypeOK, Connect
    <3>2. ~Locked(t)'
      BY <3>1 DEF Locked
    <3>3. LockExcludes'
      BY <3>1, <3>2, SendEffect, LeavesLock DEF SessionInv
    <3>4. TaskInv(t)'
      BY <3>1, SendingTask, Numbers
    <3> QED
      BY <3>1, <3>3, <3>4, SendEffect, StepOf, Numbers
  <2>3. ASSUME NEW t \in Task, Disconnect(t)
        PROVE  SessionInv'
    <3>1. /\ pc'[t] \in {"idle", "logout"} /\ wire'[t] \in {"none", "sent"}
          /\ carried'[t] \in {0, token} /\ token' \in {0, token}
          /\ \A u \in Task \ {t} : /\ pc'[u] = pc[u] /\ wire'[u] = wire[u]
                                   /\ carried'[u] = carried[u]
      <4>1. CASE token = 0 \/ closed
        BY <2>3, <4>1, SuspendEffect DEF Disconnect, Return
      <4>2. CASE ~(token = 0 \/ closed)
        BY <2>3, <4>2, SendEffect DEF Disconnect
      <4> QED
        BY <4>1, <4>2
    <3>2. /\ \A u \in Task \ {t} : phase'[u] = phase[u]
          /\ UNCHANGED <<issued, first, holder>>
      BY <2>3 DEF TypeOK, Disconnect
    <3>3. TaskInv(t)' /\ ~Locked(t)'
      BY <3>1, <3>2, QuietTask DEF TypeOK, SessionInv, TaskInv
    <3>4. LockExcludes'
      BY <3>1, <3>2, <3>3, LeavesLock DEF SessionInv
    <3> QED
      BY <3>1, <3>2, <3>3, <3>4, StepOf, Numbers
  <2>4. ASSUME NEW t \in Task, EnsureGranted(t)
        PROVE  SessionInv'
    <3>1. /\ holder = t /\ phase[t] = "ensure"
          /\ UNCHANGED <<token, issued, phase, first>>
      BY <2>4 DEF EnsureGranted
    <3>2. CASE token # 0
      <4>1. Send(t, "request", token)
        BY <2>4, <3>2 DEF EnsureGranted
      <4>2. ~Locked(t)'
        BY <4>1, SendEffect DEF Locked, InAuth
      <4>3. LockExcludes'
        BY <3>1, <4>1, <4>2, SendEffect, LeavesLock DEF SessionInv
      <4>4. TaskInv(t)'
        BY <3>1, <3>2, <4>1, SendingTask, Numbers
      <4> QED
        BY <3>1, <4>1, <4>3, <4>4, SendEffect, StepOf, Numbers
    <3>3. CASE token = 0
      BY <2>4, <3>1, <3>3, HandshakeStarts DEF EnsureGranted, SessionInv
    <3> QED
      BY <3>2, <3>3
  <2>5. ASSUME NEW t \in Task, ReauthGranted(t)
        PROVE  SessionInv'
    BY <2>5, HandshakeStarts DEF ReauthGranted, SessionInv
  <2>6. ASSUME NEW t \in Task, ChallengeReceived(t)
        PROVE  SessionInv'
    <3>1. /\ InAuth(t) /\ pc[t] = "challenge"
          /\ UNCHANGED <<token, issued, phase, first>>
      BY <2>6 DEF ChallengeReceived, InAuth
    <3>4. phase[t] # "none"
      BY <3>1 DEF SessionInv, TaskInv
    <3>2. CASE closed
      BY <2>6, <3>1, <3>2, HandshakeFails DEF ChallengeReceived, SessionInv
    <3>3. CASE ~closed
      <4>1. Send(t, "credentials", 0) /\ UNCHANGED holder
        BY <2>6, <3>3 DEF ChallengeReceived
      <4>2. LockExcludes'
        BY <3>1, <3>3, <4>1, SendEffect DEF SessionInv, LockExcludes, Locked, InAuth
      <4>3. TaskInv(t)'
        BY <3>1, <3>4, <4>1, SendingTask, Numbers
      <4> QED
        BY <3>1, <4>1, <4>2, <4>3, SendEffect, StepOf, Numbers
    <3> QED
      BY <3>2, <3>3
  <2>7. ASSUME NEW t \in Task, AuthRefused(t)
        PROVE  SessionInv'
    BY <2>7, HandshakeFails DEF AuthRefused, SessionInv
  <2>8. ASSUME NEW t \in Task, TokenReceived(t)
        PROVE  SessionInv'
    <3>1. /\ InAuth(t) /\ wire[t] = "granted" /\ token' = carried[t]
          /\ UNCHANGED <<issued, phase, first>>
      BY <2>8 DEF TokenReceived, InAuth
    <3>2. /\ phase[t] # "none"
          /\ carried[t] > first[t] /\ carried[t] <= issued /\ first[t] <= issued
      BY <3>1 DEF SessionInv, TaskInv
    <3>3. CASE phase[t] = "connect"
      <4>1. /\ pc'[t] = "idle" /\ wire'[t] = "none" /\ carried'[t] = 0
            /\ \A u \in Task \ {t} : /\ pc'[u] = pc[u] /\ wire'[u] = wire[u]
                                     /\ carried'[u] = carried[u]
            /\ UNCHANGED holder
        BY <2>8, <3>3, SuspendEffect DEF TokenReceived, Return
      <4>2. TaskInv(t)' /\ ~Locked(t)'
        BY <3>1, <3>2, <4>1, QuietTask DEF TypeOK
      <4>3. LockExcludes'
        BY <3>1, <4>1, <4>2, LeavesLock DEF SessionInv
      <4> QED
        BY <3>1, <3>2, <4>1, <4>2, <4>3, StepOf, Numbers
    <3>4. CASE phase[t] # "connect"
      <4>1. Send(t, "request", carried[t])
        BY <2>8, <3>4 DEF TokenReceived
      <4>2. holder = t
        BY <3>1, <3>4, HandshakeUnderLock
      <4>3. ~Locked(t)'
        BY <4>1, SendEffect DEF Locked, InAuth
      <4>4. LockExcludes'
        BY <3>1, <4>1, <4>2, <4>3, SendEffect, LeavesLock DEF SessionInv
      <4>5. carried[t] > (IF phase[t] = "reauth" THEN first[t] ELSE 0)
        BY <3>2, Numbers
      <4>6. TaskInv(t)'
        BY <3>1, <3>2, <4>1, <4>5, SendingTask, Numbers
      <4> QED
        BY <3>1, <3>2, <4>1, <4>4, <4>6, SendEffect, StepOf, Numbers
    <3> QED
      BY <3>3, <3>4
  <2>9. ASSUME NEW t \in Task, ReplyOk(t)
        PROVE  SessionInv'
    BY <2>9, OperationEnds DEF ReplyOk, SessionInv, clientVars, lockVars, InAuth
  <2>11. ASSUME NEW t \in Task, RetryExpired(t)
         PROVE  SessionInv'
    BY <2>11, OperationEnds DEF RetryExpired, SessionInv, clientVars, lockVars, InAuth
  <2>10. ASSUME NEW t \in Task, ReplyExpired(t)
         PROVE  SessionInv'
    <3>1. /\ ~Locked(t) /\ phase'[t] = "reauth" /\ first'[t] = carried[t]
          /\ \A u \in Task \ {t} : phase'[u] = phase[u] /\ first'[u] = first[u]
          /\ AcquireAndAuthenticate(t)
          /\ token' \in {0, token} /\ UNCHANGED issued
      BY <2>10 DEF TypeOK, ReplyExpired, Locked, InAuth
    <3>2. /\ pc'[t] \in {"idle", "wait", "challenge"}
          /\ wire'[t] \in {"none", "sent"} /\ carried'[t] = 0
          /\ \A u \in Task \ {t} : /\ pc'[u] = pc[u] /\ wire'[u] = wire[u]
                                   /\ carried'[u] = carried[u]
          /\ LockExcludes'
      BY <3>1, AcquireEffect DEF SessionInv
    <3>3. carried[t] <= issued
      BY DEF SessionInv, TaskInv
    <3>4. TaskInv(t)'
      BY <3>1, <3>2, <3>3 DEF TypeOK, TaskInv, CarriesFreshToken, InAuth
    <3> QED
      BY <3>1, <3>2, <3>4, StepOf, Numbers
  <2>12. ASSUME NEW t \in Task, LoggedOut(t)
         PROVE  SessionInv'
    BY <2>12, OperationEnds DEF LoggedOut, SessionInv, lockVars, InAuth
  <2>13. ASSUME NEW t \in Task, ExchangeLost(t)
         PROVE  SessionInv'
    <3>1. UNCHANGED <<issued, phase, first>>
      BY <2>13 DEF ExchangeLost
    <3>2. CASE InAuth(t) /\ AuthFails(t, "error") /\ UNCHANGED <<token, httpx>>
      BY <3>1, <3>2, HandshakeFails
    <3>3. CASE pc[t] = "request" /\ Return(t, "error")
               /\ UNCHANGED <<token, httpx, lockVars>>
      BY <3>1, <3>3, OperationEnds DEF InAuth
    <3>4. CASE /\ pc[t] = "logout" /\ Return(t, "ok")
               /\ token' = 0 /\ httpx' = "closed" /\ UNCHANGED lockVars
      BY <3>1, <3>4, OperationEnds DEF InAuth
    <3> QED
      BY <2>13, <3>2, <3>3, <3>4 DEF ExchangeLost
  <2>14. ASSUME NEW t \in Task, CancelWaiting(t)
         PROVE  SessionInv'
    BY <2>14, OperationEnds DEF CancelWaiting, clientVars, InAuth
  <2>15. ASSUME NEW t \in Task, CancelLogout(t)
         PROVE  SessionInv'
    BY <2>15, OperationEnds DEF CancelLogout, InAuth
  <2>16. ASSUME NEW t \in Task, DeviceChallenge(t)
         PROVE  SessionInv'
    <3>1. Answer(t, "challenge", 0) /\ issued' = issued
      BY <2>16 DEF DeviceChallenge
    <3>2. TaskInv(t)'
      BY <3>1, AnswerEffect, <2>16
         DEF TypeOK, SessionInv, TaskInv, CarriesFreshToken, InAuth, DeviceChallenge
    <3> QED
      BY <3>1, <3>2, DeviceAnswers DEF TypeOK
  <2>17. ASSUME NEW t \in Task, DeviceLogin(t)
         PROVE  SessionInv'
    <3>1. CASE Cardinality(live) < SessionLimit
      <4>1. Answer(t, "granted", issued + 1) /\ issued' = issued + 1
        BY <2>17, <3>1 DEF DeviceLogin
      <4>2. TaskInv(t)'
        BY <4>1, AnswerEffect, <2>17
           DEF TypeOK, SessionInv, TaskInv, CarriesFreshToken, InAuth, DeviceLogin
      <4> QED
        BY <4>1, <4>2, DeviceAnswers DEF TypeOK
    <3>2. CASE ~(Cardinality(live) < SessionLimit)
      <4>1. Answer(t, "denied", 0) /\ issued' = issued
        BY <2>17, <3>2 DEF DeviceLogin
      <4>2. TaskInv(t)'
        BY <4>1, AnswerEffect, <2>17
           DEF TypeOK, SessionInv, TaskInv, CarriesFreshToken, InAuth, DeviceLogin
      <4> QED
        BY <4>1, <4>2, DeviceAnswers DEF TypeOK
    <3> QED
      BY <3>1, <3>2
  <2>18. ASSUME NEW t \in Task, DeviceRefuses(t)
         PROVE  SessionInv'
    <3>1. Answer(t, "denied", 0) /\ issued' = issued
      BY <2>18 DEF DeviceRefuses
    <3>2. TaskInv(t)'
      BY <3>1, AnswerEffect, <2>18
         DEF TypeOK, SessionInv, TaskInv, CarriesFreshToken, InAuth, DeviceRefuses
    <3> QED
      BY <3>1, <3>2, DeviceAnswers DEF TypeOK
  <2>19. ASSUME NEW t \in Task, DeviceServe(t)
         PROVE  SessionInv'
    <3>1. PICK reply \in {"ok", "expired"} : Answer(t, reply, carried[t])
      BY <2>19 DEF DeviceServe
    <3>2. issued' = issued
      BY <2>19 DEF DeviceServe
    <3>3. TaskInv(t)'
      BY <3>1, <3>2, AnswerEffect
         DEF TypeOK, SessionInv, TaskInv, CarriesFreshToken, InAuth
    <3> QED
      BY <3>1, <3>2, <3>3, DeviceAnswers DEF TypeOK
  <2>20. ASSUME NEW t \in Task, DeviceLogout(t)
         PROVE  SessionInv'
    <3>1. Answer(t, "ok", carried[t]) /\ issued' = issued
      BY <2>20 DEF DeviceLogout
    <3>2. TaskInv(t)'
      BY <3>1, AnswerEffect
         DEF TypeOK, SessionInv, TaskInv, CarriesFreshToken, InAuth
    <3> QED
      BY <3>1, <3>2, DeviceAnswers DEF TypeOK
  <2>21. CASE DeviceDrops
    BY <2>21 DEF DeviceDrops, SessionInv, LockExcludes, TaskInv,
                 CarriesFreshToken, Locked, InAuth, clientVars, lockVars
  <2>22. CASE UNCHANGED vars
    BY <2>22 DEF vars, SessionInv, LockExcludes, TaskInv, CarriesFreshToken,
                 Locked, InAuth, clientVars, lockVars, deviceVars
  <2> QED
    BY <2>1, <2>2, <2>3, <2>4, <2>5, <2>6, <2>7, <2>8, <2>9, <2>10, <2>11, <2>12, <2>13, <2>14, <2>15, <2>16, <2>17, <2>18, <2>19, <2>20, <2>21, <2>22
       DEF Next, ClientStep, DeviceStep, Rest
<1> QED
  BY <1>1, <1>2, Typing, PTL DEF Spec

\* At most one task at a time is in a handshake of ensure_authenticated or
\* reauthenticate, and it is the one that holds the lock.
THEOREM LockExclusion == Spec => []LockExcludes
<1>1. SessionInv => LockExcludes
  BY DEF SessionInv
<1> QED
  BY <1>1, SessionInvariant, PTL

\* Every request on its way carries a session, and a retry carries a younger
\* one than the session that was refused.
THEOREM FreshTokens == Spec => []RequestsCarryFreshToken
<1>1. SessionInv => RequestsCarryFreshToken
  BY DEF SessionInv, TaskInv, RequestsCarryFreshToken
<1> QED
  BY <1>1, SessionInvariant, PTL
----------------------------------------------------------------------------
(* How often a request is carried out *)

\* The steps of one task and of the exchange it is in.
TaskStep(t) ==
    \/ Request(t) \/ Connect(t) \/ Disconnect(t) \/ ClientStep(t)
    \/ DeviceStep(t) \/ DeviceRefuses(t)
    \/ ExchangeLost(t) \/ CancelWaiting(t) \/ CancelLogout(t)

Elsewhere(t) ==
    \A u \in Task \ {t} :
       /\ pc'[u] = pc[u] /\ wire'[u] = wire[u] /\ carried'[u] = carried[u]
       /\ phase'[u] = phase[u] /\ first'[u] = first[u]
       /\ outcome'[u] = outcome[u] /\ applied'[u] = applied[u]

\* No step of a task touches another one's coroutine or exchange.
LEMMA StepIsLocal ==
    ASSUME TypeOK, NEW t \in Task, TaskStep(t)
    PROVE  Elsewhere(t)
<1> USE DEF Elsewhere, TypeOK, Suspend, Return, Send, AcquireAndAuthenticate,
            AuthenticateOrRelease, AuthFails, Start, Fault, Answer,
            clientVars, lockVars, deviceVars, bounds
<1>1. CASE Request(t)
  BY <1>1 DEF Request
<1>2. CASE Connect(t)
  BY <1>2 DEF Connect
<1>3. CASE Disconnect(t)
  BY <1>3 DEF Disconnect
<1>4. CASE ClientStep(t)
  <2>1. CASE EnsureGranted(t) \/ ReauthGranted(t)
    BY <2>1 DEF EnsureGranted, ReauthGranted
  <2>2. CASE ChallengeReceived(t) \/ AuthRefused(t) \/ TokenReceived(t)
    BY <2>2 DEF ChallengeReceived, AuthRefused, TokenReceived
  <2>3. CASE ReplyOk(t) \/ ReplyExpired(t) \/ RetryExpired(t) \/ LoggedOut(t)
    BY <2>3, SMTT(30) DEF ReplyOk, ReplyExpired, RetryExpired, LoggedOut
  <2> QED
    BY <1>4, <2>1, <2>2, <2>3 DEF ClientStep
<1>5. CASE DeviceStep(t) \/ DeviceRefuses(t)
  BY <1>5 DEF DeviceStep, DeviceRefuses, DeviceChallenge, DeviceLogin,
              DeviceServe, DeviceLogout
<1>6. CASE ExchangeLost(t) \/ CancelWaiting(t) \/ CancelLogout(t)
  BY <1>6 DEF ExchangeLost, CancelWaiting, CancelLogout
<1> QED
  BY <1>1, <1>2, <1>3, <1>4, <1>5, <1>6 DEF TaskStep

\* How often the device has carried out the request, by where its coroutine is:
\* never before it is sent with a session, once after the reply.
OnceOf(t) ==
    /\ pc[t] = "logout" => phase[t] = "none"
    /\ pc[t] \in {"wait", "challenge", "credentials"} /\ phase[t] # "connect"
          => applied[t] = 0
    /\ pc[t] = "request" => /\ phase[t] \in {"ensure", "reauth"}
                            /\ applied[t] = (IF wire[t] = "ok" THEN 1 ELSE 0)
    /\ applied[t] <= 1
    /\ outcome[t] = "ok" /\ phase[t] \in {"ensure", "reauth"} /\ pc[t] = "idle"
          => applied[t] = 1

OnceInv == \A t \in Task : OnceOf(t)

\* A request that comes back expired has not been carried out.
THEOREM OnceInvariant == Spec => []OnceInv
<1>1. Init => OnceInv
  BY DEF Init, OnceInv, OnceOf
<1>2. TypeOK /\ SessionInv /\ OnceInv /\ [Next]_vars => OnceInv'
  <2> SUFFICES ASSUME TypeOK, SessionInv, OnceInv, [Next]_vars
               PROVE  OnceInv'
    OBVIOUS
  <2>1. ASSUME NEW t \in Task, TaskStep(t) PROVE OnceInv'
    <3>1. Elsewhere(t)
      BY <2>1, StepIsLocal
    <3>2. ASSUME NEW u \in Task \ {t} PROVE OnceOf(u)'
      BY <3>1 DEF OnceInv, OnceOf, Elsewhere
    <3>3. OnceOf(t)'
      <4>1. OnceOf(t)
        BY DEF OnceInv
      <4> USE <4>1 DEF OnceOf, TypeOK, Suspend, Return, Send,
                AcquireAndAuthenticate, AuthenticateOrRelease, AuthFails, Start,
                Fault, Answer, InAuth, clientVars, lockVars, deviceVars, bounds
      <4>2. CASE Request(t)
        BY <4>2 DEF Request
      <4>3. CASE Connect(t)
        BY <4>3 DEF Connect
      <4>4. CASE Disconnect(t)
        BY <4>4 DEF Disconnect
      <4>5. CASE EnsureGranted(t)
        BY <4>5 DEF EnsureGranted
      <4>6. CASE ReauthGranted(t)
        BY <4>6 DEF ReauthGranted
      <4>7. CASE ChallengeReceived(t)
        BY <4>7 DEF ChallengeReceived
      <4>8. CASE AuthRefused(t)
        BY <4>8 DEF AuthRefused
      <4>9. CASE TokenReceived(t)
        <5>1. phase[t] # "none"
          BY <4>9 DEF TokenReceived, SessionInv, TaskInv
        <5> QED
          BY <4>9, <5>1 DEF TokenReceived, Phase
      <4>10. CASE ReplyOk(t)
        BY <4>10 DEF ReplyOk
      <4>11. CASE ReplyExpired(t)
        BY <4>11 DEF ReplyExpired
      <4>12. CASE RetryExpired(t)
        BY <4>12 DEF RetryExpired
      <4>13. CASE LoggedOut(t)
        BY <4>13 DEF LoggedOut
      <4>14. CASE DeviceChallenge(t) \/ DeviceLogin(t) \/ DeviceRefuses(t)
        BY <4>14 DEF DeviceChallenge, DeviceLogin, DeviceRefuses
      <4>15. CASE DeviceServe(t)
        BY <4>15 DEF DeviceServe
      <4>16. CASE DeviceLogout(t)
        BY <4>16 DEF DeviceLogout
      <4>17. CASE ExchangeLost(t)
        BY <4>17 DEF ExchangeLost
      <4>18. CASE CancelWaiting(t)
        BY <4>18 DEF CancelWaiting
      <4>19. CASE CancelLogout(t)
        BY <4>19 DEF CancelLogout
      <4> QED
        BY <2>1, <4>2, <4>3, <4>4, <4>5, <4>6, <4>7, <4>8, <4>9, <4>10, <4>11,
           <4>12, <4>13, <4>14, <4>15, <4>16, <4>17, <4>18, <4>19
           DEF TaskStep, ClientStep, DeviceStep
    <3> QED
      BY <3>2, <3>3 DEF OnceInv
  <2>2. CASE DeviceDrops
    BY <2>2 DEF DeviceDrops, OnceInv, OnceOf, clientVars, lockVars
  <2>3. CASE UNCHANGED vars
    BY <2>3 DEF vars, OnceInv, OnceOf, clientVars, lockVars, deviceVars, bounds
  <2> QED
    BY <2>1, <2>2, <2>3 DEF Next, Rest, TaskStep
<1> QED
  BY <1>1, <1>2, Typing, SessionInvariant, PTL DEF Spec

\* A retried request is carried out once, and "ok" is the answer of a request
\* that was carried out.
THEOREM CarriedOutOnce == Spec => []ExactlyOnce
<1>1. OnceInv => ExactlyOnce
  BY DEF OnceInv, OnceOf, ExactlyOnce
<1> QED
  BY <1>1, OnceInvariant, PTL
----------------------------------------------------------------------------
(* connect() awaited first *)

\* When connect() is awaited before the next call, a handshake only runs while
\* the client has no session, so nobody can overwrite a younger one.
ScopedOf(t) ==
    /\ calls = 0 => pc[t] = "idle"
    /\ InAuth(t) => token = 0
    /\ InAuth(t) /\ phase[t] = "connect" => \A u \in Task \ {t} : pc[u] = "idle"
    /\ wire[t] = "granted" => carried[t] > newest

ScopedInv ==
    "connect" \in Scoped =>
       /\ token \in {0, newest} /\ newest <= issued
       /\ calls = 0 => token = 0
       /\ \A t \in Task : ScopedOf(t)

\* With connect() awaited first, no two handshakes overlap.
LEMMA OneHandshake ==
    ASSUME TypeOK, SessionInv, ScopedInv, "connect" \in Scoped,
           NEW t \in Task, NEW u \in Task, InAuth(t), InAuth(u)
    PROVE  t = u
<1>1. CASE phase[t] = "connect" \/ phase[u] = "connect"
  BY <1>1 DEF ScopedInv, ScopedOf, InAuth
<1>2. CASE phase[t] # "connect" /\ phase[u] # "connect"
  BY <1>2, HandshakeUnderLock
<1> QED
  BY <1>1, <1>2

\* With connect() awaited first, this holds in every reachable state.
THEOREM ScopedInvariant == Spec => []ScopedInv
<1>1. Init => ScopedInv
  BY DEF Init, ScopedInv, ScopedOf, InAuth
<1>2. TypeOK /\ SessionInv /\ ScopedInv /\ [Next]_vars => ScopedInv'
  <2> SUFFICES ASSUME TypeOK, SessionInv, ScopedInv, [Next]_vars,
                      "connect" \in Scoped
               PROVE  ScopedInv'
    BY DEF ScopedInv
  <2>a. /\ token \in {0, newest} /\ newest <= issued
        /\ calls = 0 => token = 0
        /\ \A u \in Task : ScopedOf(u)
    BY DEF ScopedInv
  <2>1. ASSUME NEW t \in Task, TaskStep(t) PROVE ScopedInv'
    <3>1. Elsewhere(t)
      BY <2>1, StepIsLocal
    <3> SUFFICES /\ (token \in {0, newest} /\ newest <= issued)'
                 /\ (calls = 0 => token = 0)'
                 /\ \A u \in Task : ScopedOf(u)'
      BY DEF ScopedInv
    <3>2. \A u \in Task \ {t} : InAuth(t) => ~InAuth(u)
      BY <2>1, OneHandshake
    <3>3. \A u \in Task : /\ TaskInv(u)
                          /\ Locked(u) => holder = u
      BY DEF SessionInv, LockExcludes
    <3> USE <2>a, <3>1, <3>2, <3>3 DEF Elsewhere, ScopedOf, TypeOK, Suspend, Return, Send,
              AcquireAndAuthenticate, AuthenticateOrRelease, AuthFails, Start,
              Fault, Answer, InAuth, clientVars, lockVars, deviceVars, bounds
    <3>10. CASE Request(t)
        BY <3>10 DEF Request, InScope, Connecting, Locked, TaskInv, Phase
    <3>11. CASE Connect(t)
        BY <3>11 DEF Connect, InScope
    <3>12. CASE Disconnect(t)
        BY <3>12 DEF Disconnect, InScope, Connecting
    <3>13. CASE EnsureGranted(t)
        BY <3>13 DEF EnsureGranted
    <3>14. CASE ReauthGranted(t)
        BY <3>14 DEF ReauthGranted
    <3>15. CASE ChallengeReceived(t)
        BY <3>15 DEF ChallengeReceived
    <3>16. CASE AuthRefused(t)
        BY <3>16 DEF AuthRefused
    <3>17. CASE TokenReceived(t)
        <4>1. /\ InAuth(t) /\ wire[t] = "granted" /\ carried[t] > newest
              /\ carried[t] <= issued
              /\ token' = carried[t] /\ newest' = carried[t]
              /\ UNCHANGED <<issued, calls>>
          BY <3>17 DEF TokenReceived, TaskInv
        <4>2. \A u \in Task \ {t} : ~InAuth(u) /\ wire[u] # "granted"
          BY <4>1 DEF TaskInv
        <4>3. pc'[t] \in {"idle", "request"} /\ wire'[t] # "granted"
          BY <3>17 DEF TokenReceived
        <4>4. calls # 0
          BY <4>1
        <4>5. ASSUME NEW u \in Task \ {t} PROVE ScopedOf(u)'
          BY <4>1, <4>2, <4>4
        <4>6. ScopedOf(t)'
          BY <4>3, <4>4, <4>1
        <4>7. (token \in {0, newest} /\ newest <= issued)' /\ calls' # 0
          BY <4>1, <4>4
        <4> QED
          BY <4>5, <4>6, <4>7
    <3>18. CASE ReplyOk(t)
        BY <3>18 DEF ReplyOk
    <3>19. CASE ReplyExpired(t)
        BY <3>19 DEF ReplyExpired
    <3>20. CASE RetryExpired(t)
        BY <3>20 DEF RetryExpired
    <3>21. CASE LoggedOut(t)
        BY <3>21 DEF LoggedOut
    <3>22. CASE DeviceChallenge(t)
        BY <3>22 DEF DeviceChallenge
    <3>28. CASE DeviceLogin(t)
        BY <3>28 DEF DeviceLogin
    <3>29. CASE DeviceRefuses(t)
        BY <3>29 DEF DeviceRefuses
    <3>23. CASE DeviceServe(t)
        BY <3>23 DEF DeviceServe
    <3>24. CASE DeviceLogout(t)
        BY <3>24 DEF DeviceLogout
    <3>25. CASE ExchangeLost(t)
        BY <3>25, ZenonT(40) DEF ExchangeLost
    <3>26. CASE CancelWaiting(t)
        BY <3>26 DEF CancelWaiting
    <3>27. CASE CancelLogout(t)
        BY <3>27 DEF CancelLogout
      <3> QED
        BY <2>1, <3>10, <3>11, <3>12, <3>13, <3>14, <3>15, <3>16, <3>17, <3>18, <3>19,
           <3>20, <3>21, <3>22, <3>23, <3>24, <3>25, <3>26, <3>27, <3>28, <3>29
           DEF TaskStep, ClientStep, DeviceStep
  <2>2. CASE DeviceDrops
    BY <2>2 DEF DeviceDrops, ScopedInv, ScopedOf, InAuth, clientVars, lockVars
  <2>3. CASE UNCHANGED vars
    BY <2>3 DEF vars, ScopedInv, ScopedOf, InAuth, clientVars, lockVars, deviceVars, bounds
  <2> QED
    BY <2>1, <2>2, <2>3 DEF Next, Rest, TaskStep
<1> QED
  BY <1>1, <1>2, Typing, SessionInvariant, PTL DEF Spec

\* Awaited first, connect() never lets the client fall back.
THEOREM TokensOnlyGrowYounger == Spec => []NeverFallsBack
<1>1. ScopedInv => NeverFallsBack
  BY DEF ScopedInv, NeverFallsBack
<1> QED
  BY <1>1, ScopedInvariant, PTL
----------------------------------------------------------------------------
(* What the device has closed *)

\* A session that was refused is closed, and closed sessions stay closed.
ClosedOf(t) ==
    /\ wire[t] = "expired" => carried[t] \notin live
    /\ phase[t] = "reauth" /\ pc[t] # "idle" => first[t] \in (1..issued) \ live

DeviceInv ==
    /\ live \subseteq 1..issued
    /\ \A t \in Task : ClosedOf(t)

\* What the client takes for an expired session is one.
THEOREM DeviceInvariant == Spec => []DeviceInv
<1>1. Init => DeviceInv
  BY DEF Init, DeviceInv, ClosedOf
<1>2. TypeOK /\ SessionInv /\ OnceInv /\ DeviceInv /\ [Next]_vars => DeviceInv'
  <2> SUFFICES ASSUME TypeOK, SessionInv, OnceInv, DeviceInv, [Next]_vars
               PROVE  DeviceInv'
    OBVIOUS
  <2>a. /\ live \subseteq 1..issued
        /\ \A u \in Task : ClosedOf(u)
    BY DEF DeviceInv
  <2>b. \A u \in Task : TaskInv(u) /\ OnceOf(u)
    BY DEF SessionInv, OnceInv
  <2>1. ASSUME NEW t \in Task, TaskStep(t) PROVE DeviceInv'
    <3>1. Elsewhere(t)
      BY <2>1, StepIsLocal
    <3>2. /\ live' \ live \subseteq {issued + 1} /\ issued' \in {issued, issued + 1}
          /\ live' \subseteq live \/ issued' = issued + 1
      BY <2>1 DEF TaskStep, ClientStep, DeviceStep, Request, Connect, Disconnect,
            EnsureGranted, ReauthGranted, ChallengeReceived, AuthRefused,
            TokenReceived, ReplyOk, ReplyExpired, RetryExpired, LoggedOut,
            ExchangeLost, CancelWaiting, CancelLogout, DeviceRefuses,
            DeviceChallenge, DeviceLogin, DeviceServe, DeviceLogout, deviceVars
    <3>3. live' \subseteq 1..issued'
      <4>1. issued \in Nat /\ 1..issued \subseteq 1..issued'
            /\ (issued' = issued + 1 => issued + 1 \in 1..issued')
        BY <3>2 DEF TypeOK
      <4>2. \A s \in live' : s \in live \/ (s = issued + 1 /\ issued' = issued + 1)
        BY <3>2
      <4> QED
        BY <2>a, <4>1, <4>2
    <3>4. ASSUME NEW u \in Task \ {t} PROVE ClosedOf(u)'
      <4>1. /\ ClosedOf(u) /\ carried[u] \in Nat /\ carried[u] <= issued
            /\ issued \in Nat
        BY <2>a, <2>b DEF TaskInv, TypeOK
      <4>2. \A s \in 0..issued : s \notin live => s \notin live'
        BY <3>2, <4>1
      <4>3. carried[u] \in 0..issued /\ 1..issued \subseteq 1..issued'
        BY <3>2, <4>1
      <4>4. /\ wire'[u] = wire[u] /\ carried'[u] = carried[u] /\ pc'[u] = pc[u]
            /\ phase'[u] = phase[u] /\ first'[u] = first[u]
        BY <3>1 DEF Elsewhere
      <4> QED
        BY <4>1, <4>2, <4>3, <4>4 DEF ClosedOf
    <3>5. ClosedOf(t)'
      <4> USE <2>a, <2>b DEF ClosedOf, TypeOK, Suspend, Return, Send,
            AcquireAndAuthenticate, AuthenticateOrRelease, AuthFails, Start,
            Fault, Answer, InAuth, clientVars, lockVars, deviceVars, bounds
      <4>1. CASE Request(t) \/ Connect(t) \/ Disconnect(t)
        BY <4>1 DEF Request, Connect, Disconnect
      <4>2. CASE EnsureGranted(t) \/ ReauthGranted(t) \/ ChallengeReceived(t)
        BY <4>2 DEF EnsureGranted, ReauthGranted, ChallengeReceived
      <4>3. CASE AuthRefused(t) \/ TokenReceived(t)
        BY <4>3 DEF AuthRefused, TokenReceived
      <4>4. CASE ReplyExpired(t)
        <5>1. carried[t] \in (1..issued) \ live
          <6>1. carried[t] > 0 /\ carried[t] <= issued
            BY <4>4 DEF ReplyExpired, TaskInv, CarriesFreshToken
          <6>2. carried[t] \notin live /\ carried[t] \in Nat /\ issued \in Nat
            BY <4>4 DEF ReplyExpired
          <6> QED
            BY <6>1, <6>2
        <5>2. wire'[t] # "expired" /\ first'[t] = carried[t]
          BY <4>4 DEF ReplyExpired
        <5> QED
          BY <4>4, <5>1, <5>2 DEF ReplyExpired
      <4>5. CASE ReplyOk(t) \/ RetryExpired(t) \/ LoggedOut(t)
        BY <4>5 DEF ReplyOk, RetryExpired, LoggedOut
      <4>6. CASE DeviceChallenge(t) \/ DeviceLogin(t) \/ DeviceRefuses(t)
        BY <4>6 DEF DeviceChallenge, DeviceLogin, DeviceRefuses
      <4>7. CASE DeviceServe(t)
        BY <4>7 DEF DeviceServe
      <4>8. CASE DeviceLogout(t)
        BY <4>8 DEF DeviceLogout, OnceOf
      <4>9. CASE ExchangeLost(t) \/ CancelWaiting(t) \/ CancelLogout(t)
        BY <4>9 DEF ExchangeLost, CancelWaiting, CancelLogout
      <4> QED
        BY <2>1, <4>1, <4>2, <4>3, <4>4, <4>5, <4>6, <4>7, <4>8, <4>9
           DEF TaskStep, ClientStep, DeviceStep
    <3> QED
      BY <3>3, <3>4, <3>5 DEF DeviceInv
  <2>2. CASE DeviceDrops
    BY <2>2, <2>a DEF DeviceDrops, DeviceInv, ClosedOf, clientVars, lockVars
  <2>3. CASE UNCHANGED vars
    BY <2>3 DEF vars, DeviceInv, ClosedOf, clientVars, lockVars, deviceVars, bounds
  <2> QED
    BY <2>1, <2>2, <2>3 DEF Next, Rest, TaskStep
<1> QED
  BY <1>1, <1>2, Typing, SessionInvariant, OnceInvariant, PTL DEF Spec
----------------------------------------------------------------------------
(* How many sessions the client opens *)

\* A task owes a login for a closed session it may still have to replace: the one
\* it has sent its first attempt with, the one it waits to reauthenticate after,
\* or the one every task would pick up now.
Current(s) == token = s \/ \E u \in Task : wire[u] = "granted" /\ carried[u] = s
Carries(t, s) == pc[t] = "request" /\ phase[t] = "ensure" /\ carried[t] = s
WaitsAfter(t, s) == pc[t] = "wait" /\ phase[t] = "reauth" /\ first[t] = s

Owes(t, s) == s \notin live /\ (Current(s) \/ Carries(t, s) \/ WaitsAfter(t, s))
Owed == {c \in Task \X (1..issued) : Owes(c[1], c[2])}

\* The client has no session and is about to open one: the login this takes has
\* been paid for by the start or by whoever gave the last session up.  On a
\* closed client only a handshake that is under way can still end in one.
Missing ==
    /\ token = 0 /\ \A u \in Task : wire[u] # "granted"
    /\ closed => \E u \in Task : InAuth(u)

\* Every session is the first one, or was owed for one that the device closed
\* (each closing costs at most one login per task), or was lost in a fault.
BoundInv ==
    "connect" \in Scoped =>
       issued + (IF Missing THEN 1 ELSE 0) + Cardinality(Owed)
          <= 1 + Cardinality(Task) * closings + faults

\* The numbers from 1 to n are n.
LEMMA IntervalSize ==
    ASSUME NEW n \in Nat
    PROVE  IsFiniteSet(1..n) /\ Cardinality(1..n) = n
<1>1. 1 \in Int /\ n \in Int
  OBVIOUS
<1>2. IsFiniteSet(1..n) /\ Cardinality(1..n) = IF 1 > n THEN 0 ELSE n - 1 + 1
  BY <1>1, FS_Interval, Zenon
<1> QED
  BY <1>2

\* Pairs of tasks and numbers are finitely many.
LEMMA PairsFinite ==
    ASSUME NEW n \in Nat, NEW S \in SUBSET (Task \X (1..n))
    PROVE  IsFiniteSet(S) /\ Cardinality(S) \in Nat
<1>1. IsFiniteSet(1..n)
  BY IntervalSize
<1>2. IsFiniteSet(Task \X (1..n))
  BY <1>1, FiniteTasks, FS_Product, Zenon
<1> QED
  BY <1>2, FS_Subset, FS_CardinalityType

\* The numbers in the bound are natural numbers.
LEMMA Counts ==
    ASSUME TypeOK, DeviceInv
    PROVE  /\ Cardinality(Task) \in Nat /\ issued \in Nat /\ faults \in Nat
           /\ IsFiniteSet(live) /\ Cardinality(live) \in Nat
           /\ Cardinality(live) <= issued /\ closings \in Nat
           /\ IsFiniteSet(Owed) /\ Cardinality(Owed) \in Nat
<1>1. Cardinality(Task) \in Nat
  BY FiniteTasks, FS_CardinalityType
<1>2. issued \in Nat /\ faults \in Nat /\ live \subseteq 1..issued
  BY DEF TypeOK, DeviceInv
<1>3. IsFiniteSet(1..issued) /\ Cardinality(1..issued) = issued
  BY <1>2, IntervalSize
<1>4. IsFiniteSet(live) /\ Cardinality(live) \in Nat /\ Cardinality(live) <= issued
  BY <1>2, <1>3, FS_Subset, FS_CardinalityType
<1>5. IsFiniteSet(Owed) /\ Cardinality(Owed) \in Nat
  BY <1>2, PairsFinite DEF Owed
<1> QED
  BY <1>1, <1>2, <1>4, <1>5 DEF closings

\* A step that opens and closes no session keeps the bound if nobody owes a new
\* login, and a login that is missed was owed or lost.
LEMMA NobodyOwesMore ==
    ASSUME TypeOK, DeviceInv, BoundInv, issued' = issued, live' = live,
           faults' \in {faults, faults + 1}, Owed' \subseteq Owed,
           Missing' => Missing \/ Owed' # Owed \/ faults' = faults + 1
    PROVE  BoundInv'
<1> SUFFICES ASSUME "connect" \in Scoped PROVE BoundInv'
  BY DEF BoundInv
<1> DEFINE n == Cardinality(Task)
           b == n * closings
<1>1. /\ issued \in Nat /\ faults \in Nat /\ closings \in Nat /\ n \in Nat
      /\ IsFiniteSet(Owed) /\ Cardinality(Owed) \in Nat
  BY Counts
<1>2. b \in Nat /\ closings' = closings
  BY <1>1 DEF closings
<1>3. /\ IsFiniteSet(Owed') /\ Cardinality(Owed') \in Nat
      /\ Cardinality(Owed') <= Cardinality(Owed)
      /\ Owed' # Owed => Cardinality(Owed') # Cardinality(Owed)
  BY <1>1, FS_Subset, FS_CardinalityType
<1>4. issued + (IF Missing THEN 1 ELSE 0) + Cardinality(Owed) <= 1 + b + faults
  BY DEF BoundInv
<1>5. issued + (IF Missing' THEN 1 ELSE 0) + Cardinality(Owed') <= 1 + b + faults'
  <2> HIDE DEF n, b
  <2> QED
    BY <1>1, <1>2, <1>3, <1>4
<1> QED
  BY <1>2, <1>5 DEF BoundInv

\* A session that is closed may be missed by every task.
LEMMA ClosingPays ==
    ASSUME TypeOK, DeviceInv, BoundInv, NEW s \in live, live' = live \ {s},
           issued' = issued, faults' = faults,
           Owed' \subseteq Owed \cup (Task \X {s}), Missing' => Missing
    PROVE  BoundInv'
<1> SUFFICES ASSUME "connect" \in Scoped PROVE BoundInv'
  BY DEF BoundInv
<1> DEFINE n == Cardinality(Task)
           b == n * closings
<1>1. /\ issued \in Nat /\ faults \in Nat /\ closings \in Nat /\ n \in Nat
      /\ IsFiniteSet(Owed) /\ Cardinality(Owed) \in Nat /\ IsFiniteSet(live)
      /\ Cardinality(live) \in Nat
  BY Counts
<1>2. closings' = closings + 1
  <2>1. Cardinality(live \ {s}) = Cardinality(live) - 1
    BY <1>1, FS_RemoveElement
  <2>2. Cardinality(live') = Cardinality(live) - 1
    BY <2>1
  <2> QED
    BY <1>1, <2>2 DEF closings
<1>3. b \in Nat /\ n * closings' = b + n
  BY <1>1, <1>2
<1>4. IsFiniteSet(Task \X {s}) /\ Cardinality(Task \X {s}) = n
  <2>1. IsFiniteSet({s}) /\ Cardinality({s}) = 1
    BY FS_Singleton
  <2>2. /\ IsFiniteSet(Task \X {s})
        /\ Cardinality(Task \X {s}) = Cardinality(Task) * Cardinality({s})
    BY <2>1, FiniteTasks, FS_Product, Zenon
  <2> QED
    BY <1>1, <2>1, <2>2
<1>5. /\ IsFiniteSet(Owed \cup (Task \X {s}))
      /\ Cardinality(Owed \cup (Task \X {s})) <= Cardinality(Owed) + n
  <2>1. IsFiniteSet(Owed \cap (Task \X {s}))
    BY <1>1, FS_Intersection
  <2>2. Cardinality(Owed \cap (Task \X {s})) \in Nat
    BY <2>1, FS_CardinalityType
  <2>3. /\ IsFiniteSet(Owed \cup (Task \X {s}))
        /\ Cardinality(Owed \cup (Task \X {s})) =
              Cardinality(Owed) + n - Cardinality(Owed \cap (Task \X {s}))
    BY <1>1, <1>4, FS_Union
  <2> QED
    BY <1>1, <2>2, <2>3
<1>6. /\ Cardinality(Owed') \in Nat
      /\ Cardinality(Owed') <= Cardinality(Owed \cup (Task \X {s}))
  BY <1>5, FS_Subset, FS_CardinalityType
<1>7. issued + (IF Missing THEN 1 ELSE 0) + Cardinality(Owed) <= 1 + b + faults
  BY DEF BoundInv
<1>8. issued + (IF Missing' THEN 1 ELSE 0) + Cardinality(Owed') <= 1 + (b + n) + faults
  <2>1. Cardinality(Owed \cup (Task \X {s})) \in Nat
    BY <1>5, FS_CardinalityType
  <2> HIDE DEF n, b
  <2> QED
    BY <1>1, <1>3, <1>5, <1>6, <1>7, <2>1
<1> QED
  BY <1>3, <1>8 DEF BoundInv
----------------------------------------------------------------------------
\* A login that nobody has answered yet is paid for by the missing session.
LEMMA LoginPays ==
    ASSUME TypeOK, DeviceInv, BoundInv, issued' = issued + 1,
           live' = live \cup {issued + 1}, faults' = faults,
           Owed' \subseteq Owed, Missing, ~Missing'
    PROVE  BoundInv'
<1> SUFFICES ASSUME "connect" \in Scoped PROVE BoundInv'
  BY DEF BoundInv
<1> DEFINE n == Cardinality(Task)
           b == n * closings
<1>1. /\ issued \in Nat /\ faults \in Nat /\ closings \in Nat /\ n \in Nat
      /\ IsFiniteSet(Owed) /\ Cardinality(Owed) \in Nat /\ IsFiniteSet(live)
      /\ Cardinality(live) \in Nat
  BY Counts
<1>2. closings' = closings
  <2>1. issued + 1 \notin live
    BY <1>1 DEF DeviceInv
  <2>2. Cardinality(live \cup {issued + 1}) = Cardinality(live) + 1
    BY <1>1, <2>1, FS_AddElement
  <2> QED
    BY <1>1, <2>2 DEF closings
<1>3. b \in Nat
  BY <1>1
<1>4. Cardinality(Owed') \in Nat /\ Cardinality(Owed') <= Cardinality(Owed)
  BY <1>1, FS_Subset, FS_CardinalityType
<1>5. issued + 1 + Cardinality(Owed) <= 1 + b + faults
  BY DEF BoundInv
<1>6. issued' + 0 + Cardinality(Owed') <= 1 + b + faults'
  <2> HIDE DEF n, b
  <2> QED
    BY <1>1, <1>3, <1>4, <1>5
<1> QED
  BY <1>2, <1>6 DEF BoundInv

\* A step of t by which only t itself may owe a login, for a session it knows.
LEMMA OwesNoMore ==
    ASSUME TypeOK, NEW t \in Task, Elsewhere(t), issued' = issued,
           token' # 0 => Current(token'),
           wire'[t] = "granted" => wire[t] = "granted" /\ carried'[t] = carried[t],
           pc'[t] = "request" /\ phase'[t] = "ensure"
              => Current(carried'[t]) \/ Carries(t, carried'[t]),
           pc'[t] = "wait" /\ phase'[t] = "reauth"
              => Carries(t, first'[t]) \/ WaitsAfter(t, first'[t])
    PROVE  Owed' \subseteq Owed \cup (Task \X (live \ live'))
<1>1. ASSUME NEW s \in 1..issued, Current(s)' PROVE Current(s)
  <2>1. CASE token' = s
    BY <2>1 DEF TypeOK
  <2>2. CASE token' # s
    <3>1. PICK u \in Task : wire'[u] = "granted" /\ carried'[u] = s
      BY <1>1, <2>2 DEF Current
    <3>2. wire[u] = "granted" /\ carried[u] = s
      BY <3>1 DEF Elsewhere
    <3> QED
      BY <3>2 DEF Current
  <2> QED
    BY <2>1, <2>2
<1>2. ASSUME NEW u \in Task, NEW s \in 1..issued, Owes(u, s)', s \notin live
      PROVE  Owes(u, s)
  <2>1. CASE Current(s)'
    BY <1>1, <1>2, <2>1 DEF Owes
  <2>2. CASE Carries(u, s)' \/ WaitsAfter(u, s)'
    <3>1. CASE u = t
      BY <1>2, <2>2, <3>1 DEF Owes, Carries, WaitsAfter
    <3>2. CASE u # t
      BY <1>2, <2>2, <3>2 DEF Owes, Carries, WaitsAfter, Elsewhere
    <3> QED
      BY <3>1, <3>2
  <2> QED
    BY <1>2, <2>1, <2>2 DEF Owes
<1>3. \A u \in Task, s \in 1..issued : Owes(u, s)' => s \notin live'
  BY DEF Owes
<1> QED
  BY <1>2, <1>3 DEF Owed

\* A step of t that gives up no session, unless the client is closed for good.
LEMMA MissesNoMore ==
    ASSUME TypeOK, ScopedInv, "connect" \in Scoped, NEW t \in Task, Elsewhere(t),
           token' = 0 => token = 0 \/ (closed' /\ ~InAuth(t)'),
           closed => closed', closed /\ InAuth(t)' => InAuth(t),
           wire[t] = "granted" => wire'[t] = "granted" \/ token' # 0,
           Missing'
    PROVE  Missing
<1>1. /\ token' = 0 /\ \A u \in Task : wire'[u] # "granted"
      /\ closed' => \E u \in Task : InAuth(u)'
  BY DEF Missing
<1>2. \A u \in Task : wire[u] # "granted"
  BY <1>1 DEF Elsewhere
<1>3. \A u \in Task \ {t} : InAuth(u)' => InAuth(u)
  BY DEF Elsewhere, InAuth
<1>4. token = 0
  BY <1>1, <1>3 DEF ScopedInv, ScopedOf
<1>5. ASSUME closed PROVE \E u \in Task : InAuth(u)
  BY <1>1, <1>3, <1>5
<1> QED
  BY <1>2, <1>4, <1>5 DEF Missing

\* Giving up a closed session settles what t owed for it.
LEMMA SettlesOne ==
    ASSUME TypeOK, NEW t \in Task, NEW s \in 1..issued, issued' = issued,
           Owes(t, s), pc'[t] \notin {"request", "wait"}, Missing'
    PROVE  Owed' # Owed
<1>1. <<t, s>> \in Owed
  BY DEF Owed
<1>2. ~Current(s)'
  BY DEF Current, Missing
<1>3. ~Owes(t, s)'
  BY <1>2 DEF Owes, Carries, WaitsAfter
<1> QED
  BY <1>1, <1>3 DEF Owed

\* The bound holds in every reachable state.
THEOREM BoundInvariant == Spec => []BoundInv
<1>1. Init => BoundInv
  <2> SUFFICES ASSUME Init PROVE BoundInv
    OBVIOUS
  <2>1. Owed = {} /\ issued = 0 /\ faults = 0 /\ live = {}
    BY DEF Init, Owed
  <2>2. Cardinality(Owed) = 0 /\ Cardinality(live) = 0 /\ Cardinality(Task) \in Nat
    BY <2>1, FS_EmptySet, FiniteTasks, FS_CardinalityType
  <2>3. closings = 0 /\ Cardinality(Task) * closings = 0
    BY <2>1, <2>2 DEF closings
  <2> QED
    BY <2>1, <2>2, <2>3 DEF BoundInv
<1>2. TypeOK /\ SessionInv /\ OnceInv /\ ScopedInv /\ DeviceInv /\ BoundInv
        /\ [Next]_vars => BoundInv'
  <2> SUFFICES ASSUME TypeOK, SessionInv, OnceInv, ScopedInv, DeviceInv, BoundInv,
                      [Next]_vars, "connect" \in Scoped
               PROVE  BoundInv'
    BY DEF BoundInv
  <2>1. ASSUME NEW t \in Task, TaskStep(t) PROVE BoundInv'
    <3>1. Elsewhere(t)
      BY <2>1, StepIsLocal
    <3>2. /\ ScopedOf(t) /\ ClosedOf(t) /\ TaskInv(t) /\ OnceOf(t)
          /\ token \in {0, newest}
      BY DEF ScopedInv, DeviceInv, SessionInv, OnceInv
    <3>3. \A u \in Task : Current(token) /\ (wire[u] = "granted" => Current(carried[u]))
      BY DEF Current
    <3> DEFINE Shrinks == /\ token' # 0 => Current(token')
                          /\ wire'[t] = "granted" => wire[t] = "granted" /\ carried'[t] = carried[t]
                          /\ pc'[t] = "request" /\ phase'[t] = "ensure"
                                => Current(carried'[t]) \/ Carries(t, carried'[t])
                          /\ pc'[t] = "wait" /\ phase'[t] = "reauth"
                                => Carries(t, first'[t]) \/ WaitsAfter(t, first'[t])
               Misses == /\ token' = 0 => token = 0 \/ (closed' /\ ~InAuth(t)')
                         /\ closed => closed'
                         /\ closed /\ InAuth(t)' => InAuth(t)
                         /\ wire[t] = "granted" => wire'[t] = "granted" \/ token' # 0
               Still == issued' = issued /\ live' = live
    <3>4. ASSUME Shrinks, Still, faults' = faults, Misses PROVE BoundInv'
      BY <3>1, <3>4, OwesNoMore, MissesNoMore, NobodyOwesMore
    <3>5. ASSUME Shrinks, Still, faults' = faults + 1 PROVE BoundInv'
      BY <3>1, <3>5, OwesNoMore, NobodyOwesMore
    <3>6. ASSUME Shrinks, Still, faults' = faults, NEW s \in 1..issued, Owes(t, s),
                 pc'[t] \notin {"request", "wait"}
          PROVE  BoundInv'
      BY <3>1, <3>6, OwesNoMore, SettlesOne, NobodyOwesMore
    <3> USE <3>2, <3>3 DEF Shrinks, Misses, Still, ScopedOf, TypeOK, Suspend, Return, Send,
          AcquireAndAuthenticate, AuthenticateOrRelease, AuthFails, Start,
          Fault, Answer, InAuth, clientVars, lockVars, deviceVars, bounds, closed
    <3>10. CASE Request(t)
      <4>1. Shrinks
        <5>1. CASE token # 0
          BY <3>10, <5>1 DEF Request
        <5>2. CASE token = 0
          BY <3>10, <5>2 DEF Request
        <5> QED
          BY <5>1, <5>2
      <4>2. Still /\ faults' = faults /\ Misses
        BY <3>10 DEF Request, TaskInv
      <4> QED
        BY <3>4, <4>1, <4>2
    <3>11. CASE Connect(t) \/ Disconnect(t)
      <4>1. Shrinks /\ Still /\ faults' = faults /\ Misses
        <5>1. CASE Connect(t)
          BY <5>1 DEF Connect, TaskInv
        <5>2. CASE Disconnect(t)
          BY <5>2 DEF Disconnect, TaskInv
        <5> QED
          BY <3>11, <5>1, <5>2
      <4> QED
        BY <3>4, <4>1
    <3>12. CASE EnsureGranted(t)
      <4>1. Shrinks
        <5>1. CASE token # 0
          BY <3>12, <5>1 DEF EnsureGranted
        <5>2. CASE token = 0
          BY <3>12, <5>2 DEF EnsureGranted
        <5> QED
          BY <5>1, <5>2
      <4>2. Still /\ faults' = faults /\ Misses
        BY <3>12 DEF EnsureGranted, TaskInv
      <4> QED
        BY <3>4, <4>1, <4>2
    <3>13. CASE ReauthGranted(t)
      <4>1. Shrinks /\ Still /\ faults' = faults /\ pc'[t] \notin {"request", "wait"}
        BY <3>13 DEF ReauthGranted
      <4>2. first[t] \in 1..issued /\ Owes(t, first[t])
        BY <3>13 DEF ReauthGranted, ClosedOf, Owes, WaitsAfter
      <4> QED
        BY <3>6, <4>1, <4>2
    <3>14. CASE ChallengeReceived(t) \/ AuthRefused(t)
      <4>1. Shrinks /\ Still /\ faults' = faults /\ Misses
        BY <3>14 DEF ChallengeReceived, AuthRefused
      <4> QED
        BY <3>4, <4>1
    <3>15. CASE TokenReceived(t)
      <4>1. Shrinks /\ Still /\ faults' = faults /\ Misses
        BY <3>15 DEF TokenReceived
      <4> QED
        BY <3>4, <4>1
    <3>16. CASE ReplyOk(t) \/ RetryExpired(t) \/ LoggedOut(t)
      <4>1. Shrinks /\ Still /\ faults' = faults /\ Misses
        BY <3>16 DEF ReplyOk, RetryExpired, LoggedOut
      <4> QED
        BY <3>4, <4>1
    <3>17. CASE ReplyExpired(t)
      <4>1. Shrinks /\ Still /\ faults' = faults
        BY <3>17 DEF ReplyExpired, Carries
      <4>2. CASE holder # NoTask
        <5>1. Misses
          BY <3>17, <4>2 DEF ReplyExpired
        <5> QED
          BY <3>4, <4>1, <5>1
      <4>3. CASE holder = NoTask
        <5>1. pc'[t] \notin {"request", "wait"}
          BY <3>17, <4>3 DEF ReplyExpired
        <5>2. carried[t] \in 1..issued /\ Owes(t, carried[t])
          BY <3>17 DEF ReplyExpired, ClosedOf, TaskInv, CarriesFreshToken, Owes, Carries
        <5> QED
          BY <3>6, <4>1, <5>1, <5>2
      <4> QED
        BY <4>2, <4>3
    <3>18. CASE DeviceChallenge(t)
      <4>1. Shrinks /\ Still /\ faults' = faults /\ Misses
        BY <3>18 DEF DeviceChallenge, Carries, WaitsAfter
      <4> QED
        BY <3>4, <4>1
    <3>19. CASE DeviceServe(t)
      <4>1. Shrinks /\ Still /\ faults' = faults /\ Misses
        BY <3>19 DEF DeviceServe, Carries, WaitsAfter
      <4> QED
        BY <3>4, <4>1
    <3>20. CASE ExchangeLost(t)
      <4>1. Shrinks /\ Still /\ faults' = faults + 1
        BY <3>20 DEF ExchangeLost
      <4> QED
        BY <3>5, <4>1
    <3>21. CASE DeviceRefuses(t) \/ CancelWaiting(t) \/ CancelLogout(t)
      <4>1. Shrinks /\ Still /\ faults' = faults + 1
        BY <3>21 DEF DeviceRefuses, CancelWaiting, CancelLogout
      <4> QED
        BY <3>5, <4>1
    <3>22. CASE DeviceLogin(t)
      <4>1. CASE Cardinality(live) < SessionLimit
        <5>1. /\ issued' = issued + 1 /\ live' = live \cup {issued + 1}
              /\ wire'[t] = "granted" /\ carried'[t] = issued + 1
              /\ InAuth(t) /\ wire[t] = "sent"
              /\ UNCHANGED <<token, httpx, pc, phase, first, faults>>
          BY <3>22, <4>1 DEF DeviceLogin
        <5>2. ~Missing'
          BY <5>1 DEF Missing
        <5>3. \A u \in Task : wire[u] # "granted"
          <6>1. \A u \in Task \ {t} : ~InAuth(u)
            BY <5>1, OneHandshake
          <6>2. \A u \in Task : wire[u] = "granted" => InAuth(u)
            BY DEF SessionInv, TaskInv
          <6> QED
            BY <5>1, <6>1, <6>2
        <5>4. Missing
          BY <5>1, <5>3 DEF Missing
        <5>5. ASSUME NEW u \in Task, NEW s \in 1..issued', Owes(u, s)'
              PROVE  s \in 1..issued /\ Owes(u, s)
          <6>1. s # issued + 1 /\ s \notin live
            BY <5>1, <5>5 DEF Owes
          <6>2. Current(s)' => Current(s)
            BY <5>1, <6>1, <3>1 DEF Current, Elsewhere
          <6>3. /\ Carries(u, s)' => Carries(u, s)
                /\ WaitsAfter(u, s)' => WaitsAfter(u, s)
            BY <5>1, <3>1 DEF Carries, WaitsAfter, Elsewhere
          <6>4. s \in 1..issued
            BY <5>1, <6>1
          <6> QED
            BY <5>5, <6>1, <6>2, <6>3, <6>4 DEF Owes
        <5>6. Owed' \subseteq Owed
          BY <5>5 DEF Owed
        <5> QED
          BY <5>1, <5>2, <5>4, <5>6, LoginPays
      <4>2. CASE ~(Cardinality(live) < SessionLimit)
        <5>1. Shrinks /\ Still /\ faults' = faults /\ Misses
          BY <3>22, <4>2 DEF DeviceLogin, Carries, WaitsAfter
        <5> QED
          BY <3>4, <5>1
      <4> QED
        BY <4>1, <4>2
    <3>23. CASE DeviceLogout(t)
      <4>1. Shrinks /\ Misses /\ issued' = issued /\ faults' = faults
        BY <3>23 DEF DeviceLogout, Carries, WaitsAfter
      <4>2. live' = live \ {carried[t]}
        BY <3>23 DEF DeviceLogout
      <4>3. Owed' \subseteq Owed \cup (Task \X (live \ live'))
        BY <3>1, <4>1, OwesNoMore
      <4>4. Missing' => Missing
        BY <3>1, <4>1, MissesNoMore
      <4>5. CASE carried[t] \in live
        BY <4>1, <4>2, <4>3, <4>4, <4>5, ClosingPays
      <4>6. CASE carried[t] \notin live
        BY <3>4, <4>1, <4>2, <4>6
      <4> QED
        BY <4>5, <4>6
    <3> QED
      BY <2>1, <3>10, <3>11, <3>12, <3>13, <3>14, <3>15, <3>16, <3>17, <3>18,
         <3>19, <3>20, <3>21, <3>22, <3>23 DEF TaskStep, ClientStep, DeviceStep
  <2>2. CASE DeviceDrops
    <3>1. /\ UNCHANGED <<token, httpx, pc, phase, wire, carried, first, issued, faults>>
          /\ \E s \in live : live' = live \ {s}
      BY <2>2 DEF DeviceDrops, clientVars
    <3>2. PICK s \in live : live' = live \ {s}
      BY <3>1
    <3>4. Missing' => Missing
      BY <3>1 DEF Missing, InAuth, closed
    <3>5. Owed' \subseteq Owed \cup (Task \X {s})
      <4>1. ASSUME NEW u \in Task, NEW r \in 1..issued, Owes(u, r)', r # s
            PROVE  Owes(u, r)
        <5>1. r \notin live /\ (Current(r)' \/ Carries(u, r)' \/ WaitsAfter(u, r)')
          BY <3>2, <4>1 DEF Owes
        <5>2. Current(r) \/ Carries(u, r) \/ WaitsAfter(u, r)
          BY <3>1, <5>1 DEF Current, Carries, WaitsAfter
        <5> QED
          BY <5>1, <5>2 DEF Owes
      <4> QED
        BY <3>1, <4>1 DEF Owed
    <3> QED
      BY <3>1, <3>2, <3>4, <3>5, ClosingPays
  <2>3. CASE UNCHANGED vars
    BY <2>3 DEF vars, BoundInv, Missing, Owed, Owes, Current, Carries, WaitsAfter, closings,
                InAuth, closed, clientVars, lockVars, deviceVars, bounds
  <2> QED
    BY <2>1, <2>2, <2>3 DEF Next, Rest, TaskStep
<1> QED
  BY <1>1, <1>2, Typing, SessionInvariant, OnceInvariant, ScopedInvariant,
     DeviceInvariant, PTL DEF Spec

\* With connect() awaited first, the client opens at most one session more than
\* one per task and closed session, plus the lost exchanges.
THEOREM SessionsAreBounded == Spec => []SessionsBounded
<1>1. TypeOK /\ DeviceInv /\ BoundInv => SessionsBounded
  <2> SUFFICES ASSUME TypeOK, DeviceInv, BoundInv, "connect" \in Scoped
               PROVE  issued <= 1 + Cardinality(Task) * closings + faults
    BY DEF SessionsBounded
  <2> DEFINE b == Cardinality(Task) * closings
  <2>1. issued + (IF Missing THEN 1 ELSE 0) + Cardinality(Owed) <= 1 + b + faults
    BY DEF BoundInv
  <2>2. /\ issued \in Nat /\ faults \in Nat /\ Cardinality(Owed) \in Nat
        /\ Cardinality(Task) \in Nat /\ closings \in Nat
    BY Counts
  <2>3. b \in Nat
    BY <2>2
  <2> HIDE DEF b
  <2>4. issued <= 1 + b + faults
    BY <2>1, <2>2, <2>3
  <2> QED
    BY <2>4 DEF b
<1> QED
  BY <1>1, Typing, DeviceInvariant, BoundInvariant, PTL
----------------------------------------------------------------------------
(* Expired sessions are invisible *)

\* The logins a task may still cause in its current operation: a request two,
\* its own and the one of its retry.
Remaining(t) ==
    IF pc[t] \in {"wait", "challenge", "credentials"} /\ wire[t] # "granted"
    THEN IF phase[t] = "ensure" THEN 2 ELSE 1
    ELSE IF pc[t] \in {"credentials", "request"} /\ phase[t] = "ensure"
         THEN 1 ELSE 0

\* One pair for each of them.
Left == {c \in Task \X (1..2) : c[2] <= Remaining(c[1])}

\* An operation logs in at most twice.
LoginsInv ==
    /\ calls <= MaxCalls
    /\ issued + Cardinality(Left) <= 2 * calls

\* These are at most two ...
LEMMA RemainingType ==
    ASSUME NEW t \in Task
    PROVE  Remaining(t) \in 0..2 /\ Remaining(t)' \in 0..2
BY DEF Remaining

\* ... so the pairs are finitely many ...
LEMMA LeftFinite == IsFiniteSet(Left) /\ Cardinality(Left) \in Nat
BY PairsFinite DEF Left

\* ... and those of one task as many as the task has left.
LEMMA OwnPairs ==
    ASSUME NEW t, NEW k \in Nat
    PROVE  IsFiniteSet({t} \X (1..k)) /\ Cardinality({t} \X (1..k)) = k
<1>1. IsFiniteSet({t}) /\ Cardinality({t}) = 1
  BY FS_Singleton
<1>2. IsFiniteSet(1..k) /\ Cardinality(1..k) = k
  BY IntervalSize
<1>3. /\ IsFiniteSet({t} \X (1..k))
      /\ Cardinality({t} \X (1..k)) = Cardinality({t}) * Cardinality(1..k)
  BY <1>1, <1>2, FS_Product, Zenon
<1> QED
  BY <1>1, <1>2, <1>3

\* A step of t changes the number by the change of t's own.
LEMMA LeftChange ==
    ASSUME TypeOK, NEW t \in Task, Elsewhere(t)
    PROVE  /\ Cardinality(Left) \in Nat /\ Cardinality(Left) >= Remaining(t)
           /\ Cardinality(Left') = Cardinality(Left) - Remaining(t) + Remaining(t)'
<1> DEFINE Others == {c \in Left : c[1] # t}
           Own(k) == {t} \X (1..k)
<1>1. /\ Remaining(t) \in Nat /\ Remaining(t) <= 2
      /\ Remaining(t)' \in Nat /\ Remaining(t)' <= 2
  BY RemainingType
<1>2. Left = Others \cup Own(Remaining(t))
  BY <1>1 DEF Left
<1>3. Left' = Others \cup Own(Remaining(t)')
  <2>1. \A u \in Task \ {t} : Remaining(u)' = Remaining(u)
    BY DEF Elsewhere, Remaining
  <2> QED
    BY <1>1, <2>1 DEF Left
<1>4. IsFiniteSet(Others) /\ Cardinality(Others) \in Nat
  BY LeftFinite, FS_Subset, FS_CardinalityType
<1>5. ASSUME NEW k \in Nat
      PROVE  Cardinality(Others \cup Own(k)) = Cardinality(Others) + k
  <2>1. IsFiniteSet(Own(k)) /\ Cardinality(Own(k)) = k
    BY OwnPairs
  <2>2. Others \cap Own(k) = {}
    OBVIOUS
  <2>3. Cardinality(Others \cap Own(k)) = 0
    BY <2>2, FS_EmptySet
  <2>4. Cardinality(Others \cup Own(k)) =
           Cardinality(Others) + Cardinality(Own(k)) - Cardinality(Others \cap Own(k))
    BY <1>4, <2>1, FS_Union
  <2> HIDE DEF Others, Own
  <2> QED
    BY <1>4, <2>1, <2>3, <2>4
<1>6. Cardinality(Left) = Cardinality(Others) + Remaining(t)
  BY <1>1, <1>2, <1>5
<1>7. Cardinality(Left') = Cardinality(Others) + Remaining(t)'
  BY <1>1, <1>3, <1>5
<1> HIDE DEF Others
<1> QED
  BY <1>1, <1>4, <1>6, <1>7

\* No operation logs in more than twice, in any reachable state.
THEOREM LoginsInvariant == Spec => []LoginsInv
<1>1. Init => LoginsInv
  <2> SUFFICES ASSUME Init PROVE LoginsInv
    OBVIOUS
  <2>1. Left = {} /\ issued = 0 /\ calls = 0
    BY DEF Init, Left, Remaining
  <2>2. Cardinality(Left) = 0
    BY <2>1, FS_EmptySet
  <2> QED
    BY <2>1, <2>2, BoundsAssumption DEF LoginsInv
<1>2. TypeOK /\ SessionInv /\ OnceInv /\ LoginsInv /\ [Next]_vars => LoginsInv'
  <2> SUFFICES ASSUME TypeOK, SessionInv, OnceInv, LoginsInv, [Next]_vars
               PROVE  LoginsInv'
    OBVIOUS
  <2>a. /\ calls \in Nat /\ issued \in Nat /\ MaxCalls \in Nat
        /\ calls <= MaxCalls /\ issued + Cardinality(Left) <= 2 * calls
    BY BoundsAssumption DEF LoginsInv, TypeOK
  <2>1. ASSUME NEW t \in Task, TaskStep(t) PROVE LoginsInv'
    <3>1. Elsewhere(t)
      BY <2>1, StepIsLocal
    <3>2. /\ Cardinality(Left) \in Nat /\ Cardinality(Left) >= Remaining(t)
          /\ Cardinality(Left') = Cardinality(Left) - Remaining(t) + Remaining(t)'
          /\ Remaining(t) \in 0..2 /\ Remaining(t)' \in 0..2
      BY <3>1, LeftChange, RemainingType
    <3>3. ASSUME calls' = calls, issued' = issued, Remaining(t)' <= Remaining(t)
          PROVE  LoginsInv'
      BY <2>a, <3>2, <3>3 DEF LoginsInv
    <3>4. ASSUME calls' = calls + 1, calls < MaxCalls, issued' = issued, Remaining(t) = 0
          PROVE  LoginsInv'
      BY <2>a, <3>2, <3>4 DEF LoginsInv
    <3>5. ASSUME calls' = calls, issued' = issued + 1, Remaining(t)' = Remaining(t) - 1
          PROVE  LoginsInv'
      BY <2>a, <3>2, <3>5 DEF LoginsInv
    <3>6. TaskInv(t) /\ OnceOf(t)
      BY DEF SessionInv, OnceInv
    <3> USE <3>6 DEF Remaining, TypeOK, Suspend, Return, Send,
          AcquireAndAuthenticate, AuthenticateOrRelease, AuthFails, Start,
          Fault, Answer, InAuth, clientVars, lockVars, deviceVars, bounds
    <3>10. CASE Request(t) \/ Connect(t) \/ Disconnect(t)
      <4>1. calls' = calls + 1 /\ calls < MaxCalls /\ issued' = issued /\ Remaining(t) = 0
        BY <3>10 DEF Request, Connect, Disconnect, TaskInv
      <4> QED
        BY <3>4, <4>1
    <3>11. CASE EnsureGranted(t) \/ ReauthGranted(t) \/ ChallengeReceived(t)
      <4>1. calls' = calls /\ issued' = issued /\ Remaining(t)' <= Remaining(t)
        BY <3>11 DEF EnsureGranted, ReauthGranted, ChallengeReceived, TaskInv
      <4> QED
        BY <3>3, <4>1
    <3>12. CASE AuthRefused(t) \/ TokenReceived(t)
      <4>1. calls' = calls /\ issued' = issued /\ Remaining(t)' <= Remaining(t)
        BY <3>12, SMTT(30) DEF AuthRefused, TokenReceived, TaskInv
      <4> QED
        BY <3>3, <4>1
    <3>13. CASE ReplyOk(t) \/ ReplyExpired(t) \/ RetryExpired(t) \/ LoggedOut(t)
      <4>1. calls' = calls /\ issued' = issued /\ Remaining(t)' <= Remaining(t)
        BY <3>13, SMTT(30) DEF ReplyOk, ReplyExpired, RetryExpired, LoggedOut
      <4> QED
        BY <3>3, <4>1
    <3>14. CASE DeviceChallenge(t) \/ DeviceServe(t) \/ DeviceLogout(t) \/ DeviceRefuses(t)
      <4>1. calls' = calls /\ issued' = issued /\ Remaining(t)' <= Remaining(t)
        BY <3>14 DEF DeviceChallenge, DeviceServe, DeviceLogout, DeviceRefuses
      <4> QED
        BY <3>3, <4>1
    <3>15. CASE DeviceLogin(t)
      <4>1. CASE Cardinality(live) < SessionLimit
        <5>1. calls' = calls /\ issued' = issued + 1 /\ Remaining(t)' = Remaining(t) - 1
          BY <3>15, <4>1 DEF DeviceLogin
        <5> QED
          BY <3>5, <5>1
      <4>2. CASE ~(Cardinality(live) < SessionLimit)
        <5>1. calls' = calls /\ issued' = issued /\ Remaining(t)' <= Remaining(t)
          BY <3>15, <4>2 DEF DeviceLogin
        <5> QED
          BY <3>3, <5>1
      <4> QED
        BY <4>1, <4>2
    <3>16. CASE ExchangeLost(t) \/ CancelWaiting(t) \/ CancelLogout(t)
      <4>1. calls' = calls /\ issued' = issued /\ Remaining(t)' <= Remaining(t)
        <5>1. CASE ExchangeLost(t)
          BY <5>1 DEF ExchangeLost
        <5>2. CASE CancelWaiting(t)
          BY <5>2 DEF CancelWaiting
        <5>3. CASE CancelLogout(t)
          BY <5>3 DEF CancelLogout
        <5> QED
          BY <3>16, <5>1, <5>2, <5>3
      <4> QED
        BY <3>3, <4>1
    <3> QED
      BY <2>1, <3>10, <3>11, <3>12, <3>13, <3>14, <3>15, <3>16
         DEF TaskStep, ClientStep, DeviceStep
  <2>2. CASE DeviceDrops
    BY <2>2 DEF DeviceDrops, LoginsInv, Left, Remaining, clientVars, lockVars
  <2>3. CASE UNCHANGED vars
    BY <2>3 DEF vars, LoginsInv, Left, Remaining, clientVars, lockVars, deviceVars, bounds
  <2> QED
    BY <2>1, <2>2, <2>3 DEF Next, Rest, TaskStep
<1> QED
  BY <1>1, <1>2, Typing, SessionInvariant, OnceInvariant, PTL DEF Spec

\* Without faults, only a request whose two sessions were closed fails.
ExpiryInv ==
    faults = 0 =>
       \A t \in Task : /\ wire[t] # "denied"
                       /\ outcome[t] = "auth_error" => closings >= 2

\* A device with room for every login the operations can cause refuses none.
LEMMA RoomForLogin ==
    ASSUME TypeOK, DeviceInv, LoginsInv, SessionLimit >= 2 * MaxCalls,
           NEW t \in Task, pc[t] = "credentials", wire[t] = "sent"
    PROVE  Cardinality(live) < SessionLimit
<1>1. Remaining(t) >= 1
  BY DEF Remaining
<1>2. <<t, 1>> \in Left
  BY <1>1, RemainingType DEF Left
<1>3. Cardinality(Left) >= 1
  <2>1. IsFiniteSet(Left) /\ Cardinality(Left) \in Nat /\ Left # {}
    BY <1>2, LeftFinite
  <2>2. Cardinality(Left) # 0
    BY <2>1, FS_EmptySet
  <2> QED
    BY <2>1, <2>2
<1>4. /\ Cardinality(live) \in Nat /\ Cardinality(live) <= issued /\ issued \in Nat
  BY Counts
<1>5. /\ calls \in Nat /\ calls <= MaxCalls /\ MaxCalls \in Nat /\ SessionLimit \in Nat
      /\ issued + Cardinality(Left) <= 2 * calls /\ Cardinality(Left) \in Nat
  BY LeftFinite, BoundsAssumption DEF LoginsInv, TypeOK
<1> QED
  BY <1>3, <1>4, <1>5

\* Two sessions that are closed are two closings.
LEMMA TwoClosed ==
    ASSUME TypeOK, DeviceInv, NEW r \in (1..issued) \ live, NEW s \in (1..issued) \ live,
           r # s
    PROVE  closings >= 2
<1>1. issued \in Nat /\ live \subseteq 1..issued /\ IsFiniteSet(live) /\ Cardinality(live) \in Nat
  BY Counts DEF DeviceInv
<1>2. IsFiniteSet(1..issued) /\ Cardinality(1..issued) = issued
  BY <1>1, IntervalSize
<1>3. r \notin live /\ s \notin live /\ r \in 1..issued /\ s \in 1..issued
  OBVIOUS
<1> DEFINE one == live \cup {r}
           two == one \cup {s}
<1>4. IsFiniteSet(one) /\ Cardinality(one) = Cardinality(live) + 1
  BY <1>1, <1>3, FS_AddElement, Zenon
<1>5. s \notin one /\ two \subseteq 1..issued
  BY <1>1, <1>3
<1> HIDE DEF one
<1>6. Cardinality(two) = Cardinality(one) + 1
  BY <1>4, <1>5, FS_AddElement, Zenon
<1>7. Cardinality(two) <= issued
  BY <1>2, <1>5, FS_Subset
<1> HIDE DEF two
<1> QED
  BY <1>1, <1>4, <1>6, <1>7 DEF closings

\* What is closed stays closed.
LEMMA ClosingsGrow ==
    ASSUME TypeOK, DeviceInv,
           \/ issued' = issued /\ live' \subseteq live
           \/ issued' = issued + 1 /\ live' = live \cup {issued + 1}
    PROVE  closings \in Nat /\ closings' \in Int /\ closings' >= closings
<1>1. /\ issued \in Nat /\ IsFiniteSet(live) /\ Cardinality(live) \in Nat
      /\ closings \in Nat
  BY Counts
<1>2. CASE issued' = issued /\ live' \subseteq live
  <2>1. Cardinality(live') \in Nat /\ Cardinality(live') <= Cardinality(live)
    BY <1>1, <1>2, FS_Subset, FS_CardinalityType
  <2> QED
    BY <1>1, <1>2, <2>1 DEF closings
<1>3. CASE issued' = issued + 1 /\ live' = live \cup {issued + 1}
  <2>1. issued + 1 \notin live
    BY <1>1 DEF DeviceInv
  <2>2. Cardinality(live \cup {issued + 1}) = Cardinality(live) + 1
    BY <1>1, <2>1, FS_AddElement
  <2> QED
    BY <1>1, <1>3, <2>2 DEF closings
<1> QED
  BY <1>2, <1>3

\* The device refuses no login for want of room, and a retry is refused only with
\* a second session that was closed.
THEOREM ExpiryInvariant ==
    ASSUME SessionLimit >= 2 * MaxCalls
    PROVE  Spec => []ExpiryInv
<1>1. Init => ExpiryInv
  BY DEF Init, ExpiryInv
<1>2. TypeOK /\ SessionInv /\ OnceInv /\ DeviceInv /\ LoginsInv /\ ExpiryInv
        /\ [Next]_vars => ExpiryInv'
  <2> SUFFICES ASSUME TypeOK, SessionInv, OnceInv, DeviceInv, LoginsInv, ExpiryInv,
                      [Next]_vars, faults' = 0
               PROVE  \A u \in Task : /\ wire'[u] # "denied"
                                      /\ outcome'[u] = "auth_error" => closings' >= 2
    BY DEF ExpiryInv
  <2>1. ASSUME NEW t \in Task, TaskStep(t)
        PROVE  \A u \in Task : /\ wire'[u] # "denied"
                               /\ outcome'[u] = "auth_error" => closings' >= 2
    <3>1. Elsewhere(t)
      BY <2>1, StepIsLocal
    <3>2. faults = 0
      <4>1. faults \in Nat /\ faults' \in {faults, faults + 1}
        BY <2>1 DEF TypeOK, TaskStep, ClientStep, DeviceStep, Request, Connect,
              Disconnect, EnsureGranted, ReauthGranted, ChallengeReceived,
              AuthRefused, TokenReceived, ReplyOk, ReplyExpired, RetryExpired,
              LoggedOut, ExchangeLost, CancelWaiting, CancelLogout, DeviceRefuses,
              Start, Fault, DeviceChallenge, DeviceLogin, DeviceServe,
              DeviceLogout, bounds
      <4> QED
        BY <4>1
    <3>9. \/ issued' = issued /\ live' \subseteq live
          \/ issued' = issued + 1 /\ live' = live \cup {issued + 1}
      BY <2>1 DEF TaskStep, ClientStep, DeviceStep, Request, Connect, Disconnect,
            EnsureGranted, ReauthGranted, ChallengeReceived, AuthRefused,
            TokenReceived, ReplyOk, ReplyExpired, RetryExpired, LoggedOut,
            ExchangeLost, CancelWaiting, CancelLogout, DeviceRefuses,
            DeviceChallenge, DeviceLogin, DeviceServe, DeviceLogout, deviceVars
    <3>3. closings \in Nat /\ closings' \in Int /\ closings' >= closings
      BY <3>9, ClosingsGrow
    <3>4. \A u \in Task : wire[u] # "denied" /\ (outcome[u] = "auth_error" => closings >= 2)
      BY <3>2 DEF ExpiryInv
    <3>5. ASSUME NEW u \in Task \ {t}
          PROVE  wire'[u] # "denied" /\ (outcome'[u] = "auth_error" => closings' >= 2)
      BY <3>1, <3>3, <3>4 DEF Elsewhere
    <3>6. wire'[t] # "denied" /\ (outcome'[t] = "auth_error" => closings' >= 2)
      <4>1. CASE RetryExpired(t)
        <5>1. first[t] \in (1..issued) \ live /\ carried[t] \notin live
              /\ carried[t] > first[t] /\ carried[t] <= issued
          BY <4>1 DEF RetryExpired, DeviceInv, ClosedOf, SessionInv, TaskInv, CarriesFreshToken
        <5>2. carried[t] \in (1..issued) \ live /\ carried[t] # first[t]
          BY <5>1 DEF TypeOK
        <5>3. closings >= 2
          BY <5>1, <5>2, TwoClosed
        <5>4. wire'[t] = "none"
          BY <4>1 DEF RetryExpired, Return, Suspend, TypeOK
        <5> QED
          BY <3>3, <5>3, <5>4
      <4>2. CASE DeviceLogin(t)
        <5>1. Cardinality(live) < SessionLimit
          BY <4>2, RoomForLogin DEF DeviceLogin
        <5> QED
          BY <3>3, <3>4, <4>2, <5>1 DEF DeviceLogin, Answer, TypeOK
      <4>3. CASE DeviceRefuses(t) \/ ExchangeLost(t) \/ CancelWaiting(t) \/ CancelLogout(t)
        BY <4>3, <3>2 DEF DeviceRefuses, ExchangeLost, CancelWaiting, CancelLogout, Fault, TypeOK
      <4>4. CASE AuthRefused(t)
        BY <3>4, <4>4 DEF AuthRefused
      <4> USE <3>3, <3>4 DEF TypeOK, Suspend, Return, Send,
            AcquireAndAuthenticate, AuthenticateOrRelease, AuthFails, Start,
            Answer, clientVars, lockVars
      <4>5. CASE Request(t) \/ Connect(t) \/ Disconnect(t)
        BY <4>5 DEF Request, Connect, Disconnect
      <4>6. CASE EnsureGranted(t) \/ ReauthGranted(t) \/ ChallengeReceived(t)
        BY <4>6 DEF EnsureGranted, ReauthGranted, ChallengeReceived
      <4>7. CASE TokenReceived(t) \/ ReplyOk(t) \/ ReplyExpired(t) \/ LoggedOut(t)
        BY <4>7 DEF TokenReceived, ReplyOk, ReplyExpired, LoggedOut
      <4>8. CASE DeviceChallenge(t) \/ DeviceServe(t) \/ DeviceLogout(t)
        BY <4>8 DEF DeviceChallenge, DeviceServe, DeviceLogout
      <4> QED
        BY <2>1, <4>1, <4>2, <4>3, <4>4, <4>5, <4>6, <4>7, <4>8
           DEF TaskStep, ClientStep, DeviceStep
    <3> QED
      BY <3>5, <3>6
  <2>2. CASE DeviceDrops
    <3>1. closings \in Nat /\ closings' \in Int /\ closings' >= closings
      BY <2>2, ClosingsGrow DEF DeviceDrops
    <3> QED
      BY <2>2, <3>1 DEF DeviceDrops, ExpiryInv, clientVars, lockVars
  <2>3. CASE UNCHANGED vars
    BY <2>3 DEF vars, ExpiryInv, closings, clientVars, lockVars, deviceVars, bounds
  <2> QED
    BY <2>1, <2>2, <2>3 DEF Next, Rest, TaskStep
<1> QED
  BY <1>1, <1>2, Typing, SessionInvariant, OnceInvariant, DeviceInvariant,
     LoginsInvariant, PTL DEF Spec

\* Without faults and with room on the device for every login the operations may
\* cause, a request fails to authenticate only after two closings.
THEOREM ExpiryIsTransparent ==
    ASSUME SessionLimit >= 2 * MaxCalls
    PROVE  Spec => []ExpiryTransparent
<1>1. ExpiryInv => ExpiryTransparent
  BY DEF ExpiryInv, ExpiryTransparent
<1> QED
  BY <1>1, ExpiryInvariant, PTL
=============================================================================
