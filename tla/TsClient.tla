------------------------------ MODULE TsClient ------------------------------
(****************************************************************************)
(* The TypeScript client: login, expiry and logout (auth.ts) and the        *)
(* requests and transactions made over them (client.ts), when several async *)
(* callers share one client.                                                *)
(*                                                                          *)
(* The event loop runs a continuation until its next await.  An action is   *)
(* such a stretch of code: it starts with a call of the program, with the   *)
(* answer to a fetch, or with the settling of a login another caller made.  *)
(* Continuations that are ready run before the next answer is taken.  The   *)
(* device acts on a request when its answer arrives.                        *)
(****************************************************************************)
EXTENDS Naturals, FiniteSets

CONSTANTS
    Task,            \* concurrent callers
    NoTask,          \* no login in progress
    MaxCalls,        \* bound: calls begun, inner transactions included
    MaxNest,         \* bound: transactions inside each other
    MaxDrops,        \* bound: sessions the device drops
    MaxFaults,       \* bound: exchanges that fail, and refused logins
    MaxDisconnects   \* bound: logouts

ASSUME NoTaskAssumption == NoTask \notin Task
ASSUME FiniteTasks == IsFiniteSet(Task)      \* depth counts some of them
ASSUME TsBoundsAssumption ==
    MaxCalls \in Nat /\ MaxNest \in Nat /\ MaxDrops \in Nat /\ MaxFaults \in Nat /\ MaxDisconnects \in Nat

NoSession == 0

VARIABLES
    session,      \* bearerToken or sessionCookie; NoSession when not authenticated
    authPromise,  \* the task whose login this.authPromise is, or NoTask
    depth,        \* _pendingDepth
    pc,           \* where each task is
    op, step,     \* the call it makes, and the request of it
    retrying,     \* is the request the one after reauthenticate?
    awaited,      \* the task whose login it waits for
    token,        \* what its request in flight carries
    nest,         \* how many transactions it is in, one inside the other
    outermost,    \* isOutermost of the first of them
    failed,       \* did its last call throw?
    live, issued, \* device: sessions, and how many it has granted
    staged, saved,\* device: tasks whose write is pending, or saved
    overlapped,   \* history: tasks that met another one's transaction, commit or rollback
    calls, drops, faults, disconnects

auth == <<session, authPromise>>
block == <<depth, nest, outermost, overlapped>>
config == <<staged, saved>>
others == <<drops, faults, disconnects>>
counts == <<calls, others>>
vars == <<auth, block, pc, op, step, retrying, awaited, token, failed,
          live, issued, config, counts>>

Place == {"idle", "login", "waitEnsure", "waitReauth",
          "woken", "wokenReauth", "rejected", "sent", "logout"}
Op == {"connect", "request", "transaction", "commit", "rollback", "disconnect"}
Step == {"none", "body", "commit", "rollback"}

\* The open transactions: a task and how deep it is.
Levels == {c \in Task \X (1..MaxNest) : c[2] <= nest[c[1]]}

TypeOK ==
    /\ session \in 0..issued /\ authPromise \in Task \cup {NoTask}
    /\ nest \in [Task -> 0..MaxNest] /\ depth = Cardinality(Levels)
    /\ \A t \in Task : nest[t] > 0 <=> pc[t] # "idle" /\ op[t] = "transaction"
    /\ pc \in [Task -> Place] /\ op \in [Task -> Op] /\ step \in [Task -> Step]
    /\ retrying \in [Task -> BOOLEAN] /\ awaited \in [Task -> Task \cup {NoTask}]
    /\ token \in [Task -> 0..issued]
    /\ outermost \in [Task -> BOOLEAN] /\ failed \in [Task -> BOOLEAN]
    /\ live \subseteq 1..issued /\ issued \in Nat
    /\ staged \subseteq Task /\ saved \subseteq Task /\ overlapped \subseteq Task

Init ==
    /\ session = NoSession /\ authPromise = NoTask /\ depth = 0
    /\ pc = [t \in Task |-> "idle"] /\ op = [t \in Task |-> "request"]
    /\ step = [t \in Task |-> "none"] /\ retrying = [t \in Task |-> FALSE]
    /\ awaited = [t \in Task |-> NoTask] /\ token = [t \in Task |-> NoSession]
    /\ nest = [t \in Task |-> 0]
    /\ outermost = [t \in Task |-> FALSE] /\ failed = [t \in Task |-> FALSE]
    /\ live = {} /\ issued = 0 /\ staged = {} /\ saved = {} /\ overlapped = {}
    /\ calls = 0 /\ drops = 0 /\ faults = 0 /\ disconnects = 0

----------------------------------------------------------------------------
(* Stretches of code up to the next await; each sets pc, token, awaited and  *)
(* authPromise.                                                              *)

\* this.authPromise = this.authenticate(): the first fetch is under way.
StartLogin(t) ==
    /\ pc' = [pc EXCEPT ![t] = "login"] /\ authPromise' = t
    /\ token' = [token EXCEPT ![t] = NoSession] /\ UNCHANGED awaited

\* The hook reads the token as ky sends the request.
Send(t) ==
    /\ pc' = [pc EXCEPT ![t] = "sent"] /\ token' = [token EXCEPT ![t] = session]
    /\ UNCHANGED <<authPromise, awaited>>

Await(t, place) ==
    /\ pc' = [pc EXCEPT ![t] = place]
    /\ awaited' = [awaited EXCEPT ![t] = authPromise]
    /\ token' = [token EXCEPT ![t] = NoSession] /\ UNCHANGED authPromise

Idle(t) ==
    /\ pc' = [pc EXCEPT ![t] = "idle"] /\ token' = [token EXCEPT ![t] = NoSession]
    /\ UNCHANGED <<authPromise, awaited>>

\* Mutant: every caller without a session starts a login.
EnsureByLogin(t, o) ==
    CASE session # NoSession /\ o = "connect" -> Idle(t)
      [] session # NoSession /\ o # "connect" -> Send(t)
      [] session = NoSession                  -> StartLogin(t)
\* ensureAuthenticated and, if it returns at once, the request of call o.
Ensure(t, o) ==
    CASE session # NoSession /\ o = "connect" -> Idle(t)
      [] session # NoSession /\ o # "connect" -> Send(t)
      [] session = NoSession /\ authPromise # NoTask -> Await(t, "waitEnsure")
      [] session = NoSession /\ authPromise = NoTask -> StartLogin(t)

\* The next request of a call.
Request(t, s, o) ==
    /\ step' = [step EXCEPT ![t] = s] /\ retrying' = [retrying EXCEPT ![t] = FALSE]
    /\ Ensure(t, o)

\* The call ends.
End(t, throws) ==
    /\ Idle(t)
    /\ failed' = [failed EXCEPT ![t] = throws]
    /\ step' = [step EXCEPT ![t] = "none"] /\ retrying' = [retrying EXCEPT ![t] = FALSE]
    /\ outermost' = [outermost EXCEPT ![t] = FALSE]
    /\ UNCHANGED <<op, overlapped>>

\* Mutant: the depth is not lowered when the body throws.
LeavesOnReturn(t, n, throws) ==
    /\ depth' = IF throws THEN depth ELSE depth - (nest[t] - n)
    /\ nest' = [nest EXCEPT ![t] = n]
\* t leaves its inner transactions and stays in n of them; whatever happens in
\* them, each lowers the depth, and none commits or rolls back.
Leaves(t, n, throws) ==
    /\ depth' = depth - (nest[t] - n)
    /\ nest' = [nest EXCEPT ![t] = n]

EndCall(t, throws) == End(t, throws) /\ Leaves(t, 0, throws)

\* The outermost transaction goes on with its commit or rollback.
Settles(t, s, throws) ==
    /\ Request(t, s, op[t]) /\ Leaves(t, 1, throws)
    /\ UNCHANGED <<op, failed, outermost, overlapped>>

\* fn calls transaction(), which writes: from the n-th transaction of t, after
\* the inner ones have ended.
Nests(t, n) ==
    /\ n < MaxNest /\ calls < MaxCalls /\ calls' = calls + 1
    /\ Request(t, "body", op[t])
    /\ depth' = depth - (nest[t] - n) + 1 /\ nest' = [nest EXCEPT ![t] = n + 1]
    /\ UNCHANGED <<op, failed, outermost, overlapped>>

\* Mutant: errors are passed on.
NeverRollsBack(t) == FALSE
\* An error inside the try block of an outermost transaction.
RollsBack(t) == op[t] = "transaction" /\ outermost[t] /\ step[t] # "rollback"

\* An error that nobody handles: out of the call, by way of the rollback.
Throws(t) ==
    /\ IF RollsBack(t) THEN Settles(t, "rollback", TRUE) ELSE EndCall(t, TRUE)
    /\ UNCHANGED calls

\* Mutant: the depth is compared as if the transaction had left.
CommitsAtDepthZero(t) == op[t] = "transaction" /\ step[t] = "body" /\ depth = 0
\* fn() is done: the outermost transaction commits.
Commits(t) == op[t] = "transaction" /\ step[t] = "body" /\ outermost[t]

\* After the rollback, transaction() throws the error that led to it.
Done(t) ==
    /\ IF Commits(t) THEN Settles(t, "commit", FALSE)
       ELSE EndCall(t, op[t] = "transaction" /\ step[t] = "rollback")
    /\ UNCHANGED calls

InBody(t) == op[t] = "transaction" /\ step[t] = "body"

\* A request returns.  After the write of a transaction, fn may call another
\* one, inside or after it, throw, or be done.
Returns(t) ==
    \/ Done(t)
    \/ InBody(t) /\ (Throws(t) \/ \E n \in 1..nest[t] : Nests(t, n))

\* A request throws.  The fn around an inner transaction may handle it.
Fails(t) ==
    \/ Throws(t)
    \/ InBody(t) /\ nest[t] > 1 /\ (Done(t) \/ \E n \in 1..(nest[t] - 1) : Nests(t, n))

----------------------------------------------------------------------------
(* Calls of the program *)

Quiet == \A t \in Task : pc[t] \notin {"woken", "wokenReauth", "rejected"}

Begin(t, o) ==
    /\ Quiet /\ pc[t] = "idle" /\ calls < MaxCalls /\ calls' = calls + 1
    /\ op' = [op EXCEPT ![t] = o]
    /\ failed' = [failed EXCEPT ![t] = FALSE]
    /\ UNCHANGED <<session, live, issued, config, drops, faults, disconnects>>

\* connect(), or a method of a resource.
Call(t) ==
    /\ \E o \in {"connect", "request"} : Begin(t, o) /\ Request(t, "none", o)
    /\ UNCHANGED block

\* Tasks whose call settles what is pending.
Settling == {t \in Task : pc[t] # "idle" /\ op[t] \in {"transaction", "commit", "rollback"}}

Meets(t) ==
    overlapped' = IF Settling = {} THEN overlapped ELSE overlapped \cup Settling \cup {t}

\* commit() and rollback(), outside of the caller's own transactions.
Manual(t) ==
    /\ \E o \in {"commit", "rollback"} : Begin(t, o) /\ Request(t, o, o)
    /\ Meets(t) /\ UNCHANGED <<depth, nest, outermost>>

\* transaction(): the body's first request is a write.  Inner ones never find the
\* depth at zero, since it counts the ones around them.
Transaction(t) ==
    /\ t \notin saved \cup staged /\ 0 < MaxNest     \* one write for each task
    /\ Begin(t, "transaction")
    /\ depth' = depth + 1 /\ nest' = [nest EXCEPT ![t] = 1]
    /\ outermost' = [outermost EXCEPT ![t] = depth = 0]
    /\ Meets(t) /\ Request(t, "body", "transaction")

\* logout(): nothing to do, or the DELETE is sent and waited for.
Disconnect(t) ==
    /\ Quiet /\ pc[t] = "idle" /\ session # NoSession
    /\ disconnects < MaxDisconnects /\ disconnects' = disconnects + 1
    /\ pc' = [pc EXCEPT ![t] = "logout"] /\ token' = [token EXCEPT ![t] = session]
    /\ op' = [op EXCEPT ![t] = "disconnect"]
    /\ UNCHANGED <<auth, block, step, retrying, awaited, failed, live, issued,
                   config, calls, drops, faults>>

----------------------------------------------------------------------------
(* Answers, and what runs when they arrive *)

Fault == faults < MaxFaults /\ faults' = faults + 1 /\ UNCHANGED <<drops, disconnects>>

\* How an awaited login goes on.
Outcome(ok) == IF ok THEN "woken" ELSE "rejected"

\* Mutant: only callers that wait for the login authPromise holds are told.
SettleCurrent(t, ok) ==
    /\ pc' = [u \in Task |->
          IF u = t \/ (authPromise = t /\ pc[u] = "waitEnsure") THEN Outcome(ok)
          ELSE IF authPromise = t /\ pc[u] = "waitReauth" THEN "wokenReauth"
          ELSE pc[u]]
    /\ authPromise' = NoTask
    /\ awaited' = [u \in Task |-> IF pc'[u] = pc[u] THEN awaited[u] ELSE NoTask]
    /\ UNCHANGED <<block, op, step, retrying, token, failed, config>>

\* The login of t settles: whoever awaits it is ready, and the finally of its
\* promise clears this.authPromise, whichever login that holds by now.
Settle(t, ok) ==
    /\ pc' = [u \in Task |->
          IF u = t \/ (pc[u] = "waitEnsure" /\ awaited[u] = t) THEN Outcome(ok)
          ELSE IF pc[u] = "waitReauth" /\ awaited[u] = t THEN "wokenReauth"
          ELSE pc[u]]
    /\ authPromise' = NoTask
    /\ awaited' = [u \in Task |-> IF pc'[u] = pc[u] THEN awaited[u] ELSE NoTask]
    /\ UNCHANGED <<block, op, step, retrying, token, failed, config>>

\* The digest or the basic exchange has granted a session.  (The challenge before
\* it changes nothing and is part of the wait.)
LoggedIn(t) ==
    /\ Quiet /\ pc[t] = "login"
    /\ issued' = issued + 1 /\ live' = live \cup {issued'} /\ session' = issued'
    /\ Settle(t, TRUE) /\ UNCHANGED counts

\* The login is refused, or its answer is lost.
LoginFails(t) ==
    /\ Quiet /\ pc[t] = "login" /\ Fault
    /\ Settle(t, FALSE) /\ UNCHANGED <<session, calls>>
    /\ \/ UNCHANGED <<live, issued>>
       \/ issued' = issued + 1 /\ live' = live \cup {issued'}

\* After the login it waited for: send the request, or the error is thrown.
Resume(t) ==
    /\ pc[t] = "woken"
    /\ IF op[t] = "connect" THEN EndCall(t, FALSE)
       ELSE Send(t) /\ UNCHANGED <<op, step, retrying, failed, block>>
    /\ UNCHANGED <<session, live, issued, config, counts>>

Reject(t) ==
    /\ pc[t] = "rejected"
    /\ Fails(t)
    /\ UNCHANGED <<session, live, issued, config, others>>

\* reauthenticate waited for a login in progress; now it starts its own.
LoginAfterAll(t) ==
    /\ pc[t] = "wokenReauth" /\ StartLogin(t)
    /\ UNCHANGED <<session, block, op, step, retrying, failed, live, issued, config, counts>>

\* The device carries out a request that comes with a live session.
Serve(t) ==
    CASE step[t] = "body"     -> staged' = staged \cup {t} /\ UNCHANGED saved
      [] step[t] = "commit"   -> saved' = saved \cup staged /\ staged' = {}
      [] step[t] = "rollback" -> staged' = {} /\ UNCHANGED saved
      [] step[t] = "none"     -> UNCHANGED config

Answered(t) ==
    /\ Quiet /\ pc[t] = "sent" /\ token[t] \in live
    /\ Serve(t) /\ Returns(t)
    /\ UNCHANGED <<session, live, issued, others>>

\* Mutant: a login in progress is not waited for.
RetriesAtOnce(t) == IF authPromise = NoTask THEN StartLogin(t) ELSE Send(t)
\* reauthenticate, up to its first await.
Reauthenticate(t) ==
    IF authPromise = NoTask THEN StartLogin(t) ELSE Await(t, "waitReauth")

\* 401 or code 1085: forget the session and log in again, once.
Expired(t) ==
    /\ Quiet /\ pc[t] = "sent" /\ token[t] \notin live
    /\ IF retrying[t]
       THEN Fails(t) /\ UNCHANGED session
       ELSE /\ session' = NoSession
            /\ retrying' = [retrying EXCEPT ![t] = TRUE]
            /\ Reauthenticate(t) /\ UNCHANGED <<op, step, failed, block, calls>>
    /\ UNCHANGED <<live, issued, config, others>>

\* fetch rejects; the device may have carried the request out.
Lost(t) ==
    /\ Quiet /\ pc[t] = "sent" /\ Fault
    /\ UNCHANGED config \/ (token[t] \in live /\ Serve(t))
    /\ Fails(t) /\ UNCHANGED <<session, live, issued>>

\* The answer to the DELETE, or none: the session of the moment is forgotten.
LoggedOut(t) ==
    /\ Quiet /\ pc[t] = "logout"
    /\ \/ live' = live \ {token[t]} /\ UNCHANGED counts
       \/ UNCHANGED <<live, calls>> /\ Fault
    /\ session' = NoSession
    /\ Idle(t)
    /\ UNCHANGED <<block, op, step, retrying, failed, issued, config>>

\* The device ends a session: its idle timeout, or another administrator.
Drop ==
    /\ Quiet /\ drops < MaxDrops /\ drops' = drops + 1
    /\ \E s \in live : live' = live \ {s}
    /\ UNCHANGED <<auth, block, pc, op, step, retrying, awaited, token, failed, issued,
                   config, calls, faults, disconnects>>

TaskStep(t) ==
    \/ LoggedIn(t) \/ Resume(t) \/ Reject(t) \/ LoginAfterAll(t)
    \/ Answered(t) \/ Expired(t) \/ LoggedOut(t)

Next ==
    \/ \E t \in Task : \/ Call(t) \/ Manual(t) \/ Transaction(t) \/ Disconnect(t)
                       \/ TaskStep(t) \/ LoginFails(t) \/ Lost(t)
    \/ Drop

Spec == Init /\ [][Next]_vars

----------------------------------------------------------------------------
(* Properties *)

\* Calls that find no session share one login.  Only an expiry makes callers log
\* in beside each other, and each of them does so at most once for it: a client
\* that keeps its session uses one of the few the device grants.
SessionsPerDrop ==
    disconnects = 0 => issued <= 1 + Cardinality(Task) * drops + faults

\* One dropped session is not seen by the callers, however their answers, their
\* logins and the sessions those overwrite interleave.
OneDropHidden ==
    drops <= 1 /\ disconnects = 0 /\ faults = 0 =>
        \A t \in Task : pc[t] = "idle" /\ op[t] # "transaction" => ~failed[t]

\* transaction(): its caller returns only after the write is saved, also if inner
\* transactions failed and were handled, unless another transaction of the client
\* overlapped it: then the depth they share leaves the commit to the one that
\* began first.
Ended(t) == pc[t] = "idle" /\ op[t] = "transaction"
CommittedUnlessOverlapped ==
    \A t \in Task : Ended(t) /\ ~failed[t] /\ t \notin overlapped => t \in saved

\* A transaction that throws has saved nothing and left nothing pending, as long
\* as no exchange failed and no two sessions were dropped.
ThrownLeavesNothing ==
    drops <= 1 /\ disconnects = 0 /\ faults = 0 =>
        \A t \in Task : Ended(t) /\ failed[t] /\ t \notin overlapped =>
            t \notin saved \cup staged

\* Nobody waits in vain: a caller that waits for a login waits for one that is
\* still to settle, even when another login has overwritten this.authPromise or
\* the end of an older one has cleared it.
WaitersHaveALogin ==
    \A t \in Task : pc[t] \in {"waitEnsure", "waitReauth"} =>
        pc[awaited[t]] = "login"
=============================================================================
