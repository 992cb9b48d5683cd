---------------------------- MODULE ThreadClient ----------------------------
(****************************************************************************)
(* The Go client (auth.go, client.go, commit.go) and the Java client        *)
(* (AuthManager, ApiTransport, SonicWallClient), used by several threads.   *)
(*                                                                          *)
(* Both guard the session with a mutex that is held for a whole login, take *)
(* it again to read the token of a request, and send requests without it.   *)
(* They differ in what a transaction does when its commit fails.  The SDK   *)
(* is chosen in Init.  An action reaches from one wait (for the mutex or an *)
(* answer) to the next; the device acts when its answer arrives.            *)
(****************************************************************************)
EXTENDS Naturals, FiniteSets

CONSTANTS
    Thread,          \* threads or goroutines that share a client
    NoThread,        \* the mutex is free
    MaxCalls,        \* bound: calls begun
    MaxDrops,        \* bound: sessions the device drops
    MaxFaults,       \* bound: exchanges that fail, and refused logins
    MaxDisconnects   \* bound: logouts

ASSUME NoThreadAssumption == NoThread \notin Thread
ASSUME FiniteThreads == IsFiniteSet(Thread)
ASSUME ThreadBoundsAssumption ==
    MaxCalls \in Nat /\ MaxDrops \in Nat /\ MaxFaults \in Nat /\ MaxDisconnects \in Nat

NoSession == 0

VARIABLES
    sdk,          \* "go" or "java"
    session,      \* the token or cookie; NoSession when cleared
    holder,       \* the thread that holds the mutex across an exchange
    pc,           \* what each thread waits for
    op, step,     \* the call it makes, and the request of it
    retrying,     \* is the request the one after reauthenticate?
    token,        \* what its exchange in flight carries
    failed,       \* did its last call fail?
    thrownAt,     \* history: the last step of a transaction that failed
    live, issued, \* device: sessions, and how many it has granted
    staged, saved,\* device: threads whose write is pending, or saved
    overlapped,   \* history: threads whose transaction met another one
    calls, drops, faults, disconnects

config == <<staged, saved>>
device == <<live, issued>>
counts == <<calls, drops, faults, disconnects>>
vars == <<sdk, session, holder, pc, op, step, retrying, token, failed, thrownAt,
          device, config, overlapped, counts>>

Place == {"idle", "ensure", "login", "ready", "sent", "reauth",
          "logout", "deleting"}
Op == {"connect", "request", "transaction", "disconnect"}
Step == {"none", "body", "commit", "rollback"}

TypeOK ==
    /\ sdk \in {"go", "java"} /\ session \in 0..issued
    /\ holder \in Thread \cup {NoThread}
    /\ pc \in [Thread -> Place] /\ op \in [Thread -> Op] /\ step \in [Thread -> Step]
    /\ retrying \in [Thread -> BOOLEAN] /\ token \in [Thread -> 0..issued]
    /\ failed \in [Thread -> BOOLEAN] /\ thrownAt \in [Thread -> Step]
    /\ live \subseteq 1..issued /\ issued \in Nat
    /\ staged \subseteq Thread /\ saved \subseteq Thread /\ overlapped \subseteq Thread
    /\ \A t \in Thread : pc[t] = "idle" =>
          token[t] = NoSession /\ step[t] = "none" /\ ~retrying[t]

Init ==
    /\ sdk \in {"go", "java"} /\ session = NoSession /\ holder = NoThread
    /\ pc = [t \in Thread |-> "idle"] /\ op = [t \in Thread |-> "request"]
    /\ step = [t \in Thread |-> "none"] /\ retrying = [t \in Thread |-> FALSE]
    /\ token = [t \in Thread |-> NoSession] /\ failed = [t \in Thread |-> FALSE]
    /\ thrownAt = [t \in Thread |-> "none"]
    /\ live = {} /\ issued = 0 /\ staged = {} /\ saved = {} /\ overlapped = {}
    /\ calls = 0 /\ drops = 0 /\ faults = 0 /\ disconnects = 0

----------------------------------------------------------------------------
(* From one wait to the next *)

Wait(t, place) == pc' = [pc EXCEPT ![t] = place]
Carry(t, s) == token' = [token EXCEPT ![t] = s]

\* The next request of a call waits for the mutex in ensureAuthenticated.
Request(t, s) ==
    /\ Wait(t, "ensure") /\ step' = [step EXCEPT ![t] = s]
    /\ retrying' = [retrying EXCEPT ![t] = FALSE] /\ Carry(t, NoSession)

EndCall(t, fails) ==
    /\ Wait(t, "idle") /\ Carry(t, NoSession)
    /\ failed' = [failed EXCEPT ![t] = fails]
    /\ step' = [step EXCEPT ![t] = "none"] /\ retrying' = [retrying EXCEPT ![t] = FALSE]

\* Mutant: Java's commit is outside of the try block, as in Go.
RollsBackBodyOnly(t) == op[t] = "transaction" /\ step[t] = "body"
\* A failed body is rolled back; so is a failed commit in Java.
RollsBack(t) ==
    op[t] = "transaction" /\ step[t] \in (IF sdk = "java" THEN {"body", "commit"} ELSE {"body"})

Throws(t) ==
    /\ thrownAt' = [thrownAt EXCEPT ![t] = step[t]]
    /\ IF RollsBack(t) THEN Request(t, "rollback") /\ UNCHANGED failed
                       ELSE EndCall(t, TRUE)

\* Mutant: the commit is left to the caller.
CommitsNever(t) == FALSE
Commits(t) == op[t] = "transaction" /\ step[t] = "body"

\* A request succeeds.  The body of a transaction may still fail.
Returns(t) ==
    \/ /\ IF Commits(t) THEN Request(t, "commit") /\ UNCHANGED failed
                        ELSE EndCall(t, step[t] = "rollback")
       /\ UNCHANGED thrownAt
    \/ op[t] = "transaction" /\ step[t] = "body" /\ Throws(t)

----------------------------------------------------------------------------
(* Calls of the program *)

Begin(t, o, s) ==
    /\ pc[t] = "idle" /\ calls < MaxCalls /\ calls' = calls + 1
    /\ op' = [op EXCEPT ![t] = o] /\ failed' = [failed EXCEPT ![t] = FALSE]
    /\ thrownAt' = [thrownAt EXCEPT ![t] = "none"] /\ Request(t, s)
    /\ UNCHANGED <<sdk, session, holder, device, config, drops, faults, disconnects>>

Call(t) == (\E o \in {"connect", "request"} : Begin(t, o, "none")) /\ UNCHANGED overlapped

InBlock == {t \in Thread : pc[t] # "idle" /\ op[t] = "transaction"}

\* The body of a transaction begins with its write; one for each thread.
Transaction(t) ==
    /\ t \notin saved \cup staged /\ Begin(t, "transaction", "body")
    /\ overlapped' = IF InBlock = {} THEN overlapped ELSE overlapped \cup InBlock \cup {t}

Disconnect(t) ==
    /\ pc[t] = "idle" /\ disconnects < MaxDisconnects /\ disconnects' = disconnects + 1
    /\ op' = [op EXCEPT ![t] = "disconnect"] /\ Wait(t, "logout")
    /\ UNCHANGED <<sdk, session, holder, step, retrying, token, failed, thrownAt,
                   device, config, overlapped, calls, drops, faults>>

----------------------------------------------------------------------------
(* With the mutex *)

Local == <<sdk, op, overlapped, config>>
Free == holder = NoThread

\* Mutant: the session is not looked at again with the mutex held.
EnsureByLogin(t) ==
    /\ pc[t] = "ensure" /\ Free
    /\ holder' = t /\ Wait(t, "login")
    /\ UNCHANGED <<Local, session, step, retrying, token, failed, thrownAt, device, counts>>
\* ensureAuthenticated: nothing to do, or a login with the mutex held.
Ensure(t) ==
    /\ pc[t] = "ensure" /\ Free
    /\ IF session = NoSession
       THEN holder' = t /\ Wait(t, "login") /\ UNCHANGED <<step, retrying, token, failed>>
       ELSE /\ UNCHANGED holder
            /\ IF op[t] = "connect" THEN EndCall(t, FALSE)
               ELSE Wait(t, "ready") /\ UNCHANGED <<step, retrying, token, failed>>
    /\ UNCHANGED <<Local, session, thrownAt, device, counts>>

\* reauthenticate: unconditionally, whoever has logged in meanwhile.
Reauthenticate(t) ==
    /\ pc[t] = "reauth" /\ Free
    /\ session' = NoSession /\ holder' = t /\ Wait(t, "login")
    /\ UNCHANGED <<Local, step, retrying, token, failed, thrownAt, device, counts>>

\* The digest or the basic exchange has granted a session.  (The challenge before
\* it changes nothing and is part of the wait.)
LoggedIn(t) ==
    /\ pc[t] = "login"
    /\ issued' = issued + 1 /\ live' = live \cup {issued'} /\ session' = issued'
    /\ holder' = NoThread
    /\ IF op[t] = "connect" THEN EndCall(t, FALSE)
       ELSE Wait(t, "ready") /\ UNCHANGED <<step, retrying, token, failed>>
    /\ UNCHANGED <<Local, thrownAt, counts>>

Fault == faults < MaxFaults /\ faults' = faults + 1 /\ UNCHANGED <<calls, drops, disconnects>>

\* Mutant: an error returns without unlocking.
KeepsLock == UNCHANGED holder
\* defer, or finally.
Unlock == holder' = NoThread

\* The login is refused, or its answer is lost.
LoginFails(t) ==
    /\ pc[t] = "login" /\ Fault /\ Unlock
    /\ \/ UNCHANGED device
       \/ issued' = issued + 1 /\ live' = live \cup {issued'}
    /\ Throws(t)
    /\ UNCHANGED <<Local, session>>

\* authorizationHeader and cookieHeader: they wait for a login in progress.
ReadToken(t) ==
    /\ pc[t] = "ready" /\ Free /\ Wait(t, "sent") /\ Carry(t, session)
    /\ UNCHANGED <<Local, session, holder, step, retrying, failed, thrownAt, device, counts>>

\* logout: take the session away first, then DELETE it without the mutex.
Logout(t) ==
    /\ pc[t] = "logout" /\ Free /\ session' = NoSession
    /\ IF session = NoSession THEN Wait(t, "idle") /\ UNCHANGED token
       ELSE Wait(t, "deleting") /\ Carry(t, session)
    /\ UNCHANGED <<Local, holder, step, retrying, failed, thrownAt, device, counts>>

----------------------------------------------------------------------------
(* Answers *)

\* The device carries out a request that comes with a live session.
Serve(t) ==
    CASE step[t] = "body"     -> staged' = staged \cup {t} /\ UNCHANGED saved
      [] step[t] = "commit"   -> saved' = saved \cup staged /\ staged' = {}
      [] step[t] = "rollback" -> staged' = {} /\ UNCHANGED saved
      [] step[t] = "none"     -> UNCHANGED config

Answered(t) ==
    /\ pc[t] = "sent" /\ token[t] \in live /\ Serve(t) /\ Returns(t)
    /\ UNCHANGED <<sdk, op, overlapped, session, holder, device, counts>>

\* Mutant: an expired session is an error like any other.
NeverRetries(t) == Throws(t)
\* A session that is over: log in again, once.
RetriesOnce(t) ==
    IF retrying[t] THEN Throws(t)
    ELSE /\ retrying' = [retrying EXCEPT ![t] = TRUE] /\ Wait(t, "reauth")
         /\ Carry(t, NoSession) /\ UNCHANGED <<step, failed, thrownAt>>

Expired(t) ==
    /\ pc[t] = "sent" /\ token[t] \notin live /\ RetriesOnce(t)
    /\ UNCHANGED <<Local, session, holder, device, counts>>

\* No answer; the device may have carried the request out.
Lost(t) ==
    /\ pc[t] = "sent" /\ Fault
    /\ UNCHANGED config \/ (token[t] \in live /\ Serve(t))
    /\ Throws(t) /\ UNCHANGED <<sdk, op, overlapped, session, holder, device>>

Deleted(t) ==
    /\ pc[t] = "deleting" /\ Wait(t, "idle") /\ Carry(t, NoSession)
    /\ \/ live' = live \ {token[t]} /\ UNCHANGED counts
       \/ UNCHANGED live /\ Fault
    /\ UNCHANGED <<Local, session, holder, step, retrying, failed, thrownAt, issued>>

Drop ==
    /\ drops < MaxDrops /\ drops' = drops + 1 /\ \E s \in live : live' = live \ {s}
    /\ UNCHANGED <<Local, session, holder, pc, step, retrying, token, failed, thrownAt,
                   issued, calls, faults, disconnects>>

Next ==
    \/ \E t \in Thread :
          \/ Call(t) \/ Transaction(t) \/ Disconnect(t)
          \/ Ensure(t) \/ Reauthenticate(t) \/ LoggedIn(t) \/ LoginFails(t)
          \/ ReadToken(t) \/ Logout(t)
          \/ Answered(t) \/ Expired(t) \/ Lost(t) \/ Deleted(t)
    \/ Drop

Spec == Init /\ [][Next]_vars

----------------------------------------------------------------------------
(* Properties *)

\* The mutex is held across exchanges only by a login under way, whatever that
\* login ends with, or every other thread would wait for ever; and a login holds
\* it throughout, so that no two logins run side by side.
LockIsReleased ==
    /\ holder # NoThread => pc[holder] = "login"
    /\ \A t \in Thread : pc[t] = "login" => holder = t

\* Threads that find no session make one login of it.  Each thread logs in at
\* most once more for each session that is dropped, logged out or, when a login
\* after an expiry fails, given up under it.
SessionsPerLoss ==
    issued <= 1 + Cardinality(Thread) * (drops + disconnects + faults)

\* One dropped session is not seen by the callers: a retry carries a session that
\* lives, even if another thread is replacing it.
OneDropHidden ==
    drops <= 1 /\ disconnects = 0 /\ faults = 0 =>
        \A t \in Thread : pc[t] = "idle" /\ op[t] # "transaction" => ~failed[t]

\* A transaction that returns has saved its write, unless another thread's
\* transaction overlapped it: the pending configuration is shared, and the
\* other's rollback takes this one's writes along.
Ended(t) == pc[t] = "idle" /\ op[t] = "transaction"
CommittedUnlessOverlapped ==
    \A t \in Thread : Ended(t) /\ ~failed[t] /\ t \notin overlapped => t \in saved

\* A failed transaction leaves its write pending only if the rollback failed or,
\* in Go, the commit, after which Transaction does not roll back.
PendingOnlyAfter ==
    \A t \in Thread : Ended(t) /\ failed[t] /\ t \notin overlapped /\ t \in staged =>
        thrownAt[t] \in (IF sdk = "go" THEN {"commit", "rollback"} ELSE {"rollback"})
=============================================================================
