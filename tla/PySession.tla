------------------------------ MODULE PySession ------------------------------
(****************************************************************************)
(* The session layer of the Python SDK: AuthManager (_auth.py), HTTPClient  *)
(* (_http.py) and the lifecycle of SonicWallClient (_client.py), used by    *)
(* several asyncio tasks that share one client.                             *)
(*                                                                          *)
(* A task only gives up the event loop at an await.  Every action below is  *)
(* one segment of a coroutine between two awaits, so an action may contain  *)
(* several statements of several functions, and what a task read before an  *)
(* await may be stale after it.  An HTTP exchange is three actions: the     *)
(* segment that sends it, the device's step, and the segment resumed by the *)
(* reply.  Tokens are numbered in the order in which the device opened the  *)
(* sessions; 0 is Python's None.  _authenticated is always written together *)
(* with _bearer_token, so token # 0 stands for is_authenticated.            *)
(****************************************************************************)
EXTENDS Integers, Sequences, FiniteSets

CONSTANTS
    Task,          \* asyncio tasks sharing the client
    NoTask,        \* nobody: the asyncio.Lock is free
    Calls,         \* the operations the tasks use
    Scoped,        \* the lifecycle operations the callers do not race: see InScope
    SessionLimit,  \* admin sessions the device allows at a time
    MaxCalls,      \* bound: operations started
    MaxDrops,      \* bound: sessions the device times out
    MaxFaults      \* bound: lost exchanges, refused logins and cancellations

ASSUME NoTaskAssumption == NoTask \notin Task
ASSUME FiniteTasks == IsFiniteSet(Task)
ASSUME CallsAssumption == Calls \subseteq {"request", "connect", "disconnect"}
ASSUME ScopedAssumption == Scoped \subseteq {"connect", "disconnect"}
ASSUME BoundsAssumption ==
    /\ SessionLimit \in Nat
    /\ MaxCalls \in Nat
    /\ MaxDrops \in Nat
    /\ MaxFaults \in Nat

VARIABLES
    token,     \* AuthManager._bearer_token
    httpx,     \* state of the httpx client
    holder,    \* the task holding AuthManager._lock
    waiters,   \* the tasks waiting for it, first come first served
    pc,        \* where each task is suspended
    phase,     \* which call of authenticate or _do_request it is in
    wire,      \* state of its HTTP exchange
    carried,   \* session its exchange carries or has just been granted
    first,     \* session its request's first attempt was refused with
    outcome,   \* what its last operation returned
    live,      \* device: open sessions
    issued,    \* device: sessions opened so far
    applied,   \* device: how often it has carried out the task's request
    newest,    \* history: the youngest session the client ever held
    calls, drops, faults

clientVars == <<token, httpx, newest>>
lockVars   == <<holder, waiters>>
deviceVars == <<live, issued>>
bounds     == <<calls, drops, faults>>
vars == <<clientVars, lockVars, pc, phase, wire, carried, first, outcome,
          deviceVars, applied, bounds>>

closed == httpx = "closed"
InAuth(t) == pc[t] \in {"challenge", "credentials"}
\* ensure_authenticated and reauthenticate hold the lock; connect does not.
Locked(t) == InAuth(t) /\ phase[t] \in {"ensure", "reauth"}

Place == {"idle", "wait", "challenge", "credentials", "request", "logout"}
Phase == {"none", "connect", "ensure", "reauth"}
Exchange == {"none", "sent", "challenge", "denied", "granted", "ok", "expired"}
Result == {"none", "ok", "auth_error", "error"}

TypeOK ==
    /\ token \in Nat
    /\ httpx \in {"open", "closed"}
    /\ holder \in Task \cup {NoTask}
    /\ waiters \in Seq(Task)
    /\ pc \in [Task -> Place]
    /\ phase \in [Task -> Phase]
    /\ wire \in [Task -> Exchange]
    /\ carried \in [Task -> Nat]
    /\ first \in [Task -> Nat]
    /\ outcome \in [Task -> Result]
    /\ live \subseteq Nat
    /\ issued \in Nat
    /\ applied \in [Task -> Nat]
    /\ newest \in Nat
    /\ calls \in Nat /\ drops \in Nat /\ faults \in Nat

Init ==
    /\ token = 0
    /\ httpx = "open"
    /\ holder = NoTask
    /\ waiters = <<>>
    /\ pc = [t \in Task |-> "idle"]
    /\ phase = [t \in Task |-> "none"]
    /\ wire = [t \in Task |-> "none"]
    /\ carried = [t \in Task |-> 0]
    /\ first = [t \in Task |-> 0]
    /\ outcome = [t \in Task |-> "none"]
    /\ live = {}
    /\ issued = 0
    /\ applied = [t \in Task |-> 0]
    /\ newest = 0
    /\ calls = 0 /\ drops = 0 /\ faults = 0

----------------------------------------------------------------------------
(* Pieces shared by the actions *)

Suspend(t, where, exchange, tok) ==
    /\ pc' = [pc EXCEPT ![t] = where]
    /\ wire' = [wire EXCEPT ![t] = exchange]
    /\ carried' = [carried EXCEPT ![t] = tok]

\* Mutant of Return: SessionExpiredError comes out as the bare reply.
ReturnsReply(t, result) ==
    /\ Suspend(t, "idle", "none", 0)
    /\ outcome' = [outcome EXCEPT
                     ![t] = IF wire[t] = "expired" THEN wire[t] ELSE result]

Return(t, result) ==
    /\ Suspend(t, "idle", "none", 0)
    /\ outcome' = [outcome EXCEPT ![t] = result]

\* A closed httpx client raises RuntimeError instead of sending.
Send(t, where, tok) ==
    IF closed
    THEN Return(t, "error")
    ELSE Suspend(t, where, "sent", tok) /\ UNCHANGED outcome

\* Leaving `async with self._lock`: the first waiter gets the lock.
Release ==
    IF waiters = <<>>
    THEN holder' = NoTask /\ UNCHANGED waiters
    ELSE holder' = Head(waiters) /\ waiters' = Tail(waiters)

\* Mutant of AcquireAndAuthenticate: no lock.
AuthenticatesWithoutLock(t) == Send(t, "challenge", 0) /\ UNCHANGED lockVars

\* Entering `async with self._lock` on a free lock does not suspend, so the
\* handshake starts in the same segment (and fails in it on a closed client).
AcquireAndAuthenticate(t) ==
    IF holder = NoTask
    THEN /\ Send(t, "challenge", 0)
         /\ holder' = (IF closed THEN NoTask ELSE t)
         /\ UNCHANGED waiters
    ELSE /\ Suspend(t, "wait", "none", 0)
         /\ waiters' = Append(waiters, t)
         /\ UNCHANGED <<holder, outcome>>

\* The handshake started by a task that has just been handed the lock.
AuthenticateOrRelease(t) ==
    /\ Send(t, "challenge", 0)
    /\ IF closed THEN Release ELSE UNCHANGED lockVars

\* authenticate raises: an `async with` block, if any, releases the lock.
AuthFails(t, result) ==
    /\ Return(t, result)
    /\ IF phase[t] = "connect" THEN UNCHANGED lockVars ELSE Release

\* How the callers use the client.  With "connect" in Scoped, connect() is the
\* first call and is awaited before the next one starts, as `async with client`
\* does; with "disconnect" in Scoped, no other call overlaps disconnect(), as
\* none does when the body of the `async with` has joined the tasks it spawned.
Connecting == \E u \in Task : InAuth(u) /\ phase[u] = "connect"

InScope(op) ==
    /\ "connect" \in Scoped =>
          IF op = "connect" THEN calls = 0 ELSE ~Connecting
    /\ "disconnect" \in Scoped =>
          IF op = "disconnect" THEN \A u \in Task : pc[u] = "idle"
                               ELSE \A u \in Task : pc[u] # "logout"

Start(t, op) ==
    /\ pc[t] = "idle"
    /\ op \in Calls /\ InScope(op)
    /\ calls < MaxCalls
    /\ calls' = calls + 1
    /\ UNCHANGED <<drops, faults>>

----------------------------------------------------------------------------
(* HTTPClient.request and AuthManager.ensure_authenticated *)

Request(t) ==
    /\ Start(t, "request")
    /\ phase' = [phase EXCEPT ![t] = "ensure"]
    /\ first' = [first EXCEPT ![t] = 0]
    /\ applied' = [applied EXCEPT ![t] = 0]
    /\ IF token # 0
       THEN Send(t, "request", token) /\ UNCHANGED lockVars
       ELSE AcquireAndAuthenticate(t)
    /\ UNCHANGED <<clientVars, deviceVars>>

\* Mutant of EnsureGranted: no second check under the lock.
EnsureGrantedUnchecked(t) ==
    /\ pc[t] = "wait" /\ phase[t] = "ensure" /\ holder = t
    /\ AuthenticateOrRelease(t)
    /\ UNCHANGED <<clientVars, phase, first, deviceVars, applied, bounds>>

\* The second check, under the lock.
EnsureGranted(t) ==
    /\ pc[t] = "wait" /\ phase[t] = "ensure" /\ holder = t
    /\ IF token # 0
       THEN Send(t, "request", token) /\ Release
       ELSE AuthenticateOrRelease(t)
    /\ UNCHANGED <<clientVars, phase, first, deviceVars, applied, bounds>>

ReplyOk(t) ==
    /\ pc[t] = "request" /\ wire[t] = "ok"
    /\ Return(t, "ok")
    /\ UNCHANGED <<clientVars, lockVars, phase, first, deviceVars, applied,
                   bounds>>

\* Mutants of ReplyExpired: the retry is sent without a new login; any answer is
\* taken for an expired session; there is no retry.
RetriesWithoutLogin(t) ==
    /\ pc[t] = "request" /\ wire[t] = "expired" /\ phase[t] = "ensure"
    /\ phase' = [phase EXCEPT ![t] = "reauth"]
    /\ first' = [first EXCEPT ![t] = carried[t]]
    /\ Send(t, "request", token)
    /\ UNCHANGED <<clientVars, lockVars, deviceVars, applied, bounds>>

RetriesAnyAnswer(t) ==
    /\ pc[t] = "request" /\ wire[t] \in {"expired", "ok"} /\ phase[t] = "ensure"
    /\ phase' = [phase EXCEPT ![t] = "reauth"]
    /\ first' = [first EXCEPT ![t] = carried[t]]
    /\ AcquireAndAuthenticate(t)
    /\ token' = (IF holder = NoTask THEN 0 ELSE token)
    /\ UNCHANGED <<httpx, newest, deviceVars, applied, bounds>>

NeverRetries(t) ==
    /\ pc[t] = "request" /\ wire[t] = "expired" /\ phase[t] = "ensure"
    /\ Return(t, "auth_error")
    /\ UNCHANGED <<clientVars, lockVars, phase, first, deviceVars, applied,
                   bounds>>

\* 401 or code 1085 on the first attempt: reauthenticate, then retry.
ReplyExpired(t) ==
    /\ pc[t] = "request" /\ wire[t] = "expired" /\ phase[t] = "ensure"
    /\ phase' = [phase EXCEPT ![t] = "reauth"]
    /\ first' = [first EXCEPT ![t] = carried[t]]
    /\ AcquireAndAuthenticate(t)
    /\ token' = (IF holder = NoTask THEN 0 ELSE token)
    /\ UNCHANGED <<httpx, newest, deviceVars, applied, bounds>>

\* The retry was refused as well: _raise_for_status.
RetryExpired(t) ==
    /\ pc[t] = "request" /\ wire[t] = "expired" /\ phase[t] = "reauth"
    /\ Return(t, "auth_error")
    /\ UNCHANGED <<clientVars, lockVars, phase, first, deviceVars, applied,
                   bounds>>

\* reauthenticate drops the token without looking at who set it, or when.
ReauthGranted(t) ==
    /\ pc[t] = "wait" /\ phase[t] = "reauth" /\ holder = t
    /\ token' = 0
    /\ AuthenticateOrRelease(t)
    /\ UNCHANGED <<httpx, newest, phase, first, deviceVars, applied, bounds>>

----------------------------------------------------------------------------
(* AuthManager.authenticate *)

\* SonicWallClient.connect calls authenticate without the lock.
Connect(t) ==
    /\ Start(t, "connect")
    /\ phase' = [phase EXCEPT ![t] = "connect"]
    /\ Send(t, "challenge", 0)
    /\ UNCHANGED <<clientVars, lockVars, first, deviceVars, applied>>

ChallengeReceived(t) ==
    /\ pc[t] = "challenge" /\ wire[t] = "challenge"
    /\ IF closed
       THEN AuthFails(t, "error")
       ELSE Send(t, "credentials", 0) /\ UNCHANGED lockVars
    /\ UNCHANGED <<clientVars, phase, first, deviceVars, applied, bounds>>

\* Mutant of AuthRefused: the login is tried again, for ever.
AuthTriedAgain(t) ==
    /\ InAuth(t) /\ wire[t] = "denied"
    /\ IF closed
       THEN AuthFails(t, "auth_error")
       ELSE Send(t, "challenge", 0) /\ UNCHANGED lockVars
    /\ UNCHANGED <<clientVars, phase, first, deviceVars, applied, bounds>>

AuthRefused(t) ==
    /\ InAuth(t) /\ wire[t] = "denied"
    /\ AuthFails(t, "auth_error")
    /\ UNCHANGED <<clientVars, phase, first, deviceVars, applied, bounds>>

\* The token is stored, the lock released and the request sent with it, all
\* before the task can be suspended again.
TokenReceived(t) ==
    /\ pc[t] = "credentials" /\ wire[t] = "granted"
    /\ token' = carried[t]
    /\ newest' = (IF carried[t] > newest THEN carried[t] ELSE newest)
    /\ IF phase[t] = "connect"
       THEN Return(t, "ok") /\ UNCHANGED lockVars
       ELSE Send(t, "request", carried[t]) /\ Release
    /\ UNCHANGED <<httpx, phase, first, deviceVars, applied, bounds>>

----------------------------------------------------------------------------
(* SonicWallClient.disconnect and AuthManager.logout *)

\* Not authenticated: logout returns at once and the client is closed.  A
\* DELETE that a closed client cannot send is swallowed; the token is wiped.
Disconnect(t) ==
    /\ Start(t, "disconnect")
    /\ phase' = [phase EXCEPT ![t] = "none"]
    /\ IF token = 0 \/ closed
       THEN Return(t, "ok") /\ token' = 0 /\ httpx' = "closed"
       ELSE Send(t, "logout", token) /\ UNCHANGED <<token, httpx>>
    /\ UNCHANGED <<newest, lockVars, first, deviceVars, applied>>

\* `finally`: whatever token is stored by now is wiped.
LoggedOut(t) ==
    /\ pc[t] = "logout" /\ wire[t] = "ok"
    /\ Return(t, "ok")
    /\ token' = 0
    /\ httpx' = "closed"
    /\ UNCHANGED <<newest, lockVars, phase, first, deviceVars, applied,
                   bounds>>

----------------------------------------------------------------------------
(* Failures: timeouts, broken connections, cancellation *)

Fault ==
    /\ faults < MaxFaults \/ closed
    /\ faults' = faults + 1
    /\ UNCHANGED <<calls, drops>>

\* The exchange breaks off, before or after the device has acted on it.
\* Closing the client breaks off the exchanges still open.
ExchangeLost(t) ==
    /\ Fault
    /\ \/ InAuth(t) /\ AuthFails(t, "error") /\ UNCHANGED <<token, httpx>>
       \/ /\ pc[t] = "request"
          /\ Return(t, "error")
          /\ UNCHANGED <<token, httpx, lockVars>>
       \/ /\ pc[t] = "logout"
          /\ Return(t, "ok")
          /\ token' = 0 /\ httpx' = "closed"
          /\ UNCHANGED lockVars
    /\ UNCHANGED <<newest, phase, first, deviceVars, applied>>

\* The task is cancelled while it waits for the lock (asyncio hands the lock
\* on if it had just been given to it).
CancelWaiting(t) ==
    /\ pc[t] = "wait"
    /\ Fault
    /\ IF holder = t
       THEN Release
       ELSE /\ UNCHANGED holder
            /\ \E i \in 1..Len(waiters) :
                 /\ waiters[i] = t
                 /\ waiters' = SubSeq(waiters, 1, i - 1) \o
                               SubSeq(waiters, i + 1, Len(waiters))
    /\ Return(t, "error")
    /\ UNCHANGED <<clientVars, phase, first, deviceVars, applied>>

\* CancelledError is no Exception: the token is wiped, aclose is not reached.
CancelLogout(t) ==
    /\ pc[t] = "logout"
    /\ Fault
    /\ Return(t, "error")
    /\ token' = 0
    /\ UNCHANGED <<httpx, newest, lockVars, phase, first, deviceVars, applied>>

----------------------------------------------------------------------------
(* The device (SonicOS, external) *)

Answer(t, reply, tok) ==
    /\ wire' = [wire EXCEPT ![t] = reply]
    /\ carried' = [carried EXCEPT ![t] = tok]
    /\ UNCHANGED <<clientVars, lockVars, pc, phase, first, outcome>>

DeviceChallenge(t) ==
    /\ pc[t] = "challenge" /\ wire[t] = "sent"
    /\ Answer(t, "challenge", 0)
    /\ UNCHANGED <<deviceVars, applied, bounds>>

DeviceLogin(t) ==
    /\ pc[t] = "credentials" /\ wire[t] = "sent"
    /\ IF Cardinality(live) < SessionLimit
       THEN /\ issued' = issued + 1
            /\ live' = live \cup {issued + 1}
            /\ Answer(t, "granted", issued + 1)
       ELSE /\ Answer(t, "denied", 0)
            /\ UNCHANGED deviceVars
    /\ UNCHANGED <<applied, bounds>>

DeviceRefuses(t) ==
    /\ InAuth(t) /\ wire[t] = "sent"
    /\ ~closed
    /\ Fault
    /\ Answer(t, "denied", 0)
    /\ UNCHANGED <<deviceVars, applied>>

DeviceServe(t) ==
    /\ pc[t] = "request" /\ wire[t] = "sent"
    /\ IF carried[t] \in live
       THEN /\ applied' = [applied EXCEPT ![t] = @ + 1]
            /\ Answer(t, "ok", carried[t])
       ELSE /\ Answer(t, "expired", carried[t])
            /\ UNCHANGED applied
    /\ UNCHANGED <<deviceVars, bounds>>

DeviceLogout(t) ==
    /\ pc[t] = "logout" /\ wire[t] = "sent"
    /\ live' = live \ {carried[t]}
    /\ Answer(t, "ok", carried[t])
    /\ UNCHANGED <<issued, applied, bounds>>

\* The idle timeout closes a session.
DeviceDrops ==
    /\ drops < MaxDrops
    /\ \E s \in live : live' = live \ {s}
    /\ drops' = drops + 1
    /\ UNCHANGED <<clientVars, lockVars, pc, phase, wire, carried, first,
                   outcome, issued, applied, calls, faults>>

----------------------------------------------------------------------------
ClientStep(t) ==
    \/ EnsureGranted(t) \/ ReauthGranted(t)
    \/ ChallengeReceived(t) \/ AuthRefused(t) \/ TokenReceived(t)
    \/ ReplyOk(t) \/ ReplyExpired(t) \/ RetryExpired(t) \/ LoggedOut(t)

DeviceStep(t) ==
    \/ DeviceChallenge(t) \/ DeviceLogin(t)
    \/ DeviceServe(t) \/ DeviceLogout(t)

\* Everybody is done and the bound on operations is used up.
Rest ==
    /\ calls = MaxCalls
    /\ \A t \in Task : pc[t] = "idle"
    /\ UNCHANGED vars

Next ==
    \/ \E t \in Task :
         \/ Request(t) \/ Connect(t) \/ Disconnect(t)
         \/ ClientStep(t)
         \/ DeviceStep(t) \/ DeviceRefuses(t)
         \/ ExchangeLost(t) \/ CancelWaiting(t) \/ CancelLogout(t)
    \/ DeviceDrops
    \/ Rest

Spec == Init /\ [][Next]_vars

\* The event loop runs every task that is ready, and an exchange is answered
\* or broken off by httpx's timeout.  Nobody has to start a call.
Fairness == \A t \in Task : WF_vars(ClientStep(t)) /\ WF_vars(DeviceStep(t))

FairSpec == Spec /\ Fairness
----------------------------------------------------------------------------
(* Properties *)

\* The handshakes of ensure_authenticated and reauthenticate exclude each
\* other, across every lock hand-over, error and cancellation: a task is in
\* one only while it holds AuthManager._lock.  connect() is not covered.
LockExcludes == \A t \in Task : Locked(t) => holder = t

\* No request leaves without a session, and a retry never repeats the session
\* that was refused: between the last check of the token and the reading of it
\* in _do_request no other task runs, although others clear it all the time.
CarriesFreshToken(t) ==
    pc[t] = "request" =>
        carried[t] > (IF phase[t] = "reauth" THEN first[t] ELSE 0)

RequestsCarryFreshToken == \A t \in Task : CarriesFreshToken(t)

\* The inductive invariant behind these two.  A retry is only known to carry a
\* newer session because the device numbers sessions upwards, every session the
\* client knows has been issued, and the session granted to a handshake is
\* younger than the one its task was refused with.
TaskInv(t) ==
    /\ InAuth(t) => phase[t] # "none"
    /\ CarriesFreshToken(t)
    /\ first[t] <= issued /\ carried[t] <= issued
    /\ wire[t] = "granted" => pc[t] = "credentials" /\ carried[t] > first[t]

SessionInv ==
    /\ LockExcludes
    /\ token <= issued
    /\ \A t \in Task : TaskInv(t)

\* Used as a context manager, the client never goes back to a session older
\* than one it has already used, whatever the order of replies, timeouts and
\* logouts.  connect() racing a request breaks this (it takes no lock).
NeverFallsBack == "connect" \in Scoped => token \in {0, newest}

\* A request that is retried is never carried out twice, and a caller that
\* gets an answer gets the answer of a request that was carried out.
ExactlyOnce ==
    \A t \in Task : /\ applied[t] <= 1
                    /\ outcome[t] = "ok" /\ phase[t] \in {"ensure", "reauth"}
                         /\ pc[t] = "idle" => applied[t] = 1

\* Sessions the device has closed: timed out or logged out.
closings == issued - Cardinality(live)

\* Tasks that find no session share the one that is being opened, so it takes a
\* closed session to open a further one, and then at most one per task, because
\* each may have sent a request with the old one.  A lost exchange may cost one
\* more (ensure_authenticated, reauthenticate).  The sessions the client leaves
\* open on the device, overwritten without a logout, are bounded alike.
SessionsBounded ==
    "connect" \in Scoped =>
        issued <= 1 + Cardinality(Task) * closings + faults

\* Expiry is transparent: a request only fails to authenticate when the device
\* has closed two sessions on it, its first one and the renewed one
\* (HTTPClient.request), unless the client is being closed.
ExpiryTransparent ==
    faults = 0 /\ ~closed =>
        \A t \in Task : outcome[t] = "auth_error" => closings >= 2

\* Every operation returns: no failure, cancellation or refused login leaves
\* the lock taken, and the hand-over reaches every waiter.
EveryCallReturns == \A t \in Task : pc[t] # "idle" ~> pc[t] = "idle"
=============================================================================
