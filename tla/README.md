# Formal verification of the SonicWall SDKs

TLA+ models of the SDKs in `src/packages`, checked by TLC on small instances,
with theorems proved by TLAPS for every value of the constants. The models are
read from the code; where a definition comes from, line by line, is in
`PROJECT.json` ("map").

Contents: [1 the system](#1-the-system), [2 the modules](#2-the-modules),
[3 modules and code](#3-modules-and-code), [4 runs](#4-runs),
[5 what the code does not do as documented](#5-where-code-and-documentation-disagree),
[6 proofs](#6-proofs), [7 limits](#7-what-is-not-covered).

## 1. The system

Four SDKs (Python, TypeScript, Go, Java) for one REST API, that of SonicWall
firewalls (SonicOS). Each has the same layers:

    caller's tasks / threads
      resources         CRUD, ensure, rule ordering, firmware fallbacks
      transactions      pending() / transaction(): commit or roll back
      HTTP layer        attach the session, retry once after a new login
      session layer     login handshake, lock, logout
    ---------------------------------------------------------------- network
      SonicOS           admin sessions (3 to 5), pending and saved config

The upper layers keep almost no state; all tasks of a program share one client,
so they share one session, one lock and one transaction depth. The hard part is
what happens to these three between two awaits (or two critical sections).

### Components

| Component | State | Operations | Hard behaviour | Correct when |
|---|---|---|---|---|
| Python session layer: `_auth.py` (`AuthManager`), `_http.py` (`HTTPClient`), lifecycle in `_client.py` | `_bearer_token`, `_authenticated`, `_lock`, the httpx client | `connect`, `disconnect`, `request`, `ensure_authenticated`, `reauthenticate`, `logout` | `connect` takes no lock; a 401 may be older than the stored session; `logout` wipes whatever is stored when its answer arrives; timeouts and cancellation inside the lock | handshakes exclude each other; no request without a session; a retry uses a newer session; nothing is carried out twice; every call returns; sessions are not leaked |
| Python transactions: `_commit.py` (`CommitContext`), `commit`/`rollback`/`pending` in `_client.py` | `_pending_depth` (shared), `_entered_config_mode` (per context) | enter and leave a block, manual commit and rollback | nested and overlapping blocks; failing commit; cancellation after the count; negotiation of config mode over four endpoints | clean exit saves, an exception does not, the depth is right, nothing stays pending, config mode is left |
| Python synchronous client: `SonicWallClientSync` in `_client.py` | loop, thread | start the loop, run a coroutine on it, stop it | two threads, loop stopped and never restarted | every call returns, or is refused |
| Python resources: `resources/*.py` | none | list, get, create, update, delete, `ensure`, `insert_before`, `insert_after`, DHCP leases | look up, then write: others write in between; a lost answer of a create; three payloads tried in turn, one of them after any error; answers that are lists | a write that is reported was carried out; `ensure` ends with the wanted object; an inserted rule has the priority its target gives it |
| Python errors and firmware detection: `_http.py`, `_exceptions.py`, `_firmware.py` | none | answers to exceptions | HTTP 200 with `success: false`; two detectors of an expired session; limitations hidden in several exception classes | the caller gets what the device said |
| Python models: `models/*.py` | none | to the wire and back | several spellings of one field; what is missing falls back to a default such as "any" | an object keeps its meaning over any number of rounds |
| TypeScript session layer: `auth.ts`, `client.ts` | token, the promise of the login in progress | as Python | the promise is shared, overwritten and cleared by concurrent re-logins; the hook reads the token later | logins are shared; nobody waits in vain; one expiry stays hidden |
| TypeScript transactions: `client.ts` | `_pendingDepth` | `transaction`, `commit`, `rollback` | which transaction is outermost is decided when it starts; inner ones fail and are handled | a transaction that returns has saved its writes, one that throws has not |
| TypeScript resources, models, errors | none | as Python | as Python | as Python |
| Go client: `auth.go`, `client.go`, `commit.go` | token, mutex | as Python, `Transaction` without nesting | real threads; token read under the mutex, sent after it; commit and rollback once | as TypeScript, and the mutex is always given back |
| Java client: `SonicWallClient`, `AuthManager`, `ApiTransport` | token, lock | as Go | as Go; rollback after a failed commit | as Go |
| Go and Java resources, wire formats, errors | none | as Python | as Python | as Python |
| Digest authentication (each SDK) | none | parse a challenge, compute the answer | string computations | out of scope |
| Live validation, scripts, build, CI | none | sequential drivers, pipelines | none | out of scope |

Interactions: resources call the HTTP layer's `request`; a transaction brackets
the resources' requests with requests of its own; every request calls
`ensure_authenticated` first and `reauthenticate` after a 401 (or code 1085).
Nothing calls upwards. The layers meet in the device: a re-login in the middle
of a block gives the rest of the block another session.

The hazards are listed in `PROJECT.json` with the lines where they bite and the
properties that cover them. Those without a property say why.

## 2. The modules

| Module | Models | Proofs |
|---|---|---|
| `PySession` | Python session and HTTP layer | `PySessionProofs` |
| `PyTransaction` | Python blocks, several tasks | `PyTransactionProofs` |
| `AtomicBlock` | what a block promises: all or nothing | `PyTransactionRefinement`: `PyTransaction` implements it |
| `PyResources` | Python resources: sequences of requests against a changing device | `PyResourcesProofs` |
| `PyAnswers` | Python: one call and the answers it gets | `PyAnswersProofs` |
| `PyWire` | Python models and envelopes | `PyWireProofs` |
| `TsClient` | TypeScript session layer and transactions together | `TsClientProofs` |
| `ThreadClient` | Go and Java session layers and transactions together | `ThreadClientProofs` |

`MC<Module>` adds the symmetry sets and named constants that the `.cfg` files use.

The layers are cut where the code cuts them. `PySession` shows that a request is
carried out at most once and that an answer is that of a request carried out;
`PyTransaction` and `PyResources` therefore take a request as one action, which
succeeds or fails. `PyResources` tells an error apart only as far as the
resources do; that the exceptions reach them as the device meant is `PyAnswers`.
`PyResources` names a payload by its shape, `PyWire` says what is in it.
TypeScript, Go and Java have small clients: there login, request and transaction
are composed in one module, so that an expiry may strike between a write and its
commit.

Still open, most useful first:

1. Nested transactions in Go and Java, where an inner call commits (section 5).
2. `commit()` and `rollback()` called by hand in Go and Java.
3. The resources of TypeScript, Go and Java as further families of `PyResources`:
   the same payloads and envelopes with other error handling.
4. A composition of `PySession` and `PyTransaction` in which a block spans two
   sessions (`SessionExpires` is a coarse stand-in).
5. `CleanExitCommits` and `ModeSpansBodies` for several tasks whose outermost blocks
   do not overlap, and the refinement of `AtomicBlock` under that condition.
6. `TypeOK` of `PyResources`, `PyAnswers`, `PyWire` and `ThreadClient` as theorems of
   their own; the proofs carry the part of each that they need.

## 3. Modules and code

### `PySession`

One action is one segment of a coroutine between two awaits: asyncio runs it
without interruption, so it may cover the end of one function and the
beginning of the next. `TokenReceived`, for instance, stores the token, leaves
the `async with`, returns through `ensure_authenticated` to `request` and sends
the request. An HTTP exchange is three actions: the segment that sends, the
device's step, the segment resumed by the answer.

| Model | Code |
|---|---|
| `token` | `AuthManager._bearer_token`; always written with `_authenticated`, so one variable (`0`: `None`) |
| `holder`, `waiters` | `AuthManager._lock`: an asyncio.Lock is first come, first served |
| `pc`, `phase` | where the task's coroutine is suspended and in which call |
| `wire`, `carried` | its HTTP exchange and the session it carries |
| `first` | the session the first attempt was refused with |
| `httpx` | httpx.AsyncClient, open until `aclose` |
| `live`, `issued`, `applied` | the device: open sessions, sessions opened, requests carried out |
| `Request`, `EnsureGranted`, `ReplyOk`, `ReplyExpired`, `ReauthGranted`, `RetryExpired` | `HTTPClient.request` with `ensure_authenticated` and `reauthenticate` |
| `Connect`, `ChallengeReceived`, `AuthRefused`, `TokenReceived` | `authenticate`, from `connect` (no lock) or under the lock |
| `Disconnect`, `LoggedOut` | `disconnect`: `logout`, then `aclose` |
| `ExchangeLost`, `CancelWaiting`, `CancelLogout` | timeouts, broken connections, cancellation. Cancelling any other exchange ends like a broken one, so it is `ExchangeLost` |
| `Device...` | SonicOS, external: taken from what the code expects of it |

Tokens are numbered in the order in which the device opens sessions. This makes
"older session" expressible and costs nothing: the client never compares tokens.

`Scoped` says how callers use the client. With `"connect"` in it, `connect`
comes first and alone, as `async with client` guarantees; with `"disconnect"` in
it, no call overlaps `disconnect`, as when the body has joined its tasks. A run
with `Scoped` empty lets the callers do anything.

### `PyTransaction` and `AtomicBlock`

Here a request is one action, taken when the answer arrives: `Succeeds(effect)`,
or `Fails(effect)` (refused, or carried out and the answer lost).

| Model | Code |
|---|---|
| `depth` | `SonicWallClient._pending_depth`, shared by the contexts of all tasks |
| `frames` | the task's open contexts, innermost first, each with its `_entered_config_mode` |
| `pc`, `cand` | in the body, or which request of `__aenter__` / `__aexit__` is awaited |
| `flow` | is an exception propagating? |
| `verdict`, `wrote`, `block` | what the caller has seen: how the outermost block ended, what it wrote |
| `mode`, `staged`, `saved` | the device: config mode, pending changes, saved configuration |
| `Enter`, `ModeEntered`, `ModeEndpointMissing` | `__aenter__`, `_enter_config_mode` |
| `Exit`, `Committed`, `CommitFails`, `RolledBack`, `ModeLeft`, `LeaveModeFails` | `__aexit__`, `_exit_config_mode_if_needed` |
| `PutWrite`, `BodyRaises`, `BodyHandles` | the caller's body: a write of a resource, an exception, a handler |
| `ManualCommit`, `ManualRollback` | `SonicWallClient.commit`, `rollback` |
| `CancelEnter`, `CancelExit` | `CancelledError` at an await: not an `Exception`, so no handler catches it |
| `SessionExpires` | external: the next request logs in again; pending changes are kept or lost, depending on the firmware |

`AtomicBlock` is what a block promises: `Begin`, `Put`, then `Commit` or `Abort`,
and what failed requests may do to it (`Fail`, then `Settle`). The refinement
maps `open` to "the task is in a block and has not yet settled it"; the requests
for config mode are stuttering steps. A manual commit outside a block maps to a
stutter as long as nothing has failed, because nothing is pending there, and to
`Settle` afterwards.

### `PyResources`

The family of objects, the firmware (how it answers a GET by name, which payloads
it takes) and the objects that are there are chosen in `Init`; one run covers
them all. An action is one request: the device's step, then the code up to the
next request or the end of the method.

| Model | Code |
|---|---|
| `op`, `name`, `target` | the method an actor is in, and its arguments |
| `pc`, `verb`, `attempt`, `prio` | the request it waits for: GET by name, list, or a POST or PUT of the n-th payload |
| `store` | the device: objects by name, with their author and, for rules, their priority |
| `acted`, `touched` | history: what was carried out for this call, what others wrote meanwhile |
| `GetAddress` ... `InsertAfter` | one action for each method of `AddressObjectsResource`, `ServiceObjectsResource`, `NatPoliciesResource`, `AccessRulesResource` |
| `Lookup`, `Selected`, `List` | `get`: by name with `normalize_get_from_plural`, and the fallback to the list (not for addresses) |
| `Payloads`, `TriesNext` | the payload sequences of `create` and `update` |
| `WriteDone`, `GetRaises`, `CreatesInstead` | the writes, the read-back with its `except Exception`, `ensure`'s `except NotFoundError` around get and update |
| `AnswerLost` | any request, before or after the device has acted |

An actor is a task of the client or anybody else who writes through the SDK.
An object is told from another by who wrote it. A write changes one object: what
SonicOS makes of two rules with one priority, and whether it renumbers others, is
not to be found in the repository, so nothing is said of the order rules run in.
Methods are taken one per object
and call; `list` reads only and is in `PyAnswers`.

### `PyAnswers`

One call and every answer it may get: 9 statuses, `success`, up to two items with
9 codes, 7 messages. A code is a number, the string of one (`Quoted`) or another
string (`NaN`), because the two detectors of an expired session treat these
differently: `LogsInAgain`, that of `request`, compares a code as it is (`Says`);
`FailureKind` and `StatusKind`, which are `_raise_for_status`, take `int()` of the
first (`FirstCode`, `Number`). `Limitation` and `FirmwareUnsupported`
are `_firmware.py`, `ReturnBody` is the parsing of `_base.py` with and without
`skip_parse_errors`, `NextPath` the path fallback of `DHCPResource.list_leases`.
The operators are compared with what the device said, not with themselves: the
properties speak of `last`, the answer, and of `outcome`, what the caller gets.

### `PyWire`

`AddressWire`/`AddressRead`, `RuleWire`/`RuleRead`, `NatWire`, `FirmwareNatWire`/
`NatRead` and `ServiceWire`, `FlatServiceWire`/`ServiceRead` are `to_api_dict` and
`from_api_response` of the four writable models and the payloads of the resources.
`Layers`, `Normalized`, `Unwrapped` and `ReadAs` are the envelopes of
`_normalize.py`. A caller writes, reads, changes a switch and writes again, or
starts from an object that others put on the device, in any spelling
`from_api_response` has a branch for.

### `TsClient`

JavaScript runs a continuation up to its next await. An action is such a stretch;
continuations that are ready run before the next answer is taken (`Quiet`), as
microtasks do.

| Model | Code |
|---|---|
| `session` | `bearerToken` or `sessionCookie` of `AuthManager` |
| `authPromise`, `awaited` | `this.authPromise`, and the login each caller has awaited: it may be another one by now |
| `depth`, `nest`, `outermost` | `_pendingDepth`, how many transactions the caller is in, `isOutermost` of the first of them |
| `Ensure`, `StartLogin`, `Await`, `LoginAfterAll`, `Reauthenticate` | `ensureAuthenticated`, `reauthenticate` |
| `LoggedIn`, `LoginFails`, `Settle` | the end of a login: callers wake up, its `finally` clears `authPromise` |
| `Send` | the hook that reads the token as the request leaves |
| `Expired` | 401 or code 1085 in `request`: forget, log in again, retry once |
| `Transaction`, `Commits`, `Settles`, `EndCall`, `Leaves` | `transaction` |
| `RollsBack`, `Throws` | its `catch`: the outermost one rolls back and throws |
| `Nests`, `Fails` | `fn` calls `transaction` again; the `fn` around an inner one may handle its error and go on |
| `Manual` | `commit()`, `rollback()` called by hand |
| `Disconnect`, `LoggedOut` | `logout`: the token is wiped when the DELETE is answered |

### `ThreadClient`

An action reaches from one wait, for the mutex or for an answer, to the next.
`sdk` is `"go"` or `"java"`; the only difference is `RollsBack`.

| Model | Code |
|---|---|
| `holder` | `mu` / `lock`, when it is held across exchanges |
| `Ensure`, `Reauthenticate`, `LoggedIn`, `LoginFails`, `Unlock` | login under the mutex, with `defer` or `finally` |
| `ReadToken` | `authorizationHeader`, `cookieHeader`: the mutex again, then the request without it |
| `Expired`, `RetriesOnce` | the retry of `do` / `ApiTransport.request` |
| `Logout`, `Deleted` | take the session away under the mutex, DELETE it without |
| `Transaction`, `Commits`, `RollsBack` | `Client.Transaction`, `SonicWallClient.transaction` |

### Mutants

Definitions commented "Mutant ..." are plausible bugs of the definition they
name, such as a dropped second check or a missing retry. No specification uses
them. Replacing a definition by its mutant must break the property that
`PROJECT.json` ("mutants") pairs it with, under the bounds of its run; this
shows that the bounds are large enough for the property to be at stake.

## 4. Runs

    tlc -workers 2 -config <run>.cfg MC<module>

### Runs that hold

| Run | Instance | Shows |
|---|---|---|
| `PySession_scoped` | 3 tasks, 5 calls, room for 10 sessions, 2 expiries, 1 fault; `connect` first, `disconnect` any time | `LockExcludes`, `RequestsCarryFreshToken`, `NeverFallsBack`, `ExactlyOnce` in every interleaving; `ExpiryTransparent`: with room for every login, callers do not notice an expiry; `SessionsBounded`: first logins are shared, an expiry costs at most one login per task |
| `PySession_fair` | 2 tasks, 3 calls of any kind in any order, 2 slots, 1 expiry, 1 fault, `FairSpec` | `SessionInv`, the inductive invariant of the proofs, and `EveryCallReturns` |
| `PyTransaction_single` | 1 task, nested 3 deep, 3 blocks in a row, 2 writes, the second of 3 endpoints, 2 faults | `CleanExitCommits`, `RaisedRollsBack`, `ModeSpansBodies`, and `AtomicBlocks`: the code implements `AtomicBlock` |
| `PyTransaction_shared` | 2 tasks, nested 2 deep, 2 blocks each, 1 fault, 1 cancellation, 1 expiry | `DepthCountsBlocks`, `LastOutResolvesAll` |
| `PyResources_upsert` | 2 actors, 3 names, 2 calls, 1 lost answer, 4 families, every firmware and every content of the device | `SuccessIsWritten`, `ConflictIsForeign`, `EnsureUpserts`, `ReturnsWritten`, `PriorityFollowsTarget` |
| `PyAnswers_verdicts` | lists of up to 2 items, 4 lease paths, every answer | `ExpiryIsRetriedFirst`, `VerdictsAreTheDevices`, `LimitationsRecognised`, `LeasesOfFirstPath` |
| `PyWire_roundtrip` | 2 values, 2 writes, all four models | `AddressKept`, `RuleKept`, `NatKept`, `ServiceKept` |
| `TsClient_shared` | 3 callers, 3 calls, transactions nested 2 deep, 1 expiry, 1 fault, 1 logout | `SessionsPerDrop`, `OneDropHidden`, `CommittedUnlessOverlapped`, `ThrownLeavesNothing`, `WaitersHaveALogin` |
| `ThreadClient_shared` | 3 threads, 3 calls, 1 expiry, 1 fault, 1 logout, Go and Java | `LockIsReleased`, `SessionsPerLoss`, `OneDropHidden`, `CommittedUnlessOverlapped`, `PendingOnlyAfter` |

`TypeOK` is checked in `PySession_scoped`, `PyTransaction_single` and
`TsClient_shared`. In the other modules it documents the variables.

### Runs with a counterexample

Each checks one sentence of the documentation or of a comment, and TLC finds a
behaviour of the code against it; section 5 tells the stories.

| Run | Property | Instance |
|---|---|---|
| `PySession_storm` | `ExpiryTransparent` | 4 tasks, 3 slots, one expiry, no fault |
| `PyTransaction_cancel` | `CleanExitCommits` | 1 task, one cancellation |
| `PyResources_masked` | `CreateReportsConflict` | 2 actors, no fault |

### Bounds

`MaxCalls`, `MaxDrops`, `MaxFaults`, `MaxNest`, `MaxBlocks`, `MaxWrites`,
`MaxCancels`, `MaxExpiries` and `MaxDisconnects` bound the counters of the models;
they occur only in guards, `MaxNest` also as the range of the levels. Three tasks
are enough for a lock with a holder, a first and a second waiter, and for a promise that a second caller overwrites while
a third waits for it. One expiry is met by all of them, and a second one can hit
the retry. In `PySession` five calls let one task go on after the others are done;
in `TsClient` an inner transaction is one of the three. A fault may be a lost
exchange, a refused login or a cancellation, each at every await. Exchanges broken off by closing the client are not counted against
`MaxFaults`. Blocks nested three deep have an innermost, an outermost and one that
is neither; in TypeScript two levels are enough, because the inner ones differ
only in when they leave the depth. The second of three endpoints has a
predecessor and a successor.

In `PyResources`, two calls are a method and one that interferes with it at any
point, or two in a row; three names are the object, the target of an insertion and
a bystander, so that a list can begin with the wrong object and others can write a rule that is
neither. In `PyWire`, two
values tell one reference from another and two writes let each payload precede
each other one; the properties hold after any read, so further rounds repeat these.
In `PyAnswers` four paths are what `dhcp.py` has, and a second item of an answer is
one that only one of the two detectors sees. A third would add nothing: one detector
reads the first item, the other asks for any.

Symmetry is used only in safety runs and only over tasks, actors, names, items
and values, which nothing tells apart. Deadlock is not checked where calls run out
and no step is left to take: `PyAnswers_verdicts`, `PyWire_roundtrip`,
`TsClient_shared`, `ThreadClient_shared`. In the last two, `WaitersHaveALogin` and
`LockIsReleased` say what deadlock checking would: whoever waits has somebody to
wait for. The other models end in an explicit `Rest` or never stop.

### Fairness

`FairSpec` of `PySession` adds weak fairness of `ClientStep(t)` and
`DeviceStep(t)` for each task. The first is what the event loop does: a coroutine
whose future is done, or which has been handed the lock, is scheduled. The second
says that an exchange ends, by the device's answer; httpx's timeout ends it
otherwise (`ExchangeLost`, which needs no fairness). Nothing forces a caller to
start a call, a session to expire or a fault to happen. Weak fairness is enough
because a step of a task stays enabled until it is taken: a lock is handed to the
first waiter and is not taken away. The mutexes of Go and Java promise no such
order, so there the project claims no liveness, only `LockIsReleased`.

## 5. Where code and documentation disagree

With a run:

1. **Expiry storm** (`PySession_storm`; `_auth.py:267`). `reauthenticate` drops
   the stored token and logs in, without asking whether somebody has renewed
   the session since the 401 was received. N tasks in flight turn one expired
   session into N logins; with three slots the fourth is refused and its caller
   gets `AuthenticationError`. The README promises automatic re-authentication. The
   sessions overwritten on the way are never logged out; they stay until the
   device times them out. The other SDKs re-login alike
   (`SessionsPerDrop`, `SessionsPerLoss` bound it).
2. **Cancelled `__aenter__`** (`PyTransaction_cancel`; `_commit.py:40`). The
   count is taken before the first await and not given back, so no later block
   of this client commits, and none reports it.
3. **Masked conflict** (`PyResources_masked`; `nat_policies.py:138`,
   `service_objects.py`). `except Exception` around the second payload catches the
   `ConflictError` too; the third payload is then refused by a firmware that wanted
   the second, and a schema error replaces the conflict that the docstring
   (`nat_policies.py:128`) promises. After a lost answer the same handler meets the
   object the second payload has just created.

Without a run of their own, noted while modelling:

- **Code as a string** (`_auth.py:151`, `_http.py:36`). A 2xx with `success: false`
  and the code `"1085"` is no expiry for the detector that logs in again and one for
  the detector that raises: the caller gets `SessionExpiredError` although nothing was
  retried, against `docs/python.md:110`. `spec/openapi.yaml` types the code as an
  integer; `int()` and the tests (`tests/test_dhcp.py:49`) allow for strings.
  `ExpiryIsRetriedFirst` names this answer as its exception and shows that no other
  one gets through; without the exception TLC finds it at once.
- **First item** (`_normalize.py:31`). If the answer to a GET by name is a list without
  that name, its first item is taken, and `get` returns another object where its
  docstring (`address_objects.py:63`) promises `NotFoundError`. It needs a firmware that
  answers with all objects, which the predicate of the helper provides for, rather than
  with the one or a 404.
- **`insert_before`** (`access_rules.py:206`). The docstring (line 188) says target
  priority minus one; the code writes the target's own, and `PriorityFollowsTarget`
  states what the code does. Which of them puts the rule in front the repository does
  not tell: it depends on what the device does with a priority that is taken.
- **Overlapping blocks** (Python `_commit.py:56`, TypeScript `client.ts:115`). The
  depth is the client's, not the task's. In Python a block that raises while
  another task's block is open takes itself for nested; the other block commits
  its writes. In TypeScript the transaction that began second returns although
  its writes are not yet committed. `RaisedRollsBack` and
  `CommittedUnlessOverlapped` are stated without overlap for this reason.
- **Failed commit** (Python `_commit.py:66`, Go `commit.go`). The error is raised
  without a rollback, in Python also without leaving config mode, although
  `docs/sonicwall-quirks.md:51` says changes are always committed or rolled back.
  Java and TypeScript roll back.
- **Expiry in a block** (`_http.py:103`). The retry logs in again and the block goes
  on in a new session. On a firmware that keeps pending changes per login, the
  earlier writes are gone, the commit succeeds and the block reports success.
  Which firmware does so is not known here.
- **Nesting in Go and Java**: an inner transaction commits at its own end;
  `docs/language-parity.md:72` says that only TypeScript tracks the depth and that
  the others commit or roll back "on outermost transaction only".
- **Codes**: the device's code is read only from a failing 2xx and from a 401; a
  404 "API not found" is a `NotFoundError`, though the class
  `UnsupportedEndpointError` gives that message as its example. A code that is no
  number raises `ValueError` (`_http.py:36`).
- **Services** in the flat payload have no reader: `from_api_response` looks under
  `"protocol"` only (`ServiceKept` leaves this form out).
- **Rules**: a source or destination that says nothing is not sent and is read
  back as "any" (`RuleKept` leaves such rules out).
- **Address objects** are not looked up in the list when a firmware has no GET by
  name; the other families are (`ReadsByName`).
- **Go `Ensure`** returns NotFound if the object vanishes between its lookup and
  its update; Python, Java and TypeScript create it.

## 6. Proofs

    tlapm <module>.tla

Assumptions are those named in the modules: the bounds are natural numbers, the
placeholder (`NoTask`, `NoThread`, `Device`) is not one of the actors, the set of
tasks or threads is finite (`PySession`, `PyTransaction`, `TsClient`,
`ThreadClient`: something in them is counted), the firmware's endpoint is a
candidate or none, there is a path for leases. No theorem bounds their number or
that of calls, sessions, expiries or faults. Further hypotheses are in the table.

| Theorem | States | For |
|---|---|---|
| `PySessionProofs!Typing` | `[]TypeOK` | |
| `PySessionProofs!SessionInvariant` | `[]SessionInv` | |
| `PySessionProofs!LockExclusion` | `[]LockExcludes` | |
| `PySessionProofs!FreshTokens` | `[]RequestsCarryFreshToken` | |
| `PySessionProofs!CarriedOutOnce` | `[]ExactlyOnce` | |
| `PySessionProofs!TokensOnlyGrowYounger` | `[]NeverFallsBack` | |
| `PySessionProofs!SessionsAreBounded` | `[]SessionsBounded` | |
| `PySessionProofs!ExpiryIsTransparent` | `[]ExpiryTransparent` | `SessionLimit >= 2 * MaxCalls` |
| `PyTransactionProofs!TransactionTyping` | `[]TypeOK` | |
| `PyTransactionProofs!DepthCounts` | `[]DepthCountsBlocks` | |
| `PyTransactionProofs!LastOutResolves` | `[]LastOutResolvesAll` | |
| `PyTransactionRefinement!BlocksAreAtomic` | `AtomicBlocks` | one task, no cancellation, no expiry |
| `PyTransactionRefinement!CleanExits` | `[]CleanExitCommits` | the same |
| `PyTransactionRefinement!RaisedExits` | `[]RaisedRollsBack` | the same |
| `PyTransactionRefinement!ModeSpans` | `[]ModeSpansBodies` | the same |
| `PyResourcesProofs!ReturnedMeansWritten` | `[]SuccessIsWritten` | |
| `PyResourcesProofs!ConflictsAreForeign` | `[]ConflictIsForeign` | |
| `PyResourcesProofs!EnsureAlwaysUpserts` | `[]EnsureUpserts` | |
| `PyResourcesProofs!WrittenIsReturned` | `[]ReturnsWritten` | |
| `PyResourcesProofs!PrioritiesFollowTheTarget` | `[]PriorityFollowsTarget` | |
| `PyAnswersProofs!ExpiriesAreRetried` | `[]ExpiryIsRetriedFirst` | |
| `PyAnswersProofs!VerdictsAreHonest` | `[]VerdictsAreTheDevices` | |
| `PyAnswersProofs!LimitationsAreRecognised` | `[]LimitationsRecognised` | |
| `PyAnswersProofs!LeasesAreOfFirstPath` | `[]LeasesOfFirstPath` | |
| `PyWireProofs!AddressesAreKept` | `[]AddressKept` | |
| `PyWireProofs!RulesAreKept` | `[]RuleKept` | |
| `PyWireProofs!PoliciesAreKept` | `[]NatKept` | |
| `PyWireProofs!ServicesAreKept` | `[]ServiceKept` | |
| `TsClientProofs!TypeCorrect` | `[]TypeOK` | |
| `TsClientProofs!NobodyWaitsInVain` | `[]WaitersHaveALogin` | |
| `TsClientProofs!TransactionCommits` | `[]CommittedUnlessOverlapped` | |
| `TsClientProofs!OneDropIsHidden` | `[]OneDropHidden` | |
| `TsClientProofs!ThrownIsUndone` | `[]ThrownLeavesNothing` | |
| `TsClientProofs!SessionsAreBounded` | `[]SessionsPerDrop` | |
| `ThreadClientProofs!MutexHeldByLoginOnly` | `[]LockIsReleased` | |
| `ThreadClientProofs!TransactionCommits` | `[]CommittedUnlessOverlapped` | |
| `ThreadClientProofs!OneDropIsHidden` | `[]OneDropHidden` | |
| `ThreadClientProofs!PendingOnlyAfterFailure` | `[]PendingOnlyAfter` | |
| `ThreadClientProofs!SessionsAreBounded` | `[]SessionsPerLoss` | |

**Python session layer.** `LockExcludes` is nearly inductive by itself, once the
lock's hand-over is described. `RequestsCarryFreshToken` is not: that a retry carries
a newer session than the refused one follows from three facts about states
before the retry, namely that the device numbers sessions upwards, that every
session the client knows (`token`, `first`, `carried`) has been issued, and that
a login granted to a task is younger than the session the task was refused
with. `SessionInv` is their conjunction. The proofs go action by action;
the effects that several actions share (suspend, return, send, release) are lemmas. A
lemma that `SessionInv` is preserved when one task's fields change in an allowed
way covers the other tasks.

The other properties need one invariant each:

- `ExactlyOnce`: `OnceInv`. A request that comes back expired has not been carried
  out, so the retry cannot be the second time.
- `NeverFallsBack`: `ScopedInv`. The stored token is none or the newest session the
  client was told of, and a login granted but not yet stored is younger. This is
  where `"connect" \in Scoped` enters: otherwise `connect`, which takes no lock,
  overlaps another handshake.
- `SessionsBounded`: `DeviceInv` (a session that refused a request is closed and stays
  so) and `BoundInv`, a potential: the sessions opened, plus one if the client has
  none and has to log in, plus one for each (task, closed session) that still owes a
  re-login, are at most `1 + Cardinality(Task) * closings + faults`. A closing creates at
  most one debt per task; every login pays one.
- `ExpiryTransparent`: `LoginsInv` says that each call has at most two logins left to
  it and all calls together open at most `2 * MaxCalls` sessions. With that much room
  on the device no login is refused; `ExpiryInv` then shows that an authentication
  error means two closings. The hypothesis is not for convenience: `PySession_storm`
  is a counterexample without it (3 slots, `2 * MaxCalls = 8`), and `PySession_scoped`
  meets it (10 slots, 5 calls).

**Python transactions.** That the depth counts the open contexts needs to know which
steps touch which stack. `TransactionInv` adds `FramesInv`: a task that awaits a
request of a context is in one, stacks are bounded, and a task in a block has a
block number. `Contexts` writes the open contexts as pairs (task, level), so
entering adds one pair and leaving removes one; two lemmas give the effect
on the cardinality. A cancelled `__aenter__` removes a pair and leaves the depth,
which is why the property has an upper bound with `cancels`. `TypeOK` rests on
the same invariant, since `depth` is decremented and must stay natural.
`LastOutResolvesAll` follows from `LastOutInv`: as long as nothing has failed,
something pending means that the depth is positive or somebody is committing or
rolling back. It holds for any number of tasks because the depth counts all blocks.

**Refinement.** `BlocksAreAtomic` adds `LoneInv`: with one task the depth is the
height of its stack (so `Nested` is true exactly in an inner block), what is awaited
at the end of a block is awaited by the outermost context, and nothing is pending
outside a block unless a request has failed. Each action is shown to be one of
`Begin`, `Put`, `Commit`, `Abort`, `Fail`, `Settle` or a stutter. With two tasks the
statement is false (section 5, overlapping blocks), with cancellation too.
The three properties of a single task rest on `LoneInv` as well. `KeepsInv`: what
the open block wrote is pending or saved. `DropsInv`: nothing the open block wrote is
saved, what is pending or saved stems from blocks that have begun, and what a rollback
has dropped is never saved. `ModeInv`: the outermost context of a body knows that it
entered config mode,
and the negotiation has not passed over the firmware's endpoint. They are proved
under the conditions under which `PyTransaction_single` checks them;
`PyTransaction_cancel` shows that cancellation breaks the first.

**Resources.** `SuccessIsWritten` speaks of methods that have ended; `WrittenInv`
strengthens it by where they come from: whoever reads back has had the write
carried out that `verb` names, and a DELETE belongs to `delete`. The lemmas say
how a request can end (`Got`, `GetRaises`, `WriteRaises`, ...). `ResourceInv` covers
the other four with one conjunct per question and actor: `Unwritten` (whoever still
tries payloads has not been served, so the conflict is not with itself), `OwnObject`
(what was written is the caller's or has been touched), `Upserts` (how `ensure` can
still end), `Aims` (the priority read for an insertion). A step of one actor
preserves its own conjuncts action by action and those of the others by one
interference lemma, `OthersGood`. A request changes one object
and no other, so a priority that was read stays the target's until somebody writes
the target; `Follows` carries the priority the target gives from the read to the
write and to the stored rule.

**Answers.** `VerdictInv` says that what was raised or returned is what is read from `last`,
and that an answer which `LogsInAgain` catches ends a call only after the one new
login.
The theorems are then statements about the tables, split by status and code.
`ExpiriesAreRetried` rests on `NumberOfCode`: a code that `int()` reads as 1085 is the
number or its string, and the number would have been caught by `LogsInAgain`.
`LeasesInv`: every path behind the current one was reported missing, and `last` is
either an expiry or what the current path serves.

**Wire formats.** One invariant for each model (`AddressInv`, `RuleInv`, `NatInv`,
`ServiceInv`) says that what is on the device reads back, in whatever spelling and
payload, as what the caller wrote. Each rests on a lemma about its `from_api_response`
(`AddressReads`, `RuleReads`, `NatReads` with `FirmwareReads`, `ServiceReads`); that any
stack of envelopes opens is `EnvelopesOpen`. Since a step is a whole round, the
invariant gives any number of rounds; for rules this uses that "keeps the meaning"
is transitive (`Keeps`). TLC checks two values, the theorems hold for any set.

**TypeScript.** `WaitInv` adds to `WaitersHaveALogin` that `authPromise`, when set,
is a login under way: this is what a caller that starts to wait relies on. It
holds because the end of any login clears `authPromise`, even one that it has not
stored. `CommitInv` says, for a transaction nobody overlapped, that it is the
outermost one, that its write is pending from the first answer until it is saved by
the commit, through inner transactions and their errors, and that the depth counts
the open transactions (`Counted`), so that one that begins alone is outermost. The
open ones are the pairs (task, level) of `Levels`; `LevelsChange` gives the effect
of entering one or leaving several on their number. `OneDropHidden`: by `HiddenInv`
at most one of the sessions opened is gone, so the session of a retry, which is
younger than the refused one, is open. `ThrownLeavesNothing`: by `ThrownInv` a
transaction has saved nothing before its commit is answered, and one that has thrown
has nothing pending either. `SessionsPerDrop`: `ToldInv` and `GrantInv` count logins as in
`BoundInv`, with pairs (caller, session) for granted and owed logins.

**Go and Java.** `LockInv` types the places and holds the equivalence "the
mutex is held across exchanges if and only if a login is under way".
`CommitInv` is that of TypeScript without the depth. `PendingOnlyAfter`
is inductive once the types of what it reads are added (`PendingInv`). `HiddenInv` adds to
its TypeScript counterpart that after the first login whoever finds the mutex free
finds a session, since a login under way holds it. `SessionsPerLoss`: `EmptyInv` says
that there is no session while a login holds the mutex, and `GrantInv` is the
potential (sessions opened, logins owed, logins to come from logouts under way) that no step raises above its bound.

**Model-checked only.** Liveness (`EveryCallReturns`): fairness and ENABLED are beyond
the prover. The properties of a single task are not proved for several, where they
are false without further conditions (section 5). `TypeOK` of `PyResources`,
`PyAnswers`, `PyWire` and `ThreadClient` is neither run nor proved as such. The runs
with a counterexample are TLC's.

## 7. What is not covered

- **Synchronous Python client.** `SonicWallClientSync` hands each coroutine to a loop
  in a thread. What is not delegation (a call racing `disconnect`, the loop that is
  stopped and never closed) is decided inside asyncio.
- **Resources, models and errors of TypeScript, Go and Java.** They build the same
  payloads and fall back alike, with error handling of their own (in TypeScript and
  Go, a failing read-back never fails the write; in Java only NotFound is ignored).
  Nothing shown of `PyResources`, `PyAnswers` or `PyWire` is claimed of them. The run
  of `PyResources` is near the time a run may take with four families.
- **Nested transactions and manual commits** in Go and Java; cancelled
  contexts in Go and interrupted threads in Java, which count as failed exchanges.
- **Read-only models** (DHCP leases, interfaces): copies of fields.
- **Digest authentication**: parsing of challenges and hashing. A login is an
  exchange that is granted or refused; in TypeScript, Go and Java challenge, digest
  and the fallback to Basic are one wait, because nothing is stored in between.
- **Live validation, scripts, build, CI**: sequential drivers and pipelines.
- Abstracted: contents of requests and answers except in `PyAnswers` and `PyWire`,
  logging, TLS, timeouts as durations (a timeout is a lost exchange at any time).
- A caller's `ensure_authenticated`, `reauthenticate` or `authenticate` called
  directly on the internal objects.
- `commit()` and `rollback()` called by a task inside its own Python block. Other
  tasks may call them at any time.
- Two clients on one device, and administrators beside the SDK, in the session
  modules: the session limit counts the client's own sessions. In `PyResources`
  actors may be separate clients.
