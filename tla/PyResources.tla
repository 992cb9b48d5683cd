----------------------------- MODULE PyResources -----------------------------
(****************************************************************************)
(* The resources of the Python SDK (resources/*.py): reading, writing and   *)
(* upserting named objects through an API whose paths, envelopes and        *)
(* payloads differ between firmware versions, while other tasks or          *)
(* administrators change the same objects.                                  *)
(*                                                                          *)
(* A method is a sequence of HTTP requests.  A request is one action, taken *)
(* when its answer arrives: the device's step and the code that runs until  *)
(* the next request.  The family of objects and the firmware are chosen in  *)
(* Init, so one run covers them all.  An object is named and unnamed fields *)
(* are left out; what it says is who wrote it.                              *)
(****************************************************************************)
EXTENDS Integers, Sequences, FiniteSets

CONSTANTS
    Actor,       \* tasks, clients or administrators
    Name,        \* names of objects
    Device,      \* the author of what no actor has written
    MaxCalls,    \* bound: methods called
    MaxFaults    \* bound: answers lost

ASSUME ActorAssumption == Device \notin Actor
ASSUME ResourceBoundsAssumption == MaxCalls \in Nat /\ MaxFaults \in Nat

Family == {"address", "service", "nat", "rule"}

\* GET by name answers with the object, with the list of all objects, or not at
\* all, because the firmware has no such path.
Envelope == {"singular", "plural", "nopath"}

VARIABLES
    family,     \* the resource under consideration
    envelope,   \* firmware: how it answers a GET by name
    accepts,    \* firmware: the payload shapes it accepts
    store,      \* device: the objects, by name
    op, name,   \* method each actor is in, and its object
    target,     \* the rule it inserts before or after
    pc,         \* the request it waits for
    verb,       \* POST or PUT, the write it does
    attempt,    \* which payload shape it tries
    prio,       \* priority of the rule it writes; 0: auto
    result,     \* how its last method ended
    returned,   \* the author of the object it returned
    acted,      \* history: writes the device has carried out for this call
    touched,    \* history: names others have written during this call
    calls, faults

firmware == <<family, envelope, accepts>>
callVars == <<op, name, target>>
vars == <<firmware, store, callVars, pc, verb, attempt, prio, result, returned,
          acted, touched, calls, faults>>

Op == {"none", "get", "create", "update", "delete", "ensure", "before", "after"}
Place == {"idle", "lookup", "list", "write", "delete", "readback", "relist"}
Result == {"none", "ok", "notfound", "conflict", "invalid", "error"}

Author == Actor \cup {Device}
Object == [by : Author, prio : Nat]
Present == DOMAIN store

----------------------------------------------------------------------------
(* The payloads each resource can build, in the order it tries them *)

AddressPayloads == <<"single", "array">>
RulePayloads    == <<"single", "array">>
ServicePayloads == <<"single", "array", "flat">>
NatPayloads     == <<"single", "array", "flat">>

Payloads ==
    [address |-> AddressPayloads, rule |-> RulePayloads,
     service |-> ServicePayloads, nat |-> NatPayloads][family]

TypeOK ==
    /\ family \in Family /\ envelope \in Envelope
    /\ accepts \subseteq {"single", "array", "flat"}
    /\ Present \subseteq Name /\ store \in [Present -> Object]
    /\ op \in [Actor -> Op] /\ name \in [Actor -> Name]
    /\ target \in [Actor -> Name]
    /\ pc \in [Actor -> Place] /\ verb \in [Actor -> {"POST", "PUT"}]
    /\ attempt \in [Actor -> 1..3] /\ prio \in [Actor -> Nat]
    /\ result \in [Actor -> Result] /\ returned \in [Actor -> Author]
    /\ acted \in [Actor -> SUBSET {"POST", "PUT", "DELETE"}]
    /\ touched \in [Actor -> SUBSET Name]
    /\ calls \in Nat /\ faults \in Nat

\* Any objects may be there, the rules numbered from 1 or with auto priority.
Init ==
    /\ family \in Family
    /\ envelope \in Envelope
    /\ accepts \in (SUBSET {Payloads[i] : i \in DOMAIN Payloads}) \ {{}}
    /\ \E there \in SUBSET Name :
         store \in [there -> [by : {Device}, prio : 0..2]]
    /\ LET numbered == {n \in Present : store[n].prio # 0}
       IN /\ family = "rule" \/ numbered = {}
          /\ {store[n].prio : n \in numbered} = 1..Cardinality(numbered)
    /\ op = [a \in Actor |-> "none"]
    /\ \E n \in Name : name = [a \in Actor |-> n] /\ target = name
    /\ pc = [a \in Actor |-> "idle"]
    /\ verb = [a \in Actor |-> "POST"]
    /\ attempt = [a \in Actor |-> 1]
    /\ prio = [a \in Actor |-> 0]
    /\ result = [a \in Actor |-> "none"]
    /\ returned = [a \in Actor |-> Device]
    /\ acted = [a \in Actor |-> {}]
    /\ touched = [a \in Actor |-> {}]
    /\ calls = 0 /\ faults = 0

----------------------------------------------------------------------------
(* Pieces shared by the methods *)

Goto(a, where) ==
    /\ pc' = [pc EXCEPT ![a] = where]
    /\ UNCHANGED <<verb, attempt, prio, result, returned>>

\* The locals of the method are gone.
Return(a, how, author) ==
    /\ pc' = [pc EXCEPT ![a] = "idle"]
    /\ attempt' = [attempt EXCEPT ![a] = 1]
    /\ prio' = [prio EXCEPT ![a] = 0]
    /\ result' = [result EXCEPT ![a] = how]
    /\ returned' = [returned EXCEPT ![a] = author]
    /\ UNCHANGED verb

\* The first payload of a POST or PUT is tried next.
StartWrite(a, method, p) ==
    /\ pc' = [pc EXCEPT ![a] = "write"]
    /\ verb' = [verb EXCEPT ![a] = method]
    /\ attempt' = [attempt EXCEPT ![a] = 1]
    /\ prio' = [prio EXCEPT ![a] = p]
    /\ UNCHANGED <<result, returned>>

\* The next payload is tried.
NextAttempt(a) ==
    /\ attempt' = [attempt EXCEPT ![a] = @ + 1]
    /\ UNCHANGED <<pc, verb, prio, result, returned>>

\* The first request of a method.
First(method) ==
    IF method \in {"create", "update"} THEN "write"
    ELSE IF method = "delete" THEN "delete" ELSE "lookup"

Begin(a, f, method, n) ==
    /\ pc[a] = "idle" /\ family = f
    /\ calls < MaxCalls
    /\ calls' = calls + 1
    /\ op' = [op EXCEPT ![a] = method]
    /\ name' = [name EXCEPT ![a] = n]
    /\ pc' = [pc EXCEPT ![a] = First(method)]
    /\ verb' = [verb EXCEPT ![a] = IF method = "update" THEN "PUT" ELSE "POST"]
    /\ result' = [result EXCEPT ![a] = "none"]
    /\ returned' = [returned EXCEPT ![a] = Device]
    /\ acted' = [acted EXCEPT ![a] = {}]
    /\ touched' = [touched EXCEPT ![a] = {}]
    /\ UNCHANGED <<firmware, store, attempt, prio, faults>>

Method(a, f, method) ==
    \E n \in Name : Begin(a, f, method, n) /\ UNCHANGED target

----------------------------------------------------------------------------
(* The methods, up to their first request *)

GetAddress(a)    == Method(a, "address", "get")
CreateAddress(a) == Method(a, "address", "create")
UpdateAddress(a) == Method(a, "address", "update")
DeleteAddress(a) == Method(a, "address", "delete")
EnsureAddress(a) == Method(a, "address", "ensure")

GetService(a)    == Method(a, "service", "get")
CreateService(a) == Method(a, "service", "create")
UpdateService(a) == Method(a, "service", "update")
DeleteService(a) == Method(a, "service", "delete")
EnsureService(a) == Method(a, "service", "ensure")

GetNat(a)        == Method(a, "nat", "get")
CreateNat(a)     == Method(a, "nat", "create")
UpdateNat(a)     == Method(a, "nat", "update")
DeleteNat(a)     == Method(a, "nat", "delete")
EnsureNat(a)     == Method(a, "nat", "ensure")

GetRule(a)       == Method(a, "rule", "get")
CreateRule(a)    == Method(a, "rule", "create")
UpdateRule(a)    == Method(a, "rule", "update")
DeleteRule(a)    == Method(a, "rule", "delete")

Insert(a, method) ==
    \E n, m \in Name : /\ n # m
                       /\ Begin(a, "rule", method, n)
                       /\ target' = [target EXCEPT ![a] = m]
InsertBefore(a) == Insert(a, "before")
InsertAfter(a)  == Insert(a, "after")

----------------------------------------------------------------------------
(* get: the object by name, else from the list *)

Wanted(a) ==
    IF op[a] \in {"before", "after"} /\ pc[a] \in {"lookup", "list"}
    THEN target[a] ELSE name[a]

ReadingBack(a) == pc[a] \in {"readback", "relist"}

\* Mutant of PriorityAfter: the new rule takes the target's place.
PriorityAt(p) == p
PriorityAfter(p) == p + 1

NewPriority(a, obj) ==
    IF op[a] = "after" /\ obj.prio # 0 THEN PriorityAfter(obj.prio) ELSE obj.prio

\* get returns an object: the method goes on, or this was its last request.
Got(a, obj) ==
    IF op[a] = "get" \/ ReadingBack(a)
    THEN Return(a, "ok", obj.by)
    ELSE IF op[a] = "ensure"
    THEN StartWrite(a, "PUT", 0)
    ELSE StartWrite(a, "POST", NewPriority(a, obj))

\* get raises.  While reading back, create and update then return the object
\* they were given; ensure and the inserts take NotFoundError for an answer.
GetRaises(a, why) ==
    IF ReadingBack(a)
    THEN Return(a, "ok", a)
    ELSE IF why = "notfound" /\ op[a] # "get"
    THEN StartWrite(a, "POST", 0)
    ELSE Return(a, why, returned[a])

\* Address objects have no fallback to the list.
ByNameMissing(a) ==
    IF family = "address"
    THEN GetRaises(a, "notfound")
    ELSE Goto(a, IF ReadingBack(a) THEN "relist" ELSE "list")

\* An empty list has no name to parse; a NAT policy or a rule is made up of
\* defaults then.
ParseEmpty(a) ==
    IF family \in {"nat", "rule"}
    THEN Got(a, [by |-> Device, prio |-> 0])
    ELSE GetRaises(a, "error")

\* Mutant of Selected: the first item is taken without looking for the name.
FirstItem(n) == Present
\* normalize_get_from_plural: the item with the name, or else the first one.
Selected(n) == IF n \in Present THEN {n} ELSE Present

Lookup(a) ==
    /\ pc[a] \in {"lookup", "readback"}
    /\ IF envelope = "plural" /\ Present = {} THEN ParseEmpty(a)
       ELSE IF envelope = "plural"
       THEN \E m \in Selected(Wanted(a)) : Got(a, store[m])
       ELSE IF envelope = "singular" /\ Wanted(a) \in Present
       THEN Got(a, store[Wanted(a)])
       ELSE ByNameMissing(a)
    /\ UNCHANGED <<firmware, store, callVars, acted, touched, calls, faults>>

List(a) ==
    /\ pc[a] \in {"list", "relist"}
    /\ IF Wanted(a) \in Present
       THEN Got(a, store[Wanted(a)])
       ELSE GetRaises(a, "notfound")
    /\ UNCHANGED <<firmware, store, callVars, acted, touched, calls, faults>>

----------------------------------------------------------------------------
(* create and update: payload after payload, then a get *)

Shape(a) == Payloads[attempt[a]]

\* The device's answer (external): an unknown payload is refused first.
Verdict(a) ==
    IF Shape(a) \notin accepts THEN "invalid"
    ELSE IF verb[a] = "POST" /\ name[a] \in Present THEN "conflict"
    ELSE IF verb[a] = "PUT" /\ name[a] \notin Present THEN "notfound"
    ELSE "ok"

Carried(a, method) ==
    /\ acted' = [acted EXCEPT ![a] = @ \cup {method}]
    /\ touched' = [b \in Actor |-> IF b = a \/ pc[b] = "idle" THEN touched[b]
                                   ELSE touched[b] \cup {name[a]}]

\* A write changes one object.  What the device makes of two rules with one
\* priority, and whether it renumbers others, the repository does not say: that
\* is left out, and no property is about the order the rules run in.
Stored(a) ==
    /\ store' = [m \in Present \cup {name[a]} |->
                   IF m = name[a] THEN [by |-> a, prio |-> prio[a]] ELSE store[m]]
    /\ Carried(a, verb[a])

NotStored == UNCHANGED <<store, acted, touched>>

\* Mutant of TriesNext: any exception leads to the next payload.
TriesNextAlways(a, why) == attempt[a] < Len(Payloads)
\* The second payload follows the schema error, the third whatever goes wrong.
TriesNext(a, why) ==
    \/ attempt[a] = 1 /\ why = "invalid"
    \/ attempt[a] = 2 /\ Len(Payloads) = 3

\* Mutant of CreatesInstead: the update is outside of ensure's try.
NeverCreatesInstead(a, why) == FALSE
\* The update of ensure raises NotFoundError: the object is created.
CreatesInstead(a, why) == op[a] = "ensure" /\ verb[a] = "PUT" /\ why = "notfound"

\* Mutant of WriteRaises: after the last payload the object is read back.
ReadsBackAnyway(a, why) ==
    IF attempt[a] < Len(Payloads) THEN NextAttempt(a) ELSE Goto(a, "readback")

WriteRaises(a, why) ==
    IF TriesNext(a, why)
    THEN NextAttempt(a)
    ELSE IF CreatesInstead(a, why)
    THEN StartWrite(a, "POST", 0)
    ELSE Return(a, why, returned[a])

WriteDone(a) ==
    /\ pc[a] = "write"
    /\ IF Verdict(a) = "ok"
       THEN Stored(a) /\ Goto(a, "readback")
       ELSE NotStored /\ WriteRaises(a, Verdict(a))
    /\ UNCHANGED <<firmware, callVars, calls, faults>>

Removed(a) ==
    /\ store' = [m \in Present \ {name[a]} |-> store[m]]
    /\ Carried(a, "DELETE")

DeleteDone(a) ==
    /\ pc[a] = "delete"
    /\ IF name[a] \in Present
       THEN Removed(a) /\ Return(a, "ok", a)
       ELSE NotStored /\ Return(a, "notfound", returned[a])
    /\ UNCHANGED <<firmware, callVars, calls, faults>>

\* The connection breaks, before or after the device has acted.
AnswerLost(a) ==
    /\ faults < MaxFaults
    /\ faults' = faults + 1
    /\ \/ /\ pc[a] \in {"lookup", "list", "readback", "relist"}
          /\ GetRaises(a, "error") /\ NotStored
       \/ /\ pc[a] = "write" /\ WriteRaises(a, "error")
          /\ \/ NotStored
             \/ Verdict(a) = "ok" /\ Stored(a)
       \/ /\ pc[a] = "delete" /\ Return(a, "error", returned[a])
          /\ \/ NotStored
             \/ name[a] \in Present /\ Removed(a)
    /\ UNCHANGED <<firmware, callVars, calls>>

Rest ==
    /\ calls = MaxCalls /\ \A a \in Actor : pc[a] = "idle"
    /\ UNCHANGED vars

Methods(a) ==
    \/ GetAddress(a) \/ CreateAddress(a) \/ UpdateAddress(a)
    \/ DeleteAddress(a) \/ EnsureAddress(a)
    \/ GetService(a) \/ CreateService(a) \/ UpdateService(a)
    \/ DeleteService(a) \/ EnsureService(a)
    \/ GetNat(a) \/ CreateNat(a) \/ UpdateNat(a) \/ DeleteNat(a) \/ EnsureNat(a)
    \/ GetRule(a) \/ CreateRule(a) \/ UpdateRule(a) \/ DeleteRule(a)
    \/ InsertBefore(a) \/ InsertAfter(a)

Next ==
    \/ \E a \in Actor :
         \/ Methods(a)
         \/ Lookup(a) \/ List(a)
         \/ WriteDone(a) \/ DeleteDone(a) \/ AnswerLost(a)
    \/ Rest

Spec == Init /\ [][Next]_vars
----------------------------------------------------------------------------
(* Properties *)

Ended(a, methods, how) == pc[a] = "idle" /\ op[a] \in methods /\ result[a] = how

Writes == {"create", "update", "ensure", "before", "after"}

\* A method that returns has had its write carried out, the one it reports:
\* a POST if ensure says created, a PUT if it says updated, whatever payloads,
\* lost answers and changes by others came between (create, update, ensure).
SuccessIsWritten ==
    \A a \in Actor : Ended(a, Writes, "ok") => verb[a] \in acted[a]

\* A ConflictError is about somebody else's object, never about the caller's own
\* POST of the same call.  For services and NAT policies a lost answer breaks
\* this: the next payload meets the object the last one has created.
ConflictIsForeign ==
    \A a \in Actor :
        /\ Ended(a, Writes, "conflict")
        /\ (faults = 0 \/ Len(Payloads) = 2)
        => "POST" \notin acted[a]

\* The firmware answers a GET by name in a way the resource understands.
ReadsByName ==
    \/ envelope = "singular"
    \/ envelope = "nopath" /\ family # "address"

\* ensure succeeds if nobody interferes with the object and no answer is lost,
\* whatever payloads the firmware accepts, and it never says NotFound: an object
\* deleted between its lookup and its update is created, unless the firmware's
\* refusal of a further payload hides that it is gone (ensure).
EnsureUpserts ==
    \A a \in Actor :
        faults = 0 /\ op[a] = "ensure" /\ pc[a] = "idle" =>
            /\ result[a] # "notfound"
            /\ (ReadsByName /\ name[a] \notin touched[a] => result[a] = "ok")

\* What create, update and ensure return is what they wrote unless somebody else
\* has written the object since, also if the firmware answers the read-back with
\* the list of all objects (normalize_get_from_plural).
ReturnsWritten ==
    \A a \in Actor :
        Ended(a, Writes, "ok") /\ name[a] \notin touched[a] => returned[a] = a

\* The rule is written, and nobody else has written it or its target.
Inserted(a) ==
    /\ ReadingBack(a) /\ op[a] \in {"before", "after"}
    /\ {name[a], target[a]} \cap touched[a] = {}

\* insert_before and insert_after give the new rule the priority its target was
\* read with, or the next one, and the automatic one for a target that has it or
\* does not exist.  Payloads, fallbacks to the list and what others do to other
\* rules make no difference, as long as nobody writes the rule or its target.  A
\* firmware that answers with a list is left out where the target is missing:
\* the first rule is taken for it then.  The docstring (access_rules.py:188) says
\* the target's priority minus one; the code writes the target's own.  In which
\* order the device runs rules of equal priority is not said.
PriorityFollowsTarget ==
    \A a \in Actor : Inserted(a) =>
        LET new == store[name[a]].prio
            old == store[target[a]].prio
        IN /\ target[a] \in Present =>
                new = IF old = 0 \/ op[a] = "before" THEN old ELSE old + 1
           /\ target[a] \notin Present /\ envelope # "plural" => new = 0

\* A create of a name that is taken raises ConflictError.
CreateReportsConflict ==
    \A a \in Actor : faults = 0 => ~Ended(a, {"create"}, "invalid")
=============================================================================
