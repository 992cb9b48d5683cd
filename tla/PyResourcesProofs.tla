-------------------------- MODULE PyResourcesProofs --------------------------
(****************************************************************************)
(* Proofs about the resources of the Python SDK, for any number of actors,  *)
(* names, calls and lost answers, on every firmware.                        *)
(*                                                                          *)
(* WrittenInv: a method reads back only after a write of its own was        *)
(* carried out, and one that writes never ends well from any other place.   *)
(*                                                                          *)
(* ResourceInv says for each actor, as long as nobody else touches the      *)
(* object it is about: before its write that object is not its own          *)
(* (Unwritten), after it the device holds what it wrote (OwnObject), the    *)
(* shapes it has tried were refused by the firmware (Upserts), and a rule   *)
(* it inserts has the priority its target gives it (Aims).  The steps of an *)
(* actor are proved place by place; what they do to the others is one       *)
(* lemma, OthersGood: a request changes one object and no other.            *)
(****************************************************************************)
EXTENDS PyResources, TLAPS

\* The types the first invariant needs.
Types ==
    /\ op \in [Actor -> Op] /\ pc \in [Actor -> Place]
    /\ verb \in [Actor -> {"POST", "PUT"}] /\ result \in [Actor -> Result]
    /\ acted \in [Actor -> SUBSET {"POST", "PUT", "DELETE"}]

\* What is true of one actor.
Honest(a) ==
    /\ ReadingBack(a) => verb[a] \in acted[a]
    /\ pc[a] = "delete" => op[a] = "delete"
    /\ Ended(a, Writes, "ok") => verb[a] \in acted[a]

\* The inductive invariant.
WrittenInv == Types /\ \A a \in Actor : Honest(a)

\* The fields of the other actors, and the method a is in, stay as they are.
OnlyOf(a) ==
    /\ UNCHANGED op
    /\ \A b \in Actor \ {a} :
          /\ pc'[b] = pc[b] /\ verb'[b] = verb[b]
          /\ result'[b] = result[b] /\ acted'[b] = acted[b]

----------------------------------------------------------------------------
(* The ways a request can end *)

\* A step that touches only a's fields leaves the other actors honest.
LEMMA OnlyOfKeeps ==
    ASSUME NEW a \in Actor, WrittenInv, Types', OnlyOf(a), Honest(a)'
    PROVE  WrittenInv'
BY DEF WrittenInv, OnlyOf, Honest, ReadingBack, Ended

\* The method goes on to a place where it does not read back.
LEMMA WriteNext ==
    ASSUME NEW a \in Actor, WrittenInv, UNCHANGED <<op, acted>>,
           NEW method \in {"POST", "PUT"}, NEW p,
           StartWrite(a, method, p)
    PROVE  WrittenInv'
<1>1. Types' /\ OnlyOf(a)
  BY DEF WrittenInv, Types, StartWrite, OnlyOf, Place
<1>2. Honest(a)'
  BY DEF WrittenInv, Types, StartWrite, Honest, ReadingBack, Ended, Place
<1> QED
  BY <1>1, <1>2, OnlyOfKeeps

\* The next payload is tried.
LEMMA AttemptNext ==
    ASSUME NEW a \in Actor, WrittenInv, NextAttempt(a), UNCHANGED op,
           acted' = [acted EXCEPT ![a] = @ \cup {verb[a]}] \/ UNCHANGED acted
    PROVE  WrittenInv'
<1>1. Types' /\ OnlyOf(a)
  BY DEF WrittenInv, Types, NextAttempt, OnlyOf
<1>2. Honest(a)'
  BY DEF WrittenInv, Types, NextAttempt, Honest, ReadingBack, Ended
<1> QED
  BY <1>1, <1>2, OnlyOfKeeps

\* The method ends with an error, or with what it was allowed to report.
LEMMA ReturnKeeps ==
    ASSUME NEW a \in Actor, WrittenInv, UNCHANGED op,
           acted' \in [Actor -> SUBSET {"POST", "PUT", "DELETE"}],
           \A b \in Actor \ {a} : acted'[b] = acted[b],
           NEW how \in Result, NEW author, Return(a, how, author),
           how = "ok" /\ op[a] \in Writes => verb[a] \in acted'[a]
    PROVE  WrittenInv'
<1>1. Types' /\ OnlyOf(a)
  BY DEF WrittenInv, Types, Return, OnlyOf, Place
<1>2. Honest(a)'
  BY DEF WrittenInv, Types, Return, Honest, ReadingBack, Ended, Place
<1> QED
  BY <1>1, <1>2, OnlyOfKeeps

\* The method reads: back only if its write was carried out.
LEMMA GotoKeeps ==
    ASSUME NEW a \in Actor, WrittenInv, UNCHANGED op,
           acted' \in [Actor -> SUBSET {"POST", "PUT", "DELETE"}],
           \A b \in Actor \ {a} : acted'[b] = acted[b],
           NEW where \in {"list", "readback", "relist"}, Goto(a, where),
           where # "list" => verb[a] \in acted'[a]
    PROVE  WrittenInv'
<1>1. Types' /\ OnlyOf(a)
  BY DEF WrittenInv, Types, Goto, OnlyOf, Place
<1>2. Honest(a)'
  BY DEF WrittenInv, Types, Goto, Honest, ReadingBack, Ended, Place
<1> QED
  BY <1>1, <1>2, OnlyOfKeeps

----------------------------------------------------------------------------
(* What get, write and delete do with an answer *)

\* One lemma for each way a step can go, with the invariant after it.
\* A GET that found the object.
LEMMA GotKeeps ==
    ASSUME NEW a \in Actor, NEW obj, WrittenInv, UNCHANGED <<op, acted>>, Got(a, obj)
    PROVE  WrittenInv'
<1>1. CASE op[a] = "get" \/ ReadingBack(a)
  <2>1. Return(a, "ok", obj.by)
    BY <1>1 DEF Got
  <2>2. op[a] \in Writes => verb[a] \in acted'[a]
    BY <1>1 DEF WrittenInv, Honest, Writes
  <2> QED
    BY <2>1, <2>2, ReturnKeeps DEF WrittenInv, Types, Result
<1>2. CASE ~(op[a] = "get" \/ ReadingBack(a))
  <2>1. StartWrite(a, "PUT", 0) \/ StartWrite(a, "POST", NewPriority(a, obj))
    BY <1>2 DEF Got
  <2> QED
    BY <2>1, WriteNext
<1> QED
  BY <1>1, <1>2

\* A GET that did not.
LEMMA GetRaisesKeeps ==
    ASSUME NEW a \in Actor, NEW why \in {"notfound", "error"},
           WrittenInv, UNCHANGED <<op, acted>>, GetRaises(a, why)
    PROVE  WrittenInv'
<1>1. CASE ReadingBack(a)
  <2>1. Return(a, "ok", a) /\ verb[a] \in acted'[a]
    BY <1>1 DEF GetRaises, WrittenInv, Honest
  <2> QED
    BY <2>1, ReturnKeeps DEF WrittenInv, Types, Result
<1>2. CASE ~ReadingBack(a)
  <2>1. StartWrite(a, "POST", 0) \/ Return(a, why, returned[a])
    BY <1>2 DEF GetRaises
  <2>2. CASE StartWrite(a, "POST", 0)
    BY <2>2, WriteNext
  <2>3. CASE Return(a, why, returned[a])
    BY <2>3, ReturnKeeps DEF WrittenInv, Types, Result
  <2> QED
    BY <2>1, <2>2, <2>3
<1> QED
  BY <1>1, <1>2

\* A write that fails, carried out or not, never counts as a success.
LEMMA WriteRaisesKeeps ==
    ASSUME NEW a \in Actor, NEW why \in {"invalid", "conflict", "notfound", "error"},
           WrittenInv, UNCHANGED op, WriteRaises(a, why),
           acted' = [acted EXCEPT ![a] = @ \cup {verb[a]}] \/ UNCHANGED acted
    PROVE  WrittenInv'
<1>1. CASE NextAttempt(a)
  BY <1>1, AttemptNext
<1>2. CASE StartWrite(a, "POST", 0)
  <2>1. Types' /\ OnlyOf(a)
    BY <1>2 DEF WrittenInv, Types, StartWrite, OnlyOf, Place
  <2>2. Honest(a)'
    BY <1>2 DEF WrittenInv, Types, StartWrite, Honest, ReadingBack, Ended, Place
  <2> QED
    BY <2>1, <2>2, OnlyOfKeeps
<1>3. CASE Return(a, why, returned[a])
  <2>1. /\ acted' \in [Actor -> SUBSET {"POST", "PUT", "DELETE"}]
        /\ \A b \in Actor \ {a} : acted'[b] = acted[b]
    BY DEF WrittenInv, Types
  <2> QED
    BY <1>3, <2>1, ReturnKeeps DEF Result
<1> QED
  BY <1>1, <1>2, <1>3 DEF WriteRaises

----------------------------------------------------------------------------
(* The steps *)

\* A method begins.
LEMMA BeginKeeps ==
    ASSUME NEW a \in Actor, NEW f, NEW method \in Op, NEW n, WrittenInv,
           Begin(a, f, method, n)
    PROVE  WrittenInv'
<1>1. Types'
  BY DEF WrittenInv, Types, Begin, First, Op, Place, Result
<1>2. ASSUME NEW b \in Actor
      PROVE  Honest(b)'
  BY DEF WrittenInv, Types, Begin, First, Honest, ReadingBack, Ended, Op, Place
<1> QED
  BY <1>1, <1>2 DEF WrittenInv

\* All methods begin alike.
LEMMA MethodsKeep ==
    ASSUME NEW a \in Actor, WrittenInv, Methods(a)
    PROVE  WrittenInv'
<1>1. \E f \in Family, method \in Op \ {"none"}, n \in Name : Begin(a, f, method, n)
  BY DEF Methods, Method, Insert, Family, Op,
         GetAddress, CreateAddress, UpdateAddress, DeleteAddress, EnsureAddress,
         GetService, CreateService, UpdateService, DeleteService, EnsureService,
         GetNat, CreateNat, UpdateNat, DeleteNat, EnsureNat,
         GetRule, CreateRule, UpdateRule, DeleteRule, InsertBefore, InsertAfter
<1> QED
  BY <1>1, BeginKeeps

\* The GET of a method, or of its read-back.
LEMMA LookupKeeps ==
    ASSUME NEW a \in Actor, WrittenInv, Lookup(a)
    PROVE  WrittenInv'
<1>1. UNCHANGED <<op, acted>>
  BY DEF Lookup, callVars
<1>2. CASE ParseEmpty(a)
  BY <1>1, <1>2, GotKeeps, GetRaisesKeeps DEF ParseEmpty
<1>3. CASE \E obj : Got(a, obj)
  BY <1>1, <1>3, GotKeeps
<1>4. CASE ByNameMissing(a)
  <2>1. CASE family = "address"
    BY <1>1, <1>4, <2>1, GetRaisesKeeps DEF ByNameMissing
  <2>2. CASE family # "address"
    <3>1. Goto(a, IF ReadingBack(a) THEN "relist" ELSE "list")
      BY <1>4, <2>2 DEF ByNameMissing
    <3>2. ReadingBack(a) => verb[a] \in acted'[a]
      BY <1>1 DEF WrittenInv, Honest
    <3> QED
      BY <1>1, <3>1, <3>2, GotoKeeps DEF WrittenInv, Types
  <2> QED
    BY <2>1, <2>2
<1> QED
  BY <1>2, <1>3, <1>4 DEF Lookup

\* The list that insert_before and insert_after read.
LEMMA ListKeeps ==
    ASSUME NEW a \in Actor, WrittenInv, List(a)
    PROVE  WrittenInv'
<1>1. UNCHANGED <<op, acted>>
  BY DEF List, callVars
<1> QED
  BY <1>1, GotKeeps, GetRaisesKeeps DEF List

\* A POST or PUT is answered.
LEMMA WriteDoneKeeps ==
    ASSUME NEW a \in Actor, WrittenInv, WriteDone(a)
    PROVE  WrittenInv'
<1>1. UNCHANGED op
  BY DEF WriteDone, callVars
<1>2. CASE Verdict(a) = "ok"
  <2>1. Goto(a, "readback") /\ acted' = [acted EXCEPT ![a] = @ \cup {verb[a]}]
    BY <1>2 DEF WriteDone, Stored, Carried
  <2>2. /\ acted' \in [Actor -> SUBSET {"POST", "PUT", "DELETE"}]
        /\ \A b \in Actor \ {a} : acted'[b] = acted[b]
        /\ verb[a] \in acted'[a]
    BY <2>1 DEF WrittenInv, Types
  <2> QED
    BY <1>1, <2>1, <2>2, GotoKeeps
<1>3. CASE Verdict(a) # "ok"
  BY <1>1, <1>3, WriteRaisesKeeps DEF WriteDone, NotStored, Verdict
<1> QED
  BY <1>2, <1>3

\* A delete is not one of the methods that write.
LEMMA DeleteEnds ==
    ASSUME NEW a \in Actor, WrittenInv, UNCHANGED op, pc[a] = "delete",
           NEW how \in {"ok", "notfound", "error"}, NEW author, Return(a, how, author),
           acted' = [acted EXCEPT ![a] = @ \cup {"DELETE"}] \/ UNCHANGED acted
    PROVE  WrittenInv'
<1>1. op[a] \notin Writes
  BY DEF WrittenInv, Honest, Writes
<1>2. /\ acted' \in [Actor -> SUBSET {"POST", "PUT", "DELETE"}]
      /\ \A b \in Actor \ {a} : acted'[b] = acted[b]
  BY DEF WrittenInv, Types
<1> QED
  BY <1>1, <1>2, ReturnKeeps DEF Result

\* A DELETE is answered.
LEMMA DeleteDoneKeeps ==
    ASSUME NEW a \in Actor, WrittenInv, DeleteDone(a)
    PROVE  WrittenInv'
BY DeleteEnds DEF DeleteDone, Removed, Carried, NotStored, callVars

\* A request is carried out and its answer lost.
LEMMA AnswerLostKeeps ==
    ASSUME NEW a \in Actor, WrittenInv, AnswerLost(a)
    PROVE  WrittenInv'
<1>1. UNCHANGED op
  BY DEF AnswerLost, callVars
<1>2. CASE GetRaises(a, "error") /\ NotStored
  BY <1>1, <1>2, GetRaisesKeeps DEF NotStored
<1>3. CASE WriteRaises(a, "error") /\ (NotStored \/ Stored(a))
  BY <1>1, <1>3, WriteRaisesKeeps DEF NotStored, Stored, Carried
<1>4. CASE pc[a] = "delete" /\ Return(a, "error", returned[a]) /\ (NotStored \/ Removed(a))
  BY <1>1, <1>4, DeleteEnds DEF NotStored, Removed, Carried
<1> QED
  BY <1>2, <1>3, <1>4 DEF AnswerLost

\* The invariant of WrittenBeforeReported holds at first,
LEMMA WrittenInvInit == Init => WrittenInv
BY DEF Init, WrittenInv, Types, Honest, ReadingBack, Ended, Op, Place, Result, Writes

\* and every step keeps it.
LEMMA WrittenInvNext == WrittenInv /\ [Next]_vars => WrittenInv'
<1> SUFFICES ASSUME WrittenInv, [Next]_vars
             PROVE  WrittenInv'
  OBVIOUS
<1>1. CASE UNCHANGED vars
  BY <1>1 DEF vars, callVars, WrittenInv, Types, Honest, ReadingBack, Ended
<1> QED
  BY <1>1, MethodsKeep, LookupKeeps, ListKeeps, WriteDoneKeeps, DeleteDoneKeeps,
     AnswerLostKeeps
  DEF Next, Rest

\* A method that returns has had the write it reports carried out (create,
\* update, ensure, insert_before, insert_after in resources/*.py).
THEOREM ReturnedMeansWritten == Spec => []SuccessIsWritten
<1>1. WrittenInv => SuccessIsWritten
  BY DEF WrittenInv, Honest, SuccessIsWritten
<1> QED
  BY WrittenInvInit, WrittenInvNext, <1>1, PTL DEF Spec

----------------------------------------------------------------------------
(* What else is known of the variables *)

\* The payload shapes of every family, and one that the firmware accepts.
FirmwareTypes ==
    /\ family \in Family /\ envelope \in Envelope
    /\ \E i \in 1..Len(Payloads) : Payloads[i] \in accepts

\* The types the proofs below use.
CallTypes ==
    /\ name \in [Actor -> Name] /\ target \in [Actor -> Name]
    /\ attempt \in [Actor -> 1..Len(Payloads)] /\ prio \in [Actor -> Nat]
    /\ returned \in [Actor -> Author] /\ touched \in [Actor -> SUBSET Name]
    /\ faults \in Nat

\* The objects the device holds.
StoreTypes == store \in [Present -> Object] /\ Present \subseteq Name

\* The types, and that a method that writes is in none of delete's places.
ResourceTypes == WrittenInv /\ FirmwareTypes /\ CallTypes /\ StoreTypes

\* There are two or three payloads.
LEMMA TwoOrThree ==
    ASSUME family \in Family
    PROVE  /\ Len(Payloads) \in {2, 3}
           /\ family = "rule" => Len(Payloads) = 2
           /\ DOMAIN Payloads = 1..Len(Payloads)
BY DEF Family, Payloads, AddressPayloads, RulePayloads, ServicePayloads, NatPayloads

----------------------------------------------------------------------------
(* What a request changes on the device *)

\* Nothing, or the object of the method: the others stay as they are, and who is in a
\* method of its own has seen it change.
Touches(a) ==
    \/ NotStored
    \/ /\ \A m \in Name \ {name[a]} :
            /\ m \in Present' <=> m \in Present
            /\ m \in Present => store'[m] = store[m]
       /\ touched'[a] = touched[a]
       /\ \A b \in Actor \ {a} :
            touched'[b] = IF pc[b] = "idle" THEN touched[b] ELSE touched[b] \cup {name[a]}

\* A POST or PUT does no more, and leaves the object of its author.
LEMMA StoredTouches ==
    ASSUME NEW a \in Actor, ResourceTypes, Stored(a)
    PROVE  /\ Touches(a) /\ StoreTypes' /\ touched' \in [Actor -> SUBSET Name]
           /\ touched'[a] = touched[a] /\ name[a] \in Present'
           /\ store'[name[a]].by = a /\ store'[name[a]].prio = prio[a]
           /\ \A m \in Name \ {name[a]} :
                /\ m \in Present' <=> m \in Present
                /\ m \in Present => store'[m] = store[m]
<1> DEFINE mine == [by |-> a, prio |-> prio[a]]
<1>1. name[a] \in Name /\ prio[a] \in Nat
  BY DEF ResourceTypes, CallTypes
<1>2. mine \in Object /\ mine.by = a /\ mine.prio = prio[a]
  BY <1>1 DEF Object, Author
<1>3. /\ store' = [m \in Present \cup {name[a]} |-> IF m = name[a] THEN mine ELSE store[m]]
      /\ Carried(a, verb[a])
  BY DEF Stored
<1>4. StoreTypes
  BY DEF ResourceTypes
<1> HIDE DEF mine
<1>5. Present' = Present \cup {name[a]}
  BY <1>3 DEF Present
<1>6. store'[name[a]] = mine /\ \A m \in Present \ {name[a]} : store'[m] = store[m]
  BY <1>3
<1>7. StoreTypes'
  <2>1. \A m \in Present \cup {name[a]} : (IF m = name[a] THEN mine ELSE store[m]) \in Object
    BY <1>2, <1>4 DEF StoreTypes
  <2> QED
    BY <1>1, <1>3, <1>4, <1>5, <2>1 DEF StoreTypes
<1>8. touched' = [b \in Actor |-> IF b = a \/ pc[b] = "idle" THEN touched[b]
                                  ELSE touched[b] \cup {name[a]}]
  BY <1>3 DEF Carried
<1>9. touched' \in [Actor -> SUBSET Name] /\ touched'[a] = touched[a]
  BY <1>1, <1>8 DEF ResourceTypes, CallTypes
<1>10. \A m \in Name \ {name[a]} :
         /\ m \in Present' <=> m \in Present
         /\ m \in Present => store'[m] = store[m]
  BY <1>5, <1>6
<1>11. Touches(a)
  BY <1>8, <1>9, <1>10 DEF Touches
<1> QED
  BY <1>2, <1>5, <1>6, <1>7, <1>9, <1>10, <1>11

\* A DELETE neither.
LEMMA RemovedTouches ==
    ASSUME NEW a \in Actor, ResourceTypes, Removed(a)
    PROVE  /\ Touches(a) /\ StoreTypes' /\ touched' \in [Actor -> SUBSET Name]
           /\ touched'[a] = touched[a]
<1>1. store' = [m \in Present \ {name[a]} |-> store[m]]
  BY DEF Removed
<1>2. Present' = Present \ {name[a]} /\ \A m \in Present' : store'[m] = store[m]
  BY <1>1 DEF Present
<1>3. StoreTypes'
  BY <1>1, <1>2 DEF ResourceTypes, StoreTypes
<1>4. /\ touched' = [b \in Actor |-> IF b = a \/ pc[b] = "idle" THEN touched[b]
                                     ELSE touched[b] \cup {name[a]}]
  BY DEF Removed, Carried
<1>5. touched' \in [Actor -> SUBSET Name] /\ touched'[a] = touched[a]
  BY <1>4 DEF ResourceTypes, CallTypes
<1>6. Touches(a)
  BY <1>2, <1>4, <1>5 DEF Touches
<1> QED
  BY <1>3, <1>5, <1>6

----------------------------------------------------------------------------
(* The steps keep the types *)

\* The locals of a method.
Locals == <<attempt, prio, returned>>

\* Going on keeps the types of the locals.
LEMMA LocalTypes ==
    ASSUME NEW a \in Actor, ResourceTypes, UNCHANGED <<firmware, callVars>>,
           \/ \E where : Goto(a, where)
           \/ \E how : \E author \in Author : Return(a, how, author)
           \/ \E method : \E p \in Nat : StartWrite(a, method, p)
           \/ NextAttempt(a) /\ attempt[a] < Len(Payloads),
           touched' \in [Actor -> SUBSET Name], faults' \in {faults, faults + 1}, StoreTypes',
           WrittenInv'
    PROVE  ResourceTypes'
<1>1. Len(Payloads) \in {2, 3} /\ Payloads' = Payloads
  <2>1. Len(Payloads) \in {2, 3}
    BY TwoOrThree DEF ResourceTypes, FirmwareTypes
  <2> QED
    BY <2>1 DEF firmware, Payloads, AddressPayloads, RulePayloads, ServicePayloads, NatPayloads
<1>2. FirmwareTypes'
  BY <1>1 DEF ResourceTypes, FirmwareTypes, firmware
<1>3. attempt' \in [Actor -> 1..Len(Payloads)] /\ prio' \in [Actor -> Nat]
      /\ returned' \in [Actor -> Author]
  <2>1. CASE \E where : Goto(a, where)
    BY <2>1 DEF Goto, ResourceTypes, CallTypes
  <2>2. CASE \E how : \E author \in Author : Return(a, how, author)
    BY <1>1, <2>2 DEF Return, ResourceTypes, CallTypes
  <2>3. CASE \E method : \E p \in Nat : StartWrite(a, method, p)
    BY <1>1, <2>3 DEF StartWrite, ResourceTypes, CallTypes
  <2>4. CASE NextAttempt(a) /\ attempt[a] < Len(Payloads)
    <3>1. attempt[a] + 1 \in 1..Len(Payloads)
      BY <1>1, <2>4 DEF ResourceTypes, CallTypes
    <3> QED
      BY <2>4, <3>1 DEF NextAttempt, ResourceTypes, CallTypes
  <2> QED
    BY <2>1, <2>2, <2>3, <2>4
<1>4. CallTypes'
  BY <1>1, <1>3 DEF ResourceTypes, CallTypes, callVars
<1> QED
  BY <1>2, <1>4 DEF ResourceTypes

----------------------------------------------------------------------------
(* What is true of one actor *)

\* No answer was lost, or a lost one ends the method.
Fair == faults = 0 \/ Len(Payloads) = 2

\* A method tries a further payload, or reports a conflict, only if the device has not
\* carried out any write of it.
Unwritten(a) ==
    /\ Fair /\ op[a] \in Writes
    /\ pc[a] \in {"lookup", "list", "write"} \/ (pc[a] = "idle" /\ result[a] = "conflict")
    => acted[a] = {}

\* Until others write it, the object is there and is the actor's.
OwnObject(a) ==
    name[a] \notin touched[a] =>
        /\ ReadingBack(a) => name[a] \in Present /\ store[name[a]].by = a
        /\ Ended(a, Writes, "ok") => returned[a] = a

\* Until others write the object, ensure does the write that applies, and has tried only
\* payloads the firmware does not accept.
Upserts(a) ==
    faults = 0 /\ op[a] = "ensure" =>
        /\ pc[a] = "idle" => result[a] # "notfound"
        /\ ReadsByName /\ name[a] \notin touched[a] =>
              /\ pc[a] = "idle" => result[a] = "ok"
              /\ pc[a] = "write" =>
                    /\ verb[a] = "PUT" <=> name[a] \in Present
                    /\ \A i \in 1..(attempt[a] - 1) : Payloads[i] \notin accepts

\* A priority the target gives to a rule that is inserted before or after it.
Follows(a, p) ==
    /\ target[a] \in Present =>
         p = IF store[target[a]].prio = 0 \/ op[a] = "before" THEN store[target[a]].prio
                                                             ELSE store[target[a]].prio + 1
    /\ target[a] \notin Present /\ envelope # "plural" => p = 0

\* Until others write the target, the priority to be written is the one it gives; and until
\* they write the new rule, that one has it.
Aims(a) ==
    op[a] \in {"before", "after"} =>
        /\ family = "rule" /\ name[a] # target[a]
        /\ pc[a] = "write" /\ target[a] \notin touched[a] => Follows(a, prio[a])
        /\ ReadingBack(a) /\ {name[a], target[a]} \cap touched[a] = {}
              => Follows(a, store[name[a]].prio)

\* All of it.
Good(a) == Unwritten(a) /\ OwnObject(a) /\ Upserts(a) /\ Aims(a)

\* The inductive invariant.
ResourceInv == ResourceTypes /\ \A a \in Actor : Good(a)

\* A step of a: the other actors stay where they are.
OnlyA(a) ==
    /\ UNCHANGED firmware /\ faults' \in {faults, faults + 1}
    /\ \A b \in Actor \ {a} :
          /\ op'[b] = op[b] /\ name'[b] = name[b] /\ target'[b] = target[b]
          /\ pc'[b] = pc[b] /\ verb'[b] = verb[b] /\ attempt'[b] = attempt[b]
          /\ prio'[b] = prio[b] /\ result'[b] = result[b] /\ returned'[b] = returned[b]
          /\ acted'[b] = acted[b]
    /\ Touches(a)

\* What the firmware is does not change.
LEMMA SameFirmware ==
    ASSUME UNCHANGED firmware
    PROVE  /\ family' = family /\ envelope' = envelope /\ accepts' = accepts
           /\ Payloads' = Payloads /\ (ReadsByName' <=> ReadsByName)
BY DEF firmware, Payloads, AddressPayloads, RulePayloads, ServicePayloads, NatPayloads,
       ReadsByName

\* Without a lost answer after the step there was none before.
LEMMA FewerFaults ==
    ASSUME faults \in Nat, UNCHANGED firmware, faults' \in {faults, faults + 1}
    PROVE  /\ faults' = 0 => faults = 0
           /\ Fair' => Fair
BY SameFirmware DEF Fair

\* What another actor's step leaves of an actor's object: all, or it knows.
LEMMA Known ==
    ASSUME NEW a \in Actor, NEW b \in Actor \ {a}, ResourceTypes, OnlyA(a)
    PROVE  /\ touched[b] \subseteq touched'[b]
           /\ pc[b] = "idle" \/ UNCHANGED <<store, touched>>
              \/ touched'[b] = touched[b] \cup {name[a]}
           /\ pc[b] # "idle" => \A m \in Name \ touched'[b] :
                /\ m \in Present' <=> m \in Present
                /\ m \in Present => store'[m] = store[m]
<1>1. CASE NotStored
  BY <1>1 DEF NotStored, Present
<1>2. CASE ~NotStored
  <2>1. /\ \A m \in Name \ {name[a]} :
             /\ m \in Present' <=> m \in Present
             /\ m \in Present => store'[m] = store[m]
        /\ touched'[b] = IF pc[b] = "idle" THEN touched[b] ELSE touched[b] \cup {name[a]}
    BY <1>2 DEF OnlyA, Touches
  <2>2. CASE pc[b] = "idle"
    BY <2>1, <2>2
  <2>3. CASE pc[b] # "idle"
    <3>1. touched'[b] = touched[b] \cup {name[a]}
      BY <2>1, <2>3
    <3> QED
      BY <2>1, <2>3, <3>1
  <2> QED
    BY <2>2, <2>3
<1> QED
  BY <1>1, <1>2

\* The others are as well off as before.
LEMMA OthersGood ==
    ASSUME NEW a \in Actor, NEW b \in Actor \ {a}, ResourceTypes, OnlyA(a), Good(b)
    PROVE  Good(b)'
<1>1. /\ op'[b] = op[b] /\ name'[b] = name[b] /\ target'[b] = target[b]
      /\ pc'[b] = pc[b] /\ verb'[b] = verb[b] /\ attempt'[b] = attempt[b]
      /\ prio'[b] = prio[b] /\ result'[b] = result[b] /\ returned'[b] = returned[b]
      /\ acted'[b] = acted[b]
  BY DEF OnlyA
<1>2. /\ family' = family /\ envelope' = envelope /\ accepts' = accepts
      /\ Payloads' = Payloads /\ (ReadsByName' <=> ReadsByName)
  BY SameFirmware DEF OnlyA
<1>3. /\ faults' = 0 => faults = 0
      /\ Fair' => Fair
  BY FewerFaults DEF OnlyA, ResourceTypes, CallTypes
<1>4. name[b] \in Name /\ target[b] \in Name /\ touched[b] \subseteq touched'[b]
  BY Known DEF ResourceTypes, CallTypes
<1>5. Unwritten(b)'
  BY <1>1, <1>3 DEF Good, Unwritten
<1>6. pc[b] # "idle" /\ name[b] \notin touched'[b] =>
         /\ name[b] \in Present' <=> name[b] \in Present
         /\ name[b] \in Present => store'[name[b]] = store[name[b]]
  BY <1>4, Known
<1>7. OwnObject(b)'
  BY <1>1, <1>4, <1>6 DEF Good, OwnObject, ReadingBack, Ended
<1>8. Upserts(b)'
  BY <1>1, <1>2, <1>3, <1>4, <1>6 DEF Good, Upserts
<1>9. Aims(b)'
  <2> SUFFICES ASSUME op[b] \in {"before", "after"}
               PROVE  Aims(b)'
    BY <1>1 DEF Aims
  <2>1. family' = "rule" /\ name'[b] # target'[b]
    BY <1>1, <1>2 DEF Good, Aims
  <2>2. ASSUME pc[b] # "idle", target[b] \notin touched'[b], NEW p, Follows(b, p)
        PROVE  Follows(b, p)'
    <3>1. /\ target[b] \in Present' <=> target[b] \in Present
          /\ target[b] \in Present => store'[target[b]] = store[target[b]]
      BY <1>4, <2>2, Known
    <3> QED
      BY <1>1, <1>2, <2>2, <3>1 DEF Follows
  <2>3. ASSUME pc[b] = "write", target[b] \notin touched'[b]
        PROVE  Follows(b, prio[b])'
    <3>1. Follows(b, prio[b])
      BY <1>4, <2>3 DEF Good, Aims
    <3> QED
      BY <1>1, <2>2, <2>3, <3>1 DEF Follows
  <2>4. ASSUME ReadingBack(b), {name[b], target[b]} \cap touched'[b] = {}
        PROVE  Follows(b, store[name[b]].prio)'
    <3>1. pc[b] # "idle" /\ name[b] \notin touched'[b] /\ target[b] \notin touched'[b]
      BY <2>4 DEF ReadingBack
    <3>2. name[b] \in Present /\ Follows(b, store[name[b]].prio)
      BY <1>4, <2>4, <3>1 DEF Good, OwnObject, Aims
    <3>3. store'[name[b]] = store[name[b]]
      BY <1>6, <3>1, <3>2
    <3> QED
      BY <1>1, <2>2, <3>1, <3>2, <3>3 DEF Follows
  <2>5. ReadingBack(b)' <=> ReadingBack(b)
    BY <1>1 DEF ReadingBack
  <2> QED
    BY <1>1, <2>1, <2>3, <2>4, <2>5 DEF Aims
<1> QED
  BY <1>5, <1>7, <1>8, <1>9 DEF Good

----------------------------------------------------------------------------
(* What an answer does to the actor itself *)

\* Going on, a method keeps its fields but these.
LEMMA Fields ==
    ASSUME NEW a \in Actor, ResourceTypes
    PROVE  /\ \A where : Goto(a, where) =>
                /\ pc'[a] = where /\ UNCHANGED <<verb, attempt, prio, result, returned>>
           /\ \A how, author : Return(a, how, author) =>
                /\ pc'[a] = "idle" /\ result'[a] = how /\ returned'[a] = author
                /\ prio'[a] = 0 /\ UNCHANGED verb
           /\ \A method, p : StartWrite(a, method, p) =>
                /\ pc'[a] = "write" /\ verb'[a] = method /\ attempt'[a] = 1 /\ prio'[a] = p
                /\ UNCHANGED <<result, returned>>
           /\ NextAttempt(a) =>
                /\ attempt'[a] = attempt[a] + 1
                /\ UNCHANGED <<pc, verb, prio, result, returned>>
BY DEF Goto, Return, StartWrite, NextAttempt, ResourceTypes, WrittenInv, Types, CallTypes

\* The object read is the one the method goes on with.
LEMMA GotOwn ==
    ASSUME NEW a \in Actor, NEW obj, ResourceTypes, Good(a), Got(a, obj),
           pc[a] \in {"lookup", "list", "readback", "relist"},
           UNCHANGED <<firmware, store, callVars, acted, touched, faults>>,
           ReadingBack(a) /\ name[a] \notin touched[a] => obj.by = a,
           op[a] = "ensure" /\ ReadsByName /\ ~ReadingBack(a) => name[a] \in Present,
           op[a] \in {"before", "after"} /\ ~ReadingBack(a) =>
               /\ target[a] \in Present => obj = store[target[a]]
               /\ envelope # "plural" => target[a] \in Present
    PROVE  Good(a)'
<1>a. /\ family' = family /\ envelope' = envelope /\ (ReadsByName' <=> ReadsByName)
      /\ (Fair' <=> Fair)
  BY SameFirmware DEF Fair
<1>b. UNCHANGED <<op, name, target>>
  BY DEF callVars
<1>1. CASE op[a] = "get" \/ ReadingBack(a)
  <2>1. Return(a, "ok", obj.by)
    BY <1>1 DEF Got
  <2>2. pc'[a] = "idle" /\ result'[a] = "ok" /\ returned'[a] = obj.by
    BY <2>1, Fields
  <2>3. Unwritten(a)' /\ Upserts(a)'
    BY <2>2 DEF Unwritten, Upserts
  <2>4. OwnObject(a)'
    BY <1>1, <1>b, <2>2 DEF OwnObject, ReadingBack, Ended, Writes
  <2>5. Aims(a)'
    BY <1>a, <1>b, <2>2 DEF Good, Aims, ReadingBack
  <2> QED
    BY <2>3, <2>4, <2>5 DEF Good
<1>2. CASE ~(op[a] = "get" \/ ReadingBack(a)) /\ op[a] = "ensure"
  <2>1. pc'[a] = "write" /\ verb'[a] = "PUT" /\ attempt'[a] = 1
    BY <1>2, Fields DEF Got
  <2>2. Unwritten(a)'
    BY <1>2, <1>a, <1>b, <2>1 DEF Good, Unwritten, ReadingBack
  <2>3. OwnObject(a)' /\ Aims(a)'
    BY <1>2, <1>b, <2>1 DEF OwnObject, Aims, ReadingBack, Ended
  <2>4. Upserts(a)'
    BY <1>2, <1>a, <1>b, <2>1 DEF Upserts, Present
  <2> QED
    BY <2>2, <2>3, <2>4 DEF Good
<1>3. CASE ~(op[a] = "get" \/ ReadingBack(a)) /\ op[a] # "ensure"
  <2>1. pc'[a] = "write" /\ verb'[a] = "POST" /\ prio'[a] = NewPriority(a, obj)
    BY <1>3, Fields DEF Got
  <2>2. Unwritten(a)'
    BY <1>3, <1>a, <1>b, <2>1 DEF Good, Unwritten, ReadingBack
  <2>3. OwnObject(a)' /\ Upserts(a)'
    BY <1>3, <1>b, <2>1 DEF OwnObject, Upserts, ReadingBack, Ended
  <2>4. Aims(a)'
    <3> SUFFICES ASSUME op[a] \in {"before", "after"}
                 PROVE  Aims(a)'
      BY <1>b DEF Aims
    <3>1. family' = "rule" /\ name'[a] # target'[a]
      BY <1>a, <1>b DEF Good, Aims
    <3>2. Follows(a, NewPriority(a, obj))
      BY <1>3 DEF Follows, NewPriority, PriorityAfter
    <3>3. Follows(a, prio[a])'
      BY <1>a, <1>b, <2>1, <3>2 DEF Follows, Present
    <3> QED
      BY <1>b, <2>1, <3>1, <3>3 DEF Aims, ReadingBack
  <2> QED
    BY <2>2, <2>3, <2>4 DEF Good
<1> QED
  BY <1>1, <1>2, <1>3

\* An error of get leads to a POST, or to the end.
LEMMA RaisesOwn ==
    ASSUME NEW a \in Actor, NEW why \in {"notfound", "error"}, ResourceTypes, Good(a),
           GetRaises(a, why), pc[a] \in {"lookup", "list", "readback", "relist"},
           UNCHANGED <<firmware, store, callVars, acted, touched>>,
           faults' \in {faults, faults + 1},
           op[a] = "ensure" /\ ReadsByName /\ ~ReadingBack(a) /\ faults' = 0
               => why = "notfound" /\ name[a] \notin Present,
           op[a] \in {"before", "after"} /\ ~ReadingBack(a) /\ why = "notfound"
               => target[a] \notin Present
    PROVE  Good(a)'
<1>a. family' = family /\ envelope' = envelope /\ (ReadsByName' <=> ReadsByName)
  BY SameFirmware
<1>b. UNCHANGED <<op, name, target>>
  BY DEF callVars
<1>c. /\ faults' = 0 => faults = 0
      /\ Fair' => Fair
  BY FewerFaults DEF ResourceTypes, CallTypes
<1>1. CASE ReadingBack(a)
  <2>1. pc'[a] = "idle" /\ result'[a] = "ok" /\ returned'[a] = a
    BY <1>1, Fields DEF GetRaises
  <2>2. Unwritten(a)' /\ Upserts(a)'
    BY <2>1 DEF Unwritten, Upserts
  <2>3. OwnObject(a)'
    BY <2>1 DEF OwnObject, ReadingBack
  <2>4. Aims(a)'
    BY <1>a, <1>b, <2>1 DEF Good, Aims, ReadingBack
  <2> QED
    BY <2>2, <2>3, <2>4 DEF Good
<1>2. CASE ~ReadingBack(a) /\ why = "notfound" /\ op[a] # "get"
  <2>1. pc'[a] = "write" /\ verb'[a] = "POST" /\ attempt'[a] = 1 /\ prio'[a] = 0
    BY <1>2, Fields DEF GetRaises
  <2>2. Unwritten(a)'
    BY <1>2, <1>b, <1>c, <2>1 DEF Good, Unwritten, ReadingBack
  <2>3. OwnObject(a)'
    BY <2>1 DEF OwnObject, ReadingBack, Ended
  <2>4. Upserts(a)'
    BY <1>2, <1>a, <1>b, <2>1 DEF Upserts, Present
  <2>5. Aims(a)'
    <3>1. op[a] \in {"before", "after"} => Follows(a, prio[a])'
      BY <1>2, <1>b, <2>1 DEF Follows, Present
    <3> QED
      BY <1>a, <1>b, <2>1, <3>1 DEF Good, Aims, ReadingBack
  <2> QED
    BY <2>2, <2>3, <2>4, <2>5 DEF Good
<1>3. CASE ~ReadingBack(a) /\ ~(why = "notfound" /\ op[a] # "get")
  <2>1. pc'[a] = "idle" /\ result'[a] = why
    BY <1>3, Fields DEF GetRaises
  <2>2. Unwritten(a)' /\ OwnObject(a)'
    BY <2>1 DEF Unwritten, OwnObject, ReadingBack, Ended
  <2>3. Upserts(a)'
    BY <1>3, <1>a, <1>b, <2>1 DEF Upserts
  <2>4. Aims(a)'
    BY <1>a, <1>b, <2>1 DEF Good, Aims, ReadingBack
  <2> QED
    BY <2>2, <2>3, <2>4 DEF Good
<1> QED
  BY <1>1, <1>2, <1>3

\* The list is asked for.
LEMMA GotoOwn ==
    ASSUME NEW a \in Actor, ResourceTypes, Good(a),
           \/ pc[a] = "lookup" /\ Goto(a, "list")
           \/ pc[a] = "readback" /\ Goto(a, "relist"),
           UNCHANGED <<firmware, store, callVars, acted, touched, faults>>
    PROVE  Good(a)'
<1>a. /\ family' = family /\ envelope' = envelope /\ (Fair' <=> Fair)
  BY SameFirmware DEF Fair
<1>b. UNCHANGED <<op, name, target>>
  BY DEF callVars
<1>1. /\ \/ pc[a] = "lookup" /\ pc'[a] = "list"
         \/ pc[a] = "readback" /\ pc'[a] = "relist"
      /\ UNCHANGED <<verb, attempt, prio, result, returned>>
  BY Fields
<1>2. Unwritten(a)' /\ OwnObject(a)' /\ Upserts(a)'
  BY <1>a, <1>b, <1>1 DEF Good, Unwritten, OwnObject, Upserts, ReadingBack, Ended, Present
<1>3. Aims(a)'
  BY <1>a, <1>b, <1>1 DEF Good, Aims, ReadingBack, Follows, Present
<1> QED
  BY <1>2, <1>3 DEF Good

\* Why the device refuses a write that nobody else has interfered with.
LEMMA OnlyShapes ==
    ASSUME NEW a \in Actor, Good(a), pc[a] = "write", Verdict(a) # "ok", faults = 0,
           op[a] = "ensure", ReadsByName, name[a] \notin touched[a], verb[a] \in {"POST", "PUT"}
    PROVE  Payloads[attempt[a]] \notin accepts /\ Verdict(a) = "invalid"
BY DEF Good, Upserts, Verdict, Shape

\* A further payload is tried only if there is one.
LEMMA OneMore ==
    ASSUME NEW a \in Actor, NEW why, ResourceTypes, TriesNext(a, why)
    PROVE  attempt[a] < Len(Payloads)
<1>1. Len(Payloads) \in {2, 3} /\ attempt[a] \in 1..Len(Payloads)
  BY TwoOrThree DEF ResourceTypes, FirmwareTypes, CallTypes
<1>2. attempt[a] = 1 \/ (attempt[a] = 2 /\ Len(Payloads) = 3)
  BY DEF TriesNext
<1>3. \A n \in {2, 3} : \A k \in 1..n : k = 1 \/ (k = 2 /\ n = 3) => k < n
  OBVIOUS
<1> QED
  BY <1>1, <1>2, <1>3, Zenon

\* A refused write.
LEMMA RefusedOwn ==
    ASSUME NEW a \in Actor, ResourceTypes, Good(a), pc[a] = "write", Verdict(a) # "ok",
           WriteRaises(a, Verdict(a)),
           UNCHANGED <<firmware, store, callVars, acted, touched, faults>>
    PROVE  Good(a)'
<1>a. /\ family' = family /\ envelope' = envelope /\ accepts' = accepts
      /\ Payloads' = Payloads /\ (ReadsByName' <=> ReadsByName) /\ (Fair' <=> Fair)
  BY SameFirmware DEF Fair
<1>b. UNCHANGED <<op, name, target>>
  BY DEF callVars
<1>c. /\ verb[a] \in {"POST", "PUT"} /\ attempt[a] \in 1..Len(Payloads)
      /\ Len(Payloads) \in {2, 3}
  BY TwoOrThree DEF ResourceTypes, FirmwareTypes, WrittenInv, Types, CallTypes
<1>1. CASE TriesNext(a, Verdict(a))
  <2>1. /\ attempt'[a] = attempt[a] + 1
        /\ UNCHANGED <<pc, verb, prio, result, returned>>
    BY <1>1, Fields DEF WriteRaises
  <2>2. Unwritten(a)' /\ OwnObject(a)' /\ Aims(a)'
    BY <1>a, <1>b, <2>1 DEF Good, Unwritten, OwnObject, Aims, ReadingBack, Ended, Follows, Present
  <2>3. Upserts(a)'
    <3> SUFFICES ASSUME faults = 0, op[a] = "ensure", ReadsByName, name[a] \notin touched[a]
                 PROVE  /\ verb[a] = "PUT" <=> name[a] \in Present
                        /\ \A i \in 1..attempt[a] : Payloads[i] \notin accepts
      BY <1>a, <1>b, <1>c, <2>1 DEF Upserts, Present
    <3>1. Payloads[attempt[a]] \notin accepts
      BY <1>c, OnlyShapes
    <3>2. /\ verb[a] = "PUT" <=> name[a] \in Present
          /\ \A i \in 1..(attempt[a] - 1) : Payloads[i] \notin accepts
      BY DEF Good, Upserts
    <3>3. \A i \in 1..attempt[a] : i = attempt[a] \/ i \in 1..(attempt[a] - 1)
      BY <1>c
    <3> QED
      BY <3>1, <3>2, <3>3
  <2> QED
    BY <2>2, <2>3 DEF Good
<1>2. CASE ~TriesNext(a, Verdict(a)) /\ CreatesInstead(a, Verdict(a))
  <2>1. pc'[a] = "write" /\ verb'[a] = "POST" /\ attempt'[a] = 1
    BY <1>2, Fields DEF WriteRaises
  <2>2. op[a] = "ensure" /\ name[a] \notin Present
    BY <1>2 DEF CreatesInstead, Verdict
  <2>3. Unwritten(a)'
    BY <1>a, <1>b, <2>1 DEF Good, Unwritten
  <2>4. OwnObject(a)' /\ Aims(a)'
    BY <1>b, <2>1, <2>2 DEF OwnObject, Aims, ReadingBack, Ended
  <2>5. Upserts(a)'
    BY <1>b, <2>1, <2>2 DEF Upserts, Present
  <2> QED
    BY <2>3, <2>4, <2>5 DEF Good
<1>3. CASE ~TriesNext(a, Verdict(a)) /\ ~CreatesInstead(a, Verdict(a))
  <2>1. pc'[a] = "idle" /\ result'[a] = Verdict(a)
    BY <1>3, Fields DEF WriteRaises
  <2>2. Unwritten(a)'
    BY <1>a, <1>b, <2>1 DEF Good, Unwritten
  <2>3. OwnObject(a)'
    BY <2>1 DEF OwnObject, ReadingBack, Ended
  <2>4. Aims(a)'
    BY <1>a, <1>b, <2>1 DEF Good, Aims, ReadingBack
  <2>5. Upserts(a)'
    <3> SUFFICES ASSUME faults = 0, op[a] = "ensure"
                 PROVE  /\ Verdict(a) # "notfound"
                        /\ ReadsByName => name[a] \in touched[a]
      BY <1>a, <1>b, <2>1 DEF Upserts
    <3>1. Verdict(a) # "notfound"
      BY <1>3, <1>c DEF Verdict, CreatesInstead
    <3>2. ASSUME ReadsByName, name[a] \notin touched[a]
          PROVE  FALSE
      <4>1. Payloads[attempt[a]] \notin accepts /\ Verdict(a) = "invalid"
        BY <1>c, <3>2, OnlyShapes
      <4>2. attempt[a] = Len(Payloads)
        <5>1. attempt[a] # 1 /\ ~(attempt[a] = 2 /\ Len(Payloads) = 3)
          BY <1>3, <4>1 DEF TriesNext
        <5>2. \A n \in {2, 3} : \A k \in 1..n : k # 1 /\ ~(k = 2 /\ n = 3) => k = n
          OBVIOUS
        <5> QED
          BY <1>c, <5>1, <5>2, Zenon
      <4>3. \A i \in 1..(attempt[a] - 1) : Payloads[i] \notin accepts
        BY <3>2 DEF Good, Upserts
      <4>4. \A i \in 1..Len(Payloads) : i = attempt[a] \/ i \in 1..(attempt[a] - 1)
        BY <1>c, <4>2
      <4> QED
        BY <4>1, <4>3, <4>4 DEF ResourceTypes, FirmwareTypes
    <3> QED
      BY <3>1, <3>2
  <2> QED
    BY <2>2, <2>3, <2>4, <2>5 DEF Good
<1> QED
  BY <1>1, <1>2, <1>3

\* A write that is carried out: the object is the actor's, with the priority meant for it.
LEMMA WrittenOwn ==
    ASSUME NEW a \in Actor, ResourceTypes, Good(a), pc[a] = "write", Stored(a),
           Goto(a, "readback"), UNCHANGED <<firmware, callVars, faults>>
    PROVE  Good(a)'
<1>a. /\ family' = family /\ envelope' = envelope
  BY SameFirmware
<1>b. UNCHANGED <<op, name, target>>
  BY DEF callVars
<1>1. pc'[a] = "readback" /\ UNCHANGED <<verb, attempt, prio, result, returned>>
  BY Fields
<1>2. /\ touched'[a] = touched[a] /\ name[a] \in Present'
      /\ store'[name[a]].by = a /\ store'[name[a]].prio = prio[a]
      /\ \A m \in Name \ {name[a]} :
           /\ m \in Present' <=> m \in Present
           /\ m \in Present => store'[m] = store[m]
  BY StoredTouches
<1>3. Unwritten(a)' /\ OwnObject(a)' /\ Upserts(a)'
  BY <1>1, <1>2, <1>b DEF Unwritten, OwnObject, Upserts, ReadingBack, Ended
<1>4. Aims(a)'
  <2> SUFFICES ASSUME op[a] \in {"before", "after"}
               PROVE  Aims(a)'
    BY <1>b DEF Aims
  <2>1. family = "rule" /\ name[a] # target[a] /\ target[a] \in Name
    BY DEF Good, Aims, ResourceTypes, CallTypes
  <2>2. ASSUME target[a] \notin touched[a]
        PROVE  Follows(a, store[name[a]].prio)'
    <3>1. Follows(a, prio[a])
      BY <2>2 DEF Good, Aims
    <3>2. /\ target[a] \in Present' <=> target[a] \in Present
          /\ target[a] \in Present => store'[target[a]] = store[target[a]]
      BY <1>2, <2>1
    <3> QED
      BY <1>2, <1>a, <1>b, <3>1, <3>2 DEF Follows
  <2> QED
    BY <1>1, <1>2, <1>a, <1>b, <2>1, <2>2 DEF Aims, ReadingBack
<1> QED
  BY <1>3, <1>4 DEF Good

\* A write whose answer is lost: a call that goes on has a third payload to try.
LEMMA LostWriteOwn ==
    ASSUME NEW a \in Actor, ResourceTypes, Good(a), pc[a] = "write", WriteRaises(a, "error"),
           UNCHANGED <<firmware, callVars>>, faults' = faults + 1
    PROVE  Good(a)'
<1>a. family' = family /\ Payloads' = Payloads
  BY SameFirmware
<1>b. UNCHANGED <<op, name, target>>
  BY DEF callVars
<1>c. faults' # 0
  BY DEF ResourceTypes, CallTypes
<1>d. Upserts(a)'
  BY <1>c DEF Upserts
<1>1. CASE TriesNext(a, "error")
  <2>1. Len(Payloads) = 3
    BY <1>1 DEF TriesNext
  <2>2. UNCHANGED <<pc, verb, prio, result, returned>>
    BY <1>1, Fields DEF WriteRaises
  <2>3. op[a] \notin {"before", "after"}
    BY <2>1, TwoOrThree DEF Good, Aims, ResourceTypes, FirmwareTypes
  <2>4. Unwritten(a)'
    BY <1>a, <1>c, <2>1 DEF Unwritten, Fair
  <2>5. OwnObject(a)' /\ Aims(a)'
    BY <1>b, <2>2, <2>3 DEF OwnObject, Aims, ReadingBack, Ended
  <2> QED
    BY <1>d, <2>4, <2>5 DEF Good
<1>2. CASE ~TriesNext(a, "error")
  <2>1. pc'[a] = "idle" /\ result'[a] = "error"
    BY <1>2, Fields DEF WriteRaises, CreatesInstead
  <2>2. Unwritten(a)' /\ OwnObject(a)'
    BY <2>1 DEF Unwritten, OwnObject, ReadingBack, Ended
  <2>3. Aims(a)'
    BY <1>a, <1>b, <2>1 DEF Good, Aims, ReadingBack
  <2> QED
    BY <1>d, <2>2, <2>3 DEF Good
<1> QED
  BY <1>1, <1>2

\* A delete is not concerned.
LEMMA DeleteOwn ==
    ASSUME NEW a \in Actor, ResourceTypes, pc[a] = "delete", UNCHANGED callVars,
           NEW how, NEW author, Return(a, how, author)
    PROVE  Good(a)'
<1>1. op[a] = "delete" /\ op' = op /\ pc'[a] = "idle"
  BY Fields DEF ResourceTypes, WrittenInv, Honest, callVars
<1> QED
  BY <1>1 DEF Good, Unwritten, OwnObject, Upserts, Aims, ReadingBack, Ended, Writes

----------------------------------------------------------------------------
(* The steps *)

\* Going on concerns no other actor.
LEMMA Alone ==
    ASSUME NEW a \in Actor, ResourceTypes, UNCHANGED <<firmware, callVars>>,
           faults' \in {faults, faults + 1}, Touches(a),
           \A b \in Actor \ {a} : acted'[b] = acted[b],
           \/ \E where : Goto(a, where)
           \/ \E how, author : Return(a, how, author)
           \/ \E method, p : StartWrite(a, method, p)
           \/ NextAttempt(a)
    PROVE  OnlyA(a)
<1>1. \A b \in Actor \ {a} :
          /\ pc'[b] = pc[b] /\ verb'[b] = verb[b] /\ attempt'[b] = attempt[b]
          /\ prio'[b] = prio[b] /\ result'[b] = result[b] /\ returned'[b] = returned[b]
  BY DEF Goto, Return, StartWrite, NextAttempt, ResourceTypes, WrittenInv, Types, CallTypes
<1> QED
  BY <1>1 DEF OnlyA, callVars

\* What the device has done for the other actors.
LEMMA ActedAlone ==
    ASSUME NEW a \in Actor, ResourceTypes, NotStored \/ Stored(a) \/ Removed(a)
    PROVE  \A b \in Actor \ {a} : acted'[b] = acted[b]
BY DEF NotStored, Stored, Removed, Carried, ResourceTypes, WrittenInv, Types

\* Whatever the device has done, the types of what it holds are kept.
LEMMA DeviceTypes ==
    ASSUME NEW a \in Actor, ResourceTypes, NotStored \/ Stored(a) \/ Removed(a)
    PROVE  Touches(a) /\ StoreTypes' /\ touched' \in [Actor -> SUBSET Name]
<1>1. CASE NotStored
  BY <1>1 DEF NotStored, Touches, ResourceTypes, StoreTypes, Present, CallTypes
<1> QED
  BY <1>1, StoredTouches, RemovedTouches

\* A step within a method.
LEMMA MethodStep ==
    ASSUME NEW a \in Actor, ResourceInv, WrittenInv', UNCHANGED <<firmware, callVars>>,
           faults' \in {faults, faults + 1}, NotStored \/ Stored(a) \/ Removed(a),
           \/ \E where : Goto(a, where)
           \/ \E how : \E author \in Author : Return(a, how, author)
           \/ \E method : \E p \in Nat : StartWrite(a, method, p)
           \/ NextAttempt(a) /\ attempt[a] < Len(Payloads),
           Good(a)'
    PROVE  ResourceInv'
<1>1. ResourceTypes
  BY DEF ResourceInv
<1>2. ResourceTypes'
  BY <1>1, DeviceTypes, LocalTypes
<1>3. OnlyA(a)
  BY <1>1, ActedAlone, DeviceTypes, Alone
<1>4. \A b \in Actor \ {a} : Good(b)'
  BY <1>1, <1>3, OthersGood DEF ResourceInv
<1> QED
  BY <1>2, <1>4 DEF ResourceInv

\* What get returns is an object.
LEMMA GotMoves ==
    ASSUME NEW a \in Actor, NEW obj \in Object, Got(a, obj)
    PROVE  \/ \E how : \E author \in Author : Return(a, how, author)
           \/ \E method : \E p \in Nat : StartWrite(a, method, p)
<1>1. obj.by \in Author /\ obj.prio \in Nat
  BY DEF Object
<1>2. NewPriority(a, obj) \in Nat
  BY <1>1 DEF NewPriority, PriorityAfter
<1> QED
  BY <1>1, <1>2 DEF Got

\* An error of get ends the method or leads to a POST.
LEMMA RaisesMoves ==
    ASSUME NEW a \in Actor, NEW why, ResourceTypes, GetRaises(a, why)
    PROVE  \/ \E how : \E author \in Author : Return(a, how, author)
           \/ \E method : \E p \in Nat : StartWrite(a, method, p)
BY DEF GetRaises, Author, ResourceTypes, CallTypes

\* An error of a write ends the method or leads to another write.
LEMMA WriteRaisesMoves ==
    ASSUME NEW a \in Actor, NEW why, ResourceTypes, WriteRaises(a, why)
    PROVE  \/ \E how : \E author \in Author : Return(a, how, author)
           \/ \E method : \E p \in Nat : StartWrite(a, method, p)
           \/ NextAttempt(a) /\ attempt[a] < Len(Payloads)
BY OneMore DEF WriteRaises, ResourceTypes, CallTypes

\* A method begins.
LEMMA BeginGood ==
    ASSUME NEW a \in Actor, ResourceInv, WrittenInv', NEW f, NEW method \in Op \ {"none"},
           NEW n \in Name, Begin(a, f, method, n),
           IF method \in {"before", "after"}
           THEN f = "rule" /\ \E m \in Name \ {n} : target' = [target EXCEPT ![a] = m]
           ELSE UNCHANGED target
    PROVE  ResourceInv'
<1>a. /\ op \in [Actor -> Op] /\ name \in [Actor -> Name] /\ pc \in [Actor -> Place]
      /\ verb \in [Actor -> {"POST", "PUT"}] /\ target \in [Actor -> Name]
      /\ result \in [Actor -> Result] /\ returned \in [Actor -> Author]
      /\ acted \in [Actor -> SUBSET {"POST", "PUT", "DELETE"}]
      /\ touched \in [Actor -> SUBSET Name]
  BY DEF ResourceInv, ResourceTypes, WrittenInv, Types, CallTypes
<1>b. UNCHANGED <<firmware, store, attempt, prio, faults>> /\ pc[a] = "idle" /\ family = f
  BY DEF Begin
<1>c. /\ family' = family /\ envelope' = envelope /\ accepts' = accepts
      /\ Payloads' = Payloads /\ (ReadsByName' <=> ReadsByName)
  BY <1>b, SameFirmware
<1>d. target' \in [Actor -> Name] /\ \A b \in Actor \ {a} : target'[b] = target[b]
  BY <1>a
<1>1. ResourceTypes'
  <2>1. FirmwareTypes' /\ StoreTypes'
    BY <1>b, <1>c DEF ResourceInv, ResourceTypes, FirmwareTypes, StoreTypes, Present
  <2>2. name' \in [Actor -> Name] /\ returned' \in [Actor -> Author]
        /\ touched' \in [Actor -> SUBSET Name]
    BY <1>a DEF Begin, Author
  <2>3. CallTypes'
    BY <1>b, <1>c, <1>d, <2>2 DEF ResourceInv, ResourceTypes, CallTypes
  <2> QED
    BY <2>1, <2>3 DEF ResourceTypes
<1>2. ASSUME NEW b \in Actor \ {a}
      PROVE  Good(b)'
  <2>1. /\ op'[b] = op[b] /\ name'[b] = name[b] /\ target'[b] = target[b]
        /\ pc'[b] = pc[b] /\ verb'[b] = verb[b] /\ attempt'[b] = attempt[b]
        /\ prio'[b] = prio[b] /\ result'[b] = result[b] /\ returned'[b] = returned[b]
        /\ acted'[b] = acted[b] /\ touched'[b] = touched[b]
    BY <1>a, <1>b, <1>d DEF Begin
  <2>2. Unwritten(b)' /\ OwnObject(b)' /\ Upserts(b)'
    BY <1>b, <1>c, <2>1 DEF ResourceInv, Good, Unwritten, Fair, OwnObject, Upserts, ReadingBack,
                            Ended, Present
  <2>3. Aims(b)'
    BY <1>b, <1>c, <2>1 DEF ResourceInv, Good, Aims, ReadingBack, Follows, Present
  <2> QED
    BY <2>2, <2>3 DEF Good
<1>3. Good(a)'
  <2>1. /\ op'[a] = method /\ name'[a] = n /\ acted'[a] = {}
        /\ pc'[a] \in {"write", "delete", "lookup"}
        /\ method \in {"ensure", "before", "after"} => pc'[a] = "lookup"
    BY <1>a DEF Begin, First
  <2>2. Unwritten(a)' /\ OwnObject(a)' /\ Upserts(a)'
    BY <2>1 DEF Unwritten, OwnObject, Upserts, ReadingBack, Ended
  <2>3. Aims(a)'
    BY <1>a, <1>b, <1>c, <2>1 DEF Aims, ReadingBack
  <2> QED
    BY <2>2, <2>3 DEF Good
<1> QED
  BY <1>1, <1>2, <1>3 DEF ResourceInv

\* Every method begins so.
LEMMA MethodsGood ==
    ASSUME NEW a \in Actor, ResourceInv, WrittenInv', Methods(a)
    PROVE  ResourceInv'
<1>1. ASSUME NEW f, NEW method \in Op \ {"none", "before", "after"}, Method(a, f, method)
      PROVE  ResourceInv'
  BY <1>1, BeginGood DEF Method
<1>2. ASSUME NEW method \in {"before", "after"}, Insert(a, method)
      PROVE  ResourceInv'
  BY <1>2, BeginGood DEF Insert, Op
<1>3. \/ \E f, method : method \in Op \ {"none", "before", "after"} /\ Method(a, f, method)
      \/ \E method \in {"before", "after"} : Insert(a, method)
  BY DEF Methods, Op,
         GetAddress, CreateAddress, UpdateAddress, DeleteAddress, EnsureAddress,
         GetService, CreateService, UpdateService, DeleteService, EnsureService,
         GetNat, CreateNat, UpdateNat, DeleteNat, EnsureNat,
         GetRule, CreateRule, UpdateRule, DeleteRule, InsertBefore, InsertAfter
<1> QED
  BY <1>1, <1>2, <1>3

\* The object by name.
LEMMA LookupGood ==
    ASSUME NEW a \in Actor, ResourceInv, WrittenInv', Lookup(a)
    PROVE  ResourceInv'
<1>a. /\ UNCHANGED <<firmware, store, callVars, acted, touched, faults>>
      /\ pc[a] \in {"lookup", "readback"} /\ NotStored /\ ResourceTypes /\ Good(a)
  BY DEF Lookup, NotStored, ResourceInv
<1>b. \A m \in Present : store[m] \in Object
  BY <1>a DEF ResourceTypes, StoreTypes
<1>c. ReadingBack(a) /\ name[a] \notin touched[a]
         => name[a] \in Present /\ store[name[a]].by = a
  BY <1>a DEF Good, OwnObject
<1>1. CASE envelope = "plural" /\ Present = {} /\ ParseEmpty(a)
  <2>1. ~ReadsByName /\ ~(ReadingBack(a) /\ name[a] \notin touched[a])
    BY <1>1, <1>c DEF ReadsByName
  <2>2. ASSUME NEW obj \in Object, Got(a, obj)
        PROVE  ResourceInv'
    <3>1. Good(a)'
      BY <1>1, <1>a, <2>1, <2>2, GotOwn
    <3> QED
      BY <1>a, <2>2, <3>1, GotMoves, MethodStep
  <2>3. ASSUME GetRaises(a, "error")
        PROVE  ResourceInv'
    <3>1. Good(a)'
      BY <1>1, <1>a, <2>1, <2>3, RaisesOwn
    <3> QED
      BY <1>a, <2>3, <3>1, RaisesMoves, MethodStep
  <2>4. [by |-> Device, prio |-> 0] \in Object
    BY DEF Object, Author
  <2> QED
    BY <1>1, <2>2, <2>3, <2>4 DEF ParseEmpty
<1>2. ASSUME NEW m \in Selected(Wanted(a)), Got(a, store[m]), envelope = "plural"
      PROVE  ResourceInv'
  <2>1. /\ name[a] \in Present /\ ReadingBack(a) => m = name[a]
        /\ op[a] \in {"before", "after"} /\ ~ReadingBack(a) /\ target[a] \in Present
              => m = target[a]
        /\ Present # {} => m \in Present
    BY <1>2, <1>a DEF Selected, Wanted, ReadingBack
  <2>2. m \in Present
    BY <1>2, <2>1 DEF Selected
  <2>3. Good(a)'
    BY <1>a, <1>c, <1>2, <2>1, GotOwn DEF ReadsByName
  <2> QED
    BY <1>a, <1>b, <1>2, <2>2, <2>3, GotMoves, MethodStep
<1>3. CASE envelope = "singular" /\ Wanted(a) \in Present /\ Got(a, store[Wanted(a)])
  <2>1. /\ op[a] \in {"before", "after"} /\ ~ReadingBack(a) => Wanted(a) = target[a]
        /\ op[a] = "ensure" \/ ReadingBack(a) => Wanted(a) = name[a]
    BY <1>a DEF Wanted, ReadingBack
  <2>2. Good(a)'
    BY <1>a, <1>c, <1>3, <2>1, GotOwn
  <2> QED
    BY <1>a, <1>b, <1>3, <2>2, GotMoves, MethodStep
<1>4. CASE envelope # "plural" /\ ~(envelope = "singular" /\ Wanted(a) \in Present)
           /\ ByNameMissing(a)
  <2>1. CASE family = "address"
    <3>1. GetRaises(a, "notfound")
      BY <1>4, <2>1 DEF ByNameMissing
    <3>2. op[a] = "ensure" /\ ReadsByName => name[a] \notin Present
      BY <1>4, <2>1 DEF ReadsByName, Wanted
    <3>3. op[a] \notin {"before", "after"}
      BY <1>a, <2>1 DEF Good, Aims
    <3>4. Good(a)'
      BY <1>a, <3>1, <3>2, <3>3, RaisesOwn
    <3> QED
      BY <1>a, <3>1, <3>4, RaisesMoves, MethodStep
  <2>2. CASE family # "address"
    <3>1. \/ pc[a] = "lookup" /\ Goto(a, "list")
          \/ pc[a] = "readback" /\ Goto(a, "relist")
      BY <1>4, <1>a, <2>2 DEF ByNameMissing, ReadingBack
    <3>2. Good(a)'
      BY <1>a, <3>1, GotoOwn
    <3>3. \E where : Goto(a, where)
      BY <3>1
    <3> QED
      BY <1>a, <3>2, <3>3, MethodStep
  <2> QED
    BY <2>1, <2>2
<1> QED
  BY <1>1, <1>2, <1>3, <1>4 DEF Lookup

\* The object from the list of all.
LEMMA ListGood ==
    ASSUME NEW a \in Actor, ResourceInv, WrittenInv', List(a)
    PROVE  ResourceInv'
<1>a. /\ UNCHANGED <<firmware, store, callVars, acted, touched, faults>>
      /\ pc[a] \in {"list", "relist"} /\ NotStored /\ ResourceTypes /\ Good(a)
  BY DEF List, NotStored, ResourceInv
<1>b. \A m \in Present : store[m] \in Object
  BY <1>a DEF ResourceTypes, StoreTypes
<1>c. ReadingBack(a) /\ name[a] \notin touched[a]
         => name[a] \in Present /\ store[name[a]].by = a
  BY <1>a DEF Good, OwnObject
<1>d. /\ op[a] \in {"before", "after"} /\ ~ReadingBack(a) => Wanted(a) = target[a]
      /\ op[a] = "ensure" \/ ReadingBack(a) => Wanted(a) = name[a]
  BY <1>a DEF Wanted, ReadingBack
<1>1. CASE Wanted(a) \in Present /\ Got(a, store[Wanted(a)])
  <2>1. Good(a)'
    BY <1>a, <1>c, <1>d, <1>1, GotOwn
  <2> QED
    BY <1>a, <1>b, <1>1, <2>1, GotMoves, MethodStep
<1>2. CASE Wanted(a) \notin Present /\ GetRaises(a, "notfound")
  <2>1. Good(a)'
    BY <1>a, <1>d, <1>2, RaisesOwn
  <2> QED
    BY <1>a, <1>2, <2>1, RaisesMoves, MethodStep
<1> QED
  BY <1>1, <1>2 DEF List

\* The answer to a write.
LEMMA WriteDoneGood ==
    ASSUME NEW a \in Actor, ResourceInv, WrittenInv', WriteDone(a)
    PROVE  ResourceInv'
<1>a. /\ UNCHANGED <<firmware, callVars, faults>> /\ pc[a] = "write"
      /\ ResourceTypes /\ Good(a)
  BY DEF WriteDone, ResourceInv
<1>1. CASE Verdict(a) = "ok"
  <2>1. Stored(a) /\ Goto(a, "readback")
    BY <1>1 DEF WriteDone
  <2>2. Good(a)'
    BY <1>a, <2>1, WrittenOwn
  <2> QED
    BY <1>a, <2>1, <2>2, MethodStep
<1>2. CASE Verdict(a) # "ok"
  <2>1. NotStored /\ WriteRaises(a, Verdict(a))
    BY <1>2 DEF WriteDone
  <2>2. Good(a)'
    BY <1>2, <1>a, <2>1, RefusedOwn DEF NotStored
  <2> QED
    BY <1>a, <2>1, <2>2, WriteRaisesMoves, MethodStep
<1> QED
  BY <1>1, <1>2

\* The answer to a delete.
LEMMA DeleteGood ==
    ASSUME NEW a \in Actor, ResourceInv, WrittenInv', pc[a] = "delete",
           UNCHANGED <<firmware, callVars>>, faults' \in {faults, faults + 1},
           NotStored \/ Removed(a), NEW how, NEW author \in Author, Return(a, how, author)
    PROVE  ResourceInv'
<1>1. Good(a)'
  BY DeleteOwn DEF ResourceInv
<1> QED
  BY <1>1, MethodStep

\* An answer is lost.
LEMMA AnswerLostGood ==
    ASSUME NEW a \in Actor, ResourceInv, WrittenInv', AnswerLost(a)
    PROVE  ResourceInv'
<1>a. /\ UNCHANGED <<firmware, callVars>> /\ faults' = faults + 1
      /\ ResourceTypes /\ Good(a)
  BY DEF AnswerLost, ResourceInv
<1>b. faults' # 0 /\ returned[a] \in Author
  BY <1>a DEF ResourceTypes, CallTypes
<1>1. CASE /\ pc[a] \in {"lookup", "list", "readback", "relist"}
           /\ GetRaises(a, "error") /\ NotStored
  <2>1. Good(a)'
    BY <1>1, <1>a, <1>b, RaisesOwn DEF NotStored
  <2> QED
    BY <1>1, <1>a, <2>1, RaisesMoves, MethodStep
<1>2. CASE pc[a] = "write" /\ WriteRaises(a, "error") /\ (NotStored \/ Stored(a))
  <2>1. Good(a)'
    BY <1>2, <1>a, LostWriteOwn
  <2> QED
    BY <1>2, <1>a, <2>1, WriteRaisesMoves, MethodStep
<1>3. CASE pc[a] = "delete" /\ Return(a, "error", returned[a]) /\ (NotStored \/ Removed(a))
  BY <1>3, <1>a, <1>b, DeleteGood
<1> QED
  BY <1>1, <1>2, <1>3 DEF AnswerLost

\* Every step keeps the invariant.
LEMMA ResourceInvNext == ResourceInv /\ [Next]_vars => ResourceInv'
<1> SUFFICES ASSUME ResourceInv, [Next]_vars
             PROVE  ResourceInv'
  OBVIOUS
<1>1. WrittenInv'
  BY WrittenInvNext DEF ResourceInv, ResourceTypes
<1>2. ASSUME NEW a \in Actor, DeleteDone(a)
      PROVE  ResourceInv'
  <2>1. returned[a] \in Author /\ a \in Author
    BY DEF ResourceInv, ResourceTypes, CallTypes, Author
  <2> QED
    BY <1>1, <1>2, <2>1, DeleteGood DEF DeleteDone
<1>3. CASE UNCHANGED vars
  <2>1. UNCHANGED firmware
    BY <1>3 DEF vars
  <2>2. /\ family' = family /\ envelope' = envelope /\ accepts' = accepts
        /\ Payloads' = Payloads /\ (ReadsByName' <=> ReadsByName)
    BY <2>1, SameFirmware
  <2>3. ResourceTypes'
    BY <1>1, <1>3, <2>2 DEF vars, callVars, ResourceInv, ResourceTypes, FirmwareTypes, CallTypes,
                            StoreTypes, Present
  <2>4. ASSUME NEW b \in Actor
        PROVE  Good(b)'
    <3>1. Unwritten(b)' /\ OwnObject(b)' /\ Upserts(b)'
      BY <1>3, <2>2 DEF vars, callVars, ResourceInv, Good, Unwritten, Fair, OwnObject, Upserts,
                        ReadingBack, Ended, Present
    <3>2. Aims(b)'
      BY <1>3, <2>2 DEF vars, callVars, ResourceInv, Good, Aims, ReadingBack, Follows, Present
    <3> QED
      BY <3>1, <3>2 DEF Good
  <2> QED
    BY <2>3, <2>4 DEF ResourceInv
<1> QED
  BY <1>1, <1>2, <1>3, MethodsGood, LookupGood, ListGood, WriteDoneGood, AnswerLostGood
  DEF Next, Rest

\* It holds at first.
LEMMA ResourceInvInit == Init => ResourceInv
<1> SUFFICES ASSUME Init PROVE ResourceInv
  OBVIOUS
<1>1. family \in Family /\ envelope \in Envelope
  BY DEF Init
<1>2. FirmwareTypes
  <2>1. accepts \subseteq {Payloads[i] : i \in DOMAIN Payloads} /\ accepts # {}
    BY DEF Init
  <2>2. DOMAIN Payloads = 1..Len(Payloads)
    BY <1>1, TwoOrThree
  <2> QED
    BY <1>1, <2>1, <2>2 DEF FirmwareTypes
<1>3. StoreTypes
  <2>1. PICK there \in SUBSET Name : store \in [there -> [by : {Device}, prio : 0..2]]
    BY DEF Init
  <2>2. [by : {Device}, prio : 0..2] \subseteq Object
    BY DEF Object, Author
  <2>3. Present = there
    BY <2>1 DEF Present
  <2> QED
    BY <2>1, <2>2, <2>3 DEF StoreTypes
<1>4. CallTypes
  <2>1. 1 \in 1..Len(Payloads)
    BY <1>1, TwoOrThree
  <2> QED
    BY <2>1 DEF Init, CallTypes, Author
<1>5. \A a \in Actor : op[a] = "none" /\ pc[a] = "idle" /\ result[a] = "none"
  BY DEF Init
<1>6. \A a \in Actor : Good(a)
  BY <1>5 DEF Good, Unwritten, OwnObject, Upserts, Aims, ReadingBack, Ended, Writes
<1> QED
  BY <1>2, <1>3, <1>4, <1>6, WrittenInvInit DEF ResourceInv, ResourceTypes

\* The invariant holds always.
THEOREM ResourceInvariant == Spec => []ResourceInv
BY ResourceInvInit, ResourceInvNext, PTL DEF Spec

\* A ConflictError is about somebody else's object (the payload fallbacks of create in
\* resources/*.py), on every firmware and for any number of actors, names and calls.
THEOREM ConflictsAreForeign == Spec => []ConflictIsForeign
<1>1. ResourceInv => ConflictIsForeign
  BY DEF ResourceInv, Good, Unwritten, Fair, ConflictIsForeign, Ended
<1> QED
  BY ResourceInvariant, <1>1, PTL

\* ensure creates or updates (ensure in resources/*.py) whatever payloads the firmware
\* accepts, if nobody interferes and no answer is lost, and never raises NotFoundError.
THEOREM EnsureAlwaysUpserts == Spec => []EnsureUpserts
<1>1. ResourceInv => EnsureUpserts
  BY DEF ResourceInv, Good, Upserts, EnsureUpserts
<1> QED
  BY ResourceInvariant, <1>1, PTL

\* create, update, ensure and the inserts return what they have written, unless others
\* have written it since (the read-back of resources/*.py).
THEOREM WrittenIsReturned == Spec => []ReturnsWritten
<1>1. ResourceInv => ReturnsWritten
  BY DEF ResourceInv, Good, OwnObject, ReturnsWritten
<1> QED
  BY ResourceInvariant, <1>1, PTL

\* insert_before and insert_after (resources/access_rules.py) create the rule with the
\* priority its target was read with, or the next one, whatever payloads and lists it took
\* and whatever others have written in between except for the two rules themselves.
THEOREM PrioritiesFollowTheTarget == Spec => []PriorityFollowsTarget
<1>1. ResourceInv => PriorityFollowsTarget
  BY DEF ResourceInv, Good, Aims, Follows, Inserted, PriorityFollowsTarget
<1> QED
  BY ResourceInvariant, <1>1, PTL
=============================================================================
