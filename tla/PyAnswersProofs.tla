-------------------------- MODULE PyAnswersProofs ---------------------------
(****************************************************************************)
(* Proof of what a call of the Python SDK makes of the device's answers,    *)
(* for every list and any number of lease paths.                            *)
(*                                                                          *)
(* VerdictInv says of a call that has ended which answer it was read from,  *)
(* and that this answer was not one after which request logs in again       *)
(* unless it had; LeasesInv says of list_leases that the paths behind it    *)
(* are missing on this firmware, and what its last answer was.              *)
(****************************************************************************)
EXTENDS PyAnswers, TLAPS

\* The codes of an answer are a sequence of at most two.
LEMMA CodesOfAnswer ==
    ASSUME NEW a \in Answer
    PROVE  /\ a.status \in Status /\ a.success \in BOOLEAN /\ a.text \in Text
           /\ a.codes # <<>> => 1 \in DOMAIN a.codes /\ a.codes[1] \in Codes
<1>1. PICK n \in 0..2 : a.codes \in [1..n -> Codes]
  BY DEF Answer
<1>2. CASE n = 0
  BY <1>1, <1>2 DEF Answer
<1>3. CASE n # 0
  BY <1>1, <1>3 DEF Answer
<1> QED
  BY <1>2, <1>3

\* A code is read as 1085 if it is this number, or the string of it.
LEMMA NumberOfCode ==
    ASSUME NEW c \in Codes, Number(c) = ExpiredCode
    PROVE  c = ExpiredCode \/ c = Quoted(ExpiredCode)
BY DEF Codes, Number, Quoted, NoCode, NaN, Other, NotFoundCode, ExistsCode, ExpiredCode

\* The one status of an answer that is a success.
LEMMA SuccessIs200 ==
    ASSUME NEW a \in Answer, IsSuccess(a)
    PROVE  a.status = 200
<1>1. a.status \in Status /\ a.status \in 200..299
  BY CodesOfAnswer DEF IsSuccess
<1> QED
  BY <1>1 DEF Status

\* What the exception keeps of an answer.
LEMMA RaisedKeeps ==
    ASSUME NEW a
    PROVE  /\ Raised(a).kind = ErrorKind(a) /\ Raised(a).status = a.status
           /\ Raised(a).said = a.text
           /\ Raised(a).text \in {"Session expired", "reason", a.text}
<1> DEFINE text == CASE ErrorKind(a) = "SessionExpiredError" -> "Session expired"
                     [] a.text = ""                          -> "reason"
                     [] OTHER                                -> a.text
<1>1. CASE ErrorKind(a) = "SessionExpiredError" /\ a.text = ""
  <2>1. text \in {"Session expired", "reason", a.text}
    BY <1>1
  <2> QED
    BY <2>1 DEF Raised
<1>2. CASE ~(ErrorKind(a) = "SessionExpiredError" /\ a.text = "")
  <2>1. text \in {"Session expired", "reason", a.text}
    BY <1>2
  <2> HIDE DEF text
  <2>2. Raised(a) = [kind |-> ErrorKind(a), status |-> a.status, said |-> a.text, text |-> text]
    BY DEF Raised, text
  <2>3. Raised(a).text = text
    BY <2>2
  <2>4. Raised(a).kind = ErrorKind(a) /\ Raised(a).status = a.status /\ Raised(a).said = a.text
    BY <2>2
  <2> QED
    BY <2>1, <2>3, <2>4
<1> QED
  BY <1>1, <1>2

\* What the firmware serves is an answer too.
LEMMA ServedIsAnswer ==
    ASSUME firmware \in [1..Paths -> Firmware], path \in 1..Paths
    PROVE  ServedAnswer \in Answer
<1>1. <<>> \in UNION {[1..n -> Codes] : n \in 0..2}
  <2>1. <<>> \in [1..0 -> Codes]
    OBVIOUS
  <2> QED
    BY <2>1
<1>2. \A c \in Codes : <<c>> \in UNION {[1..n -> Codes] : n \in 0..2}
  <2>1. \A c \in Codes : <<c>> \in [1..1 -> Codes]
    OBVIOUS
  <2>2. [1..1 -> Codes] \subseteq UNION {[1..n -> Codes] : n \in 0..2}
    OBVIOUS
  <2> QED
    BY <2>1, <2>2
<1>3. NaN \in Codes /\ NotFoundCode \in Codes
  BY DEF Codes
<1> DEFINE C == UNION {[1..n -> Codes] : n \in 0..2}
           Ans == [status : Status, success : BOOLEAN, text : Text, listed : BOOLEAN, codes : C]
<1> HIDE DEF C
<1>4. <<>> \in C /\ <<NaN>> \in C /\ <<NotFoundCode>> \in C
  BY <1>1, <1>2, <1>3 DEF C
<1>5. Silence \in Ans
  BY <1>4 DEF Silence, Status, Text
<1>6. /\ [Silence EXCEPT !.listed = TRUE] \in Ans /\ Missing \in Ans
      /\ Objectless \in Ans /\ Limited \in Ans
  <2>1. TRUE \in BOOLEAN /\ FALSE \in BOOLEAN /\ 404 \in Status /\ 400 \in Status
    BY DEF Status
  <2>2. "api not found" \in Text
    BY DEF Text
  <2>3. [Silence EXCEPT !.listed = TRUE] \in Ans
    BY <1>5
  <2>4. Missing \in Ans
    BY <1>5, <2>1 DEF Missing
  <2>5. Objectless \in Ans
    BY <1>4, <1>5, <2>1 DEF Objectless
  <2>6. Limited \in Ans
    <3> DEFINE status == 400
               text == "api not found"
    <3>1. status \in Status /\ text \in Text
      BY <2>1, <2>2
    <3>2. Limited = [Silence EXCEPT !.status = status, !.codes = <<NaN>>, !.text = text]
      BY DEF Limited
    <3> HIDE DEF status, text
    <3> QED
      BY <1>4, <1>5, <3>1, <3>2
  <2> QED
    BY <2>3, <2>4, <2>5, <2>6
<1>7. ServedAnswer \in Ans
  <2>1. firmware[path] \in Firmware
    OBVIOUS
  <2> QED
    BY <1>5, <1>6, <2>1 DEF ServedAnswer, Firmware
<1> QED
  BY <1>7 DEF C, Answer

----------------------------------------------------------------------------
(* The inductive invariants *)

\* A verdict is read from the last answer, and this was not one after which request logs
\* in again, unless it had.
VerdictInv ==
    /\ call = "leases" => firmware \in [1..Paths -> Firmware]
    /\ path \in 1..Paths
    /\ pc = "resent" => logins = 1
    /\ outcome # "none" => pc = "done"
    /\ outcome = "error" =>
          /\ error = Raised(last) /\ last \in Answer /\ Fails(last)
          /\ logins = 1 \/ ~LogsInAgain(last)
    /\ outcome \in {"ok", "ParseError"} => last \in Answer /\ ~Fails(last)
    /\ outcome = "ok" =>
          /\ returned = IF last.listed THEN sound ELSE {}
          /\ last.listed => items = sound \/ SkipsUnsound

\* The paths behind list_leases are missing, and its verdict is about what the path it is
\* at answers, or about an expired session.
LeasesInv ==
    call = "leases" =>
        /\ \A q \in 1..(path - 1) : ~Usable(q)
        /\ outcome \in {"ok", "error"} => last \in Expiries \cup {ServedAnswer}
        /\ Raises("NotFoundError") => path = Paths

\* Both of them.
AnswersInv == VerdictInv /\ LeasesInv

----------------------------------------------------------------------------
(* What the answers of a lease path mean *)

\* An expiry is a failure, and neither a missing path nor a limitation.
LEMMA ExpiriesFail ==
    ASSUME NEW a \in Expiries
    PROVE  Fails(a) /\ ErrorKind(a) \in {"SessionExpiredError", "AuthenticationError"}
<1>1. ~a.success /\ (a.status = 401 \/ (a.status = 200 /\ FirstCode(a) = ExpiredCode))
  BY DEF Expiries
<1>2. Fails(a)
  BY <1>1 DEF Fails
<1>3. CASE a.status = 401
  BY <1>2, <1>3 DEF ErrorKind, IsSuccess, StatusKind
<1>4. CASE a.status = 200 /\ FirstCode(a) = ExpiredCode
  BY <1>2, <1>4 DEF ErrorKind, IsSuccess, FailureKind, NotFoundCode, ExistsCode, ExpiredCode
<1> QED
  BY <1>1, <1>2, <1>3, <1>4

\* What a path answers tells how the firmware serves it.
LEMMA ServedMeans ==
    ASSUME firmware[path] \in Firmware
    PROVE  /\ ~Fails(ServedAnswer) <=> firmware[path] \in {"lists", "unlisted"}
           /\ firmware[path] = "lists" => ServedAnswer.listed
           /\ Fails(ServedAnswer) =>
                /\ ErrorKind(ServedAnswer) = "NotFoundError" <=> ~Usable(path)
                /\ ErrorKind(ServedAnswer) = "UnsupportedEndpointError"
                     <=> firmware[path] = "limited"
<1>1. CASE firmware[path] = "lists"
  <2>1. ServedAnswer = [Silence EXCEPT !.listed = TRUE]
    BY <1>1 DEF ServedAnswer
  <2>2. ServedAnswer.status = 200 /\ ServedAnswer.success /\ ServedAnswer.listed
    BY <2>1 DEF Silence
  <2>3. ~Fails(ServedAnswer)
    BY <2>2 DEF Fails, IsSuccess
  <2> QED
    BY <1>1, <2>2, <2>3
<1>2. CASE firmware[path] = "unlisted"
  <2>1. ServedAnswer = Silence
    BY <1>2 DEF ServedAnswer
  <2>2. ServedAnswer.status = 200 /\ ServedAnswer.success
    BY <2>1 DEF Silence
  <2>3. ~Fails(ServedAnswer)
    BY <2>2 DEF Fails, IsSuccess
  <2> QED
    BY <1>2, <2>3
<1>3. CASE firmware[path] = "missing"
  <2>1. ServedAnswer.status = 404 /\ ServedAnswer = Missing
    BY <1>3 DEF ServedAnswer, Missing, Silence
  <2>2. ErrorKind(ServedAnswer) = "NotFoundError" /\ Fails(ServedAnswer)
    BY <2>1 DEF Fails, IsSuccess, ErrorKind, StatusKind
  <2> QED
    BY <1>3, <2>2 DEF Usable
<1>4. CASE firmware[path] = "objectless"
  <2>1. /\ ServedAnswer.status = 200 /\ ~ServedAnswer.success
        /\ ServedAnswer.codes = <<NotFoundCode>>
    BY <1>4 DEF ServedAnswer, Objectless, Silence
  <2>2. FirstCode(ServedAnswer) = NotFoundCode
    BY <2>1 DEF FirstCode, Number, NotFoundCode, NaN
  <2>3. IsSuccess(ServedAnswer) /\ Fails(ServedAnswer)
    BY <2>1 DEF Fails, IsSuccess
  <2>4. FailureKind(ServedAnswer) = "NotFoundError"
    BY <2>2 DEF FailureKind, NotFoundCode, ExistsCode, ExpiredCode
  <2>5. ErrorKind(ServedAnswer) = "NotFoundError"
    BY <2>3, <2>4 DEF ErrorKind
  <2> QED
    BY <1>4, <2>3, <2>5 DEF Usable
<1>5. CASE firmware[path] = "limited"
  <2>1. ServedAnswer.status = 400
    BY <1>5 DEF ServedAnswer, Limited, Silence
  <2>2. ServedAnswer.text = "api not found"
    BY <1>5 DEF ServedAnswer, Limited, Silence
  <2>3. ~IsSuccess(ServedAnswer)
    BY <2>1 DEF IsSuccess
  <2>4. HttpError(ServedAnswer, ServedAnswer.text) = "UnsupportedEndpointError"
    BY <2>2 DEF HttpError, Limitation
  <2>5. StatusKind(ServedAnswer) = "UnsupportedEndpointError"
    BY <2>1, <2>4 DEF StatusKind
  <2>6. ErrorKind(ServedAnswer) = "UnsupportedEndpointError" /\ Fails(ServedAnswer)
    BY <2>3, <2>5 DEF Fails, ErrorKind
  <2> QED
    BY <1>5, <2>6 DEF Usable
<1> QED
  BY <1>1, <1>2, <1>3, <1>4, <1>5 DEF Firmware

\* Not found is said of a path that is missing, and nothing else than that.
LEMMA LeaseVerdicts ==
    ASSUME firmware \in [1..Paths -> Firmware], path \in 1..Paths,
           NEW a \in Expiries \cup {ServedAnswer}
    PROVE  /\ ~Fails(a) => /\ Usable(path) /\ a = ServedAnswer
                           /\ firmware[path] = "lists" => a.listed
           /\ Fails(a) /\ ErrorKind(a) = "NotFoundError" => ~Usable(path)
           /\ Fails(a) /\ ErrorKind(a) = "UnsupportedEndpointError" =>
                firmware[path] = "limited"
<1>1. CASE a \in Expiries
  BY <1>1, ExpiriesFail
<1>2. CASE a = ServedAnswer
  BY <1>2, ServedMeans DEF Usable
<1> QED
  BY <1>1, <1>2

----------------------------------------------------------------------------
(* The steps *)

\* Every answer is one, and that of a lease path is an expiry or what it serves.
LEMMA AnswersAreAnswers ==
    ASSUME VerdictInv, NEW a \in Answers
    PROVE  a \in Answer /\ (call = "leases" => a \in Expiries \cup {ServedAnswer})
BY ServedIsAnswer DEF VerdictInv, Answers, Expiries

\* A call ends with an answer.
LEMMA EndsKeep ==
    ASSUME AnswersInv, NEW a \in Answers, pc # "done",
           RaiseValueError(a) \/ RaiseHttpError(a) \/ ReturnBody(a)
    PROVE  AnswersInv'
<1> USE DEF AnswersInv
<1>1. a \in Answer /\ (call = "leases" => a \in Expiries \cup {ServedAnswer})
  BY AnswersAreAnswers
<1>2. logins = 1 \/ ~LogsInAgain(a)
  BY DEF VerdictInv, Final, RaiseValueError, RaiseHttpError, ReturnBody
<1>3. CASE RaiseValueError(a)
  BY <1>3 DEF RaiseValueError, Done, device, VerdictInv, LeasesInv, Usable, Raises
<1>4. CASE RaiseHttpError(a)
  <2>1. /\ outcome' = "error" /\ error' = Raised(a) /\ last' = a /\ pc' = "done" /\ Fails(a)
        /\ UNCHANGED <<call, firmware, items, sound, path, logins>>
    BY <1>4 DEF RaiseHttpError, Done, device
  <2>2. VerdictInv'
    BY <1>1, <1>2, <2>1 DEF VerdictInv
  <2>3. call = "leases" /\ Raises("NotFoundError")' => path = Paths
    <3>1. Raises("NotFoundError")' => ErrorKind(a) = "NotFoundError"
      BY <2>1, RaisedKeeps DEF Raises
    <3>2. call = "leases" /\ ErrorKind(a) = "NotFoundError" => ~(path < Paths)
      BY <1>4 DEF RaiseHttpError, TriesNextPath
    <3> QED
      BY <3>1, <3>2, PathsAssumption DEF VerdictInv
  <2>4. ServedAnswer' = ServedAnswer
    BY <2>1 DEF ServedAnswer
  <2> QED
    BY <1>1, <2>1, <2>2, <2>3, <2>4 DEF LeasesInv, Usable
<1>5. CASE ReturnBody(a)
  <2>1. /\ last' = a /\ pc' = "done" /\ ~Fails(a)
        /\ UNCHANGED <<call, firmware, items, sound, path, logins>>
        /\ \/ outcome' = "ParseError"
           \/ /\ outcome' = "ok" /\ returned' = IF a.listed THEN sound ELSE {}
              /\ a.listed => items = sound \/ SkipsUnsound
    BY <1>5 DEF ReturnBody, Done, device
  <2>2. VerdictInv'
    BY <1>1, <2>1 DEF VerdictInv, SkipsUnsound
  <2>3. ServedAnswer' = ServedAnswer
    BY <2>1 DEF ServedAnswer
  <2> QED
    BY <1>1, <2>1, <2>2, <2>3 DEF LeasesInv, Usable, Raises
<1> QED
  BY <1>3, <1>4, <1>5

\* The next lease path is tried.
LEMMA NextPathKeeps ==
    ASSUME AnswersInv, NEW a \in Answers, pc # "done", NextPath(a)
    PROVE  AnswersInv'
<1>1. /\ call = "leases" /\ path < Paths /\ Fails(a) /\ ErrorKind(a) = "NotFoundError"
      /\ pc' = "sent" /\ path' = path + 1
      /\ UNCHANGED <<call, firmware, items, sound, outcome, error, returned>>
  BY DEF NextPath, TriesNextPath, device
<1>2. outcome = "none" /\ path \in 1..Paths /\ firmware \in [1..Paths -> Firmware]
  BY <1>1 DEF AnswersInv, VerdictInv
<1>3. ~Usable(path)
  BY <1>1, <1>2, AnswersAreAnswers, LeaseVerdicts DEF AnswersInv
<1>4. path' \in 1..Paths
  BY <1>1, <1>2, PathsAssumption
<1>5. VerdictInv'
  BY <1>1, <1>2, <1>4 DEF VerdictInv
<1>6. \A q \in 1..(path' - 1) : q = path \/ q \in 1..(path - 1)
  BY <1>1, <1>2, PathsAssumption
<1> QED
  BY <1>1, <1>2, <1>3, <1>5, <1>6 DEF AnswersInv, LeasesInv, Usable, Raises

\* Every step keeps the invariants.
LEMMA AnswersInvNext == AnswersInv /\ [Next]_vars => AnswersInv'
<1> SUFFICES ASSUME AnswersInv, [Next]_vars PROVE AnswersInv'
  OBVIOUS
<1>1. ASSUME pc # "done", NEW a \in Answers, LogInAgain(a)
      PROVE  AnswersInv'
  <2>1. outcome = "none" /\ outcome' = "none" /\ logins' = 1
        /\ UNCHANGED <<call, firmware, items, sound, path>>
    BY <1>1 DEF LogInAgain, device, AnswersInv, VerdictInv
  <2> QED
    BY <2>1 DEF AnswersInv, VerdictInv, LeasesInv, Usable, Raises
<1>2. ASSUME pc # "done", Unanswered \/ LoginRefused
      PROVE  AnswersInv'
  <2>1. /\ outcome' \in {"ConnectionError", "LoginError"} /\ pc' = "done"
        /\ UNCHANGED <<call, firmware, items, sound, path, logins>>
    BY <1>2 DEF Unanswered, LoginRefused, Done, device
  <2> QED
    BY <2>1 DEF AnswersInv, VerdictInv, LeasesInv, Usable, Raises
<1>3. CASE UNCHANGED vars
  <2>1. UNCHANGED <<call, firmware, items, sound, pc, path, last, logins, outcome, error, returned>>
    BY <1>3 DEF vars
  <2>2. VerdictInv'
    BY <2>1 DEF AnswersInv, VerdictInv, SkipsUnsound
  <2>3. ServedAnswer' = ServedAnswer
    BY <2>1 DEF ServedAnswer
  <2> QED
    BY <2>1, <2>2, <2>3 DEF AnswersInv, LeasesInv, Usable, Raises
<1> QED
  BY <1>1, <1>2, <1>3, EndsKeep, NextPathKeeps DEF Next, Handle

\* They hold at first.
LEMMA AnswersInvInit == Init => AnswersInv
<1> SUFFICES ASSUME Init PROVE AnswersInv
  OBVIOUS
<1>1. call = "leases" => firmware \in [1..Paths -> Firmware]
  BY DEF Init
<1>2. pc = "sent" /\ path = 1 /\ outcome = "none" /\ 1 \in 1..Paths
  BY PathsAssumption DEF Init
<1>3. 1..(path - 1) = {}
  BY <1>2
<1> QED
  BY <1>1, <1>2, <1>3 DEF AnswersInv, VerdictInv, LeasesInv, Raises

\* The invariants hold always.
THEOREM AnswersInvariant == Spec => []AnswersInv
BY AnswersInvInit, AnswersInvNext, PTL DEF Spec

----------------------------------------------------------------------------
(* The properties *)

\* Before SessionExpiredError or AuthenticationError is raised request has logged in, unless
\* the device sends its code as a string: the detector of _auth.py:151 compares the code as
\* it is, that of _http.py:36 its int().
THEOREM ExpiriesAreRetried == Spec => []ExpiryIsRetriedFirst
<1>1. AnswersInv => ExpiryIsRetriedFirst
  <2> SUFFICES ASSUME AnswersInv, Raises("SessionExpiredError") \/ Raises("AuthenticationError"),
                      logins # 1
               PROVE  /\ IsSuccess(last) /\ last.codes # <<>>
                      /\ last.codes[1] = Quoted(ExpiredCode)
    BY DEF ExpiryIsRetriedFirst
  <2>1. /\ last \in Answer /\ Fails(last) /\ ~LogsInAgain(last)
        /\ ErrorKind(last) \in {"SessionExpiredError", "AuthenticationError"}
    BY RaisedKeeps DEF AnswersInv, VerdictInv, Raises
  <2>2. IsSuccess(last)
    BY <2>1 DEF ErrorKind, StatusKind, HttpError, LogsInAgain
  <2>3. FirstCode(last) = ExpiredCode
    BY <2>1, <2>2 DEF ErrorKind, FailureKind, HttpError
  <2>4. last.codes # <<>> /\ Number(last.codes[1]) = ExpiredCode
    BY <2>3 DEF FirstCode, NoCode, ExpiredCode
  <2>5. 1 \in DOMAIN last.codes /\ last.codes[1] \in Codes
    BY <2>1, <2>4, CodesOfAnswer
  <2>6. last.codes[1] # ExpiredCode
    BY <2>1, <2>2, <2>5 DEF LogsInAgain, Says
  <2>7. last.codes[1] = Quoted(ExpiredCode)
    BY <2>4, <2>5, <2>6, NumberOfCode
  <2> QED
    BY <2>2, <2>4, <2>7
<1> QED
  BY AnswersInvariant, <1>1, PTL

\* A call succeeds, or raises NotFoundError or ConflictError, only on the device's word, and
\* a list is whole unless the call skips what it cannot parse (_raise_for_status in
\* _http.py, the list parsing of resources/_base.py).
THEOREM VerdictsAreHonest == Spec => []VerdictsAreTheDevices
<1>1. AnswersInv => VerdictsAreTheDevices
  <2> SUFFICES ASSUME AnswersInv PROVE VerdictsAreTheDevices
    OBVIOUS
  <2>1. outcome \in {"ok", "ParseError"} => last.status = 200 /\ last.success
    BY SuccessIs200 DEF AnswersInv, VerdictInv, Fails
  <2>2. outcome = "ok" /\ last.listed /\ returned # items => call \in {"leases", "skipping"}
    BY DEF AnswersInv, VerdictInv, SkipsUnsound
  <2>3. ASSUME NEW kind \in {"NotFoundError", "ConflictError"}, Raises(kind)
        PROVE  /\ kind = "NotFoundError" =>
                    last.status = 404 \/ (last.status = 200 /\ Means(last, NotFoundCode))
               /\ kind = "ConflictError" =>
                    last.status = 409 \/ (last.status = 200 /\ Means(last, ExistsCode))
    <3>1. last \in Answer /\ ErrorKind(last) = kind
      BY <2>3, RaisedKeeps DEF AnswersInv, VerdictInv, Raises
    <3>2. CASE IsSuccess(last)
      <4>1. last.status = 200
        BY <3>1, <3>2, SuccessIs200
      <4>2. \/ kind = "NotFoundError" /\ FirstCode(last) = NotFoundCode
            \/ kind = "ConflictError" /\ FirstCode(last) = ExistsCode
        BY <2>3, <3>1, <3>2 DEF ErrorKind, FailureKind, HttpError
      <4>3. last.codes # <<>> /\ Number(last.codes[1]) = FirstCode(last)
        BY <4>2 DEF FirstCode, NoCode, NotFoundCode, ExistsCode
      <4> QED
        BY <3>1, <4>1, <4>2, <4>3, CodesOfAnswer DEF Means
    <3>3. CASE ~IsSuccess(last)
      BY <2>3, <3>1, <3>3 DEF ErrorKind, StatusKind, HttpError
    <3> QED
      BY <3>2, <3>3
  <2> QED
    BY <2>1, <2>2, <2>3 DEF VerdictsAreTheDevices
<1> QED
  BY AnswersInvariant, <1>1, PTL

\* is_firmware_unsupported_error (_firmware.py) recognises an answer that names a firmware
\* limitation whatever exception it became, and no other answer.
THEOREM LimitationsAreRecognised == Spec => []LimitationsRecognised
<1>1. AnswersInv => LimitationsRecognised
  <2> SUFFICES ASSUME AnswersInv, outcome = "error"
               PROVE  FirmwareUnsupported(error) <=> Limitation(error.status, last.text)
    BY DEF LimitationsRecognised
  <2>1. /\ error.status = last.status /\ error.said = last.text
        /\ error.text \in {"Session expired", "reason", last.text}
    BY RaisedKeeps DEF AnswersInv, VerdictInv
  <2> QED
    BY <2>1, ZenonT(60) DEF FirmwareUnsupported, Limitation
<1> QED
  BY AnswersInvariant, <1>1, PTL

\* list_leases (resources/dhcp.py) ends at the first path the firmware does not report
\* missing, and raises NotFoundError only if all are, however many paths there are.
THEOREM LeasesAreOfFirstPath == Spec => []LeasesOfFirstPath
<1>1. AnswersInv => LeasesOfFirstPath
  <2> SUFFICES ASSUME AnswersInv, call = "leases"
               PROVE  /\ outcome = "ok" => FirstUsable(path)
                      /\ outcome = "ok" /\ firmware[path] = "lists" => returned = sound
                      /\ Raises("NotFoundError") => \A p \in 1..Paths : ~Usable(p)
                      /\ Raises("UnsupportedEndpointError") =>
                            FirstUsable(path) /\ firmware[path] = "limited"
    BY DEF LeasesOfFirstPath
  <2>1. /\ firmware \in [1..Paths -> Firmware] /\ path \in 1..Paths
        /\ \A q \in 1..(path - 1) : ~Usable(q)
        /\ outcome \in {"ok", "error"} => last \in Expiries \cup {ServedAnswer}
    BY DEF AnswersInv, VerdictInv, LeasesInv
  <2>2. ASSUME outcome = "ok"
        PROVE  FirstUsable(path) /\ (firmware[path] = "lists" => returned = sound)
    <3>1. ~Fails(last) /\ returned = IF last.listed THEN sound ELSE {}
      BY <2>2 DEF AnswersInv, VerdictInv
    <3>2. Usable(path) /\ (firmware[path] = "lists" => last.listed)
      BY <2>1, <2>2, <3>1, LeaseVerdicts
    <3> QED
      BY <2>1, <3>1, <3>2 DEF FirstUsable
  <2>3. ASSUME NEW kind, Raises(kind)
        PROVE  /\ ErrorKind(last) = kind /\ Fails(last)
               /\ last \in Expiries \cup {ServedAnswer}
    BY <2>1, <2>3, RaisedKeeps DEF AnswersInv, VerdictInv, Raises
  <2>4. ASSUME Raises("NotFoundError")
        PROVE  \A p \in 1..Paths : ~Usable(p)
    <3>1. ~Usable(path)
      BY <2>1, <2>3, <2>4, LeaseVerdicts
    <3>2. path = Paths
      BY <2>4 DEF AnswersInv, LeasesInv
    <3>3. \A p \in 1..Paths : p = Paths \/ p \in 1..(Paths - 1)
      BY PathsAssumption
    <3> QED
      BY <2>1, <3>1, <3>2, <3>3
  <2>5. ASSUME Raises("UnsupportedEndpointError")
        PROVE  FirstUsable(path) /\ firmware[path] = "limited"
    <3>1. firmware[path] = "limited"
      BY <2>1, <2>3, <2>5, LeaseVerdicts
    <3> QED
      BY <2>1, <3>1 DEF FirstUsable, Usable
  <2> QED
    BY <2>2, <2>4, <2>5
<1> QED
  BY AnswersInvariant, <1>1, PTL
=============================================================================
