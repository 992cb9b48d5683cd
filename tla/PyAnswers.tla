------------------------------ MODULE PyAnswers ------------------------------
(****************************************************************************)
(* What a call of the Python SDK makes of the device's answers: the retry   *)
(* of HTTPClient.request (_http.py), the two places that recognise an       *)
(* expired session (_auth.py, _http.py), the exceptions (_exceptions.py),   *)
(* firmware limitations (_firmware.py), list parsing (resources/_base.py)   *)
(* and the path fallback of the DHCP leases (resources/dhcp.py).            *)
(*                                                                          *)
(* One call is followed.  Every answer is one action: the device's choice   *)
(* and the code that runs until the next request.  Messages are tokens.     *)
(****************************************************************************)
EXTENDS Integers, Sequences, FiniteSets

CONSTANTS
    Item,        \* what a list may hold
    Paths        \* number of paths list_leases tries

ASSUME PathsAssumption == Paths \in Nat \ {0}

\* Codes of the items of status.info.  NoCode: absent; NaN: a string such as
\* "E_NOT_FOUND"; Other: any other number; Quoted(n): the number n as a string.
NoCode == 0
NaN == -1
Other == 1
NotFoundCode == 1030
ExistsCode == 1055
ExpiredCode == 1085
Quoted(n) == -n
Codes == {NoCode, NaN, Other, NotFoundCode, ExistsCode, ExpiredCode,
          Quoted(NotFoundCode), Quoted(ExistsCode), Quoted(ExpiredCode)}

\* int(), which reads a number and the string of one alike.
Number(code) == IF code < NaN THEN -code ELSE code

\* The message of the first item; "" stands for none.
Text == {"", "plain", "api not found", "endpoint is incomplete", "incomplete",
         "command not found", "non config mode"}

Status == {200, 400, 401, 403, 404, 405, 409, 429, 500}

\* A body that is no JSON has no success field (TRUE) and no info.
Answer == [status : Status, success : BOOLEAN, text : Text, listed : BOOLEAN,
           codes : UNION {[1..n -> Codes] : n \in 0..2}]

IsAnswer(a) == a.codes = <<>> => a.text = ""

\* The calls: list_leases, list with and without skip_parse_errors, any other.
Call == {"leases", "skipping", "strict", "plain"}

\* How a path of list_leases answers on some firmware.
Firmware == {"lists", "unlisted", "missing", "objectless", "limited"}

Error == [kind : {"AuthenticationError", "SessionExpiredError", "AuthorizationError",
                  "NotFoundError", "ConflictError", "RateLimitError",
                  "UnsupportedEndpointError", "SonicWallHTTPError"},
          status : Status, text : Text \cup {"Session expired", "reason"}, said : Text]

VARIABLES
    call,       \* the method called
    firmware,   \* device: how each path of list_leases answers
    items,      \* device: the items of the list
    sound,      \* device: the items the model's parser accepts
    pc,         \* "sent", "resent" or "done"
    path,       \* the path list_leases is at
    last,       \* history: the last answer that was not followed by a login
    logins,     \* history: logins for this request
    outcome,    \* "none", "ok", "error" or the name of another exception
    error,      \* the SonicWallHTTPError raised, if any
    returned    \* the items returned

vars == <<call, firmware, items, sound, pc, path, last, logins, outcome, error, returned>>
device == <<call, firmware, items, sound>>

Silence == [status |-> 200, success |-> TRUE, text |-> "", listed |-> FALSE, codes |-> <<>>]
NoError == [kind |-> "SonicWallHTTPError", status |-> 200, text |-> "", said |-> ""]

TypeOK ==
    /\ call \in Call /\ firmware \in [1..Paths -> Firmware]
    /\ sound \subseteq items /\ items \subseteq Item
    /\ pc \in {"sent", "resent", "done"} /\ path \in 1..Paths
    /\ last.status \in Status /\ logins \in 0..1
    /\ outcome \in {"none", "ok", "error", "ValueError", "ParseError",
                    "ConnectionError", "LoginError"}
    /\ error \in Error /\ returned \subseteq items
    /\ (outcome = "none") <=> (pc # "done")

Init ==
    /\ call \in Call
    /\ IF call = "leases" THEN firmware \in [1..Paths -> Firmware]
                          ELSE firmware = [p \in 1..Paths |-> "lists"]
    /\ items \in IF call = "plain" THEN {{}} ELSE SUBSET Item
    /\ sound \in SUBSET items
    /\ pc = "sent" /\ path = 1 /\ last = Silence /\ logins = 0
    /\ outcome = "none" /\ error = NoError /\ returned = {}

----------------------------------------------------------------------------
(* The readers of an answer *)

IsSuccess(a) == a.status \in 200..299
\* Compared as it is in the body; compared as a number.
Says(a, code) == \E i \in DOMAIN a.codes : a.codes[i] = code
Means(a, code) == \E i \in DOMAIN a.codes : Number(a.codes[i]) = code
FirstCode(a) == IF a.codes = <<>> THEN NoCode ELSE Number(a.codes[1])

\* _is_session_expired reads every item, and no string as a number; a 401 logs
\* in again whatever it says.
\* Mutant: only a 401 is taken for an expired session.
LogsInAgainOn401(a) == a.status = 401
LogsInAgain(a) ==
    \/ a.status = 401
    \/ IsSuccess(a) /\ Says(a, ExpiredCode)

Limitation(status, text) ==
    \/ text \in {"api not found", "endpoint is incomplete", "command not found"}
    \/ status = 400 /\ text = "incomplete"
    \/ status = 405 /\ text = "non config mode"

\* Mutant: the class of the exception decides.
UnsupportedByClass(e) == e.kind = "UnsupportedEndpointError"
\* is_firmware_unsupported_error
FirmwareUnsupported(e) == Limitation(e.status, e.text) \/ Limitation(e.status, e.said)

HttpError(a, text) ==
    IF Limitation(a.status, text) THEN "UnsupportedEndpointError" ELSE "SonicWallHTTPError"

\* An answer of the 2xx range that says success=false, by its first code.
FailureKind(a) ==
    CASE FirstCode(a) = NotFoundCode -> "NotFoundError"
      [] FirstCode(a) = ExistsCode   -> "ConflictError"
      [] FirstCode(a) = ExpiredCode  -> "SessionExpiredError"
      [] OTHER                       -> HttpError(a, a.text)

StatusKind(a) ==
    CASE a.status = 401 /\ FirstCode(a) = ExpiredCode -> "SessionExpiredError"
      [] a.status = 401 /\ FirstCode(a) # ExpiredCode -> "AuthenticationError"
      [] a.status = 403 -> "AuthorizationError"
      [] a.status = 404 -> "NotFoundError"
      [] a.status = 409 -> "ConflictError"
      [] a.status = 429 -> "RateLimitError"
      [] OTHER          -> HttpError(a, a.text)

\* Mutant: the body of a 2xx is not read.
FailsByStatus(a) == ~IsSuccess(a)
Fails(a) == ~IsSuccess(a) \/ ~a.success
ErrorKind(a) == IF IsSuccess(a) THEN FailureKind(a) ELSE StatusKind(a)

\* int(code) is applied to the first code of a failing 2xx and of a 401 only.
Unreadable(a) == FirstCode(a) = NaN /\ (IsSuccess(a) \/ a.status = 401)

Raised(a) ==
    [kind |-> ErrorKind(a), status |-> a.status, said |-> a.text,
     text |-> CASE ErrorKind(a) = "SessionExpiredError" -> "Session expired"
                [] a.text = ""                          -> "reason"
                [] OTHER                                -> a.text]

----------------------------------------------------------------------------
(* The device *)

Missing == [Silence EXCEPT !.status = 404]
Objectless == [Silence EXCEPT !.success = FALSE, !.codes = <<NotFoundCode>>]
Limited == [Silence EXCEPT !.status = 400, !.codes = <<NaN>>, !.text = "api not found"]

ServedAnswer ==
    CASE firmware[path] = "lists"      -> [Silence EXCEPT !.listed = TRUE]
      [] firmware[path] = "unlisted"   -> Silence
      [] firmware[path] = "missing"    -> Missing
      [] firmware[path] = "objectless" -> Objectless
      [] firmware[path] = "limited"    -> Limited

\* The answers about a session that is over, as documented for SonicOS.
Expiries == {a \in Answer :
    /\ IsAnswer(a) /\ ~a.listed /\ ~a.success /\ a.text \in {"", "plain"}
    /\ \/ a.status = 401 /\ Means(a, ExpiredCode) /\ FirstCode(a) # NaN
       \/ a.status = 401 /\ a.codes = <<>>
       \/ a.status = 200 /\ FirstCode(a) = ExpiredCode}

\* list_leases is answered as the firmware does, or with an expiry; any other
\* call with any answer at all.
Answers ==
    IF call = "leases" THEN Expiries \cup {ServedAnswer}
    ELSE {a \in Answer : IsAnswer(a) /\ (a.listed => IsSuccess(a) /\ a.success)}

----------------------------------------------------------------------------
(* The steps of a call *)

Done(a, o, e, got) ==
    /\ pc' = "done" /\ last' = a /\ outcome' = o /\ error' = e /\ returned' = got
    /\ UNCHANGED <<device, path, logins>>

\* The session is over: log in and send the request again, once.
LogInAgain(a) ==
    /\ pc = "sent" /\ LogsInAgain(a)
    /\ pc' = "resent" /\ logins' = 1
    /\ UNCHANGED <<device, path, last, outcome, error, returned>>

\* What the second answer says about the session is not read again.
Final(a) == pc = "resent" \/ ~LogsInAgain(a)

\* int() of a code that is no number escapes the handlers of _http.py.
RaiseValueError(a) ==
    /\ Final(a) /\ Fails(a) /\ Unreadable(a)
    /\ Done(a, "ValueError", error, {})

\* Mutant: any HTTP error leads to the next path.
TriesAfterAnyError(a) == call = "leases" /\ path < Paths
TriesNextPath(a) == call = "leases" /\ ErrorKind(a) = "NotFoundError" /\ path < Paths

NextPath(a) ==
    /\ Final(a) /\ Fails(a) /\ ~Unreadable(a) /\ TriesNextPath(a)
    /\ pc' = "sent" /\ last' = a /\ path' = path + 1 /\ logins' = 0
    /\ UNCHANGED <<device, outcome, error, returned>>

RaiseHttpError(a) ==
    /\ Final(a) /\ Fails(a) /\ ~Unreadable(a) /\ ~TriesNextPath(a)
    /\ Done(a, "error", Raised(a), {})

\* An item that cannot be parsed is left out of leases and address objects; in
\* any other list its exception ends the call.
SkipsUnsound == call \in {"leases", "skipping"}

ReturnBody(a) ==
    /\ Final(a) /\ ~Fails(a)
    /\ IF a.listed /\ items # sound /\ ~SkipsUnsound
       THEN Done(a, "ParseError", error, {})
       ELSE Done(a, "ok", error, IF a.listed THEN sound ELSE {})

Handle == \E a \in Answers :
    \/ LogInAgain(a) \/ RaiseValueError(a) \/ NextPath(a)
    \/ RaiseHttpError(a) \/ ReturnBody(a)

\* No answer, or the login before the second attempt is refused.
Unanswered == Done(last, "ConnectionError", error, {})
LoginRefused == pc = "resent" /\ Done(last, "LoginError", error, {})

Next == pc # "done" /\ (Handle \/ Unanswered \/ LoginRefused)

Spec == Init /\ [][Next]_vars

----------------------------------------------------------------------------
(* Properties *)

Raises(kind) == outcome = "error" /\ error.kind = kind

\* The caller learns of an expired session only if logging in again did not
\* help, but for one answer.  request's own detector looks at every item and
\* compares its code as it is (_auth.py:151); _raise_for_status looks at the
\* first and takes int() of it (_http.py:36).  So a 2xx whose first code is the
\* string "1085" escapes the first detector and is raised by the second; any
\* other answer the second would raise, the first has caught.
ExpiryIsRetriedFirst ==
    Raises("SessionExpiredError") \/ Raises("AuthenticationError") =>
        \/ logins = 1
        \/ IsSuccess(last) /\ last.codes # <<>> /\ last.codes[1] = Quoted(ExpiredCode)

\* A call succeeds, and "not found" or "already exists" reaches a caller who goes
\* on to create or to list, only when the device says so: by its status, or by
\* the code of an answer whose status alone would be a success.  A list is
\* whole unless the call is one of those that skip what they cannot parse.
VerdictsAreTheDevices ==
    /\ outcome \in {"ok", "ParseError"} => last.status = 200 /\ last.success
    /\ outcome = "ok" /\ last.listed /\ returned # items => call \in {"leases", "skipping"}
    /\ Raises("NotFoundError") =>
          last.status = 404 \/ (last.status = 200 /\ Means(last, NotFoundCode))
    /\ Raises("ConflictError") =>
          last.status = 409 \/ (last.status = 200 /\ Means(last, ExistsCode))

\* Whatever exception it became, an answer that names a firmware limitation is
\* recognised by is_firmware_unsupported_error, and no other answer is.
LimitationsRecognised ==
    outcome = "error" => (FirmwareUnsupported(error) <=> Limitation(error.status, last.text))

\* list_leases ends at the first path the firmware does not report missing and,
\* if that one lists, returns every lease that can be parsed; sessions that
\* expire on the way neither skip a path nor repeat one.
Usable(p) == firmware[p] \notin {"missing", "objectless"}
FirstUsable(p) == Usable(p) /\ \A q \in 1..(p - 1) : ~Usable(q)
LeasesOfFirstPath ==
    call = "leases" =>
        /\ outcome = "ok" => FirstUsable(path)
        /\ outcome = "ok" /\ firmware[path] = "lists" => returned = sound
        /\ Raises("NotFoundError") => \A p \in 1..Paths : ~Usable(p)
        /\ Raises("UnsupportedEndpointError") => FirstUsable(path) /\ firmware[path] = "limited"

=============================================================================
