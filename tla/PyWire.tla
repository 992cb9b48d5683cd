------------------------------- MODULE PyWire -------------------------------
(****************************************************************************)
(* The models of the Python SDK on their way to the device and back:        *)
(* to_api_dict and from_api_response (models/*.py), the payloads of the     *)
(* firmware variants (resources/*_objects.py, nat_policies.py) and the      *)
(* envelopes around an answer (resources/_normalize.py).                    *)
(*                                                                          *)
(* A caller holds an object, writes it, reads it back, perhaps changes a    *)
(* field, and writes it again; or it starts from an object that others put  *)
(* on the device.  A wire object is a function from the JSON keys that are  *)
(* present to their values, which are tuples: <<"name", n>> is {"name": n}, *)
(* <<"text", n>> the plain string, Absent a key that is not there.  Fields  *)
(* that are copied under one key are left out.                              *)
(****************************************************************************)
EXTENDS Integers, Sequences

CONSTANTS
    Value,      \* names of objects, addresses, ports: what fields refer to
    MaxWrites   \* bound: how often the object is written

ASSUME KeywordsAreNoValues == Value \cap {"", "any", "original"} = {}
ASSUME WritesAssumption == MaxWrites \in Nat

VARIABLES
    family,     \* which model
    stage,      \* "held", "stored" or "read"
    object,     \* what the caller holds
    wire,       \* what the device holds
    given,      \* history: what the object was meant to be
    flat,       \* history: a service was stored in the flat form
    writes
vars == <<family, stage, object, wire, given, flat, writes>>

Absent == <<>>
Blank == ""
\* Booleans on the wire.
Switch(b) == IF b THEN <<"true">> ELSE <<"false">>
At(w, key) == IF key \in DOMAIN w THEN w[key] ELSE Absent
Compact(w) == [key \in {k \in DOMAIN w : w[k] # Absent} |-> w[key]]

----------------------------------------------------------------------------
(* Address objects *)

AddressType == <<"host", "network", "range", "fqdn", "mac">>   \* as they are looked for
HostKeys == {"ip", "ipv4", "address", "host"}

\* The validator asks for the field of the type; others may be set as well.
Fields(t) == UNION {[T -> Value] : T \in {S \in SUBSET {"host", "network", "mac"} : t \in S}}
Address == UNION {[type : {t}, fields : Fields(t)] : t \in {"host", "network", "mac"}}

AddressWire(o) ==
    LET key == IF o.type = "host" THEN "ip" ELSE o.type
    IN [t \in {o.type} |-> <<key, o.fields[t]>>]

\* The first key that is there gives the type; a host is read from any HostKeys.
\* Mutant: only the SDK's own key is known.
ReadableByIp(t, w) == t = "host" => At(w, t)[1] = "ip"
Readable(t, w) == t = "host" => At(w, t)[1] \in HostKeys \cup {"text"}
AddressRead(w) ==
    LET t == AddressType[CHOOSE i \in DOMAIN AddressType :
                 /\ AddressType[i] \in DOMAIN w
                 /\ \A j \in 1..(i - 1) : AddressType[j] \notin DOMAIN w]
    IN IF Readable(t, w) THEN [type |-> t, fields |-> [u \in {t} |-> w[t][2]]]
                         ELSE [type |-> "unreadable", fields |-> <<>>]

AddressSpellings(o) ==
    {AddressWire(o)} \cup
    IF o.type = "host" THEN {[host |-> <<k, o.fields.host>>] : k \in HostKeys \cup {"text"}} ELSE {}

----------------------------------------------------------------------------
(* Access rules *)

AddressSpec == [any : BOOLEAN, name : Value \cup {Blank}, group : Value \cup {Blank}]
Rule == [auto : BOOLEAN, value : 0..2, source : AddressSpec, destination : AddressSpec,
         enabled : BOOLEAN, comment : {Blank, "text"}]

Reference(spec) ==
    CASE spec.any                         -> <<"any">>
      [] ~spec.any /\ spec.name # Blank   -> <<"name", spec.name>>
      [] ~spec.any /\ spec.name = Blank /\ spec.group # Blank -> <<"group", spec.group>>
      [] OTHER                            -> Absent

Priority(r) ==
    CASE r.auto                  -> <<"auto">>
      [] ~r.auto /\ r.value # 0  -> <<"value", r.value>>
      [] OTHER                   -> Absent

RuleWire(r) ==
    Compact([priority |-> Priority(r), source |-> Reference(r.source),
             destination |-> Reference(r.destination), enabled |-> Switch(r.enabled),
             comment |-> IF r.comment = Blank THEN Absent ELSE <<r.comment>>])

\* Mutant: a group is read into the name.
GroupReadAsName(v) ==
    [any   |-> v = Absent \/ v[1] = "any",
     name  |-> IF v # Absent /\ v[1] # "any" THEN v[2] ELSE Blank,
     group |-> Blank]
\* What is missing gets the model's default: any address.
ReferenceRead(v) ==
    [any   |-> v = Absent \/ v[1] = "any",
     name  |-> IF v # Absent /\ v[1] = "name" THEN v[2] ELSE Blank,
     group |-> IF v # Absent /\ v[1] = "group" THEN v[2] ELSE Blank]

RuleRead(w) ==
    LET prio == At(w, "priority")
        numbered == prio # Absent /\ prio[1] = "value"
    IN [auto        |-> ~numbered,
        value       |-> IF numbered THEN prio[2] ELSE 0,
        source      |-> ReferenceRead(At(w, "source")),
        destination |-> ReferenceRead(At(w, "destination")),
        enabled     |-> At(w, "enabled") \in {Absent, Switch(TRUE)},
        comment     |-> IF At(w, "comment") = Absent THEN Blank ELSE w.comment[1]]

----------------------------------------------------------------------------
(* NAT policies; the destination pair, which is treated like the source pair, *)
(* is left out.                                                               *)

Interfaces == {"inbound_interface", "outbound_interface"}
Originals  == {"original_source", "original_service"}
Translated == {"translated_source", "translated_service"}
NatField == Interfaces \cup Originals \cup Translated
Policy == [refs : [NatField -> Value \cup {"any", "original"}],
         enabled : BOOLEAN, comment : {Blank, "text"}]

\* The key the firmware uses for a field.
Renamed(field) ==
    CASE field = "inbound_interface"  -> "inbound"
      [] field = "outbound_interface" -> "outbound"
      [] field = "original_source"    -> "source"
      [] field = "original_service"   -> "service"
      [] field \in Translated         -> field
Default(field) == IF field \in Translated THEN "original" ELSE "any"

NatWire(p) ==
    Compact([key \in NatField \cup {"enabled", "comment"} |->
        CASE key \in NatField  -> <<"text", p.refs[key]>>
          [] key = "enabled"   -> Switch(p.enabled)
          [] key = "comment" /\ p.comment = Blank -> Absent
          [] key = "comment" /\ p.comment # Blank -> <<p.comment>>])

RefObject(field, v) ==
    CASE field \in Interfaces                    -> <<"text", v>>
      [] field \notin Interfaces /\ v = "any"    -> <<"any">>
      [] field \in Translated /\ v = "original"  -> <<"original">>
      [] OTHER                                   -> <<"name", v>>

FirmwareNatWire(p) ==
    LET original(key) == CHOOSE field \in NatField : Renamed(field) = key
    IN [key \in {Renamed(field) : field \in NatField} \cup {"enable", "comment"} |->
        CASE key = "enable"  -> Switch(p.enabled)
          [] key = "comment" -> <<p.comment>>
          [] OTHER           -> RefObject(original(key), p.refs[original(key)])]

\* Mutant: an object that names a group falls back to the default.
RefReadByName(v, default) ==
    CASE v = Absent \/ (v # Absent /\ v[1] = "group") -> default
      [] v # Absent /\ v[1] \in {"any", "original"}    -> v[1]
      [] v # Absent /\ v[1] \in {"text", "name"}       -> v[2]
RefRead(v, default) ==
    CASE v = Absent                                  -> default
      [] v # Absent /\ v[1] \in {"any", "original"}  -> v[1]
      [] v # Absent /\ v[1] \in {"text", "name", "group"} -> v[2]

\* The long key, the firmware's key or the default, in this order.
NatRead(w) ==
    LET switch == IF "enabled" \in DOMAIN w THEN At(w, "enabled") ELSE At(w, "enable")
    IN [refs    |-> [field \in NatField |->
                       RefRead(IF field \in DOMAIN w THEN w[field]
                               ELSE At(w, Renamed(field)), Default(field))],
        enabled |-> switch \in {Absent, Switch(TRUE)},
        comment |-> IF At(w, "comment") = Absent THEN Blank ELSE w.comment[1]]

\* Devices also refer to groups, and leave out what is at its default.
NatSpellings(p) ==
    LET firmware == FirmwareNatWire(p)
    IN {NatWire(p), firmware,
        [k \in DOMAIN firmware |->
            IF firmware[k][1] = "name" THEN <<"group", firmware[k][2]>> ELSE firmware[k]],
        [k \in {k \in DOMAIN firmware : \A field \in NatField \ Interfaces :
                  Renamed(field) = k => p.refs[field] # Default(field)} |-> firmware[k]]}

----------------------------------------------------------------------------
(* Service objects *)

Protocol == {"tcp", "udp", "icmp"}
Service == UNION {[S -> Value] : S \in SUBSET Protocol}
ServiceWire(s) == [key \in {"protocol"} |-> s]
FlatServiceWire(s) == s
\* Mutant: a service has one protocol.
ReadsTcpOnly(w) == LET raw == At(w, "protocol") IN [p \in {"tcp"} \cap DOMAIN raw |-> raw[p]]
\* Only "protocol" is read, whatever form the firmware took.
ServiceRead(w) == LET raw == At(w, "protocol") IN [p \in Protocol \cap DOMAIN raw |-> raw[p]]

----------------------------------------------------------------------------
(* Envelopes: the layers of keys around the fields, outermost first *)

Singular == <<"singular">>
Layers ==
    IF family = "service" THEN {<<>>, Singular} ELSE {Singular, <<"ipv4">>, <<"singular", "ipv4">>}

Starts(layers, key) == layers # <<>> /\ layers[1] = key

\* unwrap_ipv4 (and the predicate of services): whether a name can be compared.
Nameable(layers) == family = "service" \/ layers # <<>>
Normalized(layers) == IF Starts(layers, "singular") THEN layers ELSE Singular \o layers

Unwrapped(layers) ==
    LET inner == IF Starts(layers, "singular") THEN Tail(layers) ELSE layers
    IN IF family # "service" /\ Starts(inner, "ipv4") THEN Tail(inner) ELSE inner

----------------------------------------------------------------------------
(* The caller and the device *)

Objects ==
    CASE family = "address" -> Address [] family = "rule" -> Rule
      [] family = "nat" -> Policy        [] family = "service" -> Service

\* The payloads the resource may send for an object (see PyResources).
Payloads(o) ==
    CASE family = "address" -> {AddressWire(o)}
      [] family = "rule"    -> {RuleWire(o)}
      [] family = "nat"     -> {NatWire(o), FirmwareNatWire(o)}
      [] family = "service" -> {ServiceWire(o), FlatServiceWire(o)}

\* How a device may hold an object that others made.
Spellings(o) ==
    CASE family = "address" -> AddressSpellings(o)
      [] family = "rule"    -> {RuleWire(o)}
      [] family = "nat"     -> NatSpellings(o)
      [] family = "service" -> {ServiceWire(o)}

Parsed(w) ==
    CASE family = "address" -> AddressRead(w) [] family = "rule" -> RuleRead(w)
      [] family = "nat" -> NatRead(w)         [] family = "service" -> ServiceRead(w)

TypeOK ==
    /\ family \in {"address", "rule", "nat", "service"}
    /\ stage \in {"held", "stored", "read"} /\ writes \in 0..MaxWrites
    /\ object \in Objects /\ given \in Objects /\ flat \in BOOLEAN

Init ==
    /\ family \in {"address", "rule", "nat", "service"}
    /\ given \in Objects /\ object = given
    /\ \/ stage = "held" /\ wire = Absent
       \/ stage = "stored" /\ wire \in Spellings(given)
    /\ flat = FALSE /\ writes = 0

Write ==
    /\ stage = "held" /\ writes < MaxWrites
    /\ wire' \in Payloads(object)
    /\ flat' = (flat \/ (family = "service" /\ wire' # ServiceWire(object)))
    /\ stage' = "stored" /\ writes' = writes + 1
    /\ UNCHANGED <<family, object, given>>

Other == CHOOSE o \in Objects : o # object

\* GET by name: the object, or a list in which another object comes first.
\* normalize_get_from_plural takes the item it can tell by its name, else the
\* first; what from_api_response cannot unwrap is not the object either.
ReadAs(layers, plural) ==
    IF (plural => Nameable(layers)) /\ Unwrapped(Normalized(layers)) = <<>>
    THEN Parsed(wire) ELSE Other

Read ==
    /\ stage = "stored"
    /\ \E layers \in Layers, plural \in BOOLEAN : object' = ReadAs(layers, plural)
    /\ stage' = "read"
    /\ UNCHANGED <<family, wire, given, flat, writes>>

\* Change what was read, if only a switch, to write it again.
Edit ==
    /\ stage = "read"
    /\ IF family \in {"rule", "nat"}
       THEN object' = [object EXCEPT !.enabled = ~@] /\ given' = [given EXCEPT !.enabled = ~@]
       ELSE UNCHANGED <<object, given>>
    /\ stage' = "held"
    /\ UNCHANGED <<family, wire, flat, writes>>

Next == Write \/ Read \/ Edit
Spec == Init /\ [][Next]_vars

----------------------------------------------------------------------------
(* Properties: what is read is what was meant, after any number of rounds *)

\* An address object keeps its type and the field of its type: fields of other
\* types that are set are not sent, and each way a host is spelled is read.
AddressKept ==
    family = "address" /\ stage = "read" =>
        object.type = given.type /\ object.fields[given.type] = given.fields[given.type]

\* A rule keeps what it applies to: "any" prevails over a name and a name over a
\* group, on both sides alike.  (A specification that says nothing is not sent
\* and is read as "any": such rules are left out here, see the README.)
Means(read, spec) ==
    /\ read.any = spec.any
    /\ ~spec.any => read.name = spec.name
    /\ ~spec.any /\ spec.name = Blank => read.group = spec.group
Specific(spec) == spec.any \/ spec.name # Blank \/ spec.group # Blank
RuleKept ==
    family = "rule" /\ stage = "read" =>
        /\ Specific(given.source) => Means(object.source, given.source)
        /\ Specific(given.destination) => Means(object.destination, given.destination)
        /\ given.auto => object.auto
        /\ ~given.auto /\ given.value # 0 => ~object.auto /\ object.value = given.value
        /\ object.enabled = given.enabled /\ object.comment = given.comment

\* A NAT policy survives both payloads, in any order, and the shapes in which
\* devices list policies that others made: no reference falls back to "any".
NatKept == family = "nat" /\ stage = "read" => object = given

\* A service keeps its ports as long as the device keeps it under "protocol".
\* (The flat payload of _to_firmware_collection_payload has no reader.)
ServiceKept == family = "service" /\ stage = "read" /\ ~flat => object = given
=============================================================================
