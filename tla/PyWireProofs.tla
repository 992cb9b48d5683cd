---------------------------- MODULE PyWireProofs ----------------------------
(****************************************************************************)
(* Proof that the models of the Python SDK keep what they mean on their way *)
(* to the device and back, for any set of names, addresses and ports, and   *)
(* for any number of writes and reads.                                      *)
(*                                                                          *)
(* Each family has an invariant of its own (AddressInv, RuleInv, NatInv,    *)
(* ServiceInv): the object held still means what was given, and what is     *)
(* stored is a spelling of an object that does.  A read is one lemma about  *)
(* the family's from_api_response, and one about the envelopes.             *)
(****************************************************************************)
EXTENDS PyWire, TLAPS

----------------------------------------------------------------------------
(* Wire objects *)

\* A value on the wire is not an absent one.
LEMMA Present ==
    /\ \A x : <<x>> # Absent /\ <<x>>[1] = x
    /\ \A x, y : <<x, y>> # Absent /\ <<x, y>>[1] = x /\ <<x, y>>[2] = y
BY DEF Absent

\* Leaving out absent values changes nothing for a reader.
LEMMA CompactKeeps ==
    ASSUME NEW w, NEW key \in DOMAIN w
    PROVE  /\ At(Compact(w), key) = w[key]
           /\ w[key] # Absent => key \in DOMAIN Compact(w) /\ Compact(w)[key] = w[key]
           /\ DOMAIN Compact(w) \subseteq DOMAIN w
BY DEF At, Compact

\* Two switches differ.
LEMMA SwitchRead ==
    ASSUME NEW b \in BOOLEAN
    PROVE  /\ Switch(b) # Absent
           /\ Switch(b) \in {Absent, Switch(TRUE)} <=> b
<1>1. <<"true">> # <<"false">>
  <2>1. <<"true">>[1] # <<"false">>[1]
    OBVIOUS
  <2> QED
    BY <2>1
<1> QED
  BY <1>1, Present DEF Switch

\* All envelopes that devices put around an object are opened.
LEMMA EnvelopesOpen ==
    ASSUME NEW layers \in Layers, NEW plural \in BOOLEAN
    PROVE  ReadAs(layers, plural) = Parsed(wire)
<1>1. Nameable(layers)
  BY DEF Layers, Nameable, Singular
<1>2. Unwrapped(Normalized(layers)) = <<>>
  <2>1. CASE layers = <<>> /\ family = "service"
    BY <2>1 DEF Unwrapped, Normalized, Starts, Singular
  <2>2. CASE layers = Singular
    BY <2>2 DEF Unwrapped, Normalized, Starts, Singular
  <2>3. CASE layers = <<"ipv4">> /\ family # "service"
    BY <2>3 DEF Unwrapped, Normalized, Starts, Singular
  <2>4. CASE layers = <<"singular", "ipv4">> /\ family # "service"
    BY <2>4 DEF Unwrapped, Normalized, Starts, Singular
  <2> QED
    BY <2>1, <2>2, <2>3, <2>4 DEF Layers
<1> QED
  BY <1>1, <1>2 DEF ReadAs

----------------------------------------------------------------------------
(* Address objects *)

\* The types an address can be read from here.
Types == {"host", "network", "mac"}

\* An address has a type and the field of this type.
LEMMA AddressHas ==
    ASSUME NEW o \in Address
    PROVE  o.type \in Types /\ o.fields[o.type] \in Value
<1>1. PICK t \in Types : o \in [type : {t}, fields : Fields(t)]
  BY DEF Address, Types
<1>2. o.type = t /\ o.fields \in Fields(t)
  BY <1>1
<1>3. PICK T \in SUBSET Types : t \in T /\ o.fields \in [T -> Value]
  BY <1>2 DEF Fields, Types
<1> QED
  BY <1>1, <1>2, <1>3

\* And these make an address.
LEMMA AddressOf ==
    ASSUME NEW t \in Types, NEW v \in Value
    PROVE  [type |-> t, fields |-> [u \in {t} |-> v]] \in Address
<1>1. [u \in {t} |-> v] \in [{t} -> Value]
  OBVIOUS
<1>2. [{t} -> Value] \subseteq Fields(t)
  BY DEF Fields, Types
<1>3. [type |-> t, fields |-> [u \in {t} |-> v]] \in [type : {t}, fields : Fields(t)]
  BY <1>1, <1>2
<1> QED
  BY <1>3 DEF Address, Types

\* The device holds one field, under a key that says what it is.
Spelled(w, t, v) ==
    /\ DOMAIN w = {t} /\ w[t][2] = v
    /\ t = "host" => w[t][1] \in HostKeys \cup {"text"}

\* Every spelling of an address does.
LEMMA SpellingsSpell ==
    ASSUME NEW o \in Address, NEW w \in AddressSpellings(o)
    PROVE  Spelled(w, o.type, o.fields[o.type])
<1>1. ASSUME w = AddressWire(o)
      PROVE  Spelled(w, o.type, o.fields[o.type])
  BY <1>1 DEF AddressWire, Spelled, HostKeys
<1>2. ASSUME o.type = "host", NEW k \in HostKeys \cup {"text"},
             w = [host |-> <<k, o.fields.host>>]
      PROVE  Spelled(w, o.type, o.fields[o.type])
  <2>1. DOMAIN w = {"host"} /\ w["host"] = <<k, o.fields["host"]>>
    BY <1>2
  <2> QED
    BY <1>2, <2>1 DEF Spelled
<1> QED
  BY <1>1, <1>2 DEF AddressSpellings

\* from_api_response finds the field.
LEMMA AddressReads ==
    ASSUME NEW t \in Types, NEW v, NEW w, Spelled(w, t, v)
    PROVE  AddressRead(w) = [type |-> t, fields |-> [u \in {t} |-> v]]
<1> DEFINE First(i) == /\ AddressType[i] \in DOMAIN w
                       /\ \A j \in 1..(i - 1) : AddressType[j] \notin DOMAIN w
           found == CHOOSE i \in DOMAIN AddressType : First(i)
<1>1. DOMAIN w = {t}
  BY DEF Spelled
<1>2. /\ DOMAIN AddressType = 1..5
      /\ AddressType[1] = "host" /\ AddressType[2] = "network" /\ AddressType[5] = "mac"
      /\ AddressType[3] = "range" /\ AddressType[4] = "fqdn"
  BY DEF AddressType
<1>3. 1..(1 - 1) = {} /\ 1..(2 - 1) = {1} /\ 1..(5 - 1) = {1, 2, 3, 4} /\ {1, 2, 5} \subseteq 1..5
  OBVIOUS
<1>4. \E i \in DOMAIN AddressType : First(i)
  <2>1. CASE t = "host"
    BY <1>1, <1>2, <1>3, <2>1, Zenon
  <2>2. CASE t = "network"
    <3>1. AddressType[1] \notin DOMAIN w /\ AddressType[2] \in DOMAIN w
      BY <1>1, <1>2, <2>2
    <3> QED
      BY <1>2, <1>3, <3>1, Zenon
  <2>3. CASE t = "mac"
    <3>1. /\ AddressType[1] \notin DOMAIN w /\ AddressType[2] \notin DOMAIN w
          /\ AddressType[3] \notin DOMAIN w /\ AddressType[4] \notin DOMAIN w
          /\ AddressType[5] \in DOMAIN w
      BY <1>1, <1>2, <2>3
    <3>2. \A j \in {1, 2, 3, 4} : AddressType[j] \notin DOMAIN w
      BY <3>1, Zenon
    <3>3. First(5)
      BY <1>3, <3>1, <3>2, Zenon
    <3> QED
      BY <1>2, <1>3, <3>3, Zenon
  <2> QED
    BY <2>1, <2>2, <2>3 DEF Types
<1>5. First(found)
  BY <1>4, Zenon
<1>6. AddressType[found] = t
  BY <1>1, <1>5
<1>7. Readable(t, w)
  BY <1>1 DEF Readable, Spelled, At
<1>8. w[t][2] = v
  BY DEF Spelled
<1>9. AddressRead(w) = IF Readable(AddressType[found], w)
                       THEN [type |-> AddressType[found],
                             fields |-> [u \in {AddressType[found]} |-> w[AddressType[found]][2]]]
                       ELSE [type |-> "unreadable", fields |-> <<>>]
  BY DEF AddressRead
<1> HIDE DEF found, First
<1> QED
  BY <1>6, <1>7, <1>8, <1>9

\* The object held has the type and the field of the one given.
Alike(o, p) == o.type = p.type /\ o.fields[p.type] = p.fields[p.type]

\* The object held is like the one given, and what is stored spells it.
AddressInv ==
    /\ given \in Address /\ object \in Address /\ Alike(object, given)
    /\ stage = "stored" => Spelled(wire, given.type, given.fields[given.type])

----------------------------------------------------------------------------
(* Access rules *)

\* What is read of a reference is one, and means what was written.
LEMMA ReferenceReads ==
    ASSUME NEW spec \in AddressSpec
    PROVE  LET read == ReferenceRead(Reference(spec))
           IN read \in AddressSpec /\ (Specific(spec) => Means(read, spec))
<1> DEFINE v == Reference(spec)
           read == ReferenceRead(v)
           any == v = Absent \/ v[1] = "any"
           name == IF v # Absent /\ v[1] = "name" THEN v[2] ELSE Blank
           group == IF v # Absent /\ v[1] = "group" THEN v[2] ELSE Blank
<1>1. /\ spec.any \in BOOLEAN /\ spec.name \in Value \cup {Blank}
      /\ spec.group \in Value \cup {Blank}
  BY DEF AddressSpec
<1>2. read = [any |-> any, name |-> name, group |-> group]
  BY DEF ReferenceRead
<1>3. read.any = any /\ read.name = name /\ read.group = group
  BY <1>2
<1>4. CASE spec.any
  <2>1. v = <<"any">>
    BY <1>4 DEF Reference
  <2>2. any /\ name = Blank /\ group = Blank
    BY <2>1, Present
  <2> QED
    BY <1>2, <1>3, <1>4, <2>2 DEF Means, AddressSpec
<1>5. CASE ~spec.any /\ spec.name # Blank
  <2>1. v = <<"name", spec.name>>
    BY <1>5 DEF Reference
  <2>2. ~any /\ name = spec.name /\ group = Blank
    BY <2>1, Present
  <2> QED
    BY <1>1, <1>2, <1>3, <1>5, <2>2 DEF Means, AddressSpec
<1>6. CASE ~spec.any /\ spec.name = Blank /\ spec.group # Blank
  <2>1. v = <<"group", spec.group>>
    BY <1>6 DEF Reference
  <2>2. ~any /\ name = Blank /\ group = spec.group
    BY <2>1, Present
  <2> QED
    BY <1>1, <1>2, <1>3, <1>6, <2>2 DEF Means, AddressSpec
<1>7. CASE ~spec.any /\ spec.name = Blank /\ spec.group = Blank
  <2>1. v = Absent
    BY <1>7 DEF Reference
  <2>2. any /\ name = Blank /\ group = Blank
    BY <2>1
  <2> QED
    BY <1>2, <1>7, <2>2 DEF Specific, AddressSpec
<1> QED
  BY <1>4, <1>5, <1>6, <1>7

\* What is held of a rule means what was given.
Keeps(o, r) ==
    /\ Specific(r.source) => Means(o.source, r.source)
    /\ Specific(r.destination) => Means(o.destination, r.destination)
    /\ r.auto => o.auto
    /\ ~r.auto /\ r.value # 0 => ~o.auto /\ o.value = r.value
    /\ o.enabled = r.enabled /\ o.comment = r.comment

\* A rule means what it is,
LEMMA KeepsItself ==
    ASSUME NEW r \in Rule
    PROVE  Keeps(r, r)
BY DEF Keeps, Means

\* and what means the same as something that means a rule means the rule.
LEMMA KeepsOn ==
    ASSUME NEW r \in Rule, NEW o \in Rule, NEW p \in Rule, Keeps(o, r), Keeps(p, o)
    PROVE  Keeps(p, r)
<1>1. ASSUME NEW a, NEW b, NEW c, Specific(a), Means(b, a), Specific(b) => Means(c, b),
             a.any \in BOOLEAN, b.any \in BOOLEAN
      PROVE  Means(c, a)
  BY <1>1 DEF Specific, Means
<1>2. /\ r.source.any \in BOOLEAN /\ o.source.any \in BOOLEAN
      /\ r.destination.any \in BOOLEAN /\ o.destination.any \in BOOLEAN
      /\ r.auto \in BOOLEAN /\ o.auto \in BOOLEAN
  BY DEF Rule, AddressSpec
<1>3. Specific(r.source) => Means(p.source, r.source)
  BY <1>1, <1>2 DEF Keeps
<1>4. Specific(r.destination) => Means(p.destination, r.destination)
  BY <1>1, <1>2 DEF Keeps
<1> QED
  BY <1>2, <1>3, <1>4 DEF Keeps

\* from_api_response makes of the payload of a rule one that means the same.
LEMMA RuleReads ==
    ASSUME NEW r \in Rule
    PROVE  RuleRead(RuleWire(r)) \in Rule /\ Keeps(RuleRead(RuleWire(r)), r)
<1> DEFINE full == [priority |-> Priority(r), source |-> Reference(r.source),
                    destination |-> Reference(r.destination), enabled |-> Switch(r.enabled),
                    comment |-> IF r.comment = Blank THEN Absent ELSE <<r.comment>>]
           w == RuleWire(r)
           read == RuleRead(w)
<1>1. /\ r.auto \in BOOLEAN /\ r.value \in 0..2 /\ r.source \in AddressSpec
      /\ r.destination \in AddressSpec /\ r.enabled \in BOOLEAN /\ r.comment \in {Blank, "text"}
  BY DEF Rule
<1>2. w = Compact(full)
  BY DEF RuleWire
<1>3. /\ full["priority"] = Priority(r) /\ full["source"] = Reference(r.source)
      /\ full["destination"] = Reference(r.destination) /\ full["enabled"] = Switch(r.enabled)
      /\ full["comment"] = IF r.comment = Blank THEN Absent ELSE <<r.comment>>
      /\ DOMAIN full = {"priority", "source", "destination", "enabled", "comment"}
  OBVIOUS
<1> HIDE DEF full, w, read
<1>4. /\ At(w, "priority") = Priority(r) /\ At(w, "source") = Reference(r.source)
      /\ At(w, "destination") = Reference(r.destination) /\ At(w, "enabled") = Switch(r.enabled)
      /\ At(w, "comment") = IF r.comment = Blank THEN Absent ELSE <<r.comment>>
  BY <1>2, <1>3, CompactKeeps
<1>5. r.comment # Blank => w["comment"] = <<r.comment>>
  BY <1>2, <1>3, CompactKeeps, Present
<1> DEFINE prio == At(w, "priority")
           numbered == prio # Absent /\ prio[1] = "value"
           value == IF numbered THEN prio[2] ELSE 0
           enabled == At(w, "enabled") \in {Absent, Switch(TRUE)}
           comment == IF At(w, "comment") = Absent THEN Blank ELSE w.comment[1]
<1>6. read = [auto |-> ~numbered, value |-> value,
              source |-> ReferenceRead(At(w, "source")),
              destination |-> ReferenceRead(At(w, "destination")),
              enabled |-> enabled, comment |-> comment]
  BY DEF read, RuleRead
<1>7. comment = r.comment
  <2>1. CASE r.comment = Blank
    BY <1>4, <2>1
  <2>2. CASE r.comment # Blank
    BY <1>4, <1>5, <2>2, Present
  <2> QED
    BY <2>1, <2>2
<1>8. enabled = r.enabled
  <2>1. enabled <=> r.enabled
    BY <1>1, <1>4, SwitchRead
  <2>2. enabled \in BOOLEAN
    OBVIOUS
  <2> HIDE DEF enabled
  <2> QED
    BY <1>1, <2>1, <2>2
<1>9. /\ r.auto => ~numbered
      /\ ~r.auto /\ r.value # 0 => numbered /\ value = r.value
      /\ value \in 0..2
  <2>1. CASE r.auto
    <3>1. prio = <<"auto">>
      BY <1>4, <2>1 DEF Priority
    <3>2. ~numbered
      BY <3>1, Present
    <3> QED
      BY <2>1, <3>2
  <2>2. CASE ~r.auto /\ r.value # 0
    <3>1. prio = <<"value", r.value>>
      BY <1>4, <2>2 DEF Priority
    <3>2. numbered /\ prio[2] = r.value
      BY <3>1, Present
    <3> QED
      BY <1>1, <2>2, <3>2
  <2>3. CASE ~r.auto /\ r.value = 0
    <3>1. prio = Absent
      BY <1>4, <2>3 DEF Priority
    <3> QED
      BY <2>3, <3>1
  <2> QED
    BY <2>1, <2>2, <2>3
<1>10. (~numbered) \in BOOLEAN
  OBVIOUS
<1> HIDE DEF numbered, value, enabled, comment
<1>11. /\ read.auto = ~numbered /\ read.value = value /\ read.enabled = enabled
       /\ read.comment = comment /\ read.source = ReferenceRead(At(w, "source"))
       /\ read.destination = ReferenceRead(At(w, "destination"))
  BY <1>6
<1>12. read \in Rule
  BY <1>1, <1>4, <1>6, <1>7, <1>8, <1>9, <1>10, ReferenceReads DEF Rule
<1>13. Keeps(read, r)
  BY <1>1, <1>4, <1>7, <1>8, <1>9, <1>11, ReferenceReads DEF Keeps
<1> QED
  BY <1>12, <1>13 DEF read, w

\* The rule held means the one given, and what is stored is the payload of one that does.
RuleInv ==
    /\ given \in Rule /\ object \in Rule /\ Keeps(object, given)
    /\ stage = "stored" => \E o \in Rule : Keeps(o, given) /\ wire = RuleWire(o)

----------------------------------------------------------------------------
(* NAT policies *)

\* The fields and the keys of the firmware.
FirmwareKey == {Renamed(field) : field \in NatField}

\* Every field has a key of its own; only a translated field is called by its name, and
\* the switch and the comment are no references.
LEMMA KeysDiffer ==
    /\ \A f, g \in NatField : Renamed(f) = Renamed(g) => f = g
    /\ \A f \in NatField : f \in Translated => Renamed(f) = f
    /\ \A f \in NatField : f \notin Translated => f \notin FirmwareKey
    /\ \A f \in NatField : Renamed(f) \notin {"enable", "enabled", "comment"}
    /\ \A f \in NatField : f \notin {"enable", "enabled", "comment"}
    /\ "enabled" \notin FirmwareKey
<1>1. NatField = {"inbound_interface", "outbound_interface", "original_source",
                  "original_service", "translated_source", "translated_service"}
  BY DEF NatField, Interfaces, Originals, Translated
<1>2. /\ Renamed("inbound_interface") = "inbound"
      /\ Renamed("outbound_interface") = "outbound"
      /\ Renamed("original_source") = "source"
      /\ Renamed("original_service") = "service"
      /\ Renamed("translated_source") = "translated_source"
      /\ Renamed("translated_service") = "translated_service"
  BY DEF Renamed, Translated
<1>3. FirmwareKey = {"inbound", "outbound", "source", "service",
                     "translated_source", "translated_service"}
  BY <1>1, <1>2 DEF FirmwareKey
<1>4. \A f, g \in NatField : Renamed(f) = Renamed(g) => f = g
  BY <1>1, <1>2
<1>5. \A f \in NatField : f \in Translated => Renamed(f) = f
  BY <1>1, <1>2 DEF Translated
<1>6. \A f \in NatField : f \notin Translated => f \notin FirmwareKey
  BY <1>1, <1>3 DEF Translated
<1>7. \A f \in NatField : /\ Renamed(f) \notin {"enable", "enabled", "comment"}
                          /\ f \notin {"enable", "enabled", "comment"}
  BY <1>1, <1>2
<1> QED
  BY <1>3, <1>4, <1>5, <1>6, <1>7

\* A reference is read as it was written, in every spelling,
LEMMA ReferencesRead ==
    ASSUME NEW field \in NatField, NEW v, NEW default
    PROVE  /\ RefRead(<<"text", v>>, default) = v
           /\ RefRead(RefObject(field, v), default) = v
<1>1. /\ RefRead(<<"text", v>>, default) = v
      /\ RefRead(<<"name", v>>, default) = v
      /\ RefRead(<<"group", v>>, default) = v
  BY Present DEF RefRead
<1>2. /\ RefRead(<<"any">>, default) = "any"
      /\ RefRead(<<"original">>, default) = "original"
  BY Present DEF RefRead
<1>3. CASE field \in Interfaces
  <2>1. RefObject(field, v) = <<"text", v>>
    BY <1>3 DEF RefObject, Interfaces, Translated
  <2> QED
    BY <1>1, <2>1, Present
<1>4. CASE field \notin Interfaces /\ v = "any"
  <2>1. RefObject(field, v) = <<"any">>
    BY <1>4 DEF RefObject
  <2> QED
    BY <1>1, <1>2, <1>4, <2>1, Present
<1>5. CASE field \notin Interfaces /\ v # "any" /\ field \in Translated /\ v = "original"
  <2>1. RefObject(field, v) = <<"original">>
    BY <1>5 DEF RefObject
  <2> QED
    BY <1>1, <1>2, <1>5, <2>1, Present
<1>6. CASE field \notin Interfaces /\ v # "any" /\ ~(field \in Translated /\ v = "original")
  <2>1. RefObject(field, v) = <<"name", v>>
    BY <1>6 DEF RefObject
  <2> QED
    BY <1>1, <2>1, Present
<1> QED
  BY <1>3, <1>4, <1>5, <1>6

\* and so is one that names a group instead of an object.
LEMMA GroupsRead ==
    ASSUME NEW field \in NatField, NEW v, NEW default
    PROVE  /\ RefRead(<<"group", v>>, default) = v
           /\ RefObject(field, v)[1] = "name" => RefObject(field, v)[2] = v
<1>1. RefRead(<<"group", v>>, default) = v
  BY Present DEF RefRead
<1>2. RefObject(field, v) \in {<<"text", v>>, <<"any">>, <<"original">>, <<"name", v>>}
  BY DEF RefObject, Interfaces, Translated
<1>3. /\ <<"text", v>>[1] # "name" /\ <<"any">>[1] # "name" /\ <<"original">>[1] # "name"
      /\ <<"name", v>>[2] = v
  BY Present
<1> QED
  BY <1>1, <1>2, <1>3

\* What the reader makes of a wire object whose every reference reads as the policy's.
LEMMA NatReadsFields ==
    ASSUME NEW p \in Policy, NEW w,
           \A field \in NatField :
              RefRead(IF field \in DOMAIN w THEN w[field] ELSE At(w, Renamed(field)),
                      Default(field)) = p.refs[field],
           (IF "enabled" \in DOMAIN w THEN At(w, "enabled") ELSE At(w, "enable"))
              = Switch(p.enabled),
           At(w, "comment") = Absent => p.comment = Blank,
           At(w, "comment") # Absent => w["comment"] = <<p.comment>>
    PROVE  NatRead(w) = p
<1> DEFINE switch == IF "enabled" \in DOMAIN w THEN At(w, "enabled") ELSE At(w, "enable")
           refs == [field \in NatField |->
                      RefRead(IF field \in DOMAIN w THEN w[field]
                              ELSE At(w, Renamed(field)), Default(field))]
           enabled == switch \in {Absent, Switch(TRUE)}
           comment == IF At(w, "comment") = Absent THEN Blank ELSE w.comment[1]
<1>1. /\ p = [refs |-> p.refs, enabled |-> p.enabled, comment |-> p.comment]
      /\ p.refs \in [NatField -> Value \cup {"any", "original"}] /\ p.enabled \in BOOLEAN
  BY DEF Policy
<1>2. refs = p.refs
  BY <1>1
<1>3. enabled = p.enabled
  <2>1. enabled <=> p.enabled
    BY <1>1, SwitchRead
  <2>2. enabled \in BOOLEAN
    OBVIOUS
  <2> HIDE DEF enabled
  <2> QED
    BY <1>1, <2>1, <2>2
<1>4. comment = p.comment
  BY Present
<1>5. NatRead(w) = [refs |-> refs, enabled |-> enabled, comment |-> comment]
  BY DEF NatRead
<1> HIDE DEF refs, enabled, comment
<1> QED
  BY <1>1, <1>2, <1>3, <1>4, <1>5

\* The payload of the SDK.
LEMMA NatWireReads ==
    ASSUME NEW p \in Policy
    PROVE  NatRead(NatWire(p)) = p
<1> DEFINE full == [key \in NatField \cup {"enabled", "comment"} |->
                      CASE key \in NatField  -> <<"text", p.refs[key]>>
                        [] key = "enabled"   -> Switch(p.enabled)
                        [] key = "comment" /\ p.comment = Blank -> Absent
                        [] key = "comment" /\ p.comment # Blank -> <<p.comment>>]
           w == NatWire(p)
<1>1. w = Compact(full)
  BY DEF NatWire
<1>2. DOMAIN full = NatField \cup {"enabled", "comment"}
  OBVIOUS
<1>3. /\ \A field \in NatField : full[field] = <<"text", p.refs[field]>>
      /\ full["enabled"] = Switch(p.enabled)
      /\ p.comment = Blank => full["comment"] = Absent
      /\ p.comment # Blank => full["comment"] = <<p.comment>>
  <2>1. "enabled" \notin NatField /\ "comment" \notin NatField
    BY KeysDiffer
  <2> QED
    BY <2>1
<1> HIDE DEF full, w
<1>4. \A field \in NatField : field \in DOMAIN w /\ w[field] = <<"text", p.refs[field]>>
  BY <1>1, <1>2, <1>3, CompactKeeps, Present, SMTT(30)
<1>5. p.enabled \in BOOLEAN
  BY DEF Policy
<1>6. "enabled" \in DOMAIN w /\ At(w, "enabled") = Switch(p.enabled)
  BY <1>1, <1>2, <1>3, <1>5, CompactKeeps, SwitchRead
<1>7. /\ p.comment = Blank => At(w, "comment") = Absent
      /\ p.comment # Blank => At(w, "comment") # Absent /\ w["comment"] = <<p.comment>>
  BY <1>1, <1>2, <1>3, CompactKeeps, Present
<1>8. ASSUME NEW field \in NatField
      PROVE  RefRead(IF field \in DOMAIN w THEN w[field] ELSE At(w, Renamed(field)),
                     Default(field)) = p.refs[field]
  BY <1>4, ReferencesRead
<1> QED
  BY <1>6, <1>7, <1>8, NatReadsFields DEF w

\* What the firmware's form holds under its keys.
LEMMA FirmwareKeys ==
    ASSUME NEW p \in Policy
    PROVE  /\ DOMAIN FirmwareNatWire(p) = FirmwareKey \cup {"enable", "comment"}
           /\ \A field \in NatField :
                FirmwareNatWire(p)[Renamed(field)] = RefObject(field, p.refs[field])
           /\ FirmwareNatWire(p)["enable"] = Switch(p.enabled)
           /\ FirmwareNatWire(p)["comment"] = <<p.comment>>
<1> DEFINE Original(key) == CHOOSE field \in NatField : Renamed(field) = key
<1>1. FirmwareNatWire(p) =
        [key \in FirmwareKey \cup {"enable", "comment"} |->
            CASE key = "enable"  -> Switch(p.enabled)
              [] key = "comment" -> <<p.comment>>
              [] OTHER           -> RefObject(Original(key), p.refs[Original(key)])]
  BY DEF FirmwareNatWire, FirmwareKey
<1>2. \A field \in NatField : Original(Renamed(field)) = field
  BY KeysDiffer
<1> HIDE DEF Original
<1>3. ASSUME NEW field \in NatField
      PROVE  FirmwareNatWire(p)[Renamed(field)] = RefObject(field, p.refs[field])
  <2>1. Renamed(field) \in FirmwareKey /\ Renamed(field) # "enable" /\ Renamed(field) # "comment"
    BY KeysDiffer DEF FirmwareKey
  <2>2. FirmwareNatWire(p)[Renamed(field)] =
          RefObject(Original(Renamed(field)), p.refs[Original(Renamed(field))])
    BY <1>1, <2>1
  <2> QED
    BY <1>2, <2>2
<1>4. /\ FirmwareNatWire(p)["enable"] = Switch(p.enabled)
      /\ FirmwareNatWire(p)["comment"] = <<p.comment>>
  BY <1>1
<1> QED
  BY <1>1, <1>3, <1>4

\* A wire object with some of the firmware's keys, where those that are missing are at their
\* default and the others read like the firmware's.
LEMMA FirmwareReads ==
    ASSUME NEW p \in Policy, NEW w,
           DOMAIN w \subseteq FirmwareKey \cup {"enable", "comment"},
           {"enable", "comment"} \subseteq DOMAIN w,
           w["enable"] = Switch(p.enabled), w["comment"] = <<p.comment>>,
           \A field \in NatField : Renamed(field) \in DOMAIN w =>
              RefRead(w[Renamed(field)], Default(field)) = p.refs[field],
           \A field \in NatField : Renamed(field) \notin DOMAIN w =>
              p.refs[field] = Default(field)
    PROVE  NatRead(w) = p
<1>1. ASSUME NEW field \in NatField
      PROVE  RefRead(IF field \in DOMAIN w THEN w[field] ELSE At(w, Renamed(field)),
                     Default(field)) = p.refs[field]
  <2>1. field \in DOMAIN w => Renamed(field) = field
    <3>1. field \in DOMAIN w => field \in FirmwareKey
      BY KeysDiffer
    <3> QED
      BY <3>1, KeysDiffer
  <2>2. CASE Renamed(field) \in DOMAIN w
    BY <2>1, <2>2 DEF At
  <2>3. CASE Renamed(field) \notin DOMAIN w
    <3>1. field \notin DOMAIN w /\ At(w, Renamed(field)) = Absent
      BY <2>1, <2>3 DEF At
    <3>2. RefRead(Absent, Default(field)) = Default(field)
      BY DEF RefRead
    <3> QED
      BY <2>3, <3>1, <3>2
  <2> QED
    BY <2>2, <2>3
<1>2. "enabled" \notin DOMAIN w
  BY KeysDiffer
<1>3. At(w, "enable") = Switch(p.enabled) /\ At(w, "comment") = <<p.comment>>
  BY DEF At
<1> QED
  BY <1>1, <1>2, <1>3, NatReadsFields, Present

\* from_api_response reads every spelling of a policy, the SDK's two payloads and what
\* devices make of those of others.
LEMMA NatReads ==
    ASSUME NEW p \in Policy, NEW w \in NatSpellings(p)
    PROVE  NatRead(w) = p
<1> DEFINE firmware == FirmwareNatWire(p)
           grouped == [k \in DOMAIN firmware |->
                         IF firmware[k][1] = "name" THEN <<"group", firmware[k][2]>> ELSE firmware[k]]
           Kept(k) == \A field \in NatField \ Interfaces :
                         Renamed(field) = k => p.refs[field] # Default(field)
           sparse == [k \in {k \in DOMAIN firmware : Kept(k)} |-> firmware[k]]
<1>1. /\ DOMAIN firmware = FirmwareKey \cup {"enable", "comment"}
      /\ \A field \in NatField : firmware[Renamed(field)] = RefObject(field, p.refs[field])
      /\ firmware["enable"] = Switch(p.enabled) /\ firmware["comment"] = <<p.comment>>
  BY FirmwareKeys
<1>2. p.enabled \in BOOLEAN /\ p.comment \in {Blank, "text"}
  BY DEF Policy
<1>3. \A field \in NatField : Renamed(field) \in FirmwareKey
  BY DEF FirmwareKey
<1>4. \A field \in NatField :
        RefRead(firmware[Renamed(field)], Default(field)) = p.refs[field]
  <2>1. \A field \in NatField : RefRead(RefObject(field, p.refs[field]), Default(field)) = p.refs[field]
    BY ReferencesRead
  <2> HIDE DEF firmware
  <2> QED
    BY <1>1, <2>1
<1>5. NatRead(firmware) = p
  <2> HIDE DEF firmware
  <2> QED
    BY <1>1, <1>3, <1>4, FirmwareReads
<1>6. NatRead(grouped) = p
  <2>1. Switch(p.enabled)[1] # "name" /\ <<p.comment>>[1] # "name"
    BY <1>2, Present DEF Switch, Blank
  <2>2. DOMAIN grouped = DOMAIN firmware
    OBVIOUS
  <2>3. grouped["enable"] = Switch(p.enabled) /\ grouped["comment"] = <<p.comment>>
    BY <1>1, <2>1
  <2>4. ASSUME NEW field \in NatField
        PROVE  RefRead(grouped[Renamed(field)], Default(field)) = p.refs[field]
    <3>1. grouped[Renamed(field)] =
            IF RefObject(field, p.refs[field])[1] = "name"
            THEN <<"group", RefObject(field, p.refs[field])[2]>>
            ELSE RefObject(field, p.refs[field])
      BY <1>1, <1>3
    <3> DEFINE v == RefObject(field, p.refs[field])
    <3>2. RefRead(v, Default(field)) = p.refs[field]
      BY ReferencesRead
    <3>3. v[1] = "name" => v[2] = p.refs[field]
      BY GroupsRead
    <3>4. RefRead(<<"group", p.refs[field]>>, Default(field)) = p.refs[field]
      BY GroupsRead
    <3> HIDE DEF grouped, v
    <3>5. grouped[Renamed(field)] = IF v[1] = "name" THEN <<"group", v[2]>> ELSE v
      BY <3>1 DEF v
    <3> QED
      BY <3>2, <3>3, <3>5, <3>4
  <2> HIDE DEF grouped, firmware
  <2> QED
    BY <1>1, <1>3, <2>2, <2>3, <2>4, FirmwareReads
<1>7. NatRead(sparse) = p
  <2>1. Kept("enable") /\ Kept("comment")
    BY KeysDiffer
  <2>2. DOMAIN sparse = {k \in DOMAIN firmware : Kept(k)}
    OBVIOUS
  <2>3. \A k \in DOMAIN sparse : sparse[k] = firmware[k]
    OBVIOUS
  <2>4. ASSUME NEW field \in NatField, ~Kept(Renamed(field))
        PROVE  p.refs[field] = Default(field)
    BY <2>4, KeysDiffer
  <2> HIDE DEF sparse, firmware, Kept
  <2>5. /\ DOMAIN sparse \subseteq FirmwareKey \cup {"enable", "comment"}
        /\ {"enable", "comment"} \subseteq DOMAIN sparse
        /\ sparse["enable"] = Switch(p.enabled) /\ sparse["comment"] = <<p.comment>>
    BY <1>1, <2>1, <2>2, <2>3
  <2>6. \A field \in NatField : Renamed(field) \in DOMAIN sparse =>
          RefRead(sparse[Renamed(field)], Default(field)) = p.refs[field]
    BY <1>4, <2>3
  <2>7. \A field \in NatField : Renamed(field) \notin DOMAIN sparse => p.refs[field] = Default(field)
    BY <1>1, <1>3, <2>2, <2>4
  <2> QED
    BY <2>5, <2>6, <2>7, FirmwareReads
<1> QED
  BY <1>5, <1>6, <1>7, NatWireReads DEF NatSpellings

\* The policy held is the one given, and what is stored spells it.
NatInv ==
    /\ given \in Policy /\ object = given
    /\ stage = "stored" => wire \in NatSpellings(given)

----------------------------------------------------------------------------
(* Service objects *)

\* What is under "protocol" is read as it is.
LEMMA ServiceReads ==
    ASSUME NEW s \in Service
    PROVE  ServiceRead(ServiceWire(s)) = s
<1>1. PICK S \in SUBSET Protocol : s \in [S -> Value]
  BY DEF Service
<1>2. At(ServiceWire(s), "protocol") = s
  BY DEF At, ServiceWire
<1>3. Protocol \cap DOMAIN s = DOMAIN s /\ s = [p \in DOMAIN s |-> s[p]]
  BY <1>1
<1>4. ServiceRead(ServiceWire(s)) = [p \in Protocol \cap DOMAIN s |-> s[p]]
  BY <1>2 DEF ServiceRead
<1> QED
  BY <1>3, <1>4

\* Once the flat form was stored the service is not the one given.
ServiceInv ==
    /\ given \in Service
    /\ ~flat => object = given
    /\ ~flat /\ stage = "stored" => wire = ServiceWire(given)

----------------------------------------------------------------------------
(* The inductive invariant *)

\* The four models.
Family == {"address", "rule", "nat", "service"}

\* The invariant of the family that is on the wire.
WireInv ==
    /\ family \in Family /\ stage \in {"held", "stored", "read"} /\ flat \in BOOLEAN
    /\ family = "address" => AddressInv
    /\ family = "rule" => RuleInv
    /\ family = "nat" => NatInv
    /\ family = "service" => ServiceInv

\* What is sent for an address held is a spelling of the one given.
LEMMA WriteKeeps ==
    ASSUME WireInv, Write
    PROVE  WireInv'
<1>1. /\ wire' \in Payloads(object) /\ stage' = "stored"
      /\ family' = family /\ object' = object /\ given' = given
      /\ flat' = (flat \/ (family = "service" /\ wire' # ServiceWire(object)))
  BY DEF Write
<1>2. flat' \in BOOLEAN
  BY <1>1 DEF WireInv
<1>3. CASE family = "address"
  <2>1. /\ given \in Address /\ object \in Address /\ object.type = given.type
        /\ object.fields[given.type] = given.fields[given.type]
    BY <1>3 DEF WireInv, AddressInv, Alike
  <2>2. wire' = AddressWire(object)
    BY <1>1, <1>3 DEF Payloads
  <2>3. wire' \in AddressSpellings(object)
    BY <2>2 DEF AddressSpellings
  <2>4. Spelled(wire', given.type, given.fields[given.type])
    BY <2>1, <2>3, SpellingsSpell
  <2>5. AddressInv'
    BY <1>1, <2>1, <2>4 DEF AddressInv, Alike
  <2> QED
    BY <1>1, <1>2, <1>3, <2>5 DEF WireInv, Family
<1>4. CASE family = "rule"
  <2>1. wire' = RuleWire(object)
    BY <1>1, <1>4 DEF Payloads
  <2>2. RuleInv'
    BY <1>1, <1>4, <2>1 DEF WireInv, RuleInv
  <2> QED
    BY <1>1, <1>2, <1>4, <2>2 DEF WireInv, Family
<1>5. CASE family = "nat"
  <2>1. wire' \in {NatWire(object), FirmwareNatWire(object)}
    BY <1>1, <1>5 DEF Payloads
  <2>2. wire' \in NatSpellings(object)
    BY <2>1 DEF NatSpellings
  <2>3. NatInv'
    BY <1>1, <1>5, <2>2 DEF WireInv, NatInv
  <2> QED
    BY <1>1, <1>2, <1>5, <2>3 DEF WireInv, Family
<1>6. CASE family = "service"
  <2>1. ServiceInv'
    BY <1>1, <1>6 DEF WireInv, ServiceInv
  <2> QED
    BY <1>1, <1>2, <1>6, <2>1 DEF WireInv, Family
<1> QED
  BY <1>3, <1>4, <1>5, <1>6 DEF WireInv, Family

\* What is read means what was stored, in every envelope.
LEMMA ReadKeeps ==
    ASSUME WireInv, Read
    PROVE  WireInv'
<1>1. /\ stage = "stored" /\ object' = Parsed(wire) /\ stage' = "read"
      /\ family' = family /\ wire' = wire /\ given' = given /\ flat' = flat
  BY EnvelopesOpen DEF Read
<1>2. CASE family = "address"
  <2>1. given \in Address /\ Spelled(wire, given.type, given.fields[given.type])
    BY <1>1, <1>2 DEF WireInv, AddressInv
  <2>2. given.type \in Types /\ given.fields[given.type] \in Value
    BY <2>1, AddressHas
  <2>3. object' = AddressRead(wire)
    BY <1>1, <1>2 DEF Parsed
  <2> DEFINE t == given.type
             v == given.fields[given.type]
             o == [type |-> t, fields |-> [u \in {t} |-> v]]
  <2>4. object' = o
    BY <2>1, <2>2, <2>3, AddressReads
  <2>5. o \in Address
    BY <2>2, AddressOf
  <2>6. o.type = t /\ o.fields[t] = v
    OBVIOUS
  <2> HIDE DEF o
  <2>7. AddressInv'
    BY <1>1, <2>1, <2>4, <2>5, <2>6 DEF AddressInv, Alike
  <2> QED
    BY <1>1, <1>2, <2>7 DEF WireInv, Family
<1>3. CASE family = "rule"
  <2>1. PICK o \in Rule : Keeps(o, given) /\ wire = RuleWire(o)
    BY <1>1, <1>3 DEF WireInv, RuleInv
  <2>2. object' = RuleRead(RuleWire(o))
    BY <1>1, <1>3, <2>1 DEF Parsed
  <2>3. object' \in Rule /\ Keeps(object', o)
    BY <2>2, RuleReads
  <2>4. given \in Rule
    BY <1>3 DEF WireInv, RuleInv
  <2>5. Keeps(object', given)
    BY <2>1, <2>3, <2>4, KeepsOn
  <2>6. RuleInv'
    BY <1>1, <2>3, <2>4, <2>5 DEF RuleInv
  <2> QED
    BY <1>1, <1>3, <2>6 DEF WireInv, Family
<1>4. CASE family = "nat"
  <2>1. given \in Policy /\ wire \in NatSpellings(given)
    BY <1>1, <1>4 DEF WireInv, NatInv
  <2>2. object' = NatRead(wire)
    BY <1>1, <1>4 DEF Parsed
  <2>3. object' = given
    BY <2>1, <2>2, NatReads
  <2>4. NatInv'
    BY <1>1, <2>1, <2>3 DEF NatInv
  <2> QED
    BY <1>1, <1>4, <2>4 DEF WireInv, Family
<1>5. CASE family = "service"
  <2>1. object' = ServiceRead(wire)
    BY <1>1, <1>5 DEF Parsed
  <2>2. given \in Service /\ (~flat => wire = ServiceWire(given))
    BY <1>1, <1>5 DEF WireInv, ServiceInv
  <2>3. ~flat => object' = given
    BY <2>1, <2>2, ServiceReads
  <2>4. ServiceInv'
    BY <1>1, <2>2, <2>3 DEF ServiceInv
  <2> QED
    BY <1>1, <1>5, <2>4 DEF WireInv, Family
<1> QED
  BY <1>2, <1>3, <1>4, <1>5 DEF WireInv, Family

\* A change of the object read changes what is meant.
LEMMA EditKeeps ==
    ASSUME WireInv, Edit
    PROVE  WireInv'
<1>1. stage' = "held" /\ family' = family /\ wire' = wire /\ flat' = flat
  BY DEF Edit
<1>2. CASE family \in {"address", "service"}
  <2>1. object' = object /\ given' = given
    BY <1>2 DEF Edit
  <2> QED
    BY <1>1, <1>2, <2>1 DEF WireInv, AddressInv, ServiceInv, Alike
<1>3. CASE family = "rule"
  <2>1. /\ object' = [object EXCEPT !.enabled = ~@] /\ given' = [given EXCEPT !.enabled = ~@]
        /\ object \in Rule /\ given \in Rule /\ Keeps(object, given)
    BY <1>3 DEF Edit, WireInv, RuleInv
  <2>2. ASSUME NEW r \in Rule
        PROVE  LET e == [r EXCEPT !.enabled = ~@]
               IN /\ e \in Rule /\ e.enabled = ~r.enabled
                  /\ e.source = r.source /\ e.destination = r.destination /\ e.auto = r.auto
                  /\ e.value = r.value /\ e.comment = r.comment
    <3>1. (~r.enabled) \in BOOLEAN
      OBVIOUS
    <3> QED
      BY <3>1 DEF Rule
  <2>3. object' \in Rule /\ given' \in Rule
    BY <2>1, <2>2
  <2>4. /\ object'.enabled = ~object.enabled /\ given'.enabled = ~given.enabled
        /\ object'.source = object.source /\ object'.destination = object.destination
        /\ given'.source = given.source /\ given'.destination = given.destination
        /\ object'.auto = object.auto /\ object'.value = object.value
        /\ given'.auto = given.auto /\ given'.value = given.value
        /\ object'.comment = object.comment /\ given'.comment = given.comment
    BY <2>1, <2>2
  <2>5. Keeps(object', given')
    BY <2>1, <2>4 DEF Keeps
  <2>6. RuleInv'
    BY <1>1, <2>3, <2>5 DEF RuleInv
  <2> QED
    BY <1>1, <1>3, <2>6 DEF WireInv, Family
<1>4. CASE family = "nat"
  <2>1. /\ object' = [object EXCEPT !.enabled = ~@] /\ given' = [given EXCEPT !.enabled = ~@]
        /\ object = given /\ given \in Policy
    BY <1>4 DEF Edit, WireInv, NatInv
  <2>2. given' \in Policy
    <3>1. (~given.enabled) \in BOOLEAN
      OBVIOUS
    <3> QED
      BY <2>1, <3>1 DEF Policy
  <2>3. NatInv'
    BY <1>1, <2>1, <2>2 DEF NatInv
  <2> QED
    BY <1>1, <1>4, <2>3 DEF WireInv, Family
<1> QED
  BY <1>2, <1>3, <1>4 DEF WireInv, Family

\* Every step keeps the invariant,
LEMMA WireInvNext == WireInv /\ [Next]_vars => WireInv'
<1>1. ASSUME WireInv, UNCHANGED vars
      PROVE  WireInv'
  BY <1>1 DEF WireInv, vars, AddressInv, RuleInv, NatInv, ServiceInv, Alike
<1> QED
  BY <1>1, WriteKeeps, ReadKeeps, EditKeeps DEF Next

\* and it holds at first.
LEMMA WireInvInit == Init => WireInv
<1> SUFFICES ASSUME Init PROVE WireInv
  OBVIOUS
<1>1. /\ family \in Family /\ given \in Objects /\ object = given /\ flat = FALSE
      /\ stage = "held" \/ (stage = "stored" /\ wire \in Spellings(given))
  BY DEF Init, Family
<1>2. CASE family = "address"
  <2>1. given \in Address
    BY <1>1, <1>2 DEF Objects
  <2>2. stage = "stored" => wire \in AddressSpellings(given)
    BY <1>1, <1>2 DEF Spellings
  <2>3. AddressInv
    BY <1>1, <2>1, <2>2, SpellingsSpell DEF AddressInv, Alike
  <2> QED
    BY <1>1, <1>2, <2>3 DEF WireInv
<1>3. CASE family = "rule"
  <2>1. given \in Rule
    BY <1>1, <1>3 DEF Objects
  <2>2. stage = "stored" => wire = RuleWire(given)
    BY <1>1, <1>3 DEF Spellings
  <2>3. RuleInv
    BY <1>1, <2>1, <2>2, KeepsItself DEF RuleInv
  <2> QED
    BY <1>1, <1>3, <2>3 DEF WireInv
<1>4. CASE family = "nat"
  <2>1. given \in Policy
    BY <1>1, <1>4 DEF Objects
  <2>2. stage = "stored" => wire \in NatSpellings(given)
    BY <1>1, <1>4 DEF Spellings
  <2> QED
    BY <1>1, <1>4, <2>1, <2>2 DEF WireInv, NatInv
<1>5. CASE family = "service"
  <2>1. given \in Service
    BY <1>1, <1>5 DEF Objects
  <2>2. stage = "stored" => wire = ServiceWire(given)
    BY <1>1, <1>5 DEF Spellings
  <2> QED
    BY <1>1, <1>5, <2>1, <2>2 DEF WireInv, ServiceInv
<1> QED
  BY <1>1, <1>2, <1>3, <1>4, <1>5 DEF Family

\* What is held and stored means what was given, always.
THEOREM WireInvariant == Spec => []WireInv
BY WireInvInit, WireInvNext, PTL DEF Spec

----------------------------------------------------------------------------
(* The properties *)

\* An address object keeps its type and the field of its type (AddressObject in
\* models/address_object.py), however its host is spelled and in every envelope.
THEOREM AddressesAreKept == Spec => []AddressKept
<1>1. WireInv => AddressKept
  BY DEF WireInv, AddressInv, Alike, AddressKept
<1> QED
  BY WireInvariant, <1>1, PTL

\* An access rule keeps its priority, its addresses, its switch and its comment
\* (AccessRule in models/access_rule.py), after any number of rounds.
THEOREM RulesAreKept == Spec => []RuleKept
<1>1. WireInv => RuleKept
  BY DEF WireInv, RuleInv, Keeps, RuleKept
<1> QED
  BY WireInvariant, <1>1, PTL

\* A NAT policy survives both payloads and every shape in which devices list policies
\* (NatPolicy in models/nat_policy.py, nat_policies.py).
THEOREM PoliciesAreKept == Spec => []NatKept
<1>1. WireInv => NatKept
  BY DEF WireInv, NatInv, NatKept
<1> QED
  BY WireInvariant, <1>1, PTL

\* A service object keeps its ports unless the device has kept it in the flat form
\* (ServiceObject in models/service_object.py).
THEOREM ServicesAreKept == Spec => []ServiceKept
<1>1. WireInv => ServiceKept
  BY DEF WireInv, ServiceInv, ServiceKept
<1> QED
  BY WireInvariant, <1>1, PTL
=============================================================================
