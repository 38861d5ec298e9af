---------------------------- MODULE FrameFormat ---------------------------
(***************************************************************************)
(* The layout of a BACnet/IP datagram, as the clauses cited in             *)
(* common/CASExampleHelper.cpp give it (Annex J for the BVLC header, 6.2.2 *)
(* for the network header, 20.1 and 20.2.1 for the APDU and its tags), for *)
(* the messages the decoder claims to recognise: Encode gives the bytes of *)
(* a message, Stated what those bytes say, as a set of labelled facts.     *)
(* It is the reference FrameDecode is checked against, and nothing in it   *)
(* is taken from the decoder.                                              *)
(***************************************************************************)
EXTENDS Integers, Sequences

CONSTANT None    \* no such part

Octet    == 0 .. 255
Below(n) == 0 .. n - 1

\* In place of an APDU's type, for a message of the network layer.
NetworkLayer == 16

\* A number in two 16-bit halves.
Number(n) == <<n \div 65536, n % 65536>>

Octets2(n) == <<n \div 256, n % 256>>

\* An unsigned number below 65536, in one octet where it fits.
Shortest(n) == IF n < 256 THEN <<n>> ELSE Octets2(n)

\* A primitive context tag around some octets, at most four of them.
Tagged(number, octets) == <<number * 16 + 8 + Len(octets)>> \o octets

\* An object identifier is ten bits of type and 22 bits of instance.
Identifier(type, instance) ==
  <<type \div 4, (type % 4) * 64 + instance \div 65536>>
  \o Octets2(instance % 65536)

\* The object, property and array index a request or an answer names.
Reference(r) ==
  Tagged(0, Identifier(r.type, r.instance))
  \o Tagged(1, Shortest(r.property))
  \o IF r.index = None THEN <<>> ELSE Tagged(2, <<r.index>>)

ReferenceStated(r) ==
  {<<"object", <<r.type, r.instance>>>>, <<"property", Number(r.property)>>}
  \cup IF r.index = None THEN {} ELSE {<<"index", Number(r.index)>>}

\* What follows the service choice begins with the reference only in the first
\* segment.  A later one goes on with the value, and the value of a property
\* may itself be references (BACnetObjectPropertyReference, Clause 21).
Payload(p) == IF p.reference = None THEN <<>> ELSE Reference(p.reference)
PayloadStated(p) ==
  IF p.reference = None \/ p.sequence > 0 THEN {} ELSE ReferenceStated(p.reference)

\* The sequence number and window of a segment.
Segment(p) == IF p.segmented THEN <<p.sequence, 4>> ELSE <<>>
Flags(p)   == p.pdu * 16 + IF p.segmented THEN 8 ELSE 0

Body(p) ==
  CASE p.pdu = NetworkLayer -> <<p.code>>
    [] p.pdu = 0          -> <<Flags(p), 5, p.invoke>> \o Segment(p)
                             \o <<p.code>> \o Payload(p)
    [] p.pdu = 1          -> <<16, p.code>>
    [] p.pdu = 3          -> <<Flags(p), p.invoke>> \o Segment(p)
                             \o <<p.code>> \o Payload(p)
    [] p.pdu = 4          -> <<64, p.invoke, 0, 4>>
    [] OTHER              -> <<p.pdu * 16, p.invoke, p.code>>

BodyStated(p) ==
  CASE p.pdu = NetworkLayer -> {<<"network", p.code>>}
    [] p.pdu = 1          -> {<<"pdu", 1>>, <<"service", p.code>>}
    [] p.pdu = 4          -> {<<"pdu", 4>>}
    [] p.pdu \in {6, 7}   -> {<<"pdu", p.pdu>>, <<"invoke", p.invoke>>,
                              <<"reason", p.code>>}
    [] OTHER              -> {<<"pdu", p.pdu>>, <<"invoke", p.invoke>>,
                              <<"service", p.code>>} \cup PayloadStated(p)

\* A network number with an address on that network; no octets is a broadcast.
Specifier(s) ==
  IF s = None THEN <<>> ELSE Octets2(s.net) \o <<Len(s.address)>> \o s.address

SpecifierStated(s, net, address) ==
  IF s = None THEN {}
  ELSE {<<net, s.net>>}
       \cup IF s.address = <<>> THEN {} ELSE {<<address, s.address>>}

Control(m) ==
    (IF m.body.pdu = NetworkLayer THEN 128 ELSE 0)
  + (IF m.destination = None THEN 0 ELSE 32)
  + (IF m.source = None THEN 0 ELSE 8)

\* A hop count whenever there is a destination.
Npdu(m) ==
  <<1, Control(m)>> \o Specifier(m.destination) \o Specifier(m.source)
  \o (IF m.destination = None THEN <<>> ELSE <<255>>) \o Body(m.body)

\* A Forwarded-NPDU carries the originating address.
Origin(m) == IF m.bvlc = 4 THEN <<10, 0, 0, 7, 186, 192>> ELSE <<>>

\* The length field counts the whole datagram.
Encode(m) ==
  <<129, m.bvlc>> \o Octets2(4 + Len(Origin(m)) + Len(Npdu(m)))
  \o Origin(m) \o Npdu(m)

\* The messages there are: the fields have their widths, and only the services
\* that begin with a reference carry one.
FitsReference(r) ==
  /\ r.type \in Below(1024) /\ r.instance \in Below(4194304)
  /\ r.property \in Below(65536)
  /\ r.index # None => r.index \in Octet

FitsSpecifier(s) ==
  s.net \in Below(65536) /\ s.address \in Seq(Octet) /\ Len(s.address) <= 255

FitsBody(p) ==
  /\ p.pdu \in (0 .. 7) \cup {NetworkLayer} /\ p.segmented \in BOOLEAN
  /\ {p.sequence, p.invoke, p.code} \subseteq Octet
  /\ p.reference # None =>
       /\ \/ p.pdu = 0 /\ p.code \in {12, 15}
          \/ p.pdu = 3 /\ p.code = 12
       /\ FitsReference(p.reference)

WellFormed(m) ==
  /\ m.bvlc \in {4, 10, 11}
  /\ m.destination # None => FitsSpecifier(m.destination)
  /\ m.source # None => FitsSpecifier(m.source)
  /\ FitsBody(m.body)

Stated(m) ==
  {<<"bvlc", m.bvlc>>, <<"control", Control(m)>>}
  \cup SpecifierStated(m.destination, "dnet", "dadr")
  \cup SpecifierStated(m.source, "snet", "sadr")
  \cup BodyStated(m.body)

=============================================================================
