---------------------------- MODULE FrameDecode ---------------------------
(***************************************************************************)
(* The frame decoder of common/CASExampleHelper.cpp: DecodeTagHeader,      *)
(* DecodeObjectAndProperty and DecodeBacnetFrame, and what the one-line    *)
(* summary shows of it.  The decoder is pure; what is modelled around it   *)
(* is the datagram it is given: a message as it was sent, with an octet    *)
(* changed, or cut short at any point.                                     *)
(*                                                                         *)
(* A frame is its octets together with what a read behind the last of them *)
(* would find: a read past frameLength is one whose result can depend on   *)
(* that.  DecodedFrame is the set of facts the two views, the XML dump and *)
(* the summary, can show; the fields the code leaves at their defaults and *)
(* shows all the same are facts too.  Offsets count from 0 as in the code. *)
(***************************************************************************)
EXTENDS FrameFormat

CONSTANTS
  Messages,   \* the messages sent
  Noise,      \* runs of octets that may overwrite part of a frame
  Behind      \* octets that may lie behind a frame

ASSUME FrameAssumption ==
  /\ Noise \subseteq Seq(Octet)
  /\ Behind \subseteq Octet
  /\ \A m \in Messages : WellFormed(m)

VARIABLES
  message,    \* the message sent
  whole,      \* its octets as they arrived, perhaps some changed
  frame       \* what is left of them

vars == <<message, whole, frame>>

View(octets, behind) == [octets |-> octets, behind |-> behind]

Size(f)      == Len(f.octets)
At(f, i)     == IF i < Size(f) THEN f.octets[i + 1] ELSE f.behind
Has(f, i)    == i < Size(f)
Fits(f, end) == end <= Size(f)
Bit(octet, weight) == (octet \div weight) % 2 = 1

Word(f, i) == At(f, i) * 256 + At(f, i + 1)

---------------------------------------------------------------------------
(* DecodeTagHeader *)

\* More than any datagram holds: a 32-bit length of 2^24 or more.
LongLength == 16777216

ValueBits(f, at)       == At(f, at) % 8
ContextSpecific(f, at) == Bit(At(f, at), 8)
ExtendedNumber(f, at)  == At(f, at) \div 16 = 15
ExtendedLength(f, at)  == ValueBits(f, at) = 5

\* Where the extended length is, if there is one.
LengthAt(f, at) == at + IF ExtendedNumber(f, at) THEN 2 ELSE 1

LengthSize(f, at) ==
  IF ~ExtendedLength(f, at) THEN 0
  ELSE LET first == At(f, LengthAt(f, at))
       IN  IF first < 254 THEN 1 ELSE IF first = 254 THEN 3 ELSE 5

TagEnd(f, at) == LengthAt(f, at) + LengthSize(f, at)

TagDecodes(f, at) ==
  /\ Has(f, at)
  /\ ExtendedNumber(f, at) => Has(f, at + 1)
  /\ ContextSpecific(f, at) \/ ValueBits(f, at) <= 5
  /\ ExtendedLength(f, at) => Has(f, LengthAt(f, at)) /\ Fits(f, TagEnd(f, at))

TagNumber(f, at) ==
  IF ExtendedNumber(f, at) THEN At(f, at + 1) ELSE At(f, at) \div 16

\* Opening and closing tags have length 0.
TagLength(f, at) ==
  LET l == LengthAt(f, at)
  IN  IF ~ExtendedLength(f, at)
      THEN IF ValueBits(f, at) <= 4 THEN ValueBits(f, at) ELSE 0
      ELSE CASE LengthSize(f, at) = 1 -> At(f, l)
             [] LengthSize(f, at) = 3 -> Word(f, l + 1)
             [] OTHER -> IF At(f, l + 1) > 0 THEN LongLength
                         ELSE At(f, l + 2) * 65536 + Word(f, l + 3)

---------------------------------------------------------------------------
(* DecodeObjectAndProperty *)

\* A primitive with this context tag and one of these lengths lies at the offset.
Primitive(f, at, number, lengths) ==
  /\ TagDecodes(f, at)
  /\ ContextSpecific(f, at)
  /\ TagNumber(f, at) = number
  /\ TagLength(f, at) \in lengths
  /\ Fits(f, TagEnd(f, at) + TagLength(f, at))

PrimitiveEnd(f, at) == TagEnd(f, at) + TagLength(f, at)

\* The n octets before an offset as a number, in two 16-bit halves.
Unsigned(f, end, n) ==
  LET octet(k) == IF k <= n THEN At(f, end - k) ELSE 0
  IN  <<octet(4) * 256 + octet(3), octet(2) * 256 + octet(1)>>

UnsignedAt(f, at) == Unsigned(f, PrimitiveEnd(f, at), TagLength(f, at))

\* Mutant: the instance keeps the low two bits of the type.
ObjectAtUnmasked(f, o) ==
  <<At(f, o) * 4 + At(f, o + 1) \div 64, At(f, o + 1) * 65536 + Word(f, o + 2)>>

ObjectAt(f, o) ==
  <<At(f, o) * 4 + At(f, o + 1) \div 64,
    (At(f, o + 1) % 64) * 65536 + Word(f, o + 2)>>

ObjectAndProperty(f, at) ==
  IF ~Primitive(f, at, 0, {4}) THEN {}
  ELSE LET property == PrimitiveEnd(f, at)
       IN  IF ~Primitive(f, property, 1, 1 .. 4) THEN {}
           ELSE LET index == PrimitiveEnd(f, property)
                IN  {<<"object", ObjectAt(f, TagEnd(f, at))>>,
                     <<"property", UnsignedAt(f, property)>>}
                    \cup IF Primitive(f, index, 2, 1 .. 4)
                         THEN {<<"index", UnsignedAt(f, index)>>} ELSE {}

---------------------------------------------------------------------------
(* DecodeBacnetFrame: the BVLC and network headers. *)

IsBacnetIp(f) == Size(f) >= 4 /\ At(f, 0) = 129

\* Original-Unicast, Original-Broadcast and Forwarded-NPDU carry an NPDU.
CarriesNpdu(f) == At(f, 1) \in {4, 10, 11}
NpduAt(f)      == IF At(f, 1) = 4 THEN 10 ELSE 4
HasNpdu(f)     == CarriesNpdu(f) /\ Fits(f, NpduAt(f) + 2)

ControlOf(f)        == At(f, NpduAt(f) + 1)
HasDestination(f)   == Bit(ControlOf(f), 32)
HasSource(f)        == Bit(ControlOf(f), 8)
IsNetworkMessage(f) == Bit(ControlOf(f), 128)

\* A network number, an address length and the address.
SpecifierEnd(f, at)  == at + 3 + At(f, at + 2)
SpecifierFits(f, at) == Fits(f, at + 3) /\ Fits(f, SpecifierEnd(f, at))

DestinationAt(f)   == NpduAt(f) + 2
DestinationFits(f) == HasDestination(f) => SpecifierFits(f, DestinationAt(f))
SourceAt(f) ==
  IF HasDestination(f) THEN SpecifierEnd(f, DestinationAt(f))
  ELSE DestinationAt(f)
SourceFits(f) == HasSource(f) => SpecifierFits(f, SourceAt(f))
SourceEnd(f)  == IF HasSource(f) THEN SpecifierEnd(f, SourceAt(f)) ELSE SourceAt(f)

\* Mutant: the hop count of a routed frame is forgotten.
NoHopCount(f) == SourceEnd(f)

\* The hop count is present whenever the destination is.
PayloadAt(f) == SourceEnd(f) + IF HasDestination(f) THEN 1 ELSE 0

\* Every part of the header is there, and an octet behind it.
Reached(f) == DestinationFits(f) /\ SourceFits(f) /\ Has(f, PayloadAt(f))

Octets(f, at, n) == [i \in 1 .. n |-> At(f, at + i - 1)]

\* The number stays 0 when its specifier is cut; the address is then not there.
SpecifierFacts(f, at, net, address) ==
  {<<net, IF Fits(f, at + 3) THEN Word(f, at) ELSE 0>>}
  \cup IF SpecifierFits(f, at) /\ At(f, at + 2) > 0
       THEN {<<address, Octets(f, at + 3, At(f, at + 2))>>} ELSE {}

DestinationFacts(f) ==
  IF HasDestination(f)
  THEN SpecifierFacts(f, DestinationAt(f), "dnet", "dadr") ELSE {}

SourceFacts(f) ==
  IF ~HasSource(f) THEN {}
  ELSE IF DestinationFits(f) THEN SpecifierFacts(f, SourceAt(f), "snet", "sadr")
  ELSE {<<"snet", 0>>}

---------------------------------------------------------------------------
(* DecodeBacnetFrame: the APDU at offset p, and the whole. *)

PduType(f, p)   == At(f, p) \div 16
Segmented(f, p) == Bit(At(f, p), 8)

InvokeAt(f, p) == IF PduType(f, p) = 0 THEN p + 2 ELSE p + 1

\* A segment's sequence number and window precede the service choice.
ServiceAt(f, p) ==
  CASE PduType(f, p) = 0 -> p + IF Segmented(f, p) THEN 5 ELSE 3
    [] PduType(f, p) = 1 -> p + 1
    [] PduType(f, p) = 3 -> p + IF Segmented(f, p) THEN 4 ELSE 2
    [] OTHER             -> p + 2

\* Mutant: an APDU cut before its invoke id is not noticed.
HasInvokeUnchecked(f, p) == PduType(f, p) \in {0, 2, 3, 5, 6, 7}

\* The short PDUs are taken whole or not at all.
HasInvoke(f, p) ==
  \/ PduType(f, p) \in {0, 3} /\ Has(f, InvokeAt(f, p))
  \/ PduType(f, p) \in {2, 5, 6, 7} /\ Has(f, p + 2)

\* Mutant: an APDU cut before its service is not noticed.
HasServiceUnchecked(f, p) == PduType(f, p) \in {0, 1, 2, 3, 5}

HasService(f, p) ==
  PduType(f, p) \in {0, 1, 2, 3, 5} /\ Has(f, ServiceAt(f, p))

HasReason(f, p) == PduType(f, p) \in {6, 7} /\ Has(f, p + 2)

\* ReadProperty and WriteProperty requests and the ReadProperty answer name an
\* object and a property.
NamesProperty(f, p) ==
  /\ HasService(f, p)
  /\ \/ PduType(f, p) = 0 /\ At(f, ServiceAt(f, p)) \in {12, 15}
     \/ PduType(f, p) = 3 /\ At(f, ServiceAt(f, p)) = 12

ApduFacts(f, p) ==
  {<<"pdu", PduType(f, p)>>}
  \cup (IF HasInvoke(f, p) THEN {<<"invoke", At(f, InvokeAt(f, p))>>} ELSE {})
  \cup (IF HasService(f, p) THEN {<<"service", At(f, ServiceAt(f, p))>>} ELSE {})
  \cup (IF HasReason(f, p) THEN {<<"reason", At(f, p + 2)>>} ELSE {})
  \cup (IF NamesProperty(f, p)
        THEN ObjectAndProperty(f, ServiceAt(f, p) + 1) ELSE {})

\* The type of a network message stays 0 when the frame is cut before it.
PayloadFacts(f) ==
  IF IsNetworkMessage(f)
  THEN {<<"network", IF Reached(f) THEN At(f, PayloadAt(f)) ELSE 0>>}
  ELSE IF Reached(f) THEN ApduFacts(f, PayloadAt(f)) ELSE {}

DecodeBacnetFrame(f) ==
  IF ~IsBacnetIp(f) THEN {}
  ELSE {<<"bvlc", At(f, 1)>>}
       \cup IF ~HasNpdu(f) THEN {}
            ELSE {<<"control", ControlOf(f)>>} \cup DestinationFacts(f)
                 \cup SourceFacts(f) \cup PayloadFacts(f)

\* What the one line shows; no fact at all is "?".
Shown(f) ==
  IF ~HasNpdu(f) THEN {"bvlc"}
  ELSE IF IsNetworkMessage(f) THEN {"network", "dnet", "dadr"}
  ELSE IF ~Reached(f) THEN {}
  ELSE {"dnet", "dadr", "service", "reason", "object", "property", "index"}
       \cup IF PduType(f, PayloadAt(f)) < 8 THEN {"pdu"} ELSE {}

SummarizeBacnetFrame(f) ==
  IF ~IsBacnetIp(f) THEN {}
  ELSE {fact \in DecodeBacnetFrame(f) : fact[1] \in Shown(f)}

---------------------------------------------------------------------------
(* The datagram. *)

Init ==
  /\ message \in Messages
  /\ whole = Encode(message)
  /\ frame = whole

\* A run of octets arrives changed.
Garble ==
  /\ frame = whole
  /\ whole = Encode(message)
  /\ \E octets \in Noise : \E i \in 0 .. Len(whole) - 1 :
       whole' = [k \in DOMAIN whole |-> IF k - i \in DOMAIN octets
                                        THEN octets[k - i] ELSE whole[k]]
  /\ frame' = whole'
  /\ UNCHANGED message

\* The datagram is one octet shorter.
Cut ==
  /\ frame # <<>>
  /\ frame' = SubSeq(frame, 1, Len(frame) - 1)
  /\ UNCHANGED <<message, whole>>

\* An empty datagram is never decoded: Receive reports only what has octets.
Gone == frame = <<>> /\ UNCHANGED vars

Next ==
  \/ Garble
  \/ Cut
  \/ Gone

Spec == Init /\ [][Next]_vars

---------------------------------------------------------------------------
(* Properties. *)

\* The width of the fields of DecodedFrame.
Field(label) ==
  CASE label \in {"dnet", "snet"}     -> Below(65536)
    [] label \in {"dadr", "sadr"}     -> Seq(Octet)
    [] label = "pdu"                  -> Below(16)
    [] label = "object"               -> Below(1024) \X Below(4194304)
    [] label \in {"property", "index"} -> Below(65536) \X Below(65536)
    [] OTHER                          -> Octet

TypeOK ==
  /\ message \in Messages
  /\ whole \in Seq(Octet)
  /\ frame \in Seq(Octet)
  /\ Len(frame) <= Len(whole)
  /\ \A b \in Behind : \A fact \in DecodeBacnetFrame(View(frame, b)) :
       fact[2] \in Field(fact[1])

\* The decoder "never reads past frameLength" (comment at DecodeBacnetFrame):
\* nothing it reports depends on what lies behind the frame, however the frame
\* was changed and cut.
ReadsOnlyTheFrame ==
  \A a, b \in Behind :
    DecodeBacnetFrame(View(frame, a)) = DecodeBacnetFrame(View(frame, b))

\* A message that arrives as it was sent is decoded as what it says; in a later
\* segment, all but the object and the property it seems to name.
DecodesWhatWasSent ==
  frame = Encode(message) =>
    \A b \in Behind :
      Stated(message) = {fact \in DecodeBacnetFrame(View(frame, b)) :
                           \/ message.body.sequence = 0
                           \/ fact[1] \notin {"object", "property", "index"}}

\* A cut frame is summarised by less than the whole one, never by something else,
\* unless the cut is in the header of a network message.
CutOnlyLoses ==
  \A b \in Behind :
    LET cut == View(frame, b)
    IN  \/ IsBacnetIp(cut) /\ HasNpdu(cut) /\ IsNetworkMessage(cut) /\ ~Reached(cut)
        \/ SummarizeBacnetFrame(cut) \subseteq DecodeBacnetFrame(View(whole, b))

\* What CASExampleHelper.h says of every frame: "a truncated or malformed frame
\* degrades to "?" rather than being mis-parsed".
NeverMisparsed ==
  \A b \in Behind :
    SummarizeBacnetFrame(View(frame, b)) \subseteq DecodeBacnetFrame(View(whole, b))

=============================================================================
