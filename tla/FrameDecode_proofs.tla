------------------------ MODULE FrameDecode_proofs ------------------------
(***************************************************************************)
(* Proofs about the decoder, for every frame and not only the messages and *)
(* changes a run tries.                                                    *)
(*                                                                         *)
(* One relation carries two theorems: Extends(f, g) says that g has the    *)
(* octets of f and perhaps more, with anything behind either.  What the    *)
(* decoder takes from f under a check of the length it takes from g as     *)
(* well.  Two views of one frame extend each other, so they give the same  *)
(* facts; a whole frame extends what is left of it after a cut.            *)
(*                                                                         *)
(* Another carries what a message that arrives whole is decoded as:        *)
(* Lies(f, at, s) says that f has the octets s from an offset on, and for  *)
(* each part of an encoded message a lemma says what is read where it      *)
(* lies.                                                                   *)
(***************************************************************************)
EXTENDS FrameDecode, TLAPS

IsView(f) == Size(f) \in Nat /\ \A i \in Nat : At(f, i) \in Octet

Extends(f, g) ==
  /\ IsView(f) /\ IsView(g)
  /\ Size(f) <= Size(g)
  /\ \A i \in Nat : i < Size(f) => At(f, i) = At(g, i)

\* A view of octets is one: what is behind is an octet too.
LEMMA ViewIsView ==
  ASSUME NEW s \in Seq(Octet), NEW b \in Octet
  PROVE  IsView(View(s, b)) /\ Size(View(s, b)) = Len(s)
<1>1. Size(View(s, b)) = Len(s)
  BY DEF Size, View
<1>2. \A i \in Nat : i < Len(s) => s[i + 1] \in Octet
  OBVIOUS
<1>3. \A i \in Nat : At(View(s, b), i) = IF i < Len(s) THEN s[i + 1] ELSE b
  BY <1>1 DEF At, View
<1> QED
  BY <1>1, <1>2, <1>3 DEF IsView

\* An octet that is there is the same in an extension.
LEMMA SameOctet ==
  ASSUME NEW f, NEW g, Extends(f, g), NEW i \in Nat, Has(f, i)
  PROVE  Has(g, i) /\ At(f, i) = At(g, i) /\ At(f, i) \in Octet
BY DEF Extends, IsView, Has

LEMMA SameFit ==
  ASSUME NEW f, NEW g, Extends(f, g), NEW end \in Nat, Fits(f, end)
  PROVE  Fits(g, end) /\ \A i \in Nat : i < end => Has(f, i)
BY DEF Extends, IsView, Fits, Has

---------------------------------------------------------------------------
(* Tags. *)

\* A tag that decodes in a frame decodes to the same in an extension.
LEMMA SameTag ==
  ASSUME NEW f, NEW g, Extends(f, g), NEW at \in Nat, TagDecodes(f, at)
  PROVE  /\ TagDecodes(g, at)
         /\ ContextSpecific(f, at) <=> ContextSpecific(g, at)
         /\ TagNumber(f, at) = TagNumber(g, at)
         /\ TagEnd(f, at) = TagEnd(g, at)
         /\ TagLength(f, at) = TagLength(g, at)
         /\ TagEnd(f, at) \in Nat
         /\ TagLength(f, at) \in Nat
<1>1. Has(f, at) /\ Has(g, at) /\ At(f, at) = At(g, at) /\ At(f, at) \in Octet
  BY SameOctet DEF TagDecodes
<1>2. /\ ExtendedNumber(f, at) <=> ExtendedNumber(g, at)
      /\ ContextSpecific(f, at) <=> ContextSpecific(g, at)
      /\ ExtendedLength(f, at) <=> ExtendedLength(g, at)
      /\ ValueBits(f, at) = ValueBits(g, at)
      /\ ValueBits(f, at) \in Nat
  BY <1>1 DEF ExtendedNumber, ContextSpecific, ExtendedLength, ValueBits, Octet
<1>3. LengthAt(f, at) = LengthAt(g, at) /\ LengthAt(f, at) \in Nat
  BY <1>2 DEF LengthAt
<1>4. ExtendedNumber(f, at) =>
        Has(f, at + 1) /\ Has(g, at + 1) /\ At(f, at + 1) = At(g, at + 1)
  BY SameOctet DEF TagDecodes
<1>5. TagNumber(f, at) = TagNumber(g, at)
  BY <1>1, <1>2, <1>4 DEF TagNumber
<1>6. ExtendedLength(f, at) =>
        /\ Has(f, LengthAt(f, at)) /\ Has(g, LengthAt(f, at))
        /\ At(f, LengthAt(f, at)) = At(g, LengthAt(f, at))
        /\ At(f, LengthAt(f, at)) \in Octet
  BY <1>3, SameOctet DEF TagDecodes
<1>7. LengthSize(f, at) = LengthSize(g, at) /\ LengthSize(f, at) \in {0, 1, 3, 5}
  BY <1>2, <1>3, <1>6 DEF LengthSize
<1>8. TagEnd(f, at) = TagEnd(g, at) /\ TagEnd(f, at) \in Nat
  BY <1>3, <1>7 DEF TagEnd
<1>9. ASSUME ExtendedLength(f, at)
      PROVE  /\ Fits(g, TagEnd(f, at))
             /\ \A k \in Nat : k < LengthSize(f, at) =>
                  /\ At(f, LengthAt(f, at) + k) = At(g, LengthAt(f, at) + k)
                  /\ At(f, LengthAt(f, at) + k) \in Octet
  <2>1. Fits(f, TagEnd(f, at))
    BY <1>9 DEF TagDecodes
  <2>2. Fits(g, TagEnd(f, at)) /\ \A i \in Nat : i < TagEnd(f, at) => Has(f, i)
    BY <2>1, <1>8, SameFit
  <2>3. ASSUME NEW k \in Nat, k < LengthSize(f, at)
        PROVE  Has(f, LengthAt(f, at) + k)
    BY <2>2, <2>3, <1>3, <1>7 DEF TagEnd
  <2> QED
    BY <2>2, <2>3, <1>3, SameOctet
<1>10. TagDecodes(g, at)
  BY <1>1, <1>2, <1>3, <1>4, <1>6, <1>8, <1>9 DEF TagDecodes
<1>11. TagLength(f, at) = TagLength(g, at) /\ TagLength(f, at) \in Nat
  <2> DEFINE l == LengthAt(f, at)
  <2>1. CASE ~ExtendedLength(f, at)
    BY <2>1, <1>2 DEF TagLength
  <2>2. CASE ExtendedLength(f, at) /\ LengthSize(f, at) = 1
    BY <2>2, <1>2, <1>3, <1>6, <1>7 DEF TagLength, Octet
  <2>3. CASE ExtendedLength(f, at) /\ LengthSize(f, at) = 3
    <3>1. /\ At(f, l + 1) = At(g, l + 1) /\ At(f, l + 1) \in Nat
          /\ At(f, l + 2) = At(g, l + 2) /\ At(f, l + 2) \in Nat
      BY <2>3, <1>9 DEF Octet
    <3>2. Word(f, l + 1) = Word(g, l + 1) /\ Word(f, l + 1) \in Nat
      BY <3>1, <1>3 DEF Word
    <3> QED
      BY <2>3, <3>2, <1>2, <1>3, <1>7 DEF TagLength
  <2>4. CASE ExtendedLength(f, at) /\ LengthSize(f, at) = 5
    <3>1. /\ At(f, l + 1) = At(g, l + 1) /\ At(f, l + 1) \in Nat
          /\ At(f, l + 2) = At(g, l + 2) /\ At(f, l + 2) \in Nat
          /\ At(f, l + 3) = At(g, l + 3) /\ At(f, l + 3) \in Nat
          /\ At(f, l + 4) = At(g, l + 4) /\ At(f, l + 4) \in Nat
      BY <2>4, <1>9 DEF Octet
    <3>2. Word(f, l + 3) = Word(g, l + 3) /\ Word(f, l + 3) \in Nat
      BY <3>1, <1>3 DEF Word
    <3> QED
      BY <2>4, <3>1, <3>2, <1>2, <1>3, <1>7 DEF TagLength, LongLength
  <2> QED
    BY <2>1, <2>2, <2>3, <2>4, <1>7 DEF LengthSize
<1> QED
  BY <1>2, <1>5, <1>8, <1>10, <1>11

\* A primitive that is there is the same in an extension.
LEMMA SamePrimitive ==
  ASSUME NEW f, NEW g, Extends(f, g), NEW at \in Nat, NEW n, NEW lengths,
         Primitive(f, at, n, lengths)
  PROVE  /\ Primitive(g, at, n, lengths)
         /\ PrimitiveEnd(f, at) = PrimitiveEnd(g, at)
         /\ PrimitiveEnd(f, at) \in Nat
         /\ TagEnd(f, at) = TagEnd(g, at) /\ TagEnd(f, at) \in Nat
         /\ TagLength(f, at) = TagLength(g, at) /\ TagLength(f, at) \in Nat
         /\ \A i \in Nat : i < PrimitiveEnd(f, at) =>
              At(f, i) = At(g, i) /\ At(f, i) \in Octet
<1>1. /\ TagDecodes(g, at)
      /\ ContextSpecific(f, at) <=> ContextSpecific(g, at)
      /\ TagNumber(f, at) = TagNumber(g, at)
      /\ TagEnd(f, at) = TagEnd(g, at) /\ TagEnd(f, at) \in Nat
      /\ TagLength(f, at) = TagLength(g, at) /\ TagLength(f, at) \in Nat
  BY SameTag DEF Primitive
<1>2. PrimitiveEnd(f, at) = PrimitiveEnd(g, at) /\ PrimitiveEnd(f, at) \in Nat
  BY <1>1 DEF PrimitiveEnd
<1>3. Fits(f, PrimitiveEnd(f, at))
  BY DEF Primitive, PrimitiveEnd
<1>4. Fits(g, PrimitiveEnd(f, at))
      /\ \A i \in Nat : i < PrimitiveEnd(f, at) => Has(f, i)
  BY <1>2, <1>3, SameFit
<1>5. Primitive(g, at, n, lengths)
  BY <1>1, <1>2, <1>4 DEF Primitive, PrimitiveEnd
<1> QED
  BY <1>1, <1>2, <1>4, <1>5, SameOctet

LEMMA SameUnsigned ==
  ASSUME NEW f, NEW g, Extends(f, g), NEW at \in Nat, NEW n,
         Primitive(f, at, n, 1 .. 4)
  PROVE  UnsignedAt(f, at) = UnsignedAt(g, at)
<1> DEFINE end == PrimitiveEnd(f, at)
           long == TagLength(f, at)
<1>1. /\ end = PrimitiveEnd(g, at) /\ end \in Nat
      /\ TagEnd(f, at) \in Nat
      /\ long = TagLength(g, at) /\ long \in 1 .. 4
      /\ \A i \in Nat : i < end => At(f, i) = At(g, i)
  <2>1. long \in 1 .. 4
    BY DEF Primitive
  <2> QED
    BY <2>1, SamePrimitive
<1>2. \A k \in 1 .. 4 : k <= long => At(f, end - k) = At(g, end - k)
  <2> SUFFICES ASSUME NEW k \in 1 .. 4, k <= long
               PROVE  At(f, end - k) = At(g, end - k)
    OBVIOUS
  <2>1. end - k \in Nat /\ end - k < end
    BY <1>1 DEF PrimitiveEnd
  <2> QED
    BY <1>1, <2>1
<1>3. Unsigned(f, end, long) = Unsigned(g, end, long)
  <2> HIDE DEF end, long
  <2>1. /\ 4 <= long => At(f, end - 4) = At(g, end - 4)
        /\ 3 <= long => At(f, end - 3) = At(g, end - 3)
        /\ 2 <= long => At(f, end - 2) = At(g, end - 2)
        /\ 1 <= long => At(f, end - 1) = At(g, end - 1)
    BY <1>2
  <2> QED
    BY <2>1 DEF Unsigned
<1> QED
  BY <1>1, <1>3 DEF UnsignedAt

\* The object, property and index named in a frame are named in an extension.
LEMMA SameReference ==
  ASSUME NEW f, NEW g, Extends(f, g), NEW at \in Nat
  PROVE  ObjectAndProperty(f, at) \subseteq ObjectAndProperty(g, at)
<1> DEFINE property == PrimitiveEnd(f, at)
           index    == PrimitiveEnd(f, property)
           o        == TagEnd(f, at)
<1>1. CASE ~Primitive(f, at, 0, {4})
  BY <1>1 DEF ObjectAndProperty
<1>2. CASE Primitive(f, at, 0, {4}) /\ ~Primitive(f, property, 1, 1 .. 4)
  BY <1>2 DEF ObjectAndProperty
<1>3. CASE Primitive(f, at, 0, {4}) /\ Primitive(f, property, 1, 1 .. 4)
  <2>1. /\ Primitive(g, at, 0, {4})
        /\ property = PrimitiveEnd(g, at) /\ property \in Nat
        /\ o = TagEnd(g, at) /\ o \in Nat
        /\ \A i \in Nat : i < property => At(f, i) = At(g, i)
    BY <1>3, SamePrimitive
  <2>2. property = o + 4
    BY <1>3 DEF Primitive, PrimitiveEnd
  <2>3. ObjectAt(f, o) = ObjectAt(g, o)
    <3>1. /\ At(f, o) = At(g, o) /\ At(f, o + 1) = At(g, o + 1)
          /\ At(f, o + 2) = At(g, o + 2) /\ At(f, o + 3) = At(g, o + 3)
      BY <2>1, <2>2
    <3>2. Word(f, o + 2) = Word(g, o + 2)
      BY <3>1, <2>1 DEF Word
    <3> QED
      BY <3>1, <3>2 DEF ObjectAt
  <2>4. /\ Primitive(g, property, 1, 1 .. 4)
        /\ index = PrimitiveEnd(g, property) /\ index \in Nat
    BY <1>3, <2>1, SamePrimitive
  <2>5. UnsignedAt(f, property) = UnsignedAt(g, property)
    BY <1>3, <2>1, SameUnsigned
  <2>6. Primitive(f, index, 2, 1 .. 4) =>
          /\ Primitive(g, index, 2, 1 .. 4)
          /\ UnsignedAt(f, index) = UnsignedAt(g, index)
    BY <2>4, SamePrimitive, SameUnsigned
  <2> HIDE DEF property, index, o
  <2>7. ObjectAndProperty(f, at)
          = {<<"object", ObjectAt(f, o)>>, <<"property", UnsignedAt(f, property)>>}
            \cup IF Primitive(f, index, 2, 1 .. 4)
                 THEN {<<"index", UnsignedAt(f, index)>>} ELSE {}
    BY <1>3 DEF ObjectAndProperty, property, index, o
  <2>8. ObjectAndProperty(g, at)
          = {<<"object", ObjectAt(g, o)>>, <<"property", UnsignedAt(g, property)>>}
            \cup IF Primitive(g, index, 2, 1 .. 4)
                 THEN {<<"index", UnsignedAt(g, index)>>} ELSE {}
    <3>1. PrimitiveEnd(g, at) = property /\ TagEnd(g, at) = o
          /\ PrimitiveEnd(g, property) = index
      BY <2>1, <2>4
    <3> QED
      BY <3>1, <2>1, <2>4 DEF ObjectAndProperty
  <2> QED
    BY <2>3, <2>5, <2>6, <2>7, <2>8
<1> QED
  BY <1>1, <1>2, <1>3

---------------------------------------------------------------------------
(* The headers. *)

LEMMA SameHeader ==
  ASSUME NEW f, NEW g, Extends(f, g), IsBacnetIp(f)
  PROVE  /\ IsBacnetIp(g)
         /\ At(f, 1) = At(g, 1)
         /\ CarriesNpdu(f) <=> CarriesNpdu(g)
         /\ NpduAt(f) = NpduAt(g) /\ NpduAt(f) \in Nat
<1>1. Has(f, 0) /\ Has(f, 1) /\ Size(g) >= 4
  BY DEF IsBacnetIp, Has, Extends, IsView
<1>2. At(f, 0) = At(g, 0) /\ At(f, 1) = At(g, 1)
  BY <1>1, SameOctet
<1> QED
  BY <1>1, <1>2 DEF IsBacnetIp, CarriesNpdu, NpduAt

LEMMA SameControl ==
  ASSUME NEW f, NEW g, Extends(f, g), IsBacnetIp(f), HasNpdu(f)
  PROVE  /\ HasNpdu(g)
         /\ ControlOf(f) = ControlOf(g)
         /\ HasDestination(f) <=> HasDestination(g)
         /\ HasSource(f) <=> HasSource(g)
         /\ IsNetworkMessage(f) <=> IsNetworkMessage(g)
         /\ DestinationAt(f) = DestinationAt(g) /\ DestinationAt(f) \in Nat
<1>1. /\ CarriesNpdu(g)
      /\ NpduAt(f) = NpduAt(g) /\ NpduAt(f) \in Nat
  BY SameHeader DEF HasNpdu
<1>2. Fits(g, NpduAt(f) + 2) /\ Has(f, NpduAt(f) + 1)
  BY <1>1, SameFit DEF HasNpdu
<1>3. At(f, NpduAt(f) + 1) = At(g, NpduAt(f) + 1)
  BY <1>1, <1>2, SameOctet
<1>4. ControlOf(f) = ControlOf(g)
  BY <1>1, <1>3 DEF ControlOf
<1> QED
  BY <1>1, <1>2, <1>4
  DEF HasNpdu, HasDestination, HasSource, IsNetworkMessage, DestinationAt

\* A specifier that is there is the same in an extension.
LEMMA SameSpecifier ==
  ASSUME NEW f, NEW g, Extends(f, g), NEW at \in Nat, SpecifierFits(f, at),
         NEW net, NEW address
  PROVE  /\ SpecifierFits(g, at)
         /\ SpecifierEnd(f, at) = SpecifierEnd(g, at)
         /\ SpecifierEnd(f, at) \in Nat
         /\ SpecifierFacts(f, at, net, address)
              = SpecifierFacts(g, at, net, address)
<1>1. Fits(g, at + 3) /\ \A i \in Nat : i < at + 3 => Has(f, i)
  BY SameFit DEF SpecifierFits
<1>2. /\ At(f, at) = At(g, at) /\ At(f, at + 1) = At(g, at + 1)
      /\ At(f, at + 2) = At(g, at + 2) /\ At(f, at + 2) \in Nat
  BY <1>1, SameOctet DEF Octet
<1>3. SpecifierEnd(f, at) = SpecifierEnd(g, at) /\ SpecifierEnd(f, at) \in Nat
  BY <1>2 DEF SpecifierEnd
<1>4. Fits(g, SpecifierEnd(f, at))
      /\ \A i \in Nat : i < SpecifierEnd(f, at) => Has(f, i)
  BY <1>3, SameFit DEF SpecifierFits
<1>5. SpecifierFits(g, at)
  BY <1>1, <1>3, <1>4 DEF SpecifierFits
<1>6. Word(f, at) = Word(g, at)
  BY <1>2 DEF Word
<1> DEFINE n == At(f, at + 2)
<1>7. Octets(f, at + 3, n) = Octets(g, at + 3, n)
  <2> SUFFICES ASSUME NEW i \in 1 .. n
               PROVE  At(f, at + 3 + i - 1) = At(g, at + 3 + i - 1)
    BY DEF Octets
  <2>1. at + 3 + i - 1 \in Nat /\ at + 3 + i - 1 < SpecifierEnd(f, at)
    BY <1>2 DEF SpecifierEnd
  <2> QED
    BY <2>1, <1>4, SameOctet
<1>8. SpecifierFacts(f, at, net, address) = SpecifierFacts(g, at, net, address)
  <2>1. Fits(f, at + 3)
    BY DEF SpecifierFits
  <2> QED
    BY <2>1, <1>1, <1>2, <1>5, <1>6, <1>7 DEF SpecifierFacts
<1> QED
  BY <1>3, <1>5, <1>8

\* Where the payload is, once the header before it is there.
LEMMA SameRoute ==
  ASSUME NEW f, NEW g, Extends(f, g), IsBacnetIp(f), HasNpdu(f), Reached(f)
  PROVE  /\ Reached(g)
         /\ PayloadAt(f) = PayloadAt(g) /\ PayloadAt(f) \in Nat
         /\ DestinationFacts(f) = DestinationFacts(g)
         /\ SourceFacts(f) = SourceFacts(g)
<1>1. /\ HasDestination(f) <=> HasDestination(g)
      /\ HasSource(f) <=> HasSource(g)
      /\ DestinationAt(f) = DestinationAt(g) /\ DestinationAt(f) \in Nat
  BY SameControl
<1>2. ASSUME HasDestination(f)
      PROVE  /\ SpecifierFits(g, DestinationAt(f))
             /\ SpecifierEnd(f, DestinationAt(f)) = SpecifierEnd(g, DestinationAt(f))
             /\ SpecifierEnd(f, DestinationAt(f)) \in Nat
             /\ SpecifierFacts(f, DestinationAt(f), "dnet", "dadr")
                  = SpecifierFacts(g, DestinationAt(f), "dnet", "dadr")
  <2>1. SpecifierFits(f, DestinationAt(f))
    BY <1>2 DEF Reached, DestinationFits
  <2> QED
    BY <2>1, <1>1, SameSpecifier
<1>3. SourceAt(f) = SourceAt(g) /\ SourceAt(f) \in Nat
  BY <1>1, <1>2 DEF SourceAt
<1>4. ASSUME HasSource(f)
      PROVE  /\ SpecifierFits(g, SourceAt(f))
             /\ SpecifierEnd(f, SourceAt(f)) = SpecifierEnd(g, SourceAt(f))
             /\ SpecifierEnd(f, SourceAt(f)) \in Nat
             /\ SpecifierFacts(f, SourceAt(f), "snet", "sadr")
                  = SpecifierFacts(g, SourceAt(f), "snet", "sadr")
  <2>1. SpecifierFits(f, SourceAt(f))
    BY <1>4 DEF Reached, SourceFits
  <2> QED
    BY <2>1, <1>3, SameSpecifier
<1>5. DestinationFits(f) /\ DestinationFits(g) /\ SourceFits(g)
  BY <1>1, <1>2, <1>3, <1>4 DEF DestinationFits, SourceFits, Reached
<1>6. SourceEnd(f) = SourceEnd(g) /\ SourceEnd(f) \in Nat
  BY <1>1, <1>3, <1>4 DEF SourceEnd
<1>7. PayloadAt(f) = PayloadAt(g) /\ PayloadAt(f) \in Nat
  BY <1>1, <1>6 DEF PayloadAt
<1>8. Has(g, PayloadAt(f))
  BY <1>7, SameOctet DEF Reached
<1>9. DestinationFacts(f) = DestinationFacts(g)
  BY <1>1, <1>2 DEF DestinationFacts
<1>10. SourceFacts(f) = SourceFacts(g)
  BY <1>1, <1>3, <1>4, <1>5 DEF SourceFacts
<1> QED
  BY <1>5, <1>7, <1>8, <1>9, <1>10 DEF Reached

---------------------------------------------------------------------------
(* The APDU. *)

\* Every fact of the APDU in a frame is one of the APDU in an extension.
LEMMA SameApdu ==
  ASSUME NEW f, NEW g, Extends(f, g), NEW p \in Nat, Has(f, p)
  PROVE  /\ ApduFacts(f, p) \subseteq ApduFacts(g, p)
         /\ PduType(f, p) = PduType(g, p)
<1>1. At(f, p) = At(g, p)
  BY SameOctet
<1>2. /\ PduType(f, p) = PduType(g, p)
      /\ InvokeAt(f, p) = InvokeAt(g, p) /\ InvokeAt(f, p) \in Nat
      /\ ServiceAt(f, p) = ServiceAt(g, p) /\ ServiceAt(f, p) \in Nat
  <2>1. PduType(f, p) = PduType(g, p) /\ (Segmented(f, p) <=> Segmented(g, p))
    BY <1>1 DEF PduType, Segmented
  <2>2. InvokeAt(f, p) = InvokeAt(g, p) /\ InvokeAt(f, p) \in Nat
    BY <2>1 DEF InvokeAt
  <2>3. ServiceAt(f, p) = ServiceAt(g, p) /\ ServiceAt(f, p) \in Nat
    BY <2>1 DEF ServiceAt
  <2> QED
    BY <2>1, <2>2, <2>3
<1>3. HasInvoke(f, p) =>
        HasInvoke(g, p) /\ At(f, InvokeAt(f, p)) = At(g, InvokeAt(f, p))
  <2> SUFFICES ASSUME HasInvoke(f, p)
               PROVE  HasInvoke(g, p) /\ Has(f, InvokeAt(f, p))
    BY <1>2, SameOctet
  <2>1. CASE PduType(f, p) \in {0, 3} /\ Has(f, InvokeAt(f, p))
    BY <2>1, <1>2, SameOctet DEF HasInvoke
  <2>2. CASE PduType(f, p) \in {2, 5, 6, 7} /\ Has(f, p + 2)
    <3>1. Has(g, p + 2)
      BY <2>2, SameOctet
    <3>2. Has(f, p + 1)
      BY <2>2 DEF Has, Extends, IsView
    <3>3. InvokeAt(f, p) = p + 1
      BY <2>2 DEF InvokeAt
    <3> QED
      BY <2>2, <3>1, <3>2, <3>3, <1>2 DEF HasInvoke
  <2> QED
    BY <2>1, <2>2 DEF HasInvoke
<1>4. HasService(f, p) =>
        /\ HasService(g, p)
        /\ At(f, ServiceAt(f, p)) = At(g, ServiceAt(f, p))
  BY <1>2, SameOctet DEF HasService
<1>5. HasReason(f, p) => HasReason(g, p) /\ At(f, p + 2) = At(g, p + 2)
  BY <1>2, SameOctet DEF HasReason
<1>6. NamesProperty(f, p) =>
        /\ NamesProperty(g, p)
        /\ ObjectAndProperty(f, ServiceAt(f, p) + 1)
             \subseteq ObjectAndProperty(g, ServiceAt(f, p) + 1)
  <2>1. ServiceAt(f, p) + 1 \in Nat
    BY <1>2
  <2>2. ObjectAndProperty(f, ServiceAt(f, p) + 1)
          \subseteq ObjectAndProperty(g, ServiceAt(f, p) + 1)
    BY <2>1, SameReference
  <2> QED
    BY <2>2, <1>2, <1>4 DEF NamesProperty
<1> QED
  BY <1>2, <1>3, <1>4, <1>5, <1>6 DEF ApduFacts
---------------------------------------------------------------------------
(* The whole decoder. *)

\* Once the payload is reached, an extension says everything the frame says.
LEMMA ReachedFacts ==
  ASSUME NEW f, NEW g, Extends(f, g), IsBacnetIp(f), HasNpdu(f), Reached(f)
  PROVE  DecodeBacnetFrame(f) \subseteq DecodeBacnetFrame(g)
<1>1. /\ IsBacnetIp(g) /\ At(f, 1) = At(g, 1)
      /\ HasNpdu(g) /\ ControlOf(f) = ControlOf(g)
      /\ IsNetworkMessage(f) <=> IsNetworkMessage(g)
  BY SameHeader, SameControl
<1>2. /\ Reached(g)
      /\ PayloadAt(f) = PayloadAt(g) /\ PayloadAt(f) \in Nat
      /\ DestinationFacts(f) = DestinationFacts(g)
      /\ SourceFacts(f) = SourceFacts(g)
  BY SameRoute
<1>3. Has(f, PayloadAt(f))
  BY DEF Reached
<1>4. At(f, PayloadAt(f)) = At(g, PayloadAt(f))
  BY <1>2, <1>3, SameOctet
<1>5. ApduFacts(f, PayloadAt(f)) \subseteq ApduFacts(g, PayloadAt(f))
  BY <1>2, <1>3, SameApdu
<1>6. PayloadFacts(f) \subseteq PayloadFacts(g)
  BY <1>1, <1>2, <1>4, <1>5 DEF PayloadFacts
<1> QED
  BY <1>1, <1>2, <1>6 DEF DecodeBacnetFrame

LEMMA ExtendsBack ==
  ASSUME NEW f, NEW g, Extends(f, g), Size(f) = Size(g)
  PROVE  Extends(g, f)
BY DEF Extends

\* Of a specifier even what is shown of a cut one is the same.
LEMMA EqualSpecifier ==
  ASSUME NEW f, NEW g, Extends(f, g), Size(f) = Size(g), NEW at \in Nat,
         NEW net, NEW address
  PROVE  /\ SpecifierFits(f, at) <=> SpecifierFits(g, at)
         /\ SpecifierFacts(f, at, net, address)
              = SpecifierFacts(g, at, net, address)
<1>1. Extends(g, f)
  BY ExtendsBack
<1>2. SpecifierFits(f, at) <=> SpecifierFits(g, at)
  BY <1>1, SameSpecifier
<1>3. CASE SpecifierFits(f, at)
  BY <1>2, <1>3, SameSpecifier
<1>4. CASE ~SpecifierFits(f, at)
  <2>1. Fits(f, at + 3) <=> Fits(g, at + 3)
    BY DEF Fits
  <2>2. Fits(f, at + 3) => Word(f, at) = Word(g, at)
    <3> SUFFICES ASSUME Fits(f, at + 3)
                 PROVE  Word(f, at) = Word(g, at)
      OBVIOUS
    <3>1. \A i \in Nat : i < at + 3 => Has(f, i)
      BY SameFit
    <3>2. At(f, at) = At(g, at) /\ At(f, at + 1) = At(g, at + 1)
      BY <3>1, SameOctet
    <3> QED
      BY <3>2 DEF Word
  <2> QED
    BY <2>1, <2>2, <1>2, <1>4 DEF SpecifierFacts
<1> QED
  BY <1>2, <1>3, <1>4

\* Two views of one frame give the same facts.
LEMMA OneFrame ==
  ASSUME NEW f, NEW g, Extends(f, g), Size(f) = Size(g)
  PROVE  DecodeBacnetFrame(f) \subseteq DecodeBacnetFrame(g)
<1>1. CASE ~IsBacnetIp(f)
  BY <1>1 DEF DecodeBacnetFrame
<1>2. CASE IsBacnetIp(f) /\ ~HasNpdu(f)
  <2>1. IsBacnetIp(g) /\ At(f, 1) = At(g, 1)
    BY <1>2, SameHeader
  <2> QED
    BY <1>2, <2>1 DEF DecodeBacnetFrame
<1>3. CASE IsBacnetIp(f) /\ HasNpdu(f) /\ Reached(f)
  BY <1>3, ReachedFacts
<1>4. CASE IsBacnetIp(f) /\ HasNpdu(f) /\ ~Reached(f)
  <2>1. /\ IsBacnetIp(g) /\ At(f, 1) = At(g, 1)
        /\ HasNpdu(g) /\ ControlOf(f) = ControlOf(g)
        /\ HasDestination(f) <=> HasDestination(g)
        /\ HasSource(f) <=> HasSource(g)
        /\ IsNetworkMessage(f) <=> IsNetworkMessage(g)
        /\ DestinationAt(f) = DestinationAt(g) /\ DestinationAt(f) \in Nat
    BY <1>4, SameHeader, SameControl
  <2>2. ~Reached(g)
    BY <1>4, <2>1, ExtendsBack, SameRoute
  <2>3. /\ SpecifierFits(f, DestinationAt(f)) <=> SpecifierFits(g, DestinationAt(f))
        /\ SpecifierFacts(f, DestinationAt(f), "dnet", "dadr")
             = SpecifierFacts(g, DestinationAt(f), "dnet", "dadr")
    BY <2>1, EqualSpecifier
  <2>4. DestinationFacts(f) = DestinationFacts(g)
    BY <2>1, <2>3 DEF DestinationFacts
  <2>5. DestinationFits(f) <=> DestinationFits(g)
    BY <2>1, <2>3 DEF DestinationFits
  <2>6. DestinationFits(f) => SourceAt(f) = SourceAt(g) /\ SourceAt(f) \in Nat
    <3>1. CASE HasDestination(f) /\ DestinationFits(f)
      <4>1. SpecifierFits(f, DestinationAt(f))
        BY <3>1 DEF DestinationFits
      <4>2. /\ SpecifierEnd(f, DestinationAt(f)) = SpecifierEnd(g, DestinationAt(f))
            /\ SpecifierEnd(f, DestinationAt(f)) \in Nat
        BY <4>1, <2>1, SameSpecifier
      <4> QED
        BY <3>1, <4>2, <2>1 DEF SourceAt
    <3>2. CASE ~HasDestination(f)
      BY <3>2, <2>1 DEF SourceAt
    <3> QED
      BY <3>1, <3>2
  <2>7. DestinationFits(f) =>
          SpecifierFacts(f, SourceAt(f), "snet", "sadr")
            = SpecifierFacts(g, SourceAt(f), "snet", "sadr")
    BY <2>6, EqualSpecifier
  <2>8. SourceFacts(f) = SourceFacts(g)
    BY <2>1, <2>5, <2>6, <2>7 DEF SourceFacts
  <2>9. PayloadFacts(f) = PayloadFacts(g)
    BY <1>4, <2>1, <2>2 DEF PayloadFacts
  <2> QED
    BY <1>4, <2>1, <2>4, <2>8, <2>9 DEF DecodeBacnetFrame
<1> QED
  BY <1>1, <1>2, <1>3, <1>4

\* A frame is summarised by facts of its extension, but for a network message
\* cut in its header.
LEMMA SummaryOfACut ==
  ASSUME NEW f, NEW g, Extends(f, g),
         ~(IsBacnetIp(f) /\ HasNpdu(f) /\ IsNetworkMessage(f) /\ ~Reached(f))
  PROVE  SummarizeBacnetFrame(f) \subseteq DecodeBacnetFrame(g)
<1>1. CASE ~IsBacnetIp(f)
  BY <1>1 DEF SummarizeBacnetFrame
<1>2. CASE IsBacnetIp(f) /\ ~HasNpdu(f)
  <2>1. IsBacnetIp(g) /\ At(f, 1) = At(g, 1)
    BY <1>2, SameHeader
  <2>2. DecodeBacnetFrame(f) \subseteq DecodeBacnetFrame(g)
    BY <1>2, <2>1 DEF DecodeBacnetFrame
  <2> QED
    BY <2>2 DEF SummarizeBacnetFrame
<1>3. CASE IsBacnetIp(f) /\ HasNpdu(f) /\ Reached(f)
  <2>1. DecodeBacnetFrame(f) \subseteq DecodeBacnetFrame(g)
    BY <1>3, ReachedFacts
  <2> QED
    BY <2>1 DEF SummarizeBacnetFrame
<1>4. CASE IsBacnetIp(f) /\ HasNpdu(f) /\ ~IsNetworkMessage(f) /\ ~Reached(f)
  BY <1>4 DEF SummarizeBacnetFrame, Shown
<1> QED
  BY <1>1, <1>2, <1>3, <1>4

---------------------------------------------------------------------------
(* The fields have their widths, whatever the octets are and wherever the  *)
(* frame ends: At is an octet at every offset, so only the arithmetic on   *)
(* octets and the offsets themselves are in question.                      *)

InFields(S) == \A fact \in S : fact[2] \in Field(fact[1])

LEMMA FieldWidths ==
  /\ \A l \in {"bvlc", "control", "network", "invoke", "service", "reason"} :
       Field(l) = Octet
  /\ Field("pdu") = Below(16)
  /\ Field("dnet") = Below(65536) /\ Field("snet") = Below(65536)
  /\ Field("dadr") = Seq(Octet) /\ Field("sadr") = Seq(Octet)
  /\ Field("object") = Below(1024) \X Below(4194304)
  /\ Field("property") = Below(65536) \X Below(65536)
  /\ Field("index") = Below(65536) \X Below(65536)
BY DEF Field

LEMMA BelowMember ==
  ASSUME NEW n \in Nat, NEW x \in Int, 0 <= x, x < n
  PROVE  x \in Below(n)
BY DEF Below

LEMMA OctetBounds ==
  ASSUME NEW f, IsView(f), NEW i \in Nat
  PROVE  At(f, i) \in Nat /\ At(f, i) < 256
BY DEF IsView, Octet

LEMMA WordBounds ==
  ASSUME NEW f, IsView(f), NEW i \in Nat
  PROVE  Word(f, i) \in Nat /\ Word(f, i) < 65536
<1>1. /\ At(f, i) \in Nat /\ At(f, i) < 256
      /\ At(f, i + 1) \in Nat /\ At(f, i + 1) < 256
  BY OctetBounds
<1> QED
  BY <1>1 DEF Word

LEMMA UnsignedWidth ==
  ASSUME NEW f, IsView(f), NEW at \in Nat, NEW n, Primitive(f, at, n, 1 .. 4)
  PROVE  UnsignedAt(f, at) \in Below(65536) \X Below(65536)
<1> DEFINE end == PrimitiveEnd(f, at)
           long == TagLength(f, at)
           octet(k) == IF k <= long THEN At(f, end - k) ELSE 0
<1>1. Extends(f, f)
  BY DEF Extends, IsView
<1>2. TagEnd(f, at) \in Nat /\ long \in 1 .. 4 /\ end = TagEnd(f, at) + long
  <2>1. long \in 1 .. 4
    BY DEF Primitive
  <2>2. TagEnd(f, at) \in Nat
    BY <1>1, SamePrimitive
  <2> QED
    BY <2>1, <2>2 DEF PrimitiveEnd
<1>3. \A k \in 1 .. 4 : octet(k) \in Nat /\ octet(k) < 256
  <2> SUFFICES ASSUME NEW k \in 1 .. 4, k <= long
               PROVE  At(f, end - k) \in Nat /\ At(f, end - k) < 256
    OBVIOUS
  <2>1. end - k \in Nat
    BY <1>2
  <2> QED
    BY <2>1, OctetBounds
<1>4. UnsignedAt(f, at) = <<octet(4) * 256 + octet(3), octet(2) * 256 + octet(1)>>
  BY DEF UnsignedAt, Unsigned
<1> HIDE DEF octet
<1>5. /\ octet(1) \in Nat /\ octet(1) < 256
      /\ octet(2) \in Nat /\ octet(2) < 256
      /\ octet(3) \in Nat /\ octet(3) < 256
      /\ octet(4) \in Nat /\ octet(4) < 256
  BY <1>3
<1>6. /\ octet(4) * 256 + octet(3) \in Below(65536)
      /\ octet(2) * 256 + octet(1) \in Below(65536)
  BY <1>5, BelowMember
<1> QED
  BY <1>4, <1>6

\* The ten bits of a type and the 22 of an instance.
LEMMA ObjectWidth ==
  ASSUME NEW f, IsView(f), NEW o \in Nat
  PROVE  ObjectAt(f, o) \in Below(1024) \X Below(4194304)
<1>1. /\ At(f, o) \in Nat /\ At(f, o) < 256
      /\ At(f, o + 1) \in Nat /\ At(f, o + 1) < 256
  BY OctetBounds
<1>2. Word(f, o + 2) \in Nat /\ Word(f, o + 2) < 65536
  BY WordBounds
<1>3. At(f, o) * 4 + At(f, o + 1) \div 64 \in Below(1024)
  <2>1. /\ At(f, o + 1) \div 64 \in Nat
        /\ At(f, o + 1) \div 64 < 4
    BY <1>1
  <2> QED
    BY <1>1, <2>1, BelowMember
<1>4. At(f, o + 1) % 64 \in Nat /\ At(f, o + 1) % 64 < 64
  BY <1>1
<1>5. (At(f, o + 1) % 64) * 65536 + Word(f, o + 2) \in Below(4194304)
  BY <1>2, <1>4, BelowMember
<1> QED
  BY <1>3, <1>5 DEF ObjectAt

LEMMA ReferenceWidth ==
  ASSUME NEW f, IsView(f), NEW at \in Nat
  PROVE  InFields(ObjectAndProperty(f, at))
<1> DEFINE property == PrimitiveEnd(f, at)
           index    == PrimitiveEnd(f, property)
<1>1. Extends(f, f)
  BY DEF Extends, IsView
<1>2. ASSUME NEW fact \in ObjectAndProperty(f, at)
      PROVE  fact[2] \in Field(fact[1])
  <2>1. Primitive(f, at, 0, {4}) /\ Primitive(f, property, 1, 1 .. 4)
    BY <1>2 DEF ObjectAndProperty
  <2>2. property \in Nat /\ TagEnd(f, at) \in Nat
    BY <1>1, <2>1, SamePrimitive
  <2>3. index \in Nat
    BY <1>1, <2>1, <2>2, SamePrimitive
  <2>4. \/ fact = <<"object", ObjectAt(f, TagEnd(f, at))>>
        \/ fact = <<"property", UnsignedAt(f, property)>>
        \/ Primitive(f, index, 2, 1 .. 4) /\ fact = <<"index", UnsignedAt(f, index)>>
    BY <1>2, <2>1 DEF ObjectAndProperty
  <2> HIDE DEF property, index
  <2>5. CASE fact = <<"object", ObjectAt(f, TagEnd(f, at))>>
    BY <2>2, <2>5, ObjectWidth, FieldWidths
  <2>6. CASE fact = <<"property", UnsignedAt(f, property)>>
    BY <2>1, <2>2, <2>6, UnsignedWidth, FieldWidths
  <2>7. CASE /\ Primitive(f, index, 2, 1 .. 4)
             /\ fact = <<"index", UnsignedAt(f, index)>>
    BY <2>3, <2>7, UnsignedWidth, FieldWidths
  <2> QED
    BY <2>4, <2>5, <2>6, <2>7
<1> QED
  BY <1>2 DEF InFields

LEMMA SpecifierWidth ==
  ASSUME NEW f, IsView(f), NEW at \in Nat, NEW net, NEW address,
         Field(net) = Below(65536), Field(address) = Seq(Octet)
  PROVE  /\ SpecifierEnd(f, at) \in Nat
         /\ InFields(SpecifierFacts(f, at, net, address))
<1>1. At(f, at + 2) \in Nat
  BY OctetBounds
<1>2. SpecifierEnd(f, at) \in Nat
  BY <1>1 DEF SpecifierEnd
<1>3. Octets(f, at + 3, At(f, at + 2)) \in Seq(Octet)
  <2>1. \A i \in 1 .. At(f, at + 2) : At(f, at + 3 + i - 1) \in Octet
    <3> TAKE i \in 1 .. At(f, at + 2)
    <3>1. at + 3 + i - 1 \in Nat
      BY <1>1
    <3> QED
      BY <3>1 DEF IsView
  <2>2. Octets(f, at + 3, At(f, at + 2)) \in [1 .. At(f, at + 2) -> Octet]
    BY <2>1 DEF Octets
  <2> QED
    BY <1>1, <2>2
<1>4. ASSUME NEW fact \in SpecifierFacts(f, at, net, address)
      PROVE  fact[2] \in Field(fact[1])
  <2>1. \/ fact = <<net, Word(f, at)>>
        \/ fact = <<net, 0>>
        \/ fact = <<address, Octets(f, at + 3, At(f, at + 2))>>
    BY <1>4 DEF SpecifierFacts
  <2>2. Word(f, at) \in Below(65536) /\ 0 \in Below(65536)
    BY WordBounds, BelowMember
  <2> QED
    BY <1>3, <2>1, <2>2
<1> QED
  BY <1>2, <1>4 DEF InFields

LEMMA ApduWidth ==
  ASSUME NEW f, IsView(f), NEW p \in Nat
  PROVE  InFields(ApduFacts(f, p))
<1>1. \A i \in Nat : At(f, i) \in Octet
  BY DEF IsView
<1>2. PduType(f, p) \in Below(16)
  <2>1. At(f, p) \in Nat /\ At(f, p) < 256
    BY OctetBounds
  <2>2. At(f, p) \div 16 \in Nat /\ At(f, p) \div 16 < 16
    BY <2>1
  <2> QED
    BY <2>2, BelowMember DEF PduType
<1>3. InvokeAt(f, p) \in Nat /\ ServiceAt(f, p) \in Nat
  BY DEF InvokeAt, ServiceAt
<1>4. InFields(ObjectAndProperty(f, ServiceAt(f, p) + 1))
  BY <1>3, ReferenceWidth
<1>5. ASSUME NEW fact \in ApduFacts(f, p)
      PROVE  fact[2] \in Field(fact[1])
  <2>1. \/ fact = <<"pdu", PduType(f, p)>>
        \/ fact = <<"invoke", At(f, InvokeAt(f, p))>>
        \/ fact = <<"service", At(f, ServiceAt(f, p))>>
        \/ fact = <<"reason", At(f, p + 2)>>
        \/ fact \in ObjectAndProperty(f, ServiceAt(f, p) + 1)
    BY <1>5 DEF ApduFacts
  <2>2. CASE fact = <<"pdu", PduType(f, p)>>
    BY <1>2, <2>2, FieldWidths
  <2>3. CASE \/ fact = <<"invoke", At(f, InvokeAt(f, p))>>
             \/ fact = <<"service", At(f, ServiceAt(f, p))>>
             \/ fact = <<"reason", At(f, p + 2)>>
    BY <1>1, <1>3, <2>3, FieldWidths
  <2> QED
    BY <1>4, <2>1, <2>2, <2>3 DEF InFields
<1> QED
  BY <1>5 DEF InFields

LEMMA FrameWidth ==
  ASSUME NEW f, IsView(f)
  PROVE  InFields(DecodeBacnetFrame(f))
<1>1. \A i \in Nat : At(f, i) \in Octet
  BY DEF IsView
<1>2. NpduAt(f) \in Nat /\ DestinationAt(f) \in Nat
  BY DEF NpduAt, DestinationAt
<1>3. /\ SpecifierEnd(f, DestinationAt(f)) \in Nat
      /\ InFields(SpecifierFacts(f, DestinationAt(f), "dnet", "dadr"))
  <2>1. Field("dnet") = Below(65536) /\ Field("dadr") = Seq(Octet)
    BY FieldWidths
  <2> QED
    BY <1>2, <2>1, SpecifierWidth
<1>4. SourceAt(f) \in Nat
  BY <1>2, <1>3 DEF SourceAt
<1>5. /\ SpecifierEnd(f, SourceAt(f)) \in Nat
      /\ InFields(SpecifierFacts(f, SourceAt(f), "snet", "sadr"))
  <2>1. Field("snet") = Below(65536) /\ Field("sadr") = Seq(Octet)
    BY FieldWidths
  <2> QED
    BY <1>4, <2>1, SpecifierWidth
<1>6. PayloadAt(f) \in Nat
  BY <1>4, <1>5 DEF PayloadAt, SourceEnd
<1>7. InFields(DestinationFacts(f))
  BY <1>3 DEF DestinationFacts, InFields
<1>8. InFields(SourceFacts(f))
  <2>1. 0 \in Below(65536)
    BY BelowMember
  <2>2. \A fact \in {<<"snet", 0>>} : fact[2] \in Field(fact[1])
    BY <2>1, FieldWidths
  <2> QED
    BY <1>5, <2>2 DEF SourceFacts, InFields
<1>9. InFields(PayloadFacts(f))
  <2>1. InFields(ApduFacts(f, PayloadAt(f)))
    BY <1>6, ApduWidth
  <2>2. 0 \in Octet /\ At(f, PayloadAt(f)) \in Octet
    BY <1>1, <1>6 DEF Octet
  <2>3. \A n \in Octet : <<"network", n>>[2] \in Field(<<"network", n>>[1])
    BY FieldWidths
  <2> QED
    BY <2>1, <2>2, <2>3 DEF PayloadFacts, InFields
<1>10. ASSUME NEW fact \in DecodeBacnetFrame(f)
       PROVE  fact[2] \in Field(fact[1])
  <2>1. \/ fact = <<"bvlc", At(f, 1)>>
        \/ fact = <<"control", ControlOf(f)>>
        \/ fact \in DestinationFacts(f)
        \/ fact \in SourceFacts(f)
        \/ fact \in PayloadFacts(f)
    BY <1>10 DEF DecodeBacnetFrame
  <2>2. ControlOf(f) \in Octet
    BY <1>1, <1>2 DEF ControlOf
  <2>3. CASE fact = <<"bvlc", At(f, 1)>> \/ fact = <<"control", ControlOf(f)>>
    BY <1>1, <2>2, <2>3, FieldWidths
  <2> QED
    BY <1>7, <1>8, <1>9, <2>1, <2>3 DEF InFields
<1> QED
  BY <1>10 DEF InFields

---------------------------------------------------------------------------
(* What a sender writes is what the decoder reads.  Lies(f, at, s) says    *)
(* that the octets s are in a frame from an offset on; it takes the parts  *)
(* of an encoded message apart again.                                      *)

\* Membership in a range by its bounds.
LEMMA OctetMember ==
  ASSUME NEW x \in Int, 0 <= x, x < 256
  PROVE  x \in Octet
BY DEF Octet

LEMMA OctetRange ==
  ASSUME NEW x \in Octet
  PROVE  x \in Nat /\ x < 256
BY DEF Octet

LEMMA BelowRange ==
  ASSUME NEW n \in Nat, NEW x \in Below(n)
  PROVE  x \in Nat /\ x < n
BY DEF Below

\* A run of n octets.
Run(s, n) == s \in Seq(Octet) /\ n \in Nat /\ Len(s) = n

\* The octets of s are in a frame from an offset on.
Lies(f, at, s) ==
  \A i \in 1 .. Len(s) : Has(f, at + i - 1) /\ At(f, at + i - 1) = s[i]

LEMMA RunsJoined ==
  ASSUME NEW s, NEW m, NEW t, NEW n, Run(s, m), Run(t, n)
  PROVE  Run(s \o t, m + n)
BY DEF Run

LEMMA ShortRuns ==
  /\ Run(<<>>, 0)
  /\ \A a \in Octet : Run(<<a>>, 1)
  /\ \A a, b \in Octet : Run(<<a, b>>, 2)
  /\ \A a, b, c \in Octet : Run(<<a, b, c>>, 3)
  /\ \A a, b, c, d \in Octet : Run(<<a, b, c, d>>, 4)
BY DEF Run

LEMMA Joined ==
  ASSUME NEW s \in Seq(Octet), NEW t \in Seq(Octet)
  PROVE  /\ \A i \in 1 .. Len(s) : (s \o t)[i] = s[i]
         /\ \A i \in 1 .. Len(t) : (s \o t)[Len(s) + i] = t[i]
OBVIOUS

\* A joined run is its first part, and its second part behind that.
LEMMA LiesJoined ==
  ASSUME NEW f, NEW at \in Nat, NEW s, NEW m, NEW t, NEW n, Run(s, m), Run(t, n),
         Lies(f, at, s \o t)
  PROVE  Lies(f, at, s) /\ Lies(f, at + m, t)
<1>1. /\ s \in Seq(Octet) /\ m \in Nat /\ Len(s) = m
      /\ t \in Seq(Octet) /\ n \in Nat /\ Len(t) = n
      /\ Len(s \o t) = m + n
  BY DEF Run
<1>2. /\ \A i \in 1 .. m : (s \o t)[i] = s[i]
      /\ \A i \in 1 .. n : (s \o t)[m + i] = t[i]
  <2>1. s \in Seq(Octet) /\ t \in Seq(Octet) /\ Len(s) = m /\ Len(t) = n
    BY <1>1
  <2>2. /\ \A i \in 1 .. Len(s) : (s \o t)[i] = s[i]
        /\ \A i \in 1 .. Len(t) : (s \o t)[Len(s) + i] = t[i]
    BY <2>1, Joined
  <2> QED
    BY <2>1, <2>2
<1>3. Lies(f, at, s)
  BY <1>1, <1>2 DEF Lies
<1>4. ASSUME NEW i \in 1 .. n
      PROVE  Has(f, at + m + i - 1) /\ At(f, at + m + i - 1) = t[i]
  <2>1. m + i \in 1 .. Len(s \o t)
    BY <1>1
  <2>2. /\ Has(f, at + (m + i) - 1)
        /\ At(f, at + (m + i) - 1) = (s \o t)[m + i]
    BY <2>1 DEF Lies
  <2>3. at + (m + i) - 1 = at + m + i - 1
    BY <1>1
  <2> QED
    BY <1>2, <2>2, <2>3
<1> QED
  BY <1>1, <1>3, <1>4 DEF Lies

LEMMA LiesOne ==
  ASSUME NEW f, NEW at \in Nat, NEW a, Lies(f, at, <<a>>)
  PROVE  Has(f, at) /\ At(f, at) = a
<1>1. Has(f, at + 1 - 1) /\ At(f, at + 1 - 1) = a
  BY DEF Lies
<1>2. at + 1 - 1 = at
  OBVIOUS
<1> QED
  BY <1>1, <1>2

LEMMA LiesTwo ==
  ASSUME NEW f, NEW at \in Nat, NEW a, NEW b, Lies(f, at, <<a, b>>)
  PROVE  /\ Has(f, at) /\ At(f, at) = a
         /\ Has(f, at + 1) /\ At(f, at + 1) = b
<1>1. /\ Has(f, at + 1 - 1) /\ At(f, at + 1 - 1) = a
      /\ Has(f, at + 2 - 1) /\ At(f, at + 2 - 1) = b
  BY DEF Lies
<1>2. at + 1 - 1 = at /\ at + 2 - 1 = at + 1
  OBVIOUS
<1> QED
  BY <1>1, <1>2

LEMMA LiesThree ==
  ASSUME NEW f, NEW at \in Nat, NEW a, NEW b, NEW c, Lies(f, at, <<a, b, c>>)
  PROVE  /\ Has(f, at) /\ At(f, at) = a
         /\ Has(f, at + 1) /\ At(f, at + 1) = b
         /\ Has(f, at + 2) /\ At(f, at + 2) = c
<1>1. /\ Has(f, at + 1 - 1) /\ At(f, at + 1 - 1) = a
      /\ Has(f, at + 2 - 1) /\ At(f, at + 2 - 1) = b
      /\ Has(f, at + 3 - 1) /\ At(f, at + 3 - 1) = c
  BY DEF Lies
<1>2. at + 1 - 1 = at /\ at + 2 - 1 = at + 1 /\ at + 3 - 1 = at + 2
  OBVIOUS
<1> QED
  BY <1>1, <1>2

LEMMA LiesWhole ==
  ASSUME NEW s \in Seq(Octet), NEW b \in Octet
  PROVE  Lies(View(s, b), 0, s)
<1>1. Size(View(s, b)) = Len(s)
  BY DEF Size, View
<1>2. \A i \in 1 .. Len(s) : 0 + i - 1 < Len(s) /\ (0 + i - 1) + 1 = i
  OBVIOUS
<1> QED
  BY <1>1, <1>2 DEF Lies, Has, At, View

\* A run that lies in a frame ends in it.
LEMMA LiesFit ==
  ASSUME NEW f, IsView(f), NEW at \in Nat, NEW s, NEW n, Run(s, n), n > 0,
         Lies(f, at, s)
  PROVE  Fits(f, at + n)
<1>1. n \in Nat /\ Len(s) = n
  BY DEF Run
<1>2. Has(f, at + n - 1)
  BY <1>1 DEF Lies
<1> QED
  BY <1>1, <1>2 DEF Has, Fits, IsView

---------------------------------------------------------------------------
(* Numbers. *)

LEMMA Halves ==
  ASSUME NEW n \in Nat, n < 65536
  PROVE  /\ n \div 256 \in Nat /\ n \div 256 < 256
         /\ n % 256 \in Nat /\ n % 256 < 256
         /\ (n \div 256) * 256 + (n % 256) = n
OBVIOUS

LEMMA HalfOctets ==
  ASSUME NEW n \in Nat, n < 65536
  PROVE  Run(Octets2(n), 2)
<1>1. n \div 256 \in Octet /\ n % 256 \in Octet
  <2>1. /\ n \div 256 \in Nat /\ n \div 256 < 256
        /\ n % 256 \in Nat /\ n % 256 < 256
    BY Halves
  <2> QED
    BY <2>1, OctetMember
<1> QED
  BY <1>1, ShortRuns DEF Octets2

LEMMA WordRead ==
  ASSUME NEW f, NEW at \in Nat, NEW n \in Nat, n < 65536,
         Lies(f, at, Octets2(n))
  PROVE  Word(f, at) = n /\ Has(f, at) /\ Has(f, at + 1)
<1> DEFINE q == n \div 256
           r == n % 256
<1>1. Lies(f, at, <<q, r>>)
  BY DEF Octets2
<1>2. q * 256 + r = n
  BY Halves
<1> HIDE DEF q, r
<1>3. /\ Has(f, at) /\ At(f, at) = q
      /\ Has(f, at + 1) /\ At(f, at + 1) = r
  BY <1>1, LiesTwo
<1> QED
  BY <1>2, <1>3 DEF Word

---------------------------------------------------------------------------
(* Tags and what they are around. *)

\* A tag around one to four octets, and what DecodeTagHeader makes of it.
LEMMA TaggedRun ==
  ASSUME NEW number \in 0 .. 2, NEW long \in 1 .. 4, NEW s, Run(s, long)
  PROVE  Run(Tagged(number, s), 1 + long)
<1> DEFINE first == number * 16 + 8 + long
<1>1. first \in Octet
  <2>1. first \in Int /\ 0 <= first /\ first < 256
    OBVIOUS
  <2> HIDE DEF first
  <2> QED
    BY <2>1, OctetMember
<1>2. Tagged(number, s) = <<first>> \o s
  BY DEF Tagged, Run
<1> HIDE DEF first
<1> QED
  BY <1>1, <1>2, ShortRuns, RunsJoined

LEMMA TagRead ==
  ASSUME NEW f, IsView(f), NEW at \in Nat,
         NEW number \in 0 .. 2, NEW long \in 1 .. 4, NEW s, Run(s, long),
         Lies(f, at, Tagged(number, s))
  PROVE  /\ \A lengths : long \in lengths => Primitive(f, at, number, lengths)
         /\ TagEnd(f, at) = at + 1
         /\ TagLength(f, at) = long
         /\ PrimitiveEnd(f, at) = at + 1 + long
         /\ Lies(f, at + 1, s)
<1> DEFINE first == number * 16 + 8 + long
<1>1. first \in Octet
  <2>1. first \in Int /\ 0 <= first /\ first < 256
    OBVIOUS
  <2> HIDE DEF first
  <2> QED
    BY <2>1, OctetMember
<1>2. Tagged(number, s) = <<first>> \o s
  BY DEF Tagged, Run
<1>3. Lies(f, at, <<first>>) /\ Lies(f, at + 1, s)
  <2> HIDE DEF first
  <2>1. Run(<<first>>, 1) /\ Lies(f, at, <<first>> \o s)
    BY <1>1, <1>2, ShortRuns
  <2> QED
    BY <2>1, LiesJoined
<1>4. Has(f, at) /\ At(f, at) = first
  BY <1>3, LiesOne
<1>5. /\ first % 8 = long
      /\ first \div 16 = number
      /\ (first \div 8) % 2 = 1
  OBVIOUS
<1>6. /\ ContextSpecific(f, at) /\ ValueBits(f, at) = long
      /\ ~ExtendedNumber(f, at) /\ ~ExtendedLength(f, at)
  BY <1>4, <1>5 DEF ContextSpecific, Bit, ValueBits, ExtendedNumber, ExtendedLength
<1>7. LengthAt(f, at) = at + 1 /\ LengthSize(f, at) = 0
  BY <1>6 DEF LengthAt, LengthSize
<1>8. TagEnd(f, at) = at + 1
  BY <1>7 DEF TagEnd
<1>9. TagNumber(f, at) = number
  BY <1>4, <1>5, <1>6 DEF TagNumber
<1>10. TagLength(f, at) = long
  BY <1>6 DEF TagLength
<1>11. TagDecodes(f, at)
  BY <1>4, <1>6 DEF TagDecodes
<1>12. Fits(f, at + 1 + long)
  BY <1>3, LiesFit
<1>13. \A lengths : long \in lengths => Primitive(f, at, number, lengths)
  BY <1>6, <1>8, <1>9, <1>10, <1>11, <1>12 DEF Primitive
<1> QED
  BY <1>3, <1>8, <1>10, <1>13 DEF PrimitiveEnd

\* An unsigned number of one octet or of two.
LEMMA UnsignedReadOne ==
  ASSUME NEW f, IsView(f), NEW at \in Nat, NEW number \in 0 .. 2, NEW n \in Octet,
         Lies(f, at, Tagged(number, <<n>>))
  PROVE  /\ Primitive(f, at, number, 1 .. 4)
         /\ PrimitiveEnd(f, at) = at + 2
         /\ UnsignedAt(f, at) = Number(n)
<1> DEFINE s == <<n>>
<1>1. Run(s, 1) /\ Lies(f, at, Tagged(number, s))
  BY ShortRuns
<1> HIDE DEF s
<1>2. /\ Primitive(f, at, number, 1 .. 4)
      /\ TagLength(f, at) = 1
      /\ PrimitiveEnd(f, at) = at + 2
      /\ Lies(f, at + 1, s)
  BY <1>1, TagRead
<1>3. At(f, at + 1) = n
  BY <1>2, LiesOne DEF s
<1>4. n \in Nat /\ n < 256
  BY OctetRange
<1>5. UnsignedAt(f, at) = <<0, n>>
  <2>1. Unsigned(f, at + 2, 1) = <<0 * 256 + 0, 0 * 256 + At(f, at + 2 - 1)>>
    BY DEF Unsigned
  <2>2. at + 2 - 1 = at + 1
    OBVIOUS
  <2> QED
    BY <1>2, <1>3, <1>4, <2>1, <2>2 DEF UnsignedAt
<1>6. Number(n) = <<0, n>>
  BY <1>4 DEF Number
<1> QED
  BY <1>2, <1>5, <1>6

LEMMA UnsignedReadTwo ==
  ASSUME NEW f, IsView(f), NEW at \in Nat, NEW number \in 0 .. 2,
         NEW n \in Nat, n < 65536,
         Lies(f, at, Tagged(number, Octets2(n)))
  PROVE  /\ Primitive(f, at, number, 1 .. 4)
         /\ PrimitiveEnd(f, at) = at + 3
         /\ UnsignedAt(f, at) = Number(n)
<1>1. Run(Octets2(n), 2)
  BY HalfOctets
<1>2. /\ Primitive(f, at, number, 1 .. 4)
      /\ TagLength(f, at) = 2
      /\ PrimitiveEnd(f, at) = at + 3
      /\ Lies(f, at + 1, Octets2(n))
  BY <1>1, TagRead
<1>3. Word(f, at + 1) = n
  BY <1>2, WordRead
<1>4. UnsignedAt(f, at) = <<0, n>>
  <2>1. Unsigned(f, at + 3, 2)
          = <<0 * 256 + 0, At(f, at + 3 - 2) * 256 + At(f, at + 3 - 1)>>
    BY DEF Unsigned
  <2>2. at + 3 - 2 = at + 1 /\ at + 3 - 1 = at + 1 + 1
    OBVIOUS
  <2> QED
    BY <1>2, <1>3, <2>1, <2>2 DEF UnsignedAt, Word
<1>5. Number(n) = <<0, n>>
  BY DEF Number
<1> QED
  BY <1>2, <1>4, <1>5

\* Ten bits of type and 22 of instance, cut across four octets and put together again.
LEMMA IdentifierParts ==
  ASSUME NEW type \in Nat, type < 1024, NEW instance \in Nat, instance < 4194304
  PROVE  /\ type \div 4 \in Octet
         /\ (type % 4) * 64 + instance \div 65536 \in Octet
         /\ instance % 65536 \in Nat /\ instance % 65536 < 65536
         /\ (type \div 4) * 4 + ((type % 4) * 64 + instance \div 65536) \div 64 = type
         /\ (((type % 4) * 64 + instance \div 65536) % 64) * 65536 + (instance % 65536)
              = instance
<1>1. /\ type \div 4 \in Nat /\ type \div 4 < 256
      /\ type % 4 \in Nat /\ type % 4 < 4
      /\ (type \div 4) * 4 + (type % 4) = type
  OBVIOUS
<1>2. /\ instance \div 65536 \in Nat /\ instance \div 65536 < 64
      /\ instance % 65536 \in Nat /\ instance % 65536 < 65536
      /\ (instance \div 65536) * 65536 + (instance % 65536) = instance
  OBVIOUS
<1>3. \A t, q \in Nat : t < 4 /\ q < 64 =>
        /\ t * 64 + q \in Nat /\ t * 64 + q < 256
        /\ (t * 64 + q) \div 64 = t /\ (t * 64 + q) % 64 = q
  OBVIOUS
<1>4. /\ (type % 4) * 64 + instance \div 65536 \in Nat
      /\ (type % 4) * 64 + instance \div 65536 < 256
      /\ ((type % 4) * 64 + instance \div 65536) \div 64 = type % 4
      /\ ((type % 4) * 64 + instance \div 65536) % 64 = instance \div 65536
  BY <1>1, <1>2, <1>3
<1>5. /\ type \div 4 \in Octet
      /\ (type % 4) * 64 + instance \div 65536 \in Octet
  BY <1>1, <1>4, OctetMember
<1> QED
  BY <1>1, <1>2, <1>4, <1>5

LEMMA IdentifierRead ==
  ASSUME NEW type \in Nat, type < 1024, NEW instance \in Nat, instance < 4194304
  PROVE  /\ Run(Identifier(type, instance), 4)
         /\ \A f : \A at \in Nat :
              Lies(f, at, Identifier(type, instance)) =>
                ObjectAt(f, at) = <<type, instance>>
<1> DEFINE high == type \div 4
           mid  == (type % 4) * 64 + instance \div 65536
           low  == instance % 65536
<1>1. /\ high \in Octet /\ mid \in Octet
      /\ low \in Nat /\ low < 65536
      /\ high * 4 + mid \div 64 = type
      /\ (mid % 64) * 65536 + low = instance
  BY IdentifierParts
<1>2. Identifier(type, instance) = <<high, mid>> \o Octets2(low)
  BY DEF Identifier
<1> HIDE DEF high, mid, low
<1>3. Run(<<high, mid>>, 2) /\ Run(Octets2(low), 2)
  BY <1>1, HalfOctets, ShortRuns
<1>4. Run(Identifier(type, instance), 4)
  BY <1>2, <1>3, RunsJoined
<1>5. ASSUME NEW f, NEW at \in Nat, Lies(f, at, Identifier(type, instance))
      PROVE  ObjectAt(f, at) = <<type, instance>>
  <2>1. Lies(f, at, <<high, mid>>) /\ Lies(f, at + 2, Octets2(low))
    <3>1. Lies(f, at, <<high, mid>> \o Octets2(low))
      BY <1>2, <1>5
    <3> QED
      BY <1>3, <3>1, LiesJoined
  <2>2. At(f, at) = high /\ At(f, at + 1) = mid
    BY <2>1, LiesTwo
  <2>3. Word(f, at + 2) = low
    BY <1>1, <2>1, WordRead
  <2> QED
    BY <1>1, <2>2, <2>3 DEF ObjectAt
<1> QED
  BY <1>4, <1>5

LEMMA ShortestRead ==
  ASSUME NEW n \in Nat, n < 65536
  PROVE  \E long \in 1 .. 2 :
           /\ Run(Tagged(1, Shortest(n)), 1 + long)
           /\ \A f : \A at \in Nat :
                IsView(f) /\ Lies(f, at, Tagged(1, Shortest(n))) =>
                  /\ Primitive(f, at, 1, 1 .. 4)
                  /\ PrimitiveEnd(f, at) = at + 1 + long
                  /\ UnsignedAt(f, at) = Number(n)
<1>1. CASE n < 256
  <2>1. n \in Octet /\ Shortest(n) = <<n>>
    BY <1>1, OctetMember DEF Shortest
  <2>2. Run(Tagged(1, Shortest(n)), 1 + 1)
    BY <2>1, ShortRuns, TaggedRun
  <2>3. ASSUME NEW f, NEW at \in Nat, IsView(f),
               Lies(f, at, Tagged(1, Shortest(n)))
        PROVE  /\ Primitive(f, at, 1, 1 .. 4)
               /\ PrimitiveEnd(f, at) = at + 1 + 1
               /\ UnsignedAt(f, at) = Number(n)
    <3>1. Lies(f, at, Tagged(1, <<n>>))
      BY <2>1, <2>3
    <3>2. at + 2 = at + 1 + 1
      OBVIOUS
    <3> QED
      BY <2>1, <2>3, <3>1, <3>2, UnsignedReadOne
  <2> QED
    BY <2>2, <2>3
<1>2. CASE ~(n < 256)
  <2>1. Shortest(n) = Octets2(n)
    BY <1>2 DEF Shortest
  <2>2. Run(Tagged(1, Shortest(n)), 1 + 2)
    BY <2>1, HalfOctets, TaggedRun
  <2>3. ASSUME NEW f, NEW at \in Nat, IsView(f),
               Lies(f, at, Tagged(1, Shortest(n)))
        PROVE  /\ Primitive(f, at, 1, 1 .. 4)
               /\ PrimitiveEnd(f, at) = at + 1 + 2
               /\ UnsignedAt(f, at) = Number(n)
    <3>1. Lies(f, at, Tagged(1, Octets2(n)))
      BY <2>1, <2>3
    <3>2. at + 3 = at + 1 + 2
      OBVIOUS
    <3> QED
      BY <2>3, <3>1, <3>2, UnsignedReadTwo
  <2> QED
    BY <2>2, <2>3
<1> QED
  BY <1>1, <1>2

\* Where nothing follows, nothing is named.
LEMMA NothingThere ==
  ASSUME NEW f, IsView(f), NEW at, at = Size(f), NEW n, NEW lengths
  PROVE  ~Primitive(f, at, n, lengths)
BY DEF Primitive, TagDecodes, Has, IsView

\* A reference at the end of a frame is read as what it names.
LEMMA ReferenceRead ==
  ASSUME NEW r, FitsReference(r)
  PROVE  \E n \in 1 .. 10 :
           /\ Run(Reference(r), n)
           /\ \A f : \A at \in Nat :
                IsView(f) /\ Lies(f, at, Reference(r)) /\ Size(f) = at + n =>
                  ObjectAndProperty(f, at) = ReferenceStated(r)
<1> DEFINE identifier == Identifier(r.type, r.instance)
           object   == Tagged(0, identifier)
           property == Tagged(1, Shortest(r.property))
           index    == IF r.index = None THEN <<>> ELSE Tagged(2, <<r.index>>)
<1>1. /\ r.type \in Nat /\ r.type < 1024
      /\ r.instance \in Nat /\ r.instance < 4194304
      /\ r.property \in Nat /\ r.property < 65536
      /\ r.index # None => r.index \in Octet
  BY BelowRange DEF FitsReference
<1>2. Reference(r) = object \o property \o index
  BY DEF Reference
<1>3. /\ Run(identifier, 4)
      /\ \A f : \A at \in Nat :
           Lies(f, at, identifier) => ObjectAt(f, at) = <<r.type, r.instance>>
  BY <1>1, IdentifierRead
<1>4. Run(object, 1 + 4)
  BY <1>3, TaggedRun
<1>5. PICK long \in 1 .. 2 :
        /\ Run(property, 1 + long)
        /\ \A f : \A at \in Nat :
             IsView(f) /\ Lies(f, at, property) =>
               /\ Primitive(f, at, 1, 1 .. 4)
               /\ PrimitiveEnd(f, at) = at + 1 + long
               /\ UnsignedAt(f, at) = Number(r.property)
  BY <1>1, ShortestRead
<1>6. \E rest \in {0, 2} : Run(index, rest) /\ (r.index = None <=> rest = 0)
  <2>1. CASE r.index = None
    BY <2>1, ShortRuns
  <2>2. CASE r.index # None
    <3>1. Run(Tagged(2, <<r.index>>), 1 + 1)
      BY <1>1, <2>2, ShortRuns, TaggedRun
    <3> QED
      BY <2>2, <3>1
  <2> QED
    BY <2>1, <2>2
<1>7. PICK rest \in {0, 2} : Run(index, rest) /\ (r.index = None <=> rest = 0)
  BY <1>6
<1> DEFINE n == 6 + long + rest
<1>8. Run(object \o property, 6 + long) /\ Run(Reference(r), n)
  <2> HIDE DEF object, property, index
  <2>1. Run(object \o property, (1 + 4) + (1 + long))
    BY <1>4, <1>5, RunsJoined
  <2>2. (1 + 4) + (1 + long) = 6 + long
    OBVIOUS
  <2>3. Run(object \o property, 6 + long)
    BY <2>1, <2>2
  <2>4. Run((object \o property) \o index, (6 + long) + rest)
    BY <1>7, <2>3, RunsJoined
  <2> QED
    BY <1>2, <2>3, <2>4
<1>9. ASSUME NEW f, NEW at \in Nat, IsView(f), Lies(f, at, Reference(r)),
             Size(f) = at + n
      PROVE  ObjectAndProperty(f, at) = ReferenceStated(r)
  <2>1. /\ Lies(f, at, object)
        /\ Lies(f, at + 5, property)
        /\ Lies(f, at + (6 + long), index)
    <3> HIDE DEF object, property, index
    <3>1. Lies(f, at, (object \o property) \o index)
      BY <1>2, <1>9
    <3>2. /\ Lies(f, at, object \o property)
          /\ Lies(f, at + (6 + long), index)
      BY <1>7, <1>8, <3>1, LiesJoined
    <3>3. Lies(f, at, object) /\ Lies(f, at + (1 + 4), property)
      BY <1>4, <1>5, <3>2, LiesJoined
    <3> QED
      BY <3>2, <3>3
  <2> DEFINE p == at + 5
             i == at + (6 + long)
  <2>2. /\ Primitive(f, at, 0, {4})
        /\ TagEnd(f, at) = at + 1
        /\ PrimitiveEnd(f, at) = p
        /\ ObjectAt(f, at + 1) = <<r.type, r.instance>>
    <3> HIDE DEF identifier
    <3>1. /\ \A lengths : 4 \in lengths => Primitive(f, at, 0, lengths)
          /\ TagEnd(f, at) = at + 1
          /\ PrimitiveEnd(f, at) = at + 1 + 4
          /\ Lies(f, at + 1, identifier)
      BY <1>3, <1>9, <2>1, TagRead
    <3> QED
      BY <1>3, <3>1
  <2>3. p \in Nat /\ i \in Nat /\ p + 1 + long = i
    OBVIOUS
  <2>4. /\ Primitive(f, p, 1, 1 .. 4)
        /\ PrimitiveEnd(f, p) = i
        /\ UnsignedAt(f, p) = Number(r.property)
    <3> HIDE DEF property, i
    <3>1. /\ Primitive(f, p, 1, 1 .. 4)
          /\ PrimitiveEnd(f, p) = p + 1 + long
          /\ UnsignedAt(f, p) = Number(r.property)
      BY <1>5, <1>9, <2>1, <2>3
    <3> QED
      BY <2>3, <3>1
  <2>5. r.index = None => ~Primitive(f, i, 2, 1 .. 4)
    <3>1. r.index = None => i = Size(f)
      BY <1>7, <1>9
    <3> QED
      BY <1>9, <3>1, NothingThere
  <2>6. r.index # None =>
          /\ Primitive(f, i, 2, 1 .. 4)
          /\ UnsignedAt(f, i) = Number(r.index)
    <3>1. r.index # None => Lies(f, i, Tagged(2, <<r.index>>))
      BY <2>1
    <3> HIDE DEF i
    <3> QED
      BY <1>1, <1>9, <2>3, <3>1, UnsignedReadOne
  <2> HIDE DEF p, i
  <2>7. ObjectAndProperty(f, at)
          = {<<"object", ObjectAt(f, at + 1)>>, <<"property", UnsignedAt(f, p)>>}
            \cup IF Primitive(f, i, 2, 1 .. 4)
                 THEN {<<"index", UnsignedAt(f, i)>>} ELSE {}
    BY <2>2, <2>4 DEF ObjectAndProperty
  <2> QED
    BY <2>2, <2>4, <2>5, <2>6, <2>7 DEF ReferenceStated
<1>10. n \in 1 .. 10
  OBVIOUS
<1> HIDE DEF n
<1> QED
  BY <1>8, <1>9, <1>10

---------------------------------------------------------------------------
(* The APDU. *)

Named == {"object", "property", "index"}

\* All the facts of a message but what a later segment seems to name.
Kept(sequence, facts) ==
  {fact \in facts : sequence = 0 \/ fact[1] \notin Named}

LEMMA PayloadRead ==
  ASSUME NEW p, FitsBody(p)
  PROVE  \E n \in 0 .. 10 :
           /\ Run(Payload(p), n)
           /\ \A f : \A at \in Nat :
                IsView(f) /\ Lies(f, at, Payload(p)) /\ Size(f) = at + n =>
                  Kept(p.sequence, ObjectAndProperty(f, at)) = PayloadStated(p)
<1>1. CASE p.reference = None
  <2>1. Payload(p) = <<>> /\ PayloadStated(p) = {}
    BY <1>1 DEF Payload, PayloadStated
  <2>2. ASSUME NEW f, NEW at \in Nat, IsView(f), Size(f) = at + 0
        PROVE  ObjectAndProperty(f, at) = {}
    <3>1. at = Size(f)
      BY <2>2
    <3> QED
      BY <2>2, <3>1, NothingThere DEF ObjectAndProperty
  <2> QED
    BY <2>1, <2>2, ShortRuns DEF Kept
<1>2. CASE p.reference # None
  <2>1. Payload(p) = Reference(p.reference) /\ FitsReference(p.reference)
    BY <1>2 DEF Payload, FitsBody
  <2>2. PICK n \in 1 .. 10 :
          /\ Run(Reference(p.reference), n)
          /\ \A f : \A at \in Nat :
               IsView(f) /\ Lies(f, at, Reference(p.reference)) /\ Size(f) = at + n =>
                 ObjectAndProperty(f, at) = ReferenceStated(p.reference)
    BY <2>1, ReferenceRead
  <2>3. \A fact \in ReferenceStated(p.reference) : fact[1] \in Named
    BY DEF ReferenceStated, Named
  <2>4. Kept(p.sequence, ReferenceStated(p.reference)) = PayloadStated(p)
    BY <1>2, <2>3 DEF Kept, PayloadStated, FitsBody, Octet
  <2> QED
    BY <2>1, <2>2, <2>4
<1> QED
  BY <1>1, <1>2

LEMMA FlagBits ==
  ASSUME NEW p, FitsBody(p), p.pdu \in {0, 3}
  PROVE  /\ Flags(p) \in Octet
         /\ Flags(p) \div 16 = p.pdu
         /\ (Flags(p) \div 8) % 2 = 1 <=> p.segmented
<1>1. p.segmented \in BOOLEAN
  BY DEF FitsBody
<1>2. CASE p.pdu = 0 /\ p.segmented
  BY <1>2 DEF Flags, Octet
<1>3. CASE p.pdu = 0 /\ ~p.segmented
  BY <1>3 DEF Flags, Octet
<1>4. CASE p.pdu = 3 /\ p.segmented
  BY <1>4 DEF Flags, Octet
<1>5. CASE p.pdu = 3 /\ ~p.segmented
  BY <1>5 DEF Flags, Octet
<1> QED
  BY <1>1, <1>2, <1>3, <1>4, <1>5

\* The head of a request or a complex answer.
HeadOf(p) ==
  IF p.pdu = 0 THEN <<Flags(p), 5, p.invoke>> ELSE <<Flags(p), p.invoke>>

\* A request or a complex answer, in one piece or a segment of it.
LEMMA SegmentedRead ==
  ASSUME NEW p, FitsBody(p), p.pdu \in {0, 3}
  PROVE  \E n \in 1 .. 20 :
           /\ Run(Body(p), n)
           /\ \A f : \A at \in Nat :
                IsView(f) /\ Lies(f, at, Body(p)) /\ Size(f) = at + n =>
                  Kept(p.sequence, ApduFacts(f, at)) = BodyStated(p)
<1>1. /\ p.sequence \in Octet /\ p.invoke \in Octet /\ p.code \in Octet
      /\ Flags(p) \in Octet /\ 5 \in Octet /\ 4 \in Octet
      /\ p.segmented \in BOOLEAN
  BY FlagBits, OctetMember DEF FitsBody
<1>2. Body(p) = HeadOf(p) \o Segment(p) \o <<p.code>> \o Payload(p)
  <2>1. CASE p.pdu = 0
    BY <2>1 DEF Body, HeadOf, NetworkLayer
  <2>2. CASE p.pdu = 3
    BY <2>2 DEF Body, HeadOf, NetworkLayer
  <2> QED
    BY <2>1, <2>2
<1>3. \E h \in {2, 3} : (h = 3 <=> p.pdu = 0) /\ Run(HeadOf(p), h)
  BY <1>1, ShortRuns DEF HeadOf
<1>4. PICK h \in {2, 3} : (h = 3 <=> p.pdu = 0) /\ Run(HeadOf(p), h)
  BY <1>3
<1>5. \E g \in {0, 2} : (g = 2 <=> p.segmented) /\ Run(Segment(p), g)
  BY <1>1, ShortRuns DEF Segment
<1>6. PICK g \in {0, 2} : (g = 2 <=> p.segmented) /\ Run(Segment(p), g)
  BY <1>5
<1>7. PICK l \in 0 .. 10 :
        /\ Run(Payload(p), l)
        /\ \A f : \A at \in Nat :
             IsView(f) /\ Lies(f, at, Payload(p)) /\ Size(f) = at + l =>
               Kept(p.sequence, ObjectAndProperty(f, at)) = PayloadStated(p)
  BY PayloadRead
<1>8. /\ Run(HeadOf(p) \o Segment(p), h + g)
      /\ Run(HeadOf(p) \o Segment(p) \o <<p.code>>, h + g + 1)
      /\ Run(Body(p), h + g + 1 + l)
      /\ Run(<<p.code>>, 1)
  <2>1. Run(<<p.code>>, 1)
    BY <1>1, ShortRuns
  <2>2. Run(HeadOf(p) \o Segment(p), h + g)
    BY <1>4, <1>6, RunsJoined
  <2>3. Run(HeadOf(p) \o Segment(p) \o <<p.code>>, h + g + 1)
    BY <2>1, <2>2, RunsJoined
  <2>4. Run(HeadOf(p) \o Segment(p) \o <<p.code>> \o Payload(p), h + g + 1 + l)
    BY <1>7, <2>3, RunsJoined
  <2> QED
    BY <1>2, <2>1, <2>2, <2>3, <2>4
<1>9. ASSUME NEW f, NEW at \in Nat, IsView(f), Lies(f, at, Body(p)),
             Size(f) = at + (h + g + 1 + l)
      PROVE  Kept(p.sequence, ApduFacts(f, at)) = BodyStated(p)
  <2> DEFINE c == at + (h + g)
  <2>0. c \in Nat /\ c + 1 \in Nat /\ at + (h + g + 1) = c + 1
        /\ Size(f) = c + 1 + l
    BY <1>9
  <2>1. /\ Lies(f, at, HeadOf(p))
        /\ Lies(f, c, <<p.code>>)
        /\ Lies(f, c + 1, Payload(p))
    <3>1. Lies(f, at, HeadOf(p) \o Segment(p) \o <<p.code>> \o Payload(p))
      BY <1>2, <1>9
    <3>2. /\ Lies(f, at, HeadOf(p) \o Segment(p) \o <<p.code>>)
          /\ Lies(f, at + (h + g + 1), Payload(p))
      BY <1>7, <1>8, <3>1, LiesJoined
    <3>3. /\ Lies(f, at, HeadOf(p) \o Segment(p))
          /\ Lies(f, c, <<p.code>>)
      BY <1>8, <3>2, LiesJoined
    <3>4. Lies(f, at, HeadOf(p))
      BY <1>4, <1>6, <3>3, LiesJoined
    <3> QED
      BY <2>0, <3>2, <3>3, <3>4
  <2>2. Has(f, c) /\ At(f, c) = p.code
    BY <2>0, <2>1, LiesOne
  <2>3. /\ At(f, at) = Flags(p)
        /\ Has(f, at + (h - 1)) /\ At(f, at + (h - 1)) = p.invoke
    <3>1. CASE p.pdu = 0
      <4>1. Lies(f, at, <<Flags(p), 5, p.invoke>>) /\ h = 3
        BY <1>4, <2>1, <3>1 DEF HeadOf
      <4> QED
        BY <4>1, LiesThree
    <3>2. CASE p.pdu = 3
      <4>1. Lies(f, at, <<Flags(p), p.invoke>>) /\ h = 2
        BY <1>4, <2>1, <3>2 DEF HeadOf
      <4> QED
        BY <4>1, LiesTwo
    <3> QED
      BY <3>1, <3>2
  <2>4. PduType(f, at) = p.pdu /\ (Segmented(f, at) <=> p.segmented)
    BY <2>3, FlagBits DEF PduType, Segmented, Bit
  <2>5. InvokeAt(f, at) = at + (h - 1) /\ ServiceAt(f, at) = c
    <3>1. CASE p.pdu = 0
      BY <1>4, <1>6, <2>4, <3>1 DEF InvokeAt, ServiceAt
    <3>2. CASE p.pdu = 3
      BY <1>4, <1>6, <2>4, <3>2 DEF InvokeAt, ServiceAt
    <3> QED
      BY <3>1, <3>2
  <2>6. Kept(p.sequence, ObjectAndProperty(f, c + 1)) = PayloadStated(p)
    BY <1>7, <1>9, <2>0, <2>1
  <2> HIDE DEF c
  <2>7. /\ HasInvoke(f, at) /\ HasService(f, at) /\ ~HasReason(f, at)
        /\ At(f, InvokeAt(f, at)) = p.invoke
        /\ At(f, ServiceAt(f, at)) = p.code
    BY <2>2, <2>3, <2>4, <2>5 DEF HasInvoke, HasService, HasReason
  <2>8. NamesProperty(f, at) <=>
          (p.pdu = 0 /\ p.code \in {12, 15}) \/ (p.pdu = 3 /\ p.code = 12)
    BY <2>4, <2>7 DEF NamesProperty
  <2>9. ~NamesProperty(f, at) => PayloadStated(p) = {}
    BY <2>8 DEF FitsBody, PayloadStated
  <2>10. ApduFacts(f, at)
           = {<<"pdu", p.pdu>>, <<"invoke", p.invoke>>, <<"service", p.code>>}
             \cup IF NamesProperty(f, at) THEN ObjectAndProperty(f, c + 1) ELSE {}
    BY <2>4, <2>5, <2>7 DEF ApduFacts
  <2>11. BodyStated(p)
           = {<<"pdu", p.pdu>>, <<"invoke", p.invoke>>, <<"service", p.code>>}
             \cup PayloadStated(p)
    BY DEF BodyStated, NetworkLayer
  <2>12. \A fact \in {<<"pdu", p.pdu>>, <<"invoke", p.invoke>>, <<"service", p.code>>} :
           fact[1] \notin Named
    BY DEF Named
  <2> QED
    BY <2>6, <2>9, <2>10, <2>11, <2>12 DEF Kept
<1>10. h + g + 1 + l \in 1 .. 20
  OBVIOUS
<1> QED
  BY <1>8, <1>9, <1>10

\* An acknowledgement, an error, a reject or an abort, and an unconfirmed request.
LEMMA ShortRead ==
  ASSUME NEW p, FitsBody(p), p.pdu \in {1, 2, 4, 5, 6, 7}
  PROVE  \E n \in 1 .. 20 :
           /\ Run(Body(p), n)
           /\ \A f : \A at \in Nat :
                IsView(f) /\ Lies(f, at, Body(p)) /\ Size(f) = at + n =>
                  Kept(p.sequence, ApduFacts(f, at)) = BodyStated(p)
<1>1. p.invoke \in Octet /\ p.code \in Octet
  BY DEF FitsBody
<1>2. CASE p.pdu = 1
  <2>1. Body(p) = <<16, p.code>>
    BY <1>2 DEF Body, NetworkLayer
  <2>2. 16 \in Octet
    BY OctetMember
  <2>3. Run(Body(p), 2)
    BY <1>1, <2>1, <2>2, ShortRuns
  <2>4. ASSUME NEW f, NEW at \in Nat, Lies(f, at, Body(p))
        PROVE  Kept(p.sequence, ApduFacts(f, at)) = BodyStated(p)
    <3>1. At(f, at) = 16 /\ Has(f, at + 1) /\ At(f, at + 1) = p.code
      BY <2>1, <2>4, LiesTwo
    <3>2. PduType(f, at) = 1
      BY <3>1 DEF PduType
    <3>3. /\ ~HasInvoke(f, at) /\ HasService(f, at) /\ ~HasReason(f, at)
          /\ ServiceAt(f, at) = at + 1 /\ ~NamesProperty(f, at)
      BY <3>1, <3>2 DEF HasInvoke, HasService, HasReason, ServiceAt, NamesProperty
    <3>4. ApduFacts(f, at) = {<<"pdu", 1>>, <<"service", p.code>>}
      BY <3>1, <3>2, <3>3 DEF ApduFacts
    <3>5. BodyStated(p) = {<<"pdu", 1>>, <<"service", p.code>>}
      BY <1>2 DEF BodyStated, NetworkLayer
    <3> QED
      BY <3>4, <3>5 DEF Kept, Named
  <2> QED
    BY <2>3, <2>4
<1>3. CASE p.pdu = 4
  <2>1. Body(p) = <<64, p.invoke, 0, 4>>
    BY <1>3 DEF Body, NetworkLayer
  <2>2. 64 \in Octet /\ 0 \in Octet /\ 4 \in Octet
    BY OctetMember
  <2>3. Run(Body(p), 4)
    BY <1>1, <2>1, <2>2, ShortRuns
  <2>4. ASSUME NEW f, NEW at \in Nat, Lies(f, at, Body(p))
        PROVE  Kept(p.sequence, ApduFacts(f, at)) = BodyStated(p)
    <3>1. At(f, at) = 64
      <4>1. At(f, at + 1 - 1) = 64
        BY <2>1, <2>4 DEF Lies
      <4> QED
        BY <4>1
    <3>2. PduType(f, at) = 4
      BY <3>1 DEF PduType
    <3>3. /\ ~HasInvoke(f, at) /\ ~HasService(f, at) /\ ~HasReason(f, at)
          /\ ~NamesProperty(f, at)
      BY <3>2 DEF HasInvoke, HasService, HasReason, NamesProperty
    <3>4. ApduFacts(f, at) = {<<"pdu", 4>>}
      BY <3>2, <3>3 DEF ApduFacts
    <3>5. BodyStated(p) = {<<"pdu", 4>>}
      BY <1>3 DEF BodyStated, NetworkLayer
    <3> QED
      BY <3>4, <3>5 DEF Kept, Named
  <2> QED
    BY <2>3, <2>4
<1>4. CASE p.pdu \in {2, 5, 6, 7}
  <2> DEFINE first == p.pdu * 16
  <2>1. Body(p) = <<first, p.invoke, p.code>>
    BY <1>4 DEF Body, NetworkLayer
  <2>2. first \in Octet /\ first \div 16 = p.pdu
    BY <1>4, OctetMember
  <2> HIDE DEF first
  <2>3. Run(Body(p), 3)
    BY <1>1, <2>1, <2>2, ShortRuns
  <2>4. ASSUME NEW f, NEW at \in Nat, Lies(f, at, Body(p))
        PROVE  Kept(p.sequence, ApduFacts(f, at)) = BodyStated(p)
    <3>1. /\ At(f, at) = first
          /\ At(f, at + 1) = p.invoke
          /\ Has(f, at + 2) /\ At(f, at + 2) = p.code
      BY <2>1, <2>4, LiesThree
    <3>2. PduType(f, at) = p.pdu
      BY <2>2, <3>1 DEF PduType
    <3>3. /\ HasInvoke(f, at) /\ InvokeAt(f, at) = at + 1
          /\ ServiceAt(f, at) = at + 2 /\ ~NamesProperty(f, at)
          /\ HasService(f, at) <=> p.pdu \in {2, 5}
          /\ HasReason(f, at) <=> p.pdu \in {6, 7}
      BY <1>4, <3>1, <3>2
      DEF HasInvoke, HasService, HasReason, InvokeAt, ServiceAt, NamesProperty
    <3>4. CASE p.pdu \in {2, 5}
      <4>1. ApduFacts(f, at)
              = {<<"pdu", p.pdu>>, <<"invoke", p.invoke>>, <<"service", p.code>>}
        BY <3>1, <3>2, <3>3, <3>4 DEF ApduFacts
      <4>2. BodyStated(p)
              = {<<"pdu", p.pdu>>, <<"invoke", p.invoke>>, <<"service", p.code>>}
                \cup PayloadStated(p)
        BY <3>4 DEF BodyStated, NetworkLayer
      <4>3. PayloadStated(p) = {}
        BY <3>4 DEF PayloadStated, FitsBody
      <4> QED
        BY <4>1, <4>2, <4>3 DEF Kept, Named
    <3>5. CASE p.pdu \in {6, 7}
      <4>1. ApduFacts(f, at)
              = {<<"pdu", p.pdu>>, <<"invoke", p.invoke>>, <<"reason", p.code>>}
        BY <3>1, <3>2, <3>3, <3>5 DEF ApduFacts
      <4>2. BodyStated(p)
              = {<<"pdu", p.pdu>>, <<"invoke", p.invoke>>, <<"reason", p.code>>}
        BY <3>5 DEF BodyStated, NetworkLayer
      <4> QED
        BY <4>1, <4>2 DEF Kept, Named
    <3> QED
      BY <1>4, <3>4, <3>5
  <2> QED
    BY <2>3, <2>4
<1> QED
  BY <1>2, <1>3, <1>4

\* What follows the network header, a network message or an APDU.
ReadsBody(p, n) ==
  /\ Run(Body(p), n)
  /\ \A f : \A at \in Nat :
       IsView(f) /\ Lies(f, at, Body(p)) /\ Size(f) = at + n =>
         /\ Has(f, at)
         /\ BodyStated(p) = IF p.pdu = NetworkLayer
                            THEN {<<"network", At(f, at)>>}
                            ELSE Kept(p.sequence, ApduFacts(f, at))

LEMMA BodyRead ==
  ASSUME NEW p, FitsBody(p)
  PROVE  \E n \in 1 .. 20 : ReadsBody(p, n)
<1>1. \A f : \A at \in Nat : \A n \in 1 .. 20 : Size(f) = at + n => Has(f, at)
  BY DEF Has
<1>2. CASE p.pdu = NetworkLayer
  <2>1. Body(p) = <<p.code>> /\ BodyStated(p) = {<<"network", p.code>>}
    BY <1>2 DEF Body, BodyStated, NetworkLayer
  <2>2. Run(Body(p), 1)
    BY <2>1, ShortRuns DEF FitsBody
  <2>3. \A f : \A at \in Nat : Lies(f, at, Body(p)) => At(f, at) = p.code
    BY <2>1, LiesOne
  <2> QED
    BY <1>1, <1>2, <2>1, <2>2, <2>3 DEF ReadsBody
<1>3. CASE p.pdu \in {0, 3}
  <2>1. p.pdu # NetworkLayer
    BY <1>3 DEF NetworkLayer
  <2> QED
    BY <1>1, <1>3, <2>1, SegmentedRead DEF ReadsBody
<1>4. CASE p.pdu \in {1, 2, 4, 5, 6, 7}
  <2>1. p.pdu # NetworkLayer
    BY <1>4 DEF NetworkLayer
  <2> QED
    BY <1>1, <1>4, <2>1, ShortRead DEF ReadsBody
<1>5. p.pdu = NetworkLayer \/ p.pdu \in {0, 3} \/ p.pdu \in {1, 2, 4, 5, 6, 7}
  <2>1. p.pdu \in 0 .. 7 \/ p.pdu = NetworkLayer
    BY DEF FitsBody
  <2>2. \A x \in 0 .. 7 : x \in {0, 3} \/ x \in {1, 2, 4, 5, 6, 7}
    OBVIOUS
  <2> QED
    BY <2>1, <2>2
<1> QED
  BY <1>2, <1>3, <1>4, <1>5

---------------------------------------------------------------------------
(* The headers. *)

ReadsSpecifier(s, n) ==
  /\ Run(Specifier(s), n)
  /\ \A f : \A at \in Nat : \A net, address :
       IsView(f) /\ Lies(f, at, Specifier(s)) =>
         /\ SpecifierFits(f, at)
         /\ SpecifierEnd(f, at) = at + n
         /\ SpecifierFacts(f, at, net, address) = SpecifierStated(s, net, address)

LEMMA SpecifierRead ==
  ASSUME NEW s, s # None, FitsSpecifier(s)
  PROVE  \E n \in Nat : n <= 258 /\ ReadsSpecifier(s, n)
<1> DEFINE a    == s.address
           long == Len(s.address)
<1>1. /\ s.net \in Nat /\ s.net < 65536
      /\ a \in Seq(Octet) /\ long \in Nat /\ long <= 255
  BY BelowRange DEF FitsSpecifier
<1>2. Specifier(s) = Octets2(s.net) \o <<long>> \o a
  BY DEF Specifier
<1>3. Run(a, long) /\ long = Len(a)
  BY <1>1 DEF Run
<1> HIDE DEF a, long
<1>4. Run(Octets2(s.net), 2) /\ Run(<<long>>, 1)
  <2>1. long \in Octet
    BY <1>1, OctetMember
  <2> QED
    BY <1>1, <2>1, HalfOctets, ShortRuns
<1>5. Run(Octets2(s.net) \o <<long>>, 2 + 1)
  BY <1>4, RunsJoined
<1>6. Run(Specifier(s), (2 + 1) + long)
  <2>1. Run((Octets2(s.net) \o <<long>>) \o a, (2 + 1) + long)
    BY <1>3, <1>5, RunsJoined
  <2> QED
    BY <1>2, <2>1
<1>7. ASSUME NEW f, NEW at \in Nat, NEW net, NEW address,
             IsView(f), Lies(f, at, Specifier(s))
      PROVE  /\ SpecifierFits(f, at)
             /\ SpecifierEnd(f, at) = at + (3 + long)
             /\ SpecifierFacts(f, at, net, address)
                  = SpecifierStated(s, net, address)
  <2>1. /\ Lies(f, at, Octets2(s.net))
        /\ Lies(f, at + 2, <<long>>)
        /\ Lies(f, at + (2 + 1), a)
    <3>1. Lies(f, at, (Octets2(s.net) \o <<long>>) \o a)
      BY <1>2, <1>7
    <3>2. Lies(f, at, Octets2(s.net) \o <<long>>) /\ Lies(f, at + (2 + 1), a)
      BY <1>3, <1>5, <3>1, LiesJoined
    <3> QED
      BY <1>4, <3>2, LiesJoined
  <2>2. Word(f, at) = s.net
    BY <1>1, <2>1, WordRead
  <2>3. Has(f, at + 2) /\ At(f, at + 2) = long
    BY <2>1, LiesOne
  <2>4. SpecifierEnd(f, at) = at + (3 + long)
    BY <1>1, <2>3 DEF SpecifierEnd
  <2>5. Fits(f, at + 3)
    BY <1>7, <2>3 DEF Has, Fits, IsView
  <2>6. SpecifierFits(f, at)
    <3>1. CASE long = 0
      BY <2>4, <2>5, <3>1 DEF SpecifierFits
    <3>2. CASE long > 0
      <4>1. Fits(f, (at + 3) + long)
        BY <1>3, <1>7, <2>1, <3>2, LiesFit
      <4>2. (at + 3) + long = at + (3 + long)
        BY <1>1
      <4> QED
        BY <2>4, <2>5, <4>1, <4>2 DEF SpecifierFits
    <3> QED
      BY <1>1, <3>1, <3>2
  <2>7. Octets(f, at + 3, long) = a
    <3>1. \A i \in 1 .. long : At(f, at + 3 + i - 1) = a[i]
      BY <1>3, <2>1 DEF Lies
    <3>2. Octets(f, at + 3, long) = [i \in 1 .. long |-> a[i]]
      BY <3>1 DEF Octets
    <3>3. a = [i \in 1 .. long |-> a[i]]
      BY <1>1, <1>3
    <3> QED
      BY <3>2, <3>3
  <2>8. a = <<>> <=> long = 0
    BY <1>1, <1>3
  <2>9. SpecifierFacts(f, at, net, address)
          = {<<net, s.net>>} \cup IF long > 0 THEN {<<address, a>>} ELSE {}
    BY <2>2, <2>3, <2>5, <2>6, <2>7 DEF SpecifierFacts
  <2>10. SpecifierStated(s, net, address)
           = {<<net, s.net>>} \cup IF a = <<>> THEN {} ELSE {<<address, a>>}
    BY DEF SpecifierStated, a
  <2> QED
    BY <1>1, <2>4, <2>6, <2>8, <2>9, <2>10
<1>8. (2 + 1) + long = 3 + long /\ 3 + long \in Nat /\ 3 + long <= 258
  BY <1>1
<1>9. ReadsSpecifier(s, 3 + long)
  BY <1>6, <1>7, <1>8 DEF ReadsSpecifier
<1> QED
  BY <1>8, <1>9

\* With no specifier there is nothing to read.
LEMMA SpecifierRun ==
  ASSUME NEW s, s # None => FitsSpecifier(s)
  PROVE  \E n \in Nat :
           /\ n <= 258 /\ Run(Specifier(s), n)
           /\ s = None => n = 0
           /\ s # None => ReadsSpecifier(s, n)
<1>1. CASE s = None
  <2>1. Specifier(s) = <<>>
    BY <1>1 DEF Specifier
  <2> QED
    BY <1>1, <2>1, ShortRuns
<1>2. CASE s # None
  BY <1>2, SpecifierRead DEF ReadsSpecifier
<1> QED
  BY <1>1, <1>2

LEMMA ControlBits ==
  ASSUME NEW m
  PROVE  /\ Control(m) \in Octet
         /\ Bit(Control(m), 128) <=> m.body.pdu = NetworkLayer
         /\ Bit(Control(m), 32) <=> m.destination # None
         /\ Bit(Control(m), 8) <=> m.source # None
<1> DEFINE A == IF m.body.pdu = NetworkLayer THEN 1 ELSE 0
           B == IF m.destination = None THEN 0 ELSE 1
           C == IF m.source = None THEN 0 ELSE 1
<1>1. Control(m) = A * 128 + B * 32 + C * 8
  BY DEF Control
<1>2. A \in {0, 1} /\ B \in {0, 1} /\ C \in {0, 1}
  OBVIOUS
<1>3. \A x, y, z \in {0, 1} :
        /\ x * 128 + y * 32 + z * 8 \in Nat /\ x * 128 + y * 32 + z * 8 < 256
        /\ ((x * 128 + y * 32 + z * 8) \div 128) % 2 = x
        /\ ((x * 128 + y * 32 + z * 8) \div 32) % 2 = y
        /\ ((x * 128 + y * 32 + z * 8) \div 8) % 2 = z
  OBVIOUS
<1>4. /\ Control(m) \in Nat /\ Control(m) < 256
      /\ Bit(Control(m), 128) <=> A = 1
      /\ Bit(Control(m), 32) <=> B = 1
      /\ Bit(Control(m), 8) <=> C = 1
  <2> HIDE DEF A, B, C
  <2> QED
    BY <1>1, <1>2, <1>3 DEF Bit
<1> QED
  BY <1>4, OctetMember

\* The network header and what it heads.
Hop(m) == IF m.destination = None THEN <<>> ELSE <<255>>

NpduStated(m) ==
  {<<"control", Control(m)>>}
  \cup SpecifierStated(m.destination, "dnet", "dadr")
  \cup SpecifierStated(m.source, "snet", "sadr")
  \cup BodyStated(m.body)

NpduFacts(f) ==
  {<<"control", ControlOf(f)>>} \cup DestinationFacts(f)
  \cup SourceFacts(f) \cup PayloadFacts(f)

ReadsNpdu(m, n) ==
  /\ Run(Npdu(m), n)
  /\ \A f :
       /\ IsView(f) /\ NpduAt(f) \in Nat
       /\ Lies(f, NpduAt(f), Npdu(m)) /\ Size(f) = NpduAt(f) + n
       => /\ Fits(f, NpduAt(f) + 2)
          /\ Kept(m.body.sequence, NpduFacts(f)) = NpduStated(m)

\* Where the parts of an NPDU lie, and that each is read from there.
LEMMA NpduRead ==
  ASSUME NEW m, WellFormed(m)
  PROVE  \E n \in Nat : n <= 600 /\ ReadsNpdu(m, n)
<1> DEFINE d == m.destination
           s == m.source
           p == m.body
           first == <<1, Control(m)>>
<1>1. PICK nd \in Nat :
        /\ nd <= 258 /\ Run(Specifier(d), nd)
        /\ d = None => nd = 0
        /\ d # None => ReadsSpecifier(d, nd)
  BY SpecifierRun DEF WellFormed
<1>2. PICK ns \in Nat :
        /\ ns <= 258 /\ Run(Specifier(s), ns)
        /\ s = None => ns = 0
        /\ s # None => ReadsSpecifier(s, ns)
  BY SpecifierRun DEF WellFormed
<1>3. PICK nb \in 1 .. 20 : ReadsBody(p, nb)
  BY BodyRead DEF WellFormed
<1>4. \E nh \in {0, 1} : Run(Hop(m), nh) /\ (nh = 1 <=> d # None)
  <2>1. 255 \in Octet
    BY OctetMember
  <2> QED
    BY <2>1, ShortRuns DEF Hop
<1>5. PICK nh \in {0, 1} : Run(Hop(m), nh) /\ (nh = 1 <=> d # None)
  BY <1>4
<1>6. Run(first, 2)
  <2>1. 1 \in Octet /\ Control(m) \in Octet
    BY OctetMember, ControlBits
  <2> QED
    BY <2>1, ShortRuns
<1>7. Npdu(m) = first \o Specifier(d) \o Specifier(s) \o Hop(m) \o Body(p)
  BY DEF Npdu, Hop
<1> HIDE DEF first
<1> DEFINE two   == first \o Specifier(d)
           three == two \o Specifier(s)
           four  == three \o Hop(m)
<1>8. /\ Run(two, 2 + nd) /\ Run(three, 2 + nd + ns)
      /\ Run(four, 2 + nd + ns + nh)
      /\ Run(Npdu(m), 2 + nd + ns + nh + nb)
      /\ Npdu(m) = four \o Body(p) /\ Run(Body(p), nb)
  <2>1. Npdu(m) = four \o Body(p) /\ Run(Body(p), nb)
    BY <1>3, <1>7 DEF ReadsBody
  <2>2. Run(two, 2 + nd)
    BY <1>1, <1>6, RunsJoined
  <2> HIDE DEF two
  <2>3. Run(three, 2 + nd + ns)
    BY <1>2, <2>2, RunsJoined
  <2> HIDE DEF three
  <2>4. Run(four, 2 + nd + ns + nh)
    BY <1>5, <2>3, RunsJoined
  <2> HIDE DEF four
  <2>5. Run(four \o Body(p), 2 + nd + ns + nh + nb)
    BY <2>1, <2>4, RunsJoined
  <2> QED
    BY <2>1, <2>2, <2>3, <2>4, <2>5 DEF two, three
<1>9. ASSUME NEW f, IsView(f), NpduAt(f) \in Nat, Lies(f, NpduAt(f), Npdu(m)),
             Size(f) = NpduAt(f) + (2 + nd + ns + nh + nb)
      PROVE  /\ Fits(f, NpduAt(f) + 2)
             /\ Kept(p.sequence, NpduFacts(f)) = NpduStated(m)
  <2> DEFINE at0 == NpduAt(f)
             at1 == at0 + 2
             at2 == at0 + (2 + nd)
             at3 == at0 + (2 + nd + ns)
             at4 == at0 + (2 + nd + ns + nh)
  <2>1. /\ Lies(f, at0, first) /\ Lies(f, at1, Specifier(d))
        /\ Lies(f, at2, Specifier(s)) /\ Lies(f, at4, Body(p))
    <3> HIDE DEF two, three, four
    <3>1. Lies(f, at0, four \o Body(p))
      BY <1>8, <1>9
    <3>2. Lies(f, at0, four) /\ Lies(f, at4, Body(p))
      BY <1>8, <1>9, <3>1, LiesJoined
    <3>3. Lies(f, at0, three)
      <4>1. Lies(f, at0, three \o Hop(m))
        BY <3>2 DEF four
      <4> QED
        BY <1>5, <1>8, <1>9, <4>1, LiesJoined
    <3>4. Lies(f, at0, two) /\ Lies(f, at2, Specifier(s))
      <4>1. Lies(f, at0, two \o Specifier(s))
        BY <3>3 DEF three
      <4> QED
        BY <1>2, <1>8, <1>9, <4>1, LiesJoined
    <3>5. Lies(f, at0, first) /\ Lies(f, at1, Specifier(d))
      <4>1. Lies(f, at0, first \o Specifier(d))
        BY <3>4 DEF two
      <4> QED
        BY <1>1, <1>6, <1>9, <4>1, LiesJoined
    <3> QED
      BY <3>2, <3>4, <3>5
  <2>2. /\ at1 \in Nat /\ at2 \in Nat /\ at3 \in Nat /\ at4 \in Nat
        /\ at1 + nd = at2 /\ at2 + ns = at3 /\ at3 + nh = at4
        /\ Size(f) = at4 + nb
    BY <1>9
  <2>3. Fits(f, at0 + 2) /\ ControlOf(f) = Control(m)
    <3>1. Has(f, at0 + 1) /\ At(f, at0 + 1) = Control(m)
      BY <1>9, <2>1, LiesTwo DEF first
    <3> QED
      BY <1>9, <3>1 DEF Fits, Has, IsView, ControlOf
  <2>4. /\ HasDestination(f) <=> d # None
        /\ HasSource(f) <=> s # None
        /\ IsNetworkMessage(f) <=> p.pdu = NetworkLayer
    BY <2>3, ControlBits DEF HasDestination, HasSource, IsNetworkMessage
  <2>5. DestinationAt(f) = at1
    BY DEF DestinationAt
  <2> HIDE DEF at1, at2, at3, at4
  <2>6. d # None => /\ SpecifierFits(f, at1)
                    /\ SpecifierEnd(f, at1) = at2
                    /\ SpecifierFacts(f, at1, "dnet", "dadr")
                         = SpecifierStated(d, "dnet", "dadr")
    BY <1>1, <1>9, <2>1, <2>2 DEF ReadsSpecifier
  <2>7. s # None => /\ SpecifierFits(f, at2)
                    /\ SpecifierEnd(f, at2) = at3
                    /\ SpecifierFacts(f, at2, "snet", "sadr")
                         = SpecifierStated(s, "snet", "sadr")
    BY <1>2, <1>9, <2>1, <2>2 DEF ReadsSpecifier
  <2>8. SourceAt(f) = at2
    <3>1. d = None => at1 = at2
      BY <1>1, <2>2
    <3> QED
      BY <2>4, <2>5, <2>6, <3>1 DEF SourceAt
  <2>9. SourceEnd(f) = at3
    <3>1. s = None => at2 = at3
      BY <1>2, <2>2
    <3> QED
      BY <2>4, <2>7, <2>8, <3>1 DEF SourceEnd
  <2>10. PayloadAt(f) = at4
    <3>1. d = None => at3 + 0 = at4
      BY <1>5, <2>2
    <3>2. d # None => at3 + 1 = at4
      BY <1>5, <2>2
    <3> QED
      BY <2>4, <2>9, <3>1, <3>2 DEF PayloadAt
  <2>11. /\ Has(f, at4)
         /\ BodyStated(p) = IF p.pdu = NetworkLayer
                            THEN {<<"network", At(f, at4)>>}
                            ELSE Kept(p.sequence, ApduFacts(f, at4))
    BY <1>3, <1>9, <2>1, <2>2 DEF ReadsBody
  <2>12. DestinationFits(f) /\ SourceFits(f) /\ Reached(f)
    BY <2>4, <2>5, <2>6, <2>7, <2>8, <2>10, <2>11
    DEF DestinationFits, SourceFits, Reached
  <2>13. DestinationFacts(f) = SpecifierStated(d, "dnet", "dadr")
    BY <2>4, <2>5, <2>6 DEF DestinationFacts, SpecifierStated
  <2>14. SourceFacts(f) = SpecifierStated(s, "snet", "sadr")
    BY <2>4, <2>7, <2>8, <2>12 DEF SourceFacts, SpecifierStated
  <2>15. Kept(p.sequence, PayloadFacts(f)) = BodyStated(p)
    <3>1. CASE p.pdu = NetworkLayer
      <4>1. PayloadFacts(f) = {<<"network", At(f, at4)>>}
        BY <2>4, <2>10, <2>12, <3>1 DEF PayloadFacts
      <4> QED
        BY <2>11, <3>1, <4>1 DEF Kept, Named
    <3>2. CASE p.pdu # NetworkLayer
      <4>1. PayloadFacts(f) = ApduFacts(f, at4)
        BY <2>4, <2>10, <2>12, <3>2 DEF PayloadFacts
      <4> QED
        BY <2>11, <3>2, <4>1
    <3> QED
      BY <3>1, <3>2
  <2>16. \A fact \in {<<"control", ControlOf(f)>>}
                     \cup SpecifierStated(d, "dnet", "dadr")
                     \cup SpecifierStated(s, "snet", "sadr") : fact[1] \notin Named
    BY DEF SpecifierStated, Named
  <2>17. Kept(p.sequence, NpduFacts(f))
           = {<<"control", ControlOf(f)>>}
             \cup SpecifierStated(d, "dnet", "dadr")
             \cup SpecifierStated(s, "snet", "sadr")
             \cup Kept(p.sequence, PayloadFacts(f))
    BY <2>13, <2>14, <2>16 DEF Kept, NpduFacts
  <2> QED
    BY <2>3, <2>15, <2>17 DEF NpduStated
<1>10. 2 + nd + ns + nh + nb \in Nat /\ 2 + nd + ns + nh + nb <= 600
  BY <1>1, <1>2
<1>11. ReadsNpdu(m, 2 + nd + ns + nh + nb)
  BY <1>8, <1>9 DEF ReadsNpdu
<1> QED
  BY <1>10, <1>11

\* The whole datagram.
LEMMA MessageRead ==
  ASSUME NEW m, WellFormed(m)
  PROVE  /\ Encode(m) \in Seq(Octet)
         /\ \A f : IsView(f) /\ Lies(f, 0, Encode(m)) /\ Size(f) = Len(Encode(m)) =>
              Kept(m.body.sequence, DecodeBacnetFrame(f)) = Stated(m)
<1>1. PICK n \in Nat : n <= 600 /\ ReadsNpdu(m, n)
  BY NpduRead
<1>2. Run(Npdu(m), n)
  BY <1>1 DEF ReadsNpdu
<1>3. m.bvlc \in {4, 10, 11} /\ m.bvlc \in Octet
  <2>1. m.bvlc \in {4, 10, 11}
    BY DEF WellFormed
  <2>2. 4 \in Octet /\ 10 \in Octet /\ 11 \in Octet
    BY OctetMember
  <2> QED
    BY <2>1, <2>2
<1>4. \E k \in {0, 6} : Run(Origin(m), k) /\ (k = 6 <=> m.bvlc = 4)
  <2>1. CASE m.bvlc = 4
    <3>1. /\ 10 \in Octet /\ 0 \in Octet /\ 7 \in Octet
          /\ 186 \in Octet /\ 192 \in Octet
      BY OctetMember
    <3>2. Origin(m) = <<10, 0, 0, 7, 186, 192>>
      BY <2>1 DEF Origin
    <3>3. Run(Origin(m), 6)
      BY <3>1, <3>2 DEF Run
    <3> QED
      BY <2>1, <3>3
  <2>2. CASE m.bvlc # 4
    BY <2>2, ShortRuns DEF Origin
  <2> QED
    BY <2>1, <2>2
<1>5. PICK k \in {0, 6} : Run(Origin(m), k) /\ (k = 6 <=> m.bvlc = 4)
  BY <1>4
<1> DEFINE first == <<129, m.bvlc>>
           long  == Octets2(4 + Len(Origin(m)) + Len(Npdu(m)))
           two   == first \o long
           three == two \o Origin(m)
<1>6. Run(first, 2) /\ Run(long, 2)
  <2>1. 129 \in Octet
    BY OctetMember
  <2>2. Len(Origin(m)) = k /\ Len(Npdu(m)) = n
    BY <1>2, <1>5 DEF Run
  <2>3. Run(Octets2(4 + k + n), 2)
    <3>1. 4 + k + n \in Nat /\ 4 + k + n < 65536
      BY <1>1
    <3> QED
      BY <3>1, HalfOctets
  <2> QED
    BY <1>3, <2>1, <2>2, <2>3, ShortRuns
<1>7. Encode(m) = three \o Npdu(m)
  BY DEF Encode
<1> HIDE DEF long, first
<1>8. Run(two, 4) /\ Run(three, 4 + k) /\ Run(Encode(m), 4 + k + n)
  <2>1. Run(two, 2 + 2)
    BY <1>6, RunsJoined
  <2>2. 2 + 2 = 4
    OBVIOUS
  <2> HIDE DEF two
  <2>3. Run(three, 4 + k)
    BY <1>5, <2>1, <2>2, RunsJoined
  <2> HIDE DEF three
  <2>4. Run(three \o Npdu(m), 4 + k + n)
    BY <1>2, <2>3, RunsJoined
  <2> QED
    BY <1>7, <2>1, <2>2, <2>3, <2>4
<1> HIDE DEF two, three
<1>9. ASSUME NEW f, IsView(f), Lies(f, 0, Encode(m)), Size(f) = 4 + k + n
      PROVE  Kept(m.body.sequence, DecodeBacnetFrame(f)) = Stated(m)
  <2>1. Lies(f, 0, three) /\ Lies(f, 0 + (4 + k), Npdu(m))
    <3>1. Lies(f, 0, three \o Npdu(m))
      BY <1>7, <1>9
    <3> QED
      BY <1>2, <1>8, <3>1, LiesJoined
  <2>2. Lies(f, 0, first)
    <3>1. Lies(f, 0, two \o Origin(m))
      BY <2>1 DEF three
    <3>2. Lies(f, 0, two)
      BY <1>5, <1>8, <3>1, LiesJoined
    <3>3. Lies(f, 0, first \o long)
      BY <3>2 DEF two
    <3> QED
      BY <1>6, <3>3, LiesJoined
  <2>3. At(f, 0) = 129 /\ At(f, 1) = m.bvlc
    <3>1. At(f, 0) = 129 /\ At(f, 0 + 1) = m.bvlc
      BY <2>2, LiesTwo DEF first
    <3> QED
      BY <3>1
  <2>4. IsBacnetIp(f) /\ CarriesNpdu(f)
    BY <1>3, <1>9, <2>3 DEF IsBacnetIp, CarriesNpdu
  <2>5. NpduAt(f) = 4 + k
    BY <1>3, <1>5, <2>3 DEF NpduAt
  <2>6. /\ Fits(f, NpduAt(f) + 2)
        /\ Kept(m.body.sequence, NpduFacts(f)) = NpduStated(m)
    <3>1. NpduAt(f) \in Nat /\ Lies(f, NpduAt(f), Npdu(m)) /\ Size(f) = NpduAt(f) + n
      BY <1>9, <2>1, <2>5
    <3> QED
      BY <1>1, <1>9, <3>1 DEF ReadsNpdu
  <2>7. HasNpdu(f)
    BY <2>4, <2>6 DEF HasNpdu
  <2>8. DecodeBacnetFrame(f) = {<<"bvlc", m.bvlc>>} \cup NpduFacts(f)
    BY <2>3, <2>4, <2>7 DEF DecodeBacnetFrame, NpduFacts
  <2>9. Stated(m) = {<<"bvlc", m.bvlc>>} \cup NpduStated(m)
    BY DEF Stated, NpduStated
  <2>10. "bvlc" \notin Named
    BY DEF Named
  <2> QED
    BY <2>6, <2>8, <2>9, <2>10 DEF Kept
<1> QED
  BY <1>8, <1>9 DEF Run

---------------------------------------------------------------------------
(* The theorems. *)

\* What is left of a datagram is a beginning of it.
FrameInv ==
  /\ whole \in Seq(Octet)
  /\ frame \in Seq(Octet)
  /\ Len(frame) <= Len(whole)
  /\ \A i \in 1 .. Len(frame) : frame[i] = whole[i]

\* What a cut leaves.
LEMMA Prefix ==
  ASSUME NEW s \in Seq(Octet), NEW n \in Nat, n <= Len(s)
  PROVE  /\ SubSeq(s, 1, n) \in Seq(Octet)
         /\ Len(SubSeq(s, 1, n)) = n
         /\ \A i \in 1 .. n : SubSeq(s, 1, n)[i] = s[i]
OBVIOUS

LEMMA Beginning == Spec => []FrameInv
<1>1. Init => FrameInv
  <2>1. \A m \in Messages : Encode(m) \in Seq(Octet)
    BY FrameAssumption, MessageRead
  <2> QED
    BY <2>1 DEF Init, FrameInv
<1>2. ASSUME FrameInv, [Next]_vars PROVE FrameInv'
  <2>1. CASE Garble
    <3>0. PICK octets \in Noise, i \in 0 .. Len(whole) - 1 :
            whole' = [k \in DOMAIN whole |-> IF k - i \in DOMAIN octets
                                             THEN octets[k - i] ELSE whole[k]]
      BY <2>1 DEF Garble
    <3>1. octets \in Seq(Octet)
      BY FrameAssumption
    <3>2. \A k \in 1 .. Len(whole) :
            (IF k - i \in DOMAIN octets THEN octets[k - i] ELSE whole[k]) \in Octet
      BY <3>1, <1>2 DEF FrameInv
    <3>3. whole' \in [1 .. Len(whole) -> Octet]
      BY <3>0, <3>2, <1>2 DEF FrameInv
    <3>4. whole' \in Seq(Octet)
      <4>1. Len(whole) \in Nat
        BY <1>2 DEF FrameInv
      <4> QED
        BY <3>3, <4>1
    <3>5. frame' = whole'
      BY <2>1 DEF Garble
    <3> QED
      BY <3>4, <3>5 DEF FrameInv
  <2>2. CASE Cut
    <3>1. /\ frame \in Seq(Octet) /\ frame # <<>>
          /\ frame' = SubSeq(frame, 1, Len(frame) - 1) /\ whole' = whole
      BY <2>2, <1>2 DEF Cut, FrameInv
    <3> DEFINE n == Len(frame) - 1
    <3>2. n \in Nat /\ n <= Len(frame) /\ n <= Len(whole)
      BY <3>1, <1>2 DEF FrameInv
    <3>3. /\ frame' \in Seq(Octet) /\ Len(frame') = n
          /\ \A i \in 1 .. n : frame'[i] = frame[i]
      <4> HIDE DEF n
      <4>1. frame' = SubSeq(frame, 1, n)
        BY <3>1 DEF n
      <4> QED
        BY <3>1, <3>2, <4>1, Prefix
    <3> QED
      BY <3>1, <3>2, <3>3, <1>2 DEF FrameInv
  <2>3. CASE UNCHANGED vars
    BY <2>3, <1>2 DEF FrameInv, vars
  <2> QED
    BY <1>2, <2>1, <2>2, <2>3 DEF Next, Gone
<1> QED
  BY <1>1, <1>2, PTL DEF Spec

\* Every field DecodedFrame shows fits the type it is kept in, of every frame that
\* can arrive: a 22-bit instance, a ten-bit object type, 16 bits of network number.
THEOREM TypeCorrect == Spec => []TypeOK
<1>1. Init => message \in Messages
  BY DEF Init
<1>2. message \in Messages /\ [Next]_vars => (message \in Messages)'
  BY DEF Next, Garble, Cut, Gone, vars
<1>3. ASSUME FrameInv, message \in Messages PROVE TypeOK
  <2>1. ASSUME NEW b \in Behind
        PROVE  InFields(DecodeBacnetFrame(View(frame, b)))
    <3>1. b \in Octet /\ frame \in Seq(Octet)
      BY <1>3, FrameAssumption DEF FrameInv
    <3> QED
      BY <3>1, ViewIsView, FrameWidth
  <2> QED
    BY <1>3, <2>1 DEF TypeOK, FrameInv, InFields
<1> QED
  BY <1>1, <1>2, <1>3, Beginning, PTL DEF Spec

\* DecodeBacnetFrame reports of a message that arrives as it was sent what the
\* message says, whatever its addresses, its services and the numbers in it are.
THEOREM ReadAsSent == Spec => []DecodesWhatWasSent
<1>1. Init => message \in Messages
  BY DEF Init
<1>2. message \in Messages /\ [Next]_vars => (message \in Messages)'
  BY DEF Next, Garble, Cut, Gone, vars
<1>3. ASSUME FrameInv, message \in Messages PROVE DecodesWhatWasSent
  <2> SUFFICES ASSUME frame = Encode(message), NEW b \in Behind
               PROVE  Stated(message)
                        = Kept(message.body.sequence,
                               DecodeBacnetFrame(View(frame, b)))
    BY DEF DecodesWhatWasSent, Kept, Named
  <2> DEFINE f == View(frame, b)
  <2>1. WellFormed(message)
    BY <1>3, FrameAssumption
  <2>2. frame \in Seq(Octet) /\ b \in Octet
    BY <1>3, FrameAssumption DEF FrameInv
  <2>3. IsView(f) /\ Size(f) = Len(frame) /\ Lies(f, 0, frame)
    BY <2>2, ViewIsView, LiesWhole
  <2> HIDE DEF f
  <2>4. Kept(message.body.sequence, DecodeBacnetFrame(f)) = Stated(message)
    BY <2>1, <2>3, MessageRead
  <2> QED
    BY <2>4 DEF f
<1> QED
  BY <1>1, <1>2, <1>3, Beginning, PTL DEF Spec

\* DecodeBacnetFrame never reports anything that lies behind the frame: whatever
\* the octets of a frame are and wherever it was cut.
THEOREM FrameOnly == Spec => []ReadsOnlyTheFrame
<1>1. ASSUME FrameInv PROVE ReadsOnlyTheFrame
  <2> SUFFICES ASSUME NEW a \in Behind, NEW b \in Behind
               PROVE  DecodeBacnetFrame(View(frame, a))
                        = DecodeBacnetFrame(View(frame, b))
    BY DEF ReadsOnlyTheFrame
  <2> DEFINE f == View(frame, a)
             g == View(frame, b)
  <2>1. a \in Octet /\ b \in Octet /\ frame \in Seq(Octet)
    BY <1>1, FrameAssumption DEF FrameInv
  <2>2. /\ IsView(f) /\ Size(f) = Len(frame)
        /\ IsView(g) /\ Size(g) = Len(frame)
    BY <2>1, ViewIsView
  <2>3. \A i \in Nat : i < Size(f) => At(f, i) = At(g, i)
    BY <2>2 DEF At, View
  <2>4. Extends(f, g) /\ Extends(g, f)
    BY <2>2, <2>3 DEF Extends, IsView
  <2> HIDE DEF f, g
  <2>5. DecodeBacnetFrame(f) \subseteq DecodeBacnetFrame(g)
    BY <2>2, <2>4, OneFrame
  <2>6. DecodeBacnetFrame(g) \subseteq DecodeBacnetFrame(f)
    BY <2>2, <2>4, OneFrame
  <2>7. DecodeBacnetFrame(f) = DecodeBacnetFrame(g)
    BY <2>5, <2>6
  <2> QED
    BY <2>7 DEF f, g
<1> QED
  BY <1>1, Beginning, PTL

\* SummarizeBacnetFrame says of a frame cut anywhere nothing the whole frame does
\* not say, except for a network message cut in its header.
THEOREM CutsOnlyLose == Spec => []CutOnlyLoses
<1>1. ASSUME FrameInv PROVE CutOnlyLoses
  <2> SUFFICES ASSUME NEW b \in Behind
               PROVE  LET cut == View(frame, b)
                      IN  \/ /\ IsBacnetIp(cut) /\ HasNpdu(cut)
                             /\ IsNetworkMessage(cut) /\ ~Reached(cut)
                          \/ SummarizeBacnetFrame(cut)
                               \subseteq DecodeBacnetFrame(View(whole, b))
    BY DEF CutOnlyLoses
  <2> DEFINE f == View(frame, b)
             g == View(whole, b)
  <2>1. b \in Octet /\ frame \in Seq(Octet) /\ whole \in Seq(Octet)
    BY <1>1, FrameAssumption DEF FrameInv
  <2>2. /\ IsView(f) /\ Size(f) = Len(frame)
        /\ IsView(g) /\ Size(g) = Len(whole)
    BY <2>1, ViewIsView
  <2>3. ASSUME NEW i \in Nat, i < Size(f) PROVE At(f, i) = At(g, i)
    <3>1. i < Size(g) /\ i + 1 \in 1 .. Len(frame)
      BY <1>1, <2>1, <2>2, <2>3 DEF FrameInv
    <3>2. At(f, i) = frame[i + 1] /\ At(g, i) = whole[i + 1]
      BY <2>3, <3>1 DEF At, View
    <3> QED
      BY <1>1, <3>1, <3>2 DEF FrameInv
  <2>4. Extends(f, g)
    BY <1>1, <2>2, <2>3 DEF Extends, FrameInv
  <2> HIDE DEF f, g
  <2>5. ~(IsBacnetIp(f) /\ HasNpdu(f) /\ IsNetworkMessage(f) /\ ~Reached(f)) =>
          SummarizeBacnetFrame(f) \subseteq DecodeBacnetFrame(g)
    BY <2>4, SummaryOfACut
  <2> QED
    BY <2>5 DEF f, g
<1> QED
  BY <1>1, Beginning, PTL

=============================================================================
