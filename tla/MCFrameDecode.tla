--------------------------- MODULE MCFrameDecode --------------------------
(* Messages for TLC: every shape of header with one request, and every shape
   of payload behind the plain and the routed header, and later segments. *)
EXTENDS FrameDecode

Pdu(pdu, segmented, code, reference) ==
  [pdu |-> pdu, segmented |-> segmented, sequence |-> 0, invoke |-> 9,
   code |-> code, reference |-> reference]

Later(body) == [body EXCEPT !.sequence = 1]

\* Analog Input 1 and an object with bits on both sides of the 22.
Wide == [type |-> 129, instance |-> 70000, property |-> 512, index |-> None]

References ==
  {None, Wide}
  \cup [type : {0}, instance : {1}, property : {85}, index : {None, 3}]

ReadProperty == Pdu(0, FALSE, 12, [type |-> 8, instance |-> 389001,
                                   property |-> 77, index |-> None])

Plain  == None
Routed == [net |-> 300, address |-> <<7>>]

Specifiers == {Plain, Routed, [net |-> 65535, address |-> <<>>]}

Bodies ==
  {Pdu(NetworkLayer, FALSE, type, None) : type \in {0, 1, 18, 19}}
  \cup {Pdu(pdu, s, 12, r) : pdu \in {0, 3}, s \in BOOLEAN,
                             r \in References}
  \cup {Pdu(0, FALSE, 15, r) : r \in References}
  \cup {Pdu(pdu, FALSE, 8, None) : pdu \in {1, 2, 5, 6, 7}}
  \cup {Pdu(4, FALSE, 0, None), Pdu(0, FALSE, 14, None)}

\* Behind a routed header one reference stands for them all.
RoutedBodies == {body \in Bodies : body.reference \in {None, Wide}}

Message(bvlc, destination, source, body) ==
  [bvlc |-> bvlc, destination |-> destination, source |-> source, body |-> body]

LaterSegments == {Later(Pdu(pdu, TRUE, 12, r)) : pdu \in {0, 3}, r \in References}

MCMessages ==
  {Message(10, d, s, ReadProperty) : d \in Specifiers, s \in Specifiers}
  \cup {Message(bvlc, d, s, ReadProperty) : bvlc \in {4, 11}, d \in {Plain, Routed},
                                            s \in {Plain, Routed}}
  \cup {Message(10, Plain, Plain, body) : body \in Bodies}
  \cup {Message(10, Routed, Plain, body) : body \in RoutedBodies}
  \cup {Message(10, Plain, Plain, body) : body \in LaterSegments}

\* Among them a context tag 0 of length 4 with its length in 16 and in 32 bits.
MCNoise  == {<<254>>, <<255>>, <<13, 254, 0, 4>>, <<13, 255, 0, 0, 0, 4>>}
MCBehind == {13, 255}

=============================================================================
