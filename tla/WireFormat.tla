----------------------------- MODULE WireFormat -----------------------------
(***************************************************************************)
(* The lengths of packets: what one side encodes (protocol.go), seals      *)
(* (session.go) and sends, the other side reads, opens and decodes.  Every *)
(* layer checks lengths of its own, against limits that are computed from  *)
(* each other.  (ClientTransfer takes for granted that packets pass.)      *)
(*                                                                         *)
(* A packet p is its type, the length of its one field of variable length  *)
(* (signature, path, data or message), and whether that is valid UTF-8.    *)
(***************************************************************************)
EXTENDS Naturals

CONSTANT MaxField   \* bound: the longest field that is tried

MaxDatagramSize == 1232
ChunkSize == 1120
HeaderSize == 22
Sequence == 8
Tag == 16
MaxInnerSize == MaxDatagramSize - HeaderSize - Sequence - Tag
MaxRequestPath == 1024
MaxSignature == 512

ASSUME WireFormatAssumption == MaxField \in Nat /\ MaxField > MaxDatagramSize

Hellos == {"ClientHello", "ServerHello"}
Inner == {"Request", "Meta", "Get", "Data", "Error", "Done"}

\* What EncodeX puts before the field, or instead of it.
Fixed == [ClientHello |-> 96, ServerHello |-> 66, Request |-> 0, Meta |-> 46,
          Get |-> 4, Data |-> 4, Error |-> 0, Done |-> 0]

HasField == {"ServerHello", "Request", "Data", "Error"}

-----------------------------------------------------------------------------
(* The sender. *)

\* Mutant: the header of the packet in the packet is forgotten.
LongestMessageNoHeader == MaxInnerSize

LongestMessage == MaxInnerSize - HeaderSize

Smaller(a, b) == IF a < b THEN a ELSE b

\* An empty message is replaced, a long one cut.
Carried(p) ==
  IF p.type # "Error" THEN p.field
  ELSE IF p.field = 0 THEN 20
  ELSE Smaller(p.field, LongestMessage)

Payload(p) == Fixed[p.type] + (IF p.type \in HasField THEN Carried(p) ELSE 0)

Encodable(p) ==
  /\ p.type = "ServerHello" => p.field \in 1..MaxSignature
  /\ p.type = "Request" => p.field \in 1..MaxRequestPath /\ p.utf8
  /\ p.type = "Data" => p.field <= ChunkSize
  /\ HeaderSize + Payload(p) <= MaxDatagramSize

Encode(p) == HeaderSize + Payload(p)

\* EncodeSecure puts the sealed packet into another one.
Sealed(length) == HeaderSize + Sequence + length + Tag

Sealable(length) == length <= MaxInnerSize /\ Sealed(length) <= MaxDatagramSize

-----------------------------------------------------------------------------
(* The receiver. *)

ValidLength(length) == length \in HeaderSize..MaxDatagramSize

\* Serve and readPacket read into a buffer of one byte more than a datagram
\* may have.
Read(length) == Smaller(length, MaxDatagramSize + 1)

\* DecodeSecure and Session.Open.
Opened(length) == length - (HeaderSize + Sequence + Tag)

Openable(length) == length >= HeaderSize + Sequence + Tag

\* What DecodeX demands of the payload.
Decodable(p, payload) ==
  CASE p.type = "ServerHello" -> payload >= 67 /\ payload - 66 <= MaxSignature
    [] p.type = "Request" -> payload \in 1..MaxRequestPath /\ p.utf8
    [] p.type = "Data" -> payload >= 4 /\ payload - 4 <= ChunkSize
    [] p.type = "Error" -> TRUE
    [] OTHER -> payload = Fixed[p.type]

\* Every layer of the receiver takes a packet of this length, of which n bytes
\* are left when the layers below are done.
Arrives(p, datagram, n) ==
  /\ ValidLength(datagram)
  /\ p.type \in Inner => Openable(datagram)
  /\ ValidLength(n)
  /\ Decodable(p, n - HeaderSize)

-----------------------------------------------------------------------------

\* The packets that the program wants to send: a signature of an RSA key of
\* 2048 to 4096 bits, any path of the user, chunks, any error message.
Fields(type) ==
  CASE type = "ServerHello" -> 256..512
    [] type = "Data" -> 0..ChunkSize
    [] type \in {"Request", "Error"} -> 0..MaxField
    [] OTHER -> {0}

Packets ==
  UNION {[type : {t}, field : Fields(t), utf8 : IF t = "Request" THEN BOOLEAN ELSE {TRUE}]
           : t \in Hellos \union Inner}

Datagram(p) == Read(IF p.type \in Inner THEN Sealed(Encode(p)) ELSE Encode(p))

Left(p) == IF p.type \in Inner THEN Opened(Datagram(p)) ELSE Datagram(p)

AllArrive ==
  \A p \in Packets : Encodable(p) =>
    /\ p.type \in Inner => Sealable(Encode(p))
    /\ Arrives(p, Datagram(p), Left(p))

\* The message the receiver decodes has the length of the one encoded, but for
\* error texts that were empty or cut.
AllPreserved ==
  \A p \in Packets :
    /\ Encodable(p)
    /\ p.type \in HasField
    /\ p.type = "Error" => p.field \in 1..LongestMessage
    => Left(p) = HeaderSize + Fixed[p.type] + p.field

OnlyPathsRefused ==
  \A p \in Packets : ~Encodable(p) =>
    p.type = "Request" /\ ~(p.field \in 1..MaxRequestPath /\ p.utf8)

\* Nothing that the program sends is lost to a limit of a layer below or of
\* the other side: only paths that are empty, too long or not UTF-8 are
\* refused, at once and with an error; everything else arrives with its
\* length, or as the beginning of a long message.
EncodedIsDecoded ==
  /\ []OnlyPathsRefused
  /\ [](AllArrive /\ AllPreserved)
=============================================================================
