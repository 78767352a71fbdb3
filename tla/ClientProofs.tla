---------------------------- MODULE ClientProofs ----------------------------
(***************************************************************************)
(* What the download client guarantees for archives, windows, packets and  *)
(* trees of every size.  The transfer: it writes what it was promised, in  *)
(* order, whatever the network does (module ClientTransfer), and           *)
(* implements module FileTransfer.  The calculations that the transfer     *)
(* takes for granted: both sides agree on chunks, and no packet is too     *)
(* long (TransferArithmetic, WireFormat).  The directory that is made of   *)
(* the archive (DirectoryRestore).                                         *)
(***************************************************************************)
EXTENDS ClientTransfer, TransferArithmetic, WireFormat, DirectoryRestore,
        SequenceTheorems, WellFoundedInduction, TLAPS

-----------------------------------------------------------------------------
(* The transfer. *)

\* Nothing is written or requested before the metadata are there.
Untouched ==
    phase \in {"handshake", "request"} =>
        nextWrite = 0 /\ nextRequest = 0 /\ buffered = {}

\* While chunks are received one is missing, and the window starts with it.
Receiving ==
    phase = "chunks" =>
        /\ nextWrite < Chunks
        /\ nextRequest = WindowEnd(nextWrite)
        /\ Received \subseteq nextWrite + 1 .. nextRequest - 1
        /\ \A c, d \in buffered : c.index = d.index => c = d

IInv == TypeOK /\ WrittenInOrder /\ Untouched /\ Receiving /\ ReleasedWhenVerified

-----------------------------------------------------------------------------
\* A set of natural numbers that is not empty has a least element.
LEMMA LeastElement ==
    ASSUME NEW T \in SUBSET Nat, T # {}
    PROVE  \E n \in T : \A m \in T : n <= m
<1> DEFINE R == OpToRel(<, Nat)
<1>1. \E n \in T : \A m \in T : <<m, n>> \notin R
  <2>1. IsWellFoundedOn(R, Nat)
    BY NatLessThanWellFounded
  <2> HIDE DEF R
  <2>2. QED
    BY <2>1, WFMin
<1>2. \A n, m \in Nat : <<m, n>> \notin R => n <= m
  BY DEF OpToRel
<1> HIDE DEF R
<1>3. PICK n \in T : \A m \in T : <<m, n>> \notin R
  BY <1>1
<1>4. \A m \in T : n <= m
  BY <1>2, <1>3
<1>5. QED
  BY <1>4

\* Induction, for a set instead of a property.
LEMMA Induction ==
    ASSUME NEW S, 0 \in S, \A k \in Nat : k \in S => k + 1 \in S
    PROVE  Nat \subseteq S
<1> DEFINE T == Nat \ S
<1>1. SUFFICES ASSUME T # {} PROVE FALSE
  OBVIOUS
<1>2. PICK n \in T : \A m \in T : n <= m
  BY <1>1, LeastElement
<1>3. n \in Nat /\ n \notin S
  OBVIOUS
<1>4. n - 1 \in Nat
  BY <1>3
<1>5. n - 1 \in S
  <2>1. SUFFICES ASSUME n - 1 \notin S PROVE FALSE
    OBVIOUS
  <2>2. n <= n - 1
    BY <1>2, <1>4, <2>1
  <2>3. QED
    BY <1>3, <2>2
<1>6. (n - 1) + 1 \in S
  BY <1>4, <1>5
<1>7. QED
  BY <1>3, <1>6

\* A sequence that agrees with a shorter one begins with it.
LEMMA Prefix ==
    ASSUME NEW S, NEW short \in Seq(S), NEW long \in Seq(S),
           Len(short) <= Len(long), \A i \in 1 .. Len(short) : long[i] = short[i]
    PROVE  SubSeq(long, 1, Len(short)) = short
<1> DEFINE sub == SubSeq(long, 1, Len(short))
<1>1. Len(short) \in Nat /\ Len(long) \in Nat
  BY LenProperties
<1>2. \A i \in 1 .. Len(short) : long[i] \in S
  <2> SUFFICES ASSUME NEW i \in 1 .. Len(short)
               PROVE  long[i] \in S
    OBVIOUS
  <2>1. i \in 1 .. Len(long)
    BY <1>1
  <2>2. QED
    BY <2>1, ElementOfSeq
<1>3. /\ sub \in Seq(S)
      /\ Len(sub) = IF 1 <= Len(short) THEN Len(short) - 1 + 1 ELSE 0
      /\ \A i \in 1 .. Len(short) - 1 + 1 : sub[i] = long[1 + i - 1]
  BY <1>1, <1>2, SubSeqProperties
<1> HIDE DEF sub
<1>4. Len(sub) = Len(short) /\ \A i \in 1 .. Len(sub) : sub[i] = short[i]
  BY <1>1, <1>3
<1>5. sub = short
  BY <1>3, <1>4, SeqEqual
<1>6. QED
  BY <1>5 DEF sub

\* The constants and the counters, apart.
LEMMA Numbers ==
    ASSUME TypeOK
    PROVE  /\ Chunks \in Nat /\ Window \in Nat /\ Window >= 1
           /\ nextWrite \in Nat /\ nextWrite <= Chunks
           /\ nextRequest \in Nat /\ nextRequest <= Chunks
           /\ InactivityTimeout \in Nat /\ idle \in Nat /\ idle <= InactivityTimeout
<1>1. Chunks \in Nat /\ Window \in Nat \ {0} /\ InactivityTimeout \in Nat \ {0}
  BY ClientAssumption
<1>2. nextWrite \in 0 .. Chunks /\ nextRequest \in 0 .. Chunks /\ idle \in 0 .. InactivityTimeout
  BY DEF TypeOK
<1>3. QED
  BY <1>1, <1>2

\* The window ends within the archive, and moves on with its first chunk.
LEMMA WindowMoves ==
    ASSUME TypeOK, NEW first \in nextWrite .. Chunks
    PROVE  /\ WindowEnd(first) \in 0 .. Chunks
           /\ WindowEnd(first) >= first /\ WindowEnd(first) >= WindowEnd(nextWrite)
           /\ first < Chunks => WindowEnd(first) > first
  BY Numbers DEF WindowEnd, AtMost

\* What the search for the first chunk that did not arrive finds.
LEMMA FirstMissingFound ==
    ASSUME TypeOK, NEW arrived \in SUBSET Indexes
    PROVE  /\ FirstMissing(arrived) \in nextWrite .. Chunks
           /\ \A m \in nextWrite .. FirstMissing(arrived) - 1 : m \in arrived
           /\ FirstMissing(arrived) \notin arrived
<1> DEFINE T == (nextWrite .. Chunks) \ arrived
<1>1. T \in SUBSET Nat /\ T \in SUBSET (nextWrite .. Chunks)
  BY Numbers
<1>2. Chunks \in T
  BY Numbers DEF Indexes
<1>3. PICK n \in T : \A m \in T : n <= m
  BY <1>1, <1>2, LeastElement
<1>4. \A m \in nextWrite .. n - 1 : m \in arrived
  <2> SUFFICES ASSUME NEW m \in nextWrite .. n - 1, m \notin arrived
               PROVE  FALSE
    OBVIOUS
  <2>1. m \in nextWrite .. Chunks /\ ~ (n <= m)
    BY <1>1, Numbers
  <2>2. QED
    BY <1>3, <2>1
<1>5. n \in nextWrite .. Chunks /\ n \notin arrived
  BY <1>3
<1>6. QED
  BY <1>4, <1>5 DEF FirstMissing

\* The chunks before end are there: they are appended in order, and what was
\* written stays.
LEMMA Writes ==
    ASSUME TypeOK, WrittenInOrder, NEW chunks \in SUBSET Chunk,
           NEW end \in nextWrite .. Chunks,
           \A m \in nextWrite .. end - 1 : \E c \in chunks : c.index = m,
           WriteUpTo(end, chunks)
    PROVE  /\ nextWrite' \in 0 .. Chunks /\ nextWrite' = end
           /\ written' \in Seq(Chunk)
           /\ WrittenInOrder'
           /\ SubSeq(written', 1, Len(written)) = written
           /\ buffered' = {c \in chunks : c.index >= end}
<1> DEFINE new == [k \in 1 .. end - nextWrite |->
                      CHOOSE c \in chunks : c.index = nextWrite + k - 1]
<1>1. end \in Nat /\ end - nextWrite \in Nat /\ nextWrite \in Nat /\ end <= Chunks
  BY Numbers
<1>2. written \in Seq(Chunk) /\ Len(written) = nextWrite
      /\ \A i \in 1 .. nextWrite : written[i].index = i - 1
  BY DEF TypeOK, WrittenInOrder
<1>3. ASSUME NEW k \in 1 .. end - nextWrite
      PROVE  new[k] \in chunks /\ new[k].index = nextWrite + k - 1
  <2>1. nextWrite + k - 1 \in nextWrite .. end - 1
    BY <1>1
  <2>2. PICK c \in chunks : c.index = nextWrite + k - 1
    BY <2>1
  <2>3. QED
    BY <2>2
<1>4. new \in Seq(Chunk) /\ Len(new) = end - nextWrite
  <2>1. new \in [1 .. end - nextWrite -> Chunk]
    BY <1>3
  <2> HIDE DEF new
  <2>2. QED
    BY <1>1, <2>1, SeqDef
<1>5. written' = written \o new /\ nextWrite' = end
      /\ buffered' = {c \in chunks : c.index >= end}
  BY DEF WriteUpTo
<1> HIDE DEF new
<1>6. /\ written' \in Seq(Chunk)
      /\ Len(written') = nextWrite + (end - nextWrite)
      /\ \A i \in 1 .. nextWrite + (end - nextWrite) :
            written'[i] = IF i <= nextWrite THEN written[i] ELSE new[i - nextWrite]
  <2>1. /\ written \o new \in Seq(Chunk)
        /\ Len(written \o new) = Len(written) + Len(new)
        /\ \A i \in 1 .. Len(written) + Len(new) :
              (written \o new)[i] = IF i <= Len(written) THEN written[i]
                                    ELSE new[i - Len(written)]
    BY <1>2, <1>4, ConcatProperties
  <2>2. Len(written) = nextWrite /\ Len(new) = end - nextWrite
    BY <1>2, <1>4
  <2>3. QED
    BY <1>5, <2>1, <2>2
<1>7. Len(written') = end
  BY <1>1, <1>6
<1>8. \A i \in 1 .. nextWrite : written'[i] = written[i]
  BY <1>1, <1>6
<1>9. SubSeq(written', 1, Len(written)) = written
  <2>1. Len(written) <= Len(written')
    BY <1>1, <1>2, <1>7
  <2>2. QED
    BY <1>2, <1>6, <1>8, <2>1, Prefix
<1>10. ASSUME NEW i \in 1 .. end
       PROVE  written'[i].index = i - 1
  <2>1. CASE i <= nextWrite
    BY <1>1, <1>2, <1>8, <2>1
  <2>2. CASE i > nextWrite
    <3>1. i - nextWrite \in 1 .. end - nextWrite
      BY <1>1, <2>2
    <3>2. written'[i] = new[i - nextWrite]
      BY <1>1, <1>6, <2>2
    <3>3. new[i - nextWrite].index = nextWrite + (i - nextWrite) - 1
      BY <1>3, <3>1
    <3>4. QED
      BY <1>1, <3>2, <3>3
  <2>3. QED
    BY <1>1, <2>1, <2>2
<1>11. WrittenInOrder'
  BY <1>5, <1>7, <1>10 DEF WrittenInOrder
<1>12. nextWrite' \in 0 .. Chunks
  BY <1>1, <1>5, Numbers
<1>13. QED
  BY <1>5, <1>6, <1>9, <1>11, <1>12

-----------------------------------------------------------------------------
\* A step that writes nothing: the exchange goes on, gives up, or is the last.
Quiet ==
    /\ UNCHANGED <<nextWrite, nextRequest, buffered, written>>
    /\ \/ phase' = phase
       \/ Active /\ phase' = "failure"
       \/ phase = "handshake" /\ phase' = "request"
       \/ phase = "finish" /\ phase' = "success"
    /\ Request("Done") \in toServer' \ toServer => phase = "finish"
    /\ \A i \in Indexes : Get(i) \in toServer' \ toServer => i \in Missing

\* The datagrams of both sides.
LEMMA DatagramsTyped ==
    /\ \A type \in {"ClientHello", "Request", "Done"} : Request(type) \in Requests
    /\ \A i \in Indexes : Get(i) \in Requests
    /\ \A type \in {"ServerHello", "Meta", "Error", "Done"} : Answer(type) \in Answers
    /\ \A i \in Indexes, c \in Contents : Data(i, c) \in Answers
    /\ \A i \in Indexes, type \in {"ClientHello", "Request", "Done"} : Get(i) # Request(type)
    /\ \A i, j \in Indexes : Get(i) = Get(j) => i = j
<1>1. /\ \A type \in {"ClientHello", "Request", "Done"} : Request(type) \in Requests
      /\ \A i \in Indexes : Get(i) \in Requests
  BY DEF Request, Requests, Get
<1>2. /\ \A type \in {"ServerHello", "Meta", "Error", "Done"} : Answer(type) \in Answers
      /\ \A i \in Indexes, c \in Contents : Data(i, c) \in Answers
  <2>1. \A type \in {"ServerHello", "Meta", "Error", "Done"} : Answer(type) \in Answers
    BY DEF Answer, Answers
  <2>2. ASSUME NEW i \in Indexes, NEW c \in Contents
        PROVE  Data(i, c) \in {Data(j, d) : j \in Indexes, d \in Contents}
    OBVIOUS
  <2>3. QED
    BY <2>1, <2>2 DEF Answers
<1>3. ASSUME NEW i \in Indexes, NEW type \in {"ClientHello", "Request", "Done"}
      PROVE  Get(i) # Request(type)
  <2>1. Get(i).type = "Get" /\ Request(type).type = type
    BY DEF Get, Request
  <2>2. QED
    BY <2>1
<1>4. \A i \in Indexes : Get(i).index = i
  BY DEF Get
<1>5. QED
  BY <1>1, <1>2, <1>3, <1>4

\* The chunks of the window that are missing are chunks.
LEMMA MissingTyped ==
    ASSUME TypeOK
    PROVE  Missing \subseteq Indexes
  BY Numbers DEF Missing, Indexes

\* The client, where it writes nothing.
LEMMA ClientQuiet ==
    ASSUME IInv,
           \/ Begin \/ CompletionExpires \/ ReadTimeout \/ SocketFails
           \/ ReceiveServerHello \/ ReceiveError \/ ReceiveDone
           \/ \E answer \in Answers : ReceiveOther(answer)
           \/ IgnoreDatagram \/ Tick \/ Cancel
    PROVE  TypeOK' /\ Quiet
<1> USE DEF IInv
<1>1. 0 \in 0 .. InactivityTimeout
  BY Numbers
<1>2. CASE Begin
  <2>1. toServer' = toServer \/ toServer' = toServer \cup Attempt[phase]
    BY <1>2 DEF Begin
  <2>2. /\ phase \in Exchanges /\ Attempt[phase] \subseteq Requests
        /\ \A i \in Indexes : Get(i) \notin Attempt[phase]
        /\ Request("Done") \in Attempt[phase] => phase = "finish"
    <3>1. phase \in Exchanges
      BY <1>2 DEF Begin, Active
    <3>2. Request("Done") # Request("ClientHello") /\ Request("Done") # Request("Request")
      BY DEF Request
    <3>3. QED
      BY <3>1, <3>2, DatagramsTyped DEF Exchanges, Attempt
  <2>3. QED
    BY <1>2, <2>1, <2>2 DEF Begin, Abandon, TypeOK, Quiet, Exchanges, Active
<1>3. CASE ReadTimeout
  <2>1. \/ toServer' = toServer
        \/ toServer' = toServer \cup {Get(i) : i \in Missing}
    BY <1>3 DEF ReadTimeout
  <2>2. {Get(i) : i \in Missing} \subseteq Requests
    BY MissingTyped, DatagramsTyped
  <2>3. TypeOK'
    BY <1>3, <2>1, <2>2 DEF ReadTimeout, TypeOK
  <2>4. /\ Request("Done") \notin {Get(i) : i \in Missing}
        /\ \A i \in Indexes : Get(i) \in {Get(j) : j \in Missing} => i \in Missing
    BY MissingTyped, DatagramsTyped
  <2>5. QED
    BY <1>3, <2>1, <2>3, <2>4 DEF ReadTimeout, Quiet
<1>4. CASE Tick
  <2>1. idle' \in 0 .. InactivityTimeout
    BY <1>4, Numbers DEF Tick
  <2>2. QED
    BY <1>4, <2>1 DEF Tick, TypeOK, Quiet
<1>5. CASE \/ CompletionExpires \/ SocketFails
           \/ ReceiveServerHello \/ ReceiveError \/ ReceiveDone
           \/ \E answer \in Answers : ReceiveOther(answer)
  <2>1. TypeOK'
    BY <1>1, <1>5
       DEF CompletionExpires, SocketFails, ReceiveServerHello, ReceiveError, ReceiveDone,
           ReceiveOther, Reads, ReadOn, NoProgress, Abandon, TypeOK, Exchanges
  <2>2. Quiet
    BY <1>5
       DEF CompletionExpires, SocketFails, ReceiveServerHello, ReceiveError, ReceiveDone,
           ReceiveOther, Reads, ReadOn, NoProgress, Abandon, Quiet, Active, Exchanges
  <2>3. QED
    BY <2>1, <2>2
<1>6. CASE IgnoreDatagram \/ Cancel
  BY <1>6 DEF IgnoreDatagram, Cancel, ReadOn, NoProgress, clientVars, TypeOK, Quiet
<1>7. QED
  BY <1>2, <1>3, <1>4, <1>5, <1>6

\* The network and the server.
LEMMA EnvironmentQuiet ==
    ASSUME IInv, Lose \/ Handle \/ Prepared \/ Expire
    PROVE  TypeOK' /\ Quiet
<1> USE DEF IInv, Handles, Replies, clientVars
<1>1. UNCHANGED <<phase, pc, nextWrite, nextRequest, buffered, written, idle, cancelled, fault>>
  BY DEF Lose, Handle, HandleClientHello, HandleRequest, HandleGet, HandleDone, Prepared, Expire
<1>2. toServer' \subseteq toServer
  BY DEF Lose, Handle, HandleClientHello, HandleRequest, HandleGet, HandleDone, Prepared, Expire
<1>3. toClient' \subseteq Answers
  <2>1. toClient \subseteq Answers
    BY DEF TypeOK
  <2>2. /\ Answer("ServerHello") \in Answers /\ Answer("Meta") \in Answers
        /\ Answer("Error") \in Answers /\ Answer("Done") \in Answers
        /\ \A i \in Indexes : Data(i, "right") \in Answers /\ Data(i, "altered") \in Answers
    BY DatagramsTyped DEF Contents
  <2>3. QED
    BY <2>1, <2>2
       DEF Lose, Handle, HandleClientHello, HandleRequest, HandleGet, HandleDone, Prepared, Expire
<1>4. session' \in {"none", "accepted", "preparing", "published", "closed", "expired"}
  BY DEF Lose, Handle, HandleClientHello, HandleRequest, HandleGet, HandleDone, Prepared, Expire,
         TypeOK
<1>5. TypeOK'
  BY <1>1, <1>2, <1>3, <1>4 DEF TypeOK
<1>6. QED
  BY <1>1, <1>2, <1>5 DEF Quiet

\* What is written stays, and what was to be requested stays missing.
LEMMA QuietIInv ==
    ASSUME IInv, TypeOK', Quiet
    PROVE  IInv'
<1> USE DEF IInv, Quiet
<1>1. WrittenInOrder'
  BY DEF WrittenInOrder
<1>2. Untouched' /\ Receiving'
  BY DEF Untouched, Receiving, Received, WindowEnd, AtMost
<1>3. ReleasedWhenVerified'
  BY DEF ReleasedWhenVerified, ChecksumMatches
<1>4. QED
  BY <1>1, <1>2, <1>3

\* The requests for a part of the window are for chunks of the archive.
LEMMA FillTyped ==
    ASSUME TypeOK, NEW first \in nextWrite .. Chunks, FillWindow(first)
    PROVE  /\ nextRequest' = WindowEnd(first)
           /\ nextRequest' \in 0 .. Chunks
           /\ toServer' \subseteq Requests
           /\ Request("Done") \in toServer' => Request("Done") \in toServer
           /\ \A i \in Indexes : Get(i) \in toServer' \ toServer => i >= nextRequest
<1> DEFINE I == nextRequest .. WindowEnd(first) - 1
<1>1. nextRequest' = WindowEnd(first) /\ toServer' = toServer \cup {Get(i) : i \in I}
  BY DEF FillWindow
<1>2. WindowEnd(first) \in 0 .. Chunks
  BY WindowMoves
<1>3. I \subseteq Indexes /\ \A i \in I : i >= nextRequest
  BY <1>2, Numbers DEF Indexes
<1> HIDE DEF I
<1>4. /\ {Get(i) : i \in I} \subseteq Requests
      /\ Request("Done") \notin {Get(i) : i \in I}
      /\ \A i \in Indexes : Get(i) \in {Get(j) : j \in I} => i \in I
  BY <1>3, DatagramsTyped
<1>5. toServer \subseteq Requests
  BY DEF TypeOK
<1>6. QED
  BY <1>1, <1>2, <1>3, <1>4, <1>5

\* Nothing was written: the metadata are received.
LEMMA MetaIInv ==
    ASSUME IInv, ReceiveMeta
    PROVE  /\ IInv'
           /\ UNCHANGED written
           /\ phase = "request" /\ phase' \in {"chunks", "finish", "failure"}
           /\ \A i \in Indexes : Get(i) \in toServer' \ toServer =>
                 i >= nextWrite /\ i \notin Received
<1> USE DEF IInv
<1>1. 0 \in 0 .. InactivityTimeout /\ Chunks \in Nat /\ 0 \in nextWrite .. Chunks
  BY Numbers DEF ReceiveMeta, Untouched
<1>2. /\ phase = "request" /\ idle' = 0 /\ pc' \in {pc, "begin"}
      /\ UNCHANGED <<nextWrite, buffered, written, cancelled, session, fault>>
      /\ toClient' \subseteq toClient
  BY DEF ReceiveMeta, Reads
<1>3. nextWrite = 0 /\ nextRequest = 0 /\ buffered = {} /\ Received = {} /\ Len(written) = 0
  BY <1>2 DEF Untouched, WrittenInOrder, Received
<1>4. WrittenInOrder'
  BY <1>2 DEF WrittenInOrder
<1>5. CASE fault = "size"
  <2>1. phase' = "failure" /\ UNCHANGED <<nextRequest, toServer>>
    BY <1>5 DEF ReceiveMeta
  <2>2. TypeOK'
    BY <1>1, <1>2, <2>1 DEF TypeOK
  <2>3. ReleasedWhenVerified'
    BY <1>2, <2>1 DEF ReleasedWhenVerified, ChecksumMatches
  <2>4. QED
    BY <1>2, <1>4, <2>1, <2>2, <2>3 DEF Untouched, Receiving
<1>6. CASE AfterChunks(written) /\ FillWindow(0)
  <2>1. /\ nextRequest' = WindowEnd(0) /\ nextRequest' \in 0 .. Chunks
        /\ toServer' \subseteq Requests
        /\ Request("Done") \in toServer' => Request("Done") \in toServer
        /\ \A i \in Indexes : Get(i) \in toServer' \ toServer => i >= nextRequest
    BY <1>1, <1>6, FillTyped
  <2>2. phase' \in {"chunks", "finish", "failure"}
    BY <1>6 DEF AfterChunks
  <2>3. phase' = "chunks" => Len(written) < Chunks
    BY <1>6 DEF AfterChunks
  <2>4. phase' \in {"finish", "success"} => Len(written) = Chunks /\ ChecksumMatches(written)
    BY <1>1, <1>3, <1>6 DEF AfterChunks
  <2>5. TypeOK'
    BY <1>1, <1>2, <2>1, <2>2 DEF TypeOK, Exchanges
  <2>6. Untouched'
    BY <2>2 DEF Untouched
  <2>7. Receiving'
    <3>1. Received' = {}
      BY <1>2, <1>3 DEF Received
    <3>2. WindowEnd(0)' = WindowEnd(0) /\ nextWrite' = 0 /\ buffered' = {}
      BY <1>2, <1>3 DEF WindowEnd, AtMost
    <3>3. QED
      BY <1>3, <2>1, <2>3, <3>1, <3>2 DEF Receiving
  <2>8. ReleasedWhenVerified'
    BY <1>2, <2>1, <2>4 DEF ReleasedWhenVerified, ChecksumMatches
  <2>9. QED
    BY <1>2, <1>3, <1>4, <2>1, <2>2, <2>5, <2>6, <2>7, <2>8
<1>7. QED
  BY <1>5, <1>6 DEF ReceiveMeta

\* A chunk arrives that is wanted: it is written with those that waited for it,
\* or it waits.
LEMMA DataIInv ==
    ASSUME IInv, NEW chunk \in Chunk, ReceiveData(chunk), Wanted(chunk.index)
    PROVE  /\ IInv'
           /\ phase = "chunks" /\ phase' \in {"chunks", "finish", "failure"}
           /\ SubSeq(written', 1, Len(written)) = written
           /\ nextWrite <= nextWrite'
           /\ \A i \in Indexes : Get(i) \in toServer' \ toServer =>
                 i >= nextWrite /\ i \notin Received
<1> USE DEF IInv
<1> DEFINE chunks == buffered \cup {chunk}
           arrived == Received \cup {chunk.index}
           end == FirstMissing(arrived)
<1>1. /\ phase = "chunks" /\ idle' = 0 /\ AcceptData(chunk)
      /\ UNCHANGED <<cancelled, session, fault>>
      /\ toClient' \subseteq toClient
  BY DEF ReceiveData, Reads
<1>2. 0 \in 0 .. InactivityTimeout /\ nextWrite \in Nat /\ nextRequest \in Nat /\ Chunks \in Nat
      /\ nextRequest <= Chunks /\ nextWrite <= Chunks
  BY Numbers
<1>3. /\ nextWrite < Chunks /\ nextRequest = WindowEnd(nextWrite)
      /\ Received \subseteq nextWrite + 1 .. nextRequest - 1
      /\ \A c, d \in buffered : c.index = d.index => c = d
  BY <1>1 DEF Receiving
<1>4. /\ chunk.index \in nextWrite .. nextRequest - 1 /\ chunk.index \in Indexes
      /\ chunk.index \notin Received
  <2>1. chunk.index \in Indexes
    BY DEF Chunk
  <2>2. chunk.index \in Int
    BY <1>2, <2>1 DEF Indexes
  <2>3. nextWrite <= chunk.index /\ chunk.index < nextRequest /\ chunk.index \notin Received
    BY DEF Wanted
  <2>4. QED
    BY <1>2, <2>1, <2>2, <2>3
<1>5. chunks \in SUBSET Chunk /\ arrived = {c.index : c \in chunks}
      /\ arrived \in SUBSET Indexes /\ arrived \in SUBSET (nextWrite .. nextRequest - 1)
  <2>1. buffered \subseteq Chunk
    BY DEF TypeOK
  <2>2. arrived = {c.index : c \in chunks}
    BY DEF Received
  <2>3. \A c \in Chunk : c.index \in Indexes
    BY DEF Chunk
  <2>4. arrived \in SUBSET (nextWrite .. nextRequest - 1)
    <3>1. nextWrite + 1 .. nextRequest - 1 \subseteq nextWrite .. nextRequest - 1
      BY <1>2
    <3>2. QED
      BY <1>3, <1>4, <3>1
  <2>5. QED
    BY <2>1, <2>2, <2>3, <2>4
<1>6. /\ end \in nextWrite .. Chunks
      /\ \A m \in nextWrite .. end - 1 : m \in arrived
      /\ end \notin arrived
  BY <1>5, FirstMissingFound
<1>7. \A c, d \in chunks : c.index = d.index => c = d
  BY <1>3, <1>4 DEF Received
<1>8. Request("Done") \notin toServer
  <2>1. Len(written) < Chunks
    BY <1>3 DEF WrittenInOrder
  <2>2. QED
    BY <1>2, <2>1 DEF ReleasedWhenVerified, WrittenInOrder
<1> HIDE DEF chunks, arrived, end
<1>9. ASSUME NEW last \in nextWrite .. Chunks, last <= end, WriteUpTo(last, chunks)
      PROVE  /\ nextWrite' \in 0 .. Chunks /\ nextWrite' = last
             /\ written' \in Seq(Chunk)
             /\ WrittenInOrder'
             /\ SubSeq(written', 1, Len(written)) = written
             /\ buffered' = {c \in chunks : c.index >= last}
  <2>1. \A m \in nextWrite .. last - 1 : \E c \in chunks : c.index = m
    <3> SUFFICES ASSUME NEW m \in nextWrite .. last - 1
                 PROVE  \E c \in chunks : c.index = m
      OBVIOUS
    <3>1. m \in nextWrite .. end - 1
      BY <1>2, <1>6, <1>9
    <3>2. m \in arrived
      BY <1>6, <3>1
    <3>3. QED
      BY <1>5, <3>2
  <2>2. QED
    BY <1>5, <1>9, <2>1, Writes
<1>10. CASE /\ WriteUpTo(end, chunks)
            /\ FillWindow(end)
            /\ AfterChunks(written')
            /\ pc' = "begin"
  <2>1. /\ nextWrite' \in 0 .. Chunks /\ nextWrite' = end
        /\ written' \in Seq(Chunk) /\ WrittenInOrder'
        /\ SubSeq(written', 1, Len(written)) = written
        /\ buffered' = {c \in chunks : c.index >= end}
    <3>1. end <= end
      BY <1>2, <1>6
    <3>2. QED
      BY <1>6, <1>9, <1>10, <3>1
  <2>2. /\ nextRequest' = WindowEnd(end) /\ nextRequest' \in 0 .. Chunks
        /\ toServer' \subseteq Requests
        /\ Request("Done") \notin toServer'
        /\ \A i \in Indexes : Get(i) \in toServer' \ toServer => i >= nextRequest
    BY <1>6, <1>8, <1>10, FillTyped
  <2>3. phase' \in {"chunks", "finish", "failure"}
    BY <1>10 DEF AfterChunks
  <2>4. Len(written') = end /\ end \in Nat /\ end <= Chunks
    BY <1>2, <1>6, <2>1 DEF WrittenInOrder
  <2>5. phase' = "chunks" => end < Chunks
    BY <1>10, <2>4 DEF AfterChunks
  <2>6. phase' \in {"finish", "success"} => Len(written') = Chunks /\ ChecksumMatches(written')
    <3>1. phase' \in {"finish", "success"} => ~ (Len(written') < Chunks) /\ ChecksumMatches(written')
      BY <1>10 DEF AfterChunks
    <3>2. QED
      BY <1>2, <2>4, <3>1
  <2>7. TypeOK'
    <3>1. buffered' \subseteq Chunk
      BY <1>5, <2>1
    <3>2. QED
      BY <1>1, <1>2, <1>10, <2>1, <2>2, <2>3, <3>1 DEF TypeOK, Exchanges
  <2>8. Untouched'
    BY <2>3 DEF Untouched
  <2>9. Receiving'
    <3>1. WindowEnd(nextWrite)' = WindowEnd(end)
      BY <2>1 DEF WindowEnd, AtMost
    <3>2. WindowEnd(end) >= nextRequest
      BY <1>3, <1>6, WindowMoves
    <3>3. Received' \subseteq end + 1 .. nextRequest' - 1
      <4> SUFFICES ASSUME NEW c \in chunks, c.index >= end
                   PROVE  c.index \in end + 1 .. nextRequest' - 1
        BY <2>1 DEF Received
      <4>1. c.index \in arrived /\ c.index \in nextWrite .. nextRequest - 1 /\ c.index # end
        BY <1>5, <1>6
      <4>2. QED
        BY <1>2, <2>2, <2>4, <3>2, <4>1
    <3>4. \A c, d \in buffered' : c.index = d.index => c = d
      BY <1>7, <2>1
    <3>5. QED
      BY <2>1, <2>2, <2>5, <3>1, <3>3, <3>4 DEF Receiving
  <2>10. ReleasedWhenVerified'
    BY <2>2, <2>6 DEF ReleasedWhenVerified, ChecksumMatches
  <2>11. nextWrite <= nextWrite'
    BY <1>2, <1>6, <2>1
  <2>12. \A i \in Indexes : i >= nextRequest => i >= nextWrite /\ i \notin Received
    BY <1>2, <1>3, <1>4 DEF Indexes
  <2>13. QED
    BY <1>1, <2>1, <2>2, <2>3, <2>7, <2>8, <2>9, <2>10, <2>11, <2>12
<1>11. ASSUME NEW failed \in nextWrite .. end - 1, WriteUpTo(failed, chunks),
              phase' = "failure", UNCHANGED <<pc, nextRequest, toServer>>
       PROVE  /\ IInv' /\ SubSeq(written', 1, Len(written)) = written
              /\ nextWrite <= nextWrite'
  <2>1. failed \in nextWrite .. Chunks /\ failed <= end /\ nextWrite <= failed
    BY <1>2, <1>6
  <2>2. /\ nextWrite' \in 0 .. Chunks /\ nextWrite' = failed
        /\ written' \in Seq(Chunk) /\ WrittenInOrder'
        /\ SubSeq(written', 1, Len(written)) = written
        /\ buffered' = {c \in chunks : c.index >= failed}
    BY <1>9, <1>11, <2>1
  <2>3. TypeOK'
    <3>1. buffered' \subseteq Chunk
      BY <1>5, <2>2
    <3>2. QED
      BY <1>1, <1>2, <1>11, <2>2, <3>1 DEF TypeOK
  <2>4. Untouched' /\ Receiving' /\ ReleasedWhenVerified'
    BY <1>8, <1>11 DEF Untouched, Receiving, ReleasedWhenVerified
  <2>5. QED
    BY <2>1, <2>2, <2>3, <2>4
<1>12. QED
  BY <1>1, <1>10, <1>11 DEF AcceptData, chunks, arrived, end

-----------------------------------------------------------------------------
\* A chunk that is not wanted is dropped.
LEMMA DataQuiet ==
    ASSUME IInv, NEW chunk \in Chunk, ReceiveData(chunk), ~ Wanted(chunk.index)
    PROVE  TypeOK' /\ Quiet
  BY DEF IInv, ReceiveData, Reads, NoProgress, ReadOn, TypeOK, Quiet

\* What a step can be: nothing is written, or the metadata or a wanted chunk
\* arrive.
LEMMA Steps ==
    ASSUME IInv, [Next]_vars
    PROVE  \/ TypeOK' /\ Quiet
           \/ ReceiveMeta
           \/ \E chunk \in Chunk : ReceiveData(chunk) /\ Wanted(chunk.index)
<1>1. CASE Next
  <2>1. CASE \E chunk \in Chunk : ReceiveData(chunk)
    BY <2>1, DataQuiet
  <2>2. QED
    BY <1>1, <2>1, ClientQuiet, EnvironmentQuiet DEF Next, Client, Receive
<1>2. CASE UNCHANGED vars
  BY <1>2 DEF vars, IInv, TypeOK, Quiet
<1>3. QED
  BY <1>1, <1>2

\* The invariant is inductive: chunks that arrive in any order are written in
\* order because the buffer holds chunks of the window only, and it does so
\* because the window moves with the first chunk that is missing.
THEOREM Inductive == Spec => []IInv
<1>1. Init => IInv
  <2> SUFFICES ASSUME Init
               PROVE  IInv
    OBVIOUS
  <2>1. 0 \in 0 .. Chunks /\ 0 \in 0 .. InactivityTimeout /\ Faults \subseteq AllFaults
    BY ClientAssumption
  <2>2. << >> \in Seq(Chunk) /\ Len(<< >>) = 0
    BY EmptySeq
  <2>3. TypeOK
    BY <2>1, <2>2 DEF Init, TypeOK, Exchanges
  <2>4. WrittenInOrder
    BY <2>2 DEF Init, WrittenInOrder
  <2>5. Untouched /\ Receiving /\ ReleasedWhenVerified
    BY DEF Init, Untouched, Receiving, ReleasedWhenVerified
  <2>6. QED
    BY <2>3, <2>4, <2>5 DEF IInv
<1>2. IInv /\ [Next]_vars => IInv'
  BY Steps, QuietIInv, MetaIInv, DataIInv
<1>3. QED
  BY <1>1, <1>2, PTL DEF Spec

\* receiveChunks writes chunk after chunk to the destination, none twice and
\* none left out, in whatever order, and however often, handleChunk gets them.
THEOREM InOrder == Spec => []WrittenInOrder
<1>1. IInv => WrittenInOrder
  BY DEF IInv
<1>2. QED
  BY <1>1, Inductive, PTL

\* pending holds at most one payload per chunk, for chunks of the window after
\* the next one, and fillWindow has requested the window up to its end.
THEOREM WindowKept == Spec => []WindowWellFormed
<1>1. IInv => WindowWellFormed
  BY DEF IInv, Receiving, WindowWellFormed
<1>2. QED
  BY <1>1, Inductive, PTL

\* finish is called, and nil returned, only when all chunks are written and the
\* checksum is the announced one: no other Done is ever on its way.
THEOREM ReleasedLast == Spec => []ReleasedWhenVerified
<1>1. IInv => ReleasedWhenVerified
  BY DEF IInv
<1>2. QED
  BY <1>1, Inductive, PTL

\* A chunk is requested, the first time or again, only while it is not there.
THEOREM RequestsOnlyMissing == Spec => OnlyMissingRequested
<1> DEFINE Only == \A i \in Indexes :
                      Get(i) \in toServer' \ toServer => i >= nextWrite /\ i \notin Received
<1>1. IInv /\ [Next]_vars => Only
  <2> SUFFICES ASSUME IInv, [Next]_vars
               PROVE  Only
    OBVIOUS
  <2>1. CASE Quiet
    <3>1. \A i \in Missing : i >= nextWrite /\ i \notin Received
      BY Numbers DEF IInv, Missing
    <3>2. QED
      BY <2>1, <3>1 DEF Quiet
  <2>2. QED
    BY <2>1, Steps, MetaIInv, DataIInv
<1>2. IInv /\ [Next]_vars => [Only]_vars
  BY <1>1
<1>3. QED
  BY <1>2, Inductive, PTL DEF Spec, OnlyMissingRequested

-----------------------------------------------------------------------------
\* What was written is the archive when it is whole and its checksum right.
LEMMA WholeIsArchive ==
    ASSUME IInv, Len(written) = Chunks, ChecksumMatches(written)
    PROVE  written = Promise!Archive
<1>1. written \in Seq(Chunk) /\ Chunks \in Nat
  BY Numbers DEF IInv, TypeOK
<1>2. DOMAIN written = 1 .. Chunks /\ written \in [1 .. Chunks -> Chunk]
  BY <1>1, LenProperties
<1>3. ASSUME NEW i \in 1 .. Chunks
      PROVE  written[i] = [index |-> i - 1, content |-> "right"]
  <2>1. written[i] \in Chunk
    BY <1>2
  <2>2. written[i].index = i - 1
    BY DEF IInv, WrittenInOrder
  <2>3. written[i].content = "right"
    BY <1>2 DEF ChecksumMatches
  <2>4. QED
    BY <2>1, <2>2, <2>3 DEF Chunk
<1>4. QED
  BY <1>2, <1>3 DEF Promise!Archive

\* Chunks that are written extend what the destination has.
LEMMA WrittenExtends ==
    ASSUME IInv, IInv', SubSeq(written', 1, Len(written)) = written, nextWrite <= nextWrite'
    PROVE  Promise!Extends(written')
<1>1. Len(written) = nextWrite /\ Len(written') = nextWrite' /\ nextWrite' <= Chunks
      /\ nextWrite \in Nat /\ nextWrite' \in Nat /\ Chunks \in Nat
  <2>1. nextWrite \in 0 .. Chunks /\ nextWrite' \in 0 .. Chunks /\ Chunks \in Nat
    BY Numbers DEF IInv, TypeOK
  <2>2. QED
    BY <2>1 DEF IInv, WrittenInOrder
<1>2. ASSUME NEW i \in Len(written) + 1 .. Len(written')
      PROVE  written'[i] \in Promise!ChunkAt(i)
  <2>1. i \in 1 .. Len(written')
    BY <1>1
  <2>2. written'[i] \in Chunk
    <3>1. written' \in Seq(Chunk)
      BY DEF IInv, TypeOK, Chunk, Indexes
    <3>2. QED
      BY <2>1, <3>1, ElementOfSeq
  <2>3. written'[i].index = i - 1
    BY <2>1 DEF IInv, WrittenInOrder
  <2>4. QED
    BY <2>2, <2>3 DEF Chunk, Contents, Promise!ChunkAt, Promise!Contents
<1>3. QED
  BY <1>1, <1>2 DEF Promise!Extends

\* client.DownloadArchive as its callers see it: the destination only grows, by
\* chunks in order, and nil means that it has the announced archive and nothing
\* else.
THEOREM DownloadImplements == Spec => PromiseKept
<1>1. Init => Promise!Init
  BY DEF Init, Promise!Init, Active, Exchanges
<1>2. IInv /\ IInv' /\ [Next]_vars => [Promise!Next]_(Promise!vars)
  <2> SUFFICES ASSUME IInv, IInv', [Next]_vars
               PROVE  [Promise!Next]_(Promise!vars)
    OBVIOUS
  <2>1. CASE Quiet
    <3>1. written' = written
      BY <2>1 DEF Quiet
    <3>2. CASE phase' = phase \/ (phase = "handshake" /\ phase' = "request")
      BY <3>1, <3>2 DEF Promise!vars, Active, Exchanges
    <3>3. CASE Active /\ phase' = "failure"
      <4>1. Promise!Extends(written')
        <5>1. SubSeq(written', 1, Len(written)) = written
          BY <3>1, SubSeqFull DEF IInv, TypeOK
        <5>2. nextWrite <= nextWrite'
          BY <2>1, Numbers DEF IInv, Quiet
        <5>3. QED
          BY <5>1, <5>2, WrittenExtends
      <4>2. QED
        BY <3>3, <4>1 DEF Promise!Next, Promise!Fail, Active, Exchanges
    <3>4. CASE phase = "finish" /\ phase' = "success"
      <4>1. written = Promise!Archive
        BY <3>4, WholeIsArchive DEF IInv, ReleasedWhenVerified
      <4>2. QED
        BY <3>1, <3>4, <4>1 DEF Promise!Next, Promise!Succeed, Active, Exchanges
    <3>5. QED
      BY <2>1, <3>2, <3>3, <3>4 DEF Quiet
  <2>2. CASE ReceiveMeta \/ \E chunk \in Chunk : ReceiveData(chunk) /\ Wanted(chunk.index)
    <3>1. /\ phase \in {"request", "chunks"} /\ phase' \in {"chunks", "finish", "failure"}
          /\ Promise!Extends(written')
      <4>1. CASE ReceiveMeta
        <5>1. written' = written /\ nextWrite' = nextWrite
          BY <4>1, MetaIInv DEF ReceiveMeta
        <5>2. SubSeq(written', 1, Len(written)) = written /\ nextWrite <= nextWrite'
          BY <5>1, SubSeqFull, Numbers DEF IInv, TypeOK
        <5>3. QED
          BY <4>1, <5>2, MetaIInv, WrittenExtends
      <4>2. CASE \E chunk \in Chunk : ReceiveData(chunk) /\ Wanted(chunk.index)
        BY <4>2, DataIInv, WrittenExtends
      <4>3. QED
        BY <2>2, <4>1, <4>2
    <3>2. QED
      BY <3>1 DEF Promise!Next, Promise!Deliver, Promise!Fail, Active, Exchanges
  <2>3. QED
    BY <2>1, <2>2, Steps
<1>3. QED
  BY <1>1, <1>2, Inductive, PTL DEF Spec, PromiseKept, Promise!Spec

-----------------------------------------------------------------------------
(* The sizes of an archive. *)

\* The sum of the chunks is computed chunk by chunk.
LEMMA TotalRecursion ==
    ASSUME NEW meta, NEW n \in Nat
    PROVE  \E total :
             /\ Total(meta, n) = total[n]
             /\ total = [i \in 0 .. n |-> IF i = 0 THEN 0
                           ELSE total[i - 1] + ExpectedChunkLength(meta, i - 1)]
<1> DEFINE F(m, t) == t = [i \in 0 .. m |-> IF i = 0 THEN 0
                             ELSE t[i - 1] + ExpectedChunkLength(meta, i - 1)]
           S == {m \in Nat : \E t : F(m, t)}
<1>1. F(0, [i \in 0 .. 0 |-> 0])
  OBVIOUS
<1>2. ASSUME NEW m \in Nat, NEW t, F(m, t)
      PROVE  \E u : F(m + 1, u)
  <2> DEFINE u == [i \in 0 .. m + 1 |-> IF i = 0 THEN 0
                             ELSE t[i - 1] + ExpectedChunkLength(meta, i - 1)]
  <2>1. \A i \in 0 .. m : i \in 0 .. m + 1 /\ t[i] = u[i]
    BY <1>2
  <2>2. \A i \in 0 .. m + 1 : i # 0 => i - 1 \in 0 .. m
    BY <1>2
  <2>3. \A i \in 0 .. m + 1 : i # 0 => t[i - 1] = u[i - 1]
    BY <2>1, <2>2
  <2>4. u = [i \in 0 .. m + 1 |-> IF i = 0 THEN 0
                             ELSE u[i - 1] + ExpectedChunkLength(meta, i - 1)]
    BY <2>3
  <2>5. QED
    BY <2>4
<1>3. 0 \in S
  BY <1>1
<1>4. \A m \in Nat : m \in S => m + 1 \in S
  BY <1>2
<1> HIDE DEF S
<1>5. n \in S
  BY <1>3, <1>4, Induction
<1>6. PICK h : F(n, h)
  BY <1>5 DEF S
<1> DEFINE g == CHOOSE t : F(n, t)
<1>7. F(n, g)
  BY <1>6
<1>8. Total(meta, n) = g[n]
  BY DEF Total
<1>9. QED
  BY <1>7, <1>8

\* Numbers below the modulus are not changed, and nothing gets out of it.
LEMMA WrapKeeps ==
    ASSUME NEW n \in Int
    PROVE  /\ Wrap(n) \in 0 .. Sizes - 1
           /\ n \in 0 .. Sizes - 1 => Wrap(n) = n
<1>1. Sizes \in Nat /\ Sizes > 0
  BY ArithmeticAssumption
<1> DEFINE q == n \div Sizes
           r == n % Sizes
<1>2. q \in Int /\ r \in 0 .. Sizes - 1 /\ n = Sizes * q + r
  BY <1>1
<1>3. Wrap(n) = r
  BY DEF Wrap
<1> HIDE DEF q, r
<1>4. ASSUME n \in 0 .. Sizes - 1
      PROVE  r = n
  <2>1. ~ (q > 0)
    <3>1. SUFFICES ASSUME q > 0 PROVE FALSE
      OBVIOUS
    <3>2. PICK k \in Nat : q = 1 + k
      <4>1. q - 1 \in Nat /\ q = 1 + (q - 1)
        BY <1>2, <3>1
      <4>2. QED
        BY <4>1
    <3>3. Sizes * q = Sizes + Sizes * k /\ Sizes * k \in Nat
      BY <1>1, <3>2
    <3>4. QED
      BY <1>1, <1>2, <1>4, <3>3
  <2>2. ~ (q < 0)
    <3>1. SUFFICES ASSUME q < 0 PROVE FALSE
      OBVIOUS
    <3>2. PICK k \in Nat : q = -1 - k
      <4>1. -1 - q \in Nat /\ q = -1 - (-1 - q)
        BY <1>2, <3>1
      <4>2. QED
        BY <4>1
    <3>3. Sizes * q = - Sizes - Sizes * k /\ Sizes * k \in Nat
      BY <1>1, <3>2
    <3>4. QED
      BY <1>1, <1>2, <1>4, <3>3
  <2>3. q = 0
    BY <1>2, <2>1, <2>2
  <2>4. QED
    BY <1>1, <1>2, <2>3
<1>5. QED
  BY <1>2, <1>3, <1>4

\* Products are ordered as their factors.
LEMMA ProductOrdered ==
    ASSUME NEW a \in Nat, NEW b \in Nat, a <= b, NEW c \in Nat
    PROVE  a * c \in Nat /\ b * c \in Nat /\ a * c <= b * c
<1>1. PICK k \in Nat : b = a + k
  <2>1. b - a \in Nat /\ b = a + (b - a)
    OBVIOUS
  <2>2. QED
    BY <2>1
<1>2. b * c = a * c + k * c /\ k * c \in Nat /\ a * c \in Nat
  BY <1>1
<1>3. QED
  BY <1>2

\* As many chunks as a uint32 counts are far from the limit of a uint64.
LEMMA ChunkBound ==
    ASSUME NEW k \in 0 .. MaxCount, NEW c \in 1 .. ChunkBytes
    PROVE  k * c \in Nat /\ 2 * (k * c) < Sizes
<1>1. /\ Sizes \in Nat /\ Counts \in Nat \ {0} /\ ChunkBytes \in Nat \ {0}
      /\ 2 * (ChunkBytes * Counts) <= Sizes /\ MaxCount = Counts - 1
  BY ArithmeticAssumption DEF MaxCount
<1>2. k * c \in Nat /\ k * c <= k * ChunkBytes /\ k * ChunkBytes \in Nat
  <2>1. c \in Nat /\ ChunkBytes \in Nat /\ c <= ChunkBytes /\ k \in Nat
    BY <1>1
  <2>2. c * k \in Nat /\ ChunkBytes * k \in Nat /\ c * k <= ChunkBytes * k
    BY <2>1, ProductOrdered
  <2>3. c * k = k * c /\ ChunkBytes * k = k * ChunkBytes
    BY <2>1
  <2>4. QED
    BY <2>2, <2>3
<1>3. k + 1 \in Nat /\ k + 1 <= Counts
  BY <1>1
<1>4. (k + 1) * ChunkBytes <= Counts * ChunkBytes
  BY <1>1, <1>3, ProductOrdered
<1>5. (k + 1) * ChunkBytes = k * ChunkBytes + ChunkBytes
      /\ Counts * ChunkBytes = ChunkBytes * Counts /\ ChunkBytes * Counts \in Nat
  BY <1>1
<1>6. QED
  BY <1>1, <1>2, <1>4, <1>5

\* Division that rounds up.
LEMMA RoundedUp ==
    ASSUME NEW s \in Nat \ {0}, NEW c \in Nat \ {0}
    PROVE  LET q == (s + c - 1) \div c
           IN  q \in Nat \ {0} /\ (q - 1) * c < s /\ s <= q * c
<1> DEFINE n == s + c - 1
           q == n \div c
           r == n % c
<1>1. n \in Nat
  OBVIOUS
<1>2. q \in Nat /\ r \in 0 .. c - 1 /\ n = c * q + r
  <2> HIDE DEF n
  <2>1. QED
    BY <1>1
<1>3. n = s + c - 1
  OBVIOUS
<1>4. SUFFICES q \in Nat \ {0} /\ (q - 1) * c < s /\ s <= q * c
  OBVIOUS
<1> HIDE DEF n, q, r
<1>5. c * q = q * c /\ (q - 1) * c = q * c - c /\ q * c \in Nat
  BY <1>2
<1>6. q # 0
  <2>1. SUFFICES ASSUME q = 0 PROVE FALSE
    OBVIOUS
  <2>2. q * c = 0
    BY <2>1
  <2>3. QED
    BY <1>2, <1>3, <1>5, <2>2
<1>7. QED
  BY <1>2, <1>3, <1>5, <1>6

\* No chunk is longer than a chunk may be.
LEMMA LengthBound ==
    ASSUME NEW meta \in Metas, meta.chunkSize \in 1 .. ChunkBytes, NEW i \in Nat
    PROVE  ExpectedChunkLength(meta, i) \in 0 .. meta.chunkSize
<1>1. meta.size \in Int /\ meta.chunkSize \in Nat
  BY ArithmeticAssumption DEF Metas
<1> DEFINE before == Wrap(i * meta.chunkSize)
           remaining == Wrap(meta.size - before)
<1>2. before \in Int
  <2>1. i * meta.chunkSize \in Int
    BY <1>1
  <2>2. QED
    BY <2>1, WrapKeeps
<1>3. remaining \in Nat
  <2>1. meta.size - before \in Int
    BY <1>1, <1>2
  <2>2. QED
    BY <2>1, WrapKeeps, ArithmeticAssumption
<1>4. ExpectedChunkLength(meta, i)
        = IF remaining < meta.chunkSize THEN remaining ELSE meta.chunkSize
  BY DEF ExpectedChunkLength
<1> HIDE DEF before, remaining
<1>5. QED
  BY <1>1, <1>3, <1>4

\* So the sum of n chunks is bounded.
LEMMA TotalBound ==
    ASSUME NEW meta \in Metas, meta.chunkSize \in 1 .. ChunkBytes, NEW n \in Nat
    PROVE  Total(meta, n) \in 0 .. n * meta.chunkSize
<1> DEFINE c == meta.chunkSize
<1>1. PICK total :
        /\ Total(meta, n) = total[n]
        /\ total = [i \in 0 .. n |-> IF i = 0 THEN 0
                      ELSE total[i - 1] + ExpectedChunkLength(meta, i - 1)]
  BY TotalRecursion
<1> DEFINE S == {k \in Nat : k <= n => total[k] \in 0 .. k * c}
<1>2. c \in Nat
  BY ArithmeticAssumption DEF Metas
<1>3. 0 \in S
  <2>1. total[0] = 0 /\ 0 * c = 0
    BY <1>1, <1>2
  <2>2. QED
    BY <2>1
<1>4. ASSUME NEW k \in Nat, k \in S
      PROVE  k + 1 \in S
  <2>1. SUFFICES ASSUME k + 1 <= n
                 PROVE  total[k + 1] \in 0 .. (k + 1) * c
    OBVIOUS
  <2>2. total[k] \in 0 .. k * c
    BY <1>4, <2>1
  <2>3. k + 1 \in 0 .. n /\ k + 1 # 0 /\ (k + 1) - 1 = k
    BY <2>1
  <2>4. total[k + 1] = total[k] + ExpectedChunkLength(meta, k)
    BY <1>1, <2>3
  <2>5. ExpectedChunkLength(meta, k) \in 0 .. c
    BY LengthBound
  <2>6. (k + 1) * c = k * c + c /\ k * c \in Nat
    BY <1>2
  <2> HIDE DEF c
  <2>7. QED
    BY <1>2, <2>2, <2>4, <2>5, <2>6
<1> HIDE DEF S
<1>5. n \in S
  BY <1>3, <1>4, Induction
<1>6. QED
  BY <1>1, <1>5 DEF S

\* The metadata of an archive that the file system can hold: as many chunks as
\* cover it, without wrapping around.
LEMMA PreparedChunks ==
    ASSUME NEW s \in Archives
    PROVE  /\ s \in Nat /\ s < Sizes
           /\ ExpectedChunks(s, ChunkBytes) \in Nat
           /\ s <= ExpectedChunks(s, ChunkBytes) * ChunkBytes
           /\ IF s = 0 THEN ExpectedChunks(s, ChunkBytes) = 0
              ELSE /\ ExpectedChunks(s, ChunkBytes) > 0
                   /\ (ExpectedChunks(s, ChunkBytes) - 1) * ChunkBytes < s
<1>1. /\ Sizes \in Nat \ {0} /\ Counts \in Nat \ {0} /\ ChunkBytes \in Nat \ {0}
      /\ 2 * (ChunkBytes * Counts) <= Sizes
  BY ArithmeticAssumption
<1>2. s \in Nat /\ 2 * s <= Sizes - 2
  BY <1>1 DEF Archives
<1>3. 2 * ChunkBytes <= Sizes
  <2>1. 1 * ChunkBytes <= Counts * ChunkBytes /\ Counts * ChunkBytes = ChunkBytes * Counts
    BY <1>1, ProductOrdered
  <2>2. ChunkBytes * Counts \in Nat
    BY <1>1
  <2>3. QED
    BY <1>1, <2>1, <2>2
<1>4. CASE s = 0
  BY <1>1, <1>4 DEF ExpectedChunks
<1>5. CASE s # 0
  <2>1. s + ChunkBytes - 1 \in 0 .. Sizes - 1
    BY <1>1, <1>2, <1>3
  <2>2. Wrap(s + ChunkBytes - 1) = s + ChunkBytes - 1
    BY <2>1, WrapKeeps
  <2>3. ExpectedChunks(s, ChunkBytes) = (s + ChunkBytes - 1) \div ChunkBytes
    BY <1>5, <2>2 DEF ExpectedChunks
  <2>4. QED
    BY <1>1, <1>2, <1>5, <2>3, RoundedUp
<1>6. QED
  BY <1>4, <1>5

\* Both sides compute the same length for a chunk of an archive: all of them
\* are full but the last, which has what remains.
LEMMA LengthAgrees ==
    ASSUME NEW s \in Archives, Preparable(s), NEW i \in 0 .. Prepare(s).chunks - 1
    PROVE  /\ ServedLength(Prepare(s), i) = ExpectedChunkLength(Prepare(s), i)
           /\ i * ChunkBytes \in Nat /\ i * ChunkBytes <= s
           /\ ExpectedChunkLength(Prepare(s), i)
                = IF i + 1 < Prepare(s).chunks THEN ChunkBytes ELSE s - i * ChunkBytes
<1> DEFINE C == ExpectedChunks(s, ChunkBytes)
           b == i * ChunkBytes
<1>1. Prepare(s).size = s /\ Prepare(s).chunks = C /\ Prepare(s).chunkSize = ChunkBytes
  BY DEF Prepare
<1>2. /\ C \in Nat /\ s \in Nat /\ s < Sizes /\ s # 0 /\ i \in Nat /\ i <= C - 1
      /\ (C - 1) * ChunkBytes < s /\ s <= C * ChunkBytes
      /\ ChunkBytes \in Nat \ {0} /\ Sizes \in Nat
  BY <1>1, PreparedChunks, ArithmeticAssumption
<1> HIDE DEF C
<1>3. b \in Nat /\ b < s
  <2>1. i * ChunkBytes <= (C - 1) * ChunkBytes /\ i * ChunkBytes \in Nat
        /\ (C - 1) * ChunkBytes \in Nat
    BY <1>2, ProductOrdered
  <2>2. QED
    BY <1>2, <2>1
<1>4. i + 1 < C => s - b > ChunkBytes
  <2>1. SUFFICES ASSUME i + 1 < C PROVE s - b > ChunkBytes
    OBVIOUS
  <2>2. (i + 1) * ChunkBytes <= (C - 1) * ChunkBytes /\ (C - 1) * ChunkBytes \in Nat
    BY <1>2, <2>1, ProductOrdered
  <2>3. (i + 1) * ChunkBytes = b + ChunkBytes
    BY <1>2
  <2>4. QED
    BY <1>2, <1>3, <2>2, <2>3
<1>5. ~ (i + 1 < C) => s - b <= ChunkBytes
  <2>1. SUFFICES ASSUME ~ (i + 1 < C) PROVE s - b <= ChunkBytes
    OBVIOUS
  <2>2. C = i + 1
    BY <1>2, <2>1
  <2>3. C * ChunkBytes = b + ChunkBytes
    BY <1>2, <2>2
  <2>4. QED
    BY <1>2, <1>3, <2>3
<1>6. Wrap(b) = b
  BY <1>2, <1>3, WrapKeeps
<1>7. Wrap(s - b) = s - b
  BY <1>2, <1>3, WrapKeeps
<1>8. /\ ServedLength(Prepare(s), i) = IF s - b < ChunkBytes THEN s - b ELSE ChunkBytes
      /\ ExpectedChunkLength(Prepare(s), i)
           = IF s - b < ChunkBytes THEN s - b ELSE ChunkBytes
  BY <1>1, <1>6, <1>7 DEF ServedLength, ExpectedChunkLength
<1>9. QED
  <2> HIDE DEF b
  <2>1. ExpectedChunkLength(Prepare(s), i) = IF i + 1 < C THEN ChunkBytes ELSE s - b
    BY <1>2, <1>3, <1>4, <1>5, <1>8
  <2>2. ServedLength(Prepare(s), i) = ExpectedChunkLength(Prepare(s), i)
    BY <1>8
  <2>3. b \in Nat /\ b <= s
    BY <1>2, <1>3
  <2>4. QED
    BY <1>1, <2>1, <2>2, <2>3 DEF b

\* The chunks of an archive have its size.
LEMMA PreparedTotal ==
    ASSUME NEW s \in Archives, Preparable(s)
    PROVE  Total(Prepare(s), Prepare(s).chunks) = s
<1> DEFINE meta == Prepare(s)
           C == meta.chunks
<1>1. /\ C \in Nat /\ s \in Nat /\ ChunkBytes \in Nat
      /\ C = 0 => s = 0
  BY PreparedChunks, ArithmeticAssumption DEF Prepare
<1>2. ASSUME NEW i \in 0 .. C - 1
      PROVE  /\ i * ChunkBytes \in Nat
             /\ ExpectedChunkLength(meta, i)
                  = IF i + 1 < C THEN ChunkBytes ELSE s - i * ChunkBytes
  BY <1>2, LengthAgrees
<1> HIDE DEF meta, C
<1>3. PICK total :
        /\ Total(meta, C) = total[C]
        /\ total = [i \in 0 .. C |-> IF i = 0 THEN 0
                      ELSE total[i - 1] + ExpectedChunkLength(meta, i - 1)]
  BY <1>1, TotalRecursion
<1> DEFINE S == {k \in Nat : k <= C => total[k] = IF k < C THEN k * ChunkBytes ELSE s}
<1>4. 0 \in S
  <2>1. total[0] = 0 /\ 0 * ChunkBytes = 0
    BY <1>1, <1>3
  <2>2. QED
    BY <1>1, <2>1
<1>5. ASSUME NEW k \in Nat, k \in S
      PROVE  k + 1 \in S
  <2>1. SUFFICES ASSUME k + 1 <= C
                 PROVE  total[k + 1] = IF k + 1 < C THEN (k + 1) * ChunkBytes ELSE s
    OBVIOUS
  <2>2. total[k] = k * ChunkBytes
    BY <1>1, <1>5, <2>1
  <2>3. k + 1 \in 0 .. C /\ k + 1 # 0 /\ (k + 1) - 1 = k /\ k \in 0 .. C - 1
    BY <1>1, <2>1
  <2>4. total[k + 1] = total[k] + ExpectedChunkLength(meta, k)
    BY <1>3, <2>3
  <2>5. /\ k * ChunkBytes \in Nat
        /\ ExpectedChunkLength(meta, k)
             = IF k + 1 < C THEN ChunkBytes ELSE s - k * ChunkBytes
    BY <1>2, <2>3
  <2>6. (k + 1) * ChunkBytes = k * ChunkBytes + ChunkBytes
    BY <1>1
  <2>7. QED
    BY <1>1, <2>2, <2>4, <2>5, <2>6
<1> HIDE DEF S
<1>6. C \in S
  BY <1>1, <1>4, <1>5, Induction
<1>7. total[C] = s
  BY <1>1, <1>6 DEF S
<1>8. QED
  BY <1>3, <1>7 DEF meta, C

\* What the server prepares the client takes for its archive.
LEMMA PreparedIsUnderstood == ServerUnderstood
<1> SUFFICES ASSUME NEW s \in Archives, Preparable(s)
             PROVE  /\ DecodeMeta(Prepare(s))
                    /\ \A i \in 0 .. Prepare(s).chunks - 1 :
                         ServedLength(Prepare(s), i) = ExpectedChunkLength(Prepare(s), i)
                    /\ SizeReached(Prepare(s))
  BY DEF ServerUnderstood
<1>1. DecodeMeta(Prepare(s))
  BY ArithmeticAssumption DEF DecodeMeta, Prepare
<1>2. SizeReached(Prepare(s))
  <2>1. Wrap(s) = s /\ Prepare(s).size = s
    BY PreparedChunks, WrapKeeps, ArithmeticAssumption DEF Prepare
  <2>2. QED
    BY <2>1, PreparedTotal DEF SizeReached, ReceiveChunks
<1>3. QED
  BY <1>1, <1>2, LengthAgrees

\* An archive is refused only if its chunks cannot be counted.
LEMMA RefusedIsHuge == OnlyHugeRefused
<1> SUFFICES ASSUME NEW s \in Archives
             PROVE  Preparable(s) <=> s <= ChunkBytes * MaxCount
  BY DEF OnlyHugeRefused
<1> DEFINE C == ExpectedChunks(s, ChunkBytes)
<1>1. /\ C \in Nat /\ s \in Nat /\ ChunkBytes \in Nat \ {0} /\ MaxCount \in Nat
      /\ ChunkBytes * MaxCount = MaxCount * ChunkBytes
      /\ s <= C * ChunkBytes
      /\ IF s = 0 THEN C = 0 ELSE C > 0 /\ (C - 1) * ChunkBytes < s
  BY PreparedChunks, ArithmeticAssumption DEF MaxCount
<1>2. Preparable(s) <=> C <= MaxCount
  BY DEF Preparable
<1> HIDE DEF C
<1>3. ASSUME C <= MaxCount PROVE s <= MaxCount * ChunkBytes
  <2>1. C * ChunkBytes <= MaxCount * ChunkBytes
    BY <1>1, <1>3, ProductOrdered
  <2>2. C * ChunkBytes \in Nat /\ MaxCount * ChunkBytes \in Nat
    BY <1>1
  <2>3. QED
    BY <1>1, <2>1, <2>2
<1>4. ASSUME C > MaxCount PROVE s > MaxCount * ChunkBytes
  <2>1. MaxCount <= C - 1 /\ C - 1 \in Nat /\ s # 0
    BY <1>1, <1>4
  <2>2. MaxCount * ChunkBytes <= (C - 1) * ChunkBytes
        /\ MaxCount * ChunkBytes \in Nat /\ (C - 1) * ChunkBytes \in Nat
    BY <1>1, <2>1, ProductOrdered
  <2>3. QED
    BY <1>1, <2>1, <2>2
<1>5. QED
  <2>1. MaxCount * ChunkBytes \in Nat
    BY <1>1
  <2>2. QED
    BY <1>1, <1>2, <1>3, <1>4, <2>1

\* The sum of lengths that the client compares does not wrap around.
LEMMA CompleteIsWhole == NothingElseCompletes
<1> SUFFICES ASSUME NEW meta \in Metas, DecodeMeta(meta), SizeReached(meta)
             PROVE  Total(meta, meta.chunks) = meta.size
  BY DEF NothingElseCompletes
<1>1. meta.chunkSize \in 1 .. ChunkBytes /\ meta.chunks \in 0 .. MaxCount
  BY DEF DecodeMeta, Metas
<1>2. meta.chunks \in Nat
  BY <1>1, ArithmeticAssumption DEF MaxCount
<1>3. Total(meta, meta.chunks) \in 0 .. meta.chunks * meta.chunkSize
  BY <1>1, <1>2, TotalBound
<1>4. meta.chunks * meta.chunkSize \in Nat /\ 2 * (meta.chunks * meta.chunkSize) < Sizes
  BY <1>1, ChunkBound
<1>5. Total(meta, meta.chunks) \in 0 .. Sizes - 1
  BY <1>3, <1>4, ArithmeticAssumption
<1>6. Wrap(Total(meta, meta.chunks)) = Total(meta, meta.chunks)
  BY <1>5, WrapKeeps
<1>7. QED
  BY <1>6 DEF SizeReached, ReceiveChunks

\* Server and client agree on every archive, and nothing incomplete is taken
\* for complete, for sizes and counts of every width, among them uint64 and
\* uint32 (prepare, handleGet, DecodeMeta, receiveChunks).
THEOREM CalculationsAgree == ArithmeticAgrees
BY PreparedIsUnderstood, RefusedIsHuge, CompleteIsWhole, PTL DEF ArithmeticAgrees

-----------------------------------------------------------------------------
(* The lengths of packets. *)

\* The limits, as numbers.
LEMMA PacketLimits ==
  /\ MaxDatagramSize = 1232 /\ ChunkSize = 1120 /\ HeaderSize = 22
  /\ Sequence = 8 /\ Tag = 16 /\ MaxInnerSize = 1186
  /\ MaxRequestPath = 1024 /\ MaxSignature = 512 /\ LongestMessage = 1164
BY DEF MaxDatagramSize, ChunkSize, HeaderSize, Sequence, Tag, MaxInnerSize,
       MaxRequestPath, MaxSignature, LongestMessage

\* A packet is one of eight.
LEMMA PacketTypes ==
  ASSUME NEW p \in Packets
  PROVE  /\ p.field \in Nat
         /\ \/ p.type = "ClientHello" /\ p.field = 0
            \/ p.type = "ServerHello" /\ p.field \in 256 .. 512
            \/ p.type = "Request" /\ p.field \in 0 .. MaxField
            \/ p.type \in {"Meta", "Get", "Done"} /\ p.field = 0
            \/ p.type = "Data" /\ p.field \in 0 .. 1120
            \/ p.type = "Error" /\ p.field \in 0 .. MaxField
<1>1. PICK t \in Hellos \union Inner :
        p \in [type : {t}, field : Fields(t), utf8 : IF t = "Request" THEN BOOLEAN ELSE {TRUE}]
  BY DEF Packets
<1>2. p.type = t /\ p.field \in Fields(t)
  BY <1>1
<1>3. t \in {"ClientHello", "ServerHello", "Request", "Meta", "Get", "Data", "Error", "Done"}
  BY DEF Hellos, Inner
<1>4. CASE t \in {"ClientHello", "Meta", "Get", "Done"}
  <2>1. Fields(t) = {0}
    BY <1>4 DEF Fields
  <2>2. p.field = 0  BY <1>2, <2>1
  <2>3. QED  BY <1>2, <1>4, <2>2
<1>5. CASE t = "ServerHello"
  <2>1. Fields(t) = 256 .. 512
    BY <1>5 DEF Fields
  <2>2. p.field \in 256 .. 512  BY <1>2, <2>1
  <2>3. QED  BY <1>2, <1>5, <2>2
<1>6. CASE t = "Data"
  <2>1. Fields(t) = 0 .. 1120
    BY <1>6 DEF Fields, ChunkSize
  <2>2. p.field \in 0 .. 1120  BY <1>2, <2>1
  <2>3. p.field \in Nat  BY <2>2
  <2>4. QED  BY <1>2, <1>6, <2>2, <2>3
<1>7. CASE t \in {"Request", "Error"}
  <2>1. Fields(t) = 0 .. MaxField
    BY <1>7 DEF Fields
  <2>2. p.field \in 0 .. MaxField  BY <1>2, <2>1
  <2>3. QED  BY <1>2, <1>7, <2>2, WireFormatAssumption
<1>8. QED
  BY <1>3, <1>4, <1>5, <1>6, <1>7

\* What is before the field.
LEMMA FixedLengths ==
  /\ Fixed["ClientHello"] = 96 /\ Fixed["ServerHello"] = 66 /\ Fixed["Request"] = 0
  /\ Fixed["Meta"] = 46 /\ Fixed["Get"] = 4 /\ Fixed["Data"] = 4
  /\ Fixed["Error"] = 0 /\ Fixed["Done"] = 0
BY DEF Fixed

\* What is carried of a field: of an error's message at most what fits.
LEMMA CarriedField ==
  ASSUME NEW p \in Packets
  PROVE  /\ p.type # "Error" => Carried(p) = p.field
         /\ p.type = "Error" =>
              /\ Carried(p) \in 0 .. 1164
              /\ p.field # 0 /\ p.field <= 1164 => Carried(p) = p.field
<1>1. CASE p.type # "Error"
  BY <1>1 DEF Carried
<1>2. CASE p.type = "Error"
  <2>1. Carried(p) = IF p.field = 0 THEN 20 ELSE IF p.field < 1164 THEN p.field ELSE 1164
    BY <1>2, PacketLimits DEF Carried, Smaller
  <2>2. p.field \in Nat
    BY PacketTypes
  <2>3. CASE p.field = 0
    <3>1. Carried(p) = 20
      BY <2>1, <2>3
    <3>2. QED
      BY <1>2, <2>2, <2>3, <3>1
  <2>4. CASE p.field # 0 /\ p.field < 1164
    <3>1. Carried(p) = p.field
      BY <2>1, <2>4
    <3>2. Carried(p) \in 0 .. 1164
      <4> DEFINE f == p.field
      <4> HIDE DEF f
      <4>1. f \in Nat /\ f < 1164
        BY <2>2, <2>4 DEF f
      <4>2. f \in 0 .. 1164
        BY <4>1
      <4>3. QED
        BY <3>1, <4>2 DEF f
    <3>3. QED
      BY <1>2, <3>1, <3>2
  <2>5. CASE p.field # 0 /\ ~ (p.field < 1164)
    <3>1. Carried(p) = 1164
      BY <2>1, <2>5
    <3>2. p.field <= 1164 => p.field = 1164
      BY <2>2, <2>5
    <3>3. QED
      BY <1>2, <3>1, <3>2
  <2>6. QED
    BY <2>3, <2>4, <2>5
<1>3. QED  BY <1>1, <1>2

\* What is before the field, and of the field what is carried.
LEMMA PayloadOfField ==
  ASSUME NEW p \in Packets
  PROVE  /\ Payload(p) = Fixed[p.type] + (IF p.type \in HasField THEN Carried(p) ELSE 0)
         /\ p.type \in HasField => Payload(p) = Fixed[p.type] + Carried(p)
BY DEF Payload

\* The payload of a packet of a fixed length, and of a request.
LEMMA PayloadFixed ==
  ASSUME NEW p \in Packets
  PROVE  /\ p.type = "Request" => Payload(p) = p.field
         /\ p.type \in {"ClientHello", "Meta", "Get", "Done"} =>
              Payload(p) = Fixed[p.type] /\ Payload(p) \in 0 .. 96
<1>1. ASSUME p.type = "Request"
      PROVE  Payload(p) = p.field
  <2>1. Payload(p) = 0 + p.field
    BY <1>1, PayloadOfField, FixedLengths, CarriedField DEF HasField
  <2>2. p.field \in Nat
    BY PacketTypes
  <2>3. QED
    BY <2>1, <2>2
<1>2. ASSUME p.type \in {"ClientHello", "Meta", "Get", "Done"}
      PROVE  Payload(p) = Fixed[p.type] /\ Payload(p) \in 0 .. 96
  <2>1. p.type \notin HasField
    BY <1>2 DEF HasField
  <2>2. Fixed[p.type] \in 0 .. 96
    BY <1>2, FixedLengths
  <2>3. Payload(p) = Fixed[p.type] + 0
    BY PayloadOfField, <2>1
  <2>4. QED
    BY <2>2, <2>3
<1>3. QED
  BY <1>1, <1>2

\* The payload of the others.
LEMMA PayloadRange ==
  ASSUME NEW p \in Packets
  PROVE  /\ p.type = "ServerHello" => Payload(p) \in 322 .. 578
         /\ p.type = "Data" => Payload(p) \in 4 .. 1124
         /\ p.type = "Error" => Payload(p) \in 0 .. 1164
<1>1. ASSUME p.type = "ServerHello"
      PROVE  Payload(p) \in 322 .. 578
  <2>1. Payload(p) = 66 + p.field
    BY <1>1, PayloadOfField, FixedLengths, CarriedField DEF HasField
  <2>2. p.field \in 256 .. 512
    BY <1>1, PacketTypes
  <2>3. QED
    BY <2>1, <2>2
<1>2. ASSUME p.type = "Data"
      PROVE  Payload(p) \in 4 .. 1124
  <2>1. Payload(p) = 4 + p.field
    BY <1>2, PayloadOfField, FixedLengths, CarriedField DEF HasField
  <2>2. p.field \in 0 .. 1120
    BY <1>2, PacketTypes
  <2>3. QED
    BY <2>1, <2>2
<1>3. ASSUME p.type = "Error"
      PROVE  Payload(p) \in 0 .. 1164
  <2>1. Payload(p) = 0 + Carried(p)
    BY <1>3, PayloadOfField, FixedLengths DEF HasField
  <2>2. Carried(p) \in 0 .. 1164
    BY <1>3, CarriedField
  <2>3. QED
    BY <2>1, <2>2
<1>4. QED
  BY <1>1, <1>2, <1>3

\* Only paths are refused.
LEMMA RefusedIsPath == OnlyPathsRefused
<1> SUFFICES ASSUME NEW p \in Packets, ~ Encodable(p)
             PROVE  p.type = "Request" /\ ~ (p.field \in 1 .. MaxRequestPath /\ p.utf8)
  BY DEF OnlyPathsRefused
<1>1. CASE p.type = "Request"
  <2>1. SUFFICES ASSUME p.field \in 1 .. MaxRequestPath, p.utf8
                 PROVE  FALSE
    BY <1>1
  <2>2. Payload(p) \in 1 .. 1024
    BY <1>1, <2>1, PayloadFixed, PacketLimits
  <2>3. HeaderSize + Payload(p) <= MaxDatagramSize
    BY <2>2, PacketLimits
  <2>4. QED
    BY <1>1, <2>1, <2>3 DEF Encodable
<1>2. CASE p.type # "Request"
  <2>1. Payload(p) \in 0 .. 1164
    BY <1>2, PayloadFixed, PayloadRange, PacketTypes
  <2>2. HeaderSize + Payload(p) <= MaxDatagramSize
    BY <2>1, PacketLimits
  <2>3. p.type = "ServerHello" => p.field \in 1 .. MaxSignature
    BY PacketTypes, PacketLimits
  <2>4. p.type = "Data" => p.field <= ChunkSize
    BY PacketTypes, PacketLimits
  <2>5. QED
    BY <1>2, <2>2, <2>3, <2>4 DEF Encodable
<1>3. QED
  BY <1>1, <1>2

\* What a layer above hands down fits, and is what the decoder demands.
LEMMA PayloadFits ==
  ASSUME NEW p \in Packets, Encodable(p)
  PROVE  /\ Payload(p) \in 0 .. 1164
         /\ Decodable(p, Payload(p))
<1>1. CASE p.type = "ServerHello"
  <2>1. Payload(p) \in 322 .. 578
    BY <1>1, PayloadRange
  <2>2. Decodable(p, Payload(p))
    BY <1>1, <2>1, PacketLimits DEF Decodable
  <2>3. QED
    BY <2>1, <2>2
<1>2. CASE p.type = "Request"
  <2>1. p.field \in 1 .. MaxRequestPath /\ p.utf8
    BY <1>2, Zenon DEF Encodable
  <2>2. Payload(p) \in 1 .. MaxRequestPath
    BY <1>2, <2>1, PayloadFixed
  <2>3. Decodable(p, Payload(p)) <=> Payload(p) \in 1 .. MaxRequestPath /\ p.utf8
    BY <1>2 DEF Decodable
  <2>4. Decodable(p, Payload(p))
    BY <2>1, <2>2, <2>3, Zenon
  <2>5. QED
    BY <2>2, <2>4, PacketLimits
<1>3. CASE p.type = "Data"
  <2>1. Payload(p) \in 4 .. 1124
    BY <1>3, PayloadRange
  <2>2. Decodable(p, Payload(p))
    BY <1>3, <2>1, PacketLimits DEF Decodable
  <2>3. QED
    BY <2>1, <2>2
<1>4. CASE p.type = "Error"
  <2>1. Payload(p) \in 0 .. 1164
    BY <1>4, PayloadRange
  <2>2. Decodable(p, Payload(p))
    BY <1>4 DEF Decodable
  <2>3. QED
    BY <2>1, <2>2
<1>5. CASE p.type \in {"ClientHello", "Meta", "Get", "Done"}
  <2>1. Payload(p) = Fixed[p.type] /\ Payload(p) \in 0 .. 96
    BY <1>5, PayloadFixed
  <2>2. Decodable(p, Payload(p))
    BY <1>5, <2>1 DEF Decodable
  <2>3. QED
    BY <2>1, <2>2
<1>6. QED
  BY <1>1, <1>2, <1>3, <1>4, <1>5, PacketTypes

\* A datagram is read whole, and sealing and opening cancel out.
LEMMA DatagramWhole ==
  ASSUME NEW p \in Packets, Encodable(p)
  PROVE  /\ Encode(p) = 22 + Payload(p)
         /\ Left(p) = Encode(p)
         /\ Datagram(p) \in 22 .. 1232
         /\ p.type \in Inner => Datagram(p) >= 46 /\ Sealable(Encode(p))
<1> USE PacketLimits
<1>1. Encode(p) = 22 + Payload(p) /\ Payload(p) \in 0 .. 1164
  BY PayloadFits DEF Encode
<1>2. CASE p.type \in Inner
  <2>1. Sealed(Encode(p)) = Encode(p) + 46
    BY <1>1 DEF Sealed
  <2>2. Datagram(p) = Encode(p) + 46
    <3>1. Datagram(p) = Read(Encode(p) + 46)
      BY <1>2, <2>1 DEF Datagram
    <3>2. QED
      BY <1>1, <3>1 DEF Read, Smaller
  <2>3. Left(p) = Encode(p)
    BY <1>1, <1>2, <2>2 DEF Left, Opened
  <2>4. QED
    BY <1>1, <1>2, <2>1, <2>2, <2>3 DEF Sealable
<1>3. CASE p.type \notin Inner
  <2>1. Datagram(p) = Encode(p)
    <3>1. Datagram(p) = Read(Encode(p))
      BY <1>3 DEF Datagram
    <3>2. QED
      BY <1>1, <3>1 DEF Read, Smaller
  <2>2. QED
    BY <1>1, <1>3, <2>1 DEF Left
<1>4. QED  BY <1>2, <1>3

\* Whatever the program sends arrives: no limit of a layer or of the other
\* side stops what the encoder takes, for fields of every length
\* (protocol.go, session.go; readPacket and Serve read the datagrams).
THEOREM NothingTooLong == EncodedIsDecoded
<1> USE PacketLimits
<1>1. AllArrive
  <2> SUFFICES ASSUME NEW p \in Packets, Encodable(p)
               PROVE  /\ p.type \in Inner => Sealable(Encode(p))
                      /\ Arrives(p, Datagram(p), Left(p))
    BY DEF AllArrive
  <2>1. Left(p) - HeaderSize = Payload(p) /\ Left(p) \in 22 .. 1232
    BY DatagramWhole, PayloadFits
  <2>2. ValidLength(Datagram(p)) /\ ValidLength(Left(p))
    BY <2>1, DatagramWhole DEF ValidLength
  <2>3. p.type \in Inner => Openable(Datagram(p))
    BY DatagramWhole DEF Openable
  <2>4. Decodable(p, Left(p) - HeaderSize)
    BY <2>1, PayloadFits
  <2>5. QED
    BY <2>2, <2>3, <2>4, DatagramWhole DEF Arrives
<1>2. AllPreserved
  <2> SUFFICES ASSUME NEW p \in Packets, Encodable(p), p.type \in HasField,
                      p.type = "Error" => p.field \in 1 .. LongestMessage
               PROVE  Left(p) = HeaderSize + Fixed[p.type] + p.field
    BY DEF AllPreserved
  <2>1. Carried(p) = p.field
    BY CarriedField
  <2>2. Payload(p) = Fixed[p.type] + p.field
    BY <2>1, PayloadOfField
  <2>3. Left(p) = 22 + Payload(p)
    BY DatagramWhole
  <2>4. Fixed[p.type] \in Nat /\ p.field \in Nat
    BY PacketTypes, FixedLengths
  <2>5. QED
    BY <2>2, <2>3, <2>4
<1>3. QED
  BY <1>1, <1>2, RefusedIsPath, PTL DEF EncodedIsDecoded

-----------------------------------------------------------------------------
(* The directory. *)

\* What a call of Receive has done with its staging directory: directories
\* that have their modes are no higher than those that have not, and it is
\* complete when it is renamed.
StagingInv ==
    \A r \in Receivers :
        /\ \A d \in modesSet[r], other \in DirectoriesOf(r) \ modesSet[r] :
               Len(d) >= Len(other)
        /\ step[r] \in {"rename", "restored", "ok"} => modesSet[r] = DirectoriesOf(r)

RestoreInv ==
    /\ empty \subseteq Receivers
    /\ step \in [Receivers -> {"look", "download", "inspect", "extract", "modes",
                               "rename", "restored", "failed", "ok", "error", "killed"}]
    /\ modesSet \in [Receivers -> SUBSET Directories]
    /\ StagingInv
    /\ DestinationWhole
    /\ NotDenied

\* Paths have lengths, and what is above a directory is shorter.
LEMMA AboveIsShorter ==
    ASSUME NEW e \in Directories
    PROVE  Len(e) \in Nat /\ \A d \in Above(e) : Len(d) < Len(e)
<1>1. e \in Seq(STRING)
  BY DirectoryRestoreAssumption DEF Paths
<1>2. ASSUME NEW n \in 1 .. Len(e) - 1
      PROVE  Len(SubSeq(e, 1, n)) < Len(e)
  <2>1. Len(SubSeq(e, 1, n)) = n
    BY <1>1, SubSeqProperties
  <2>2. QED
    BY <1>1, <2>1
<1>3. QED
  BY <1>1, <1>2 DEF Above

LEMMA RestoreInitInv == RestoreInit => RestoreInv
BY DirectoryRestoreAssumption
   DEF RestoreInit, RestoreInv, StagingInv, DestinationWhole, NotDenied

\* A directory that is deepest of those left is below none whose mode is set,
\* so that the modes set do not stop the client.
LEMMA SetModeInv ==
    ASSUME RestoreInv, NEW r \in Receivers, SetMode(r)
    PROVE  RestoreInv'
<1> USE DEF RestoreInv
<1>1. PICK d \in NextDirectories(r) :
        /\ modesSet' = [modesSet EXCEPT ![r] = @ \union {d}]
        /\ Goto(r, IF Reachable(r, Above(d)) THEN "modes" ELSE "failed")
        /\ denied' = (denied \/ ~ Reachable(r, Above(d)))
  BY DEF SetMode
<1>2. /\ d \in Directories /\ d \notin modesSet[r]
      /\ \A other \in DirectoriesOf(r) \ modesSet[r] : Len(d) >= Len(other)
      /\ d \in DirectoriesOf(r)
  BY <1>1 DEF NextDirectories, DirectoriesOf
<1>3. Above(d) \intersect modesSet[r] = {}
  <2> SUFFICES ASSUME NEW a \in Above(d), a \in modesSet[r]
               PROVE  FALSE
    OBVIOUS
  <2>1. a \in Directories
    BY DEF Above
  <2>2. Len(a) < Len(d) /\ Len(a) \in Nat /\ Len(d) \in Nat
    BY <1>2, <2>1, AboveIsShorter
  <2>3. Len(a) >= Len(d)
    BY <1>2 DEF StagingInv
  <2>4. QED
    BY <2>2, <2>3
<1>4. Reachable(r, Above(d))
  BY <1>3 DEF Reachable
<1>5. step[r] = "modes" /\ step' = step /\ UNCHANGED <<destination, packed>>
  <2>1. step' = [step EXCEPT ![r] = "modes"]
    BY <1>1, <1>4 DEF Goto
  <2>2. QED
    BY <2>1 DEF SetMode
<1>6. StagingInv'
  <2> SUFFICES ASSUME NEW q \in Receivers
               PROVE  /\ \A c \in modesSet'[q], other \in DirectoriesOf(q) \ modesSet'[q] :
                             Len(c) >= Len(other)
                      /\ step'[q] \in {"rename", "restored", "ok"}
                           => modesSet'[q] = DirectoriesOf(q)
    BY <1>5 DEF StagingInv, DirectoriesOf, packed
  <2>1. CASE q = r
    <3>1. modesSet'[q] = modesSet[r] \union {d}
      BY <1>1, <2>1
    <3>2. \A c \in modesSet[r] \union {d}, other \in DirectoriesOf(r) \ (modesSet[r] \union {d}) :
            Len(c) >= Len(other)
      BY <1>2 DEF StagingInv
    <3>3. QED
      BY <1>5, <2>1, <3>1, <3>2
  <2>2. CASE q # r
    BY <1>1, <1>5, <2>2 DEF StagingInv
  <2>3. QED
    BY <2>1, <2>2
<1>7. modesSet' \in [Receivers -> SUBSET Directories]
  BY <1>1, <1>2
<1>8. DestinationWhole'
  <2>1. destination # r \/ destination \notin Receivers
    BY <1>5 DEF DestinationWhole
  <2>2. QED
    BY <1>1, <1>5, <2>1 DEF DestinationWhole, DirectoriesOf, packed
<1>9. NotDenied'
  BY <1>1, <1>4 DEF NotDenied
<1>10. QED
  BY <1>5, <1>6, <1>7, <1>8, <1>9 DEF packed

\* A step after which a call is elsewhere, and all else is as it was: it
\* renames only what is complete, and has restored only what it renamed.
LEMMA ElsewhereInv ==
    ASSUME RestoreInv, UNCHANGED <<packed, modesSet, destination, denied>>,
           NEW r \in Receivers,
           NEW next \in {"download", "inspect", "extract", "modes", "rename", "failed",
                         "ok", "error", "killed"},
           step' \in {step, [step EXCEPT ![r] = next]},
           next = "rename" => ModesDone(r),
           next = "ok" => step[r] = "restored",
           next \notin {"ok", "killed"} => step[r] \notin {"restored", "ok", "killed"}
    PROVE  RestoreInv'
<1>1. \A q \in Receivers : DirectoriesOf(q)' = DirectoriesOf(q)
  BY DEF DirectoriesOf, packed
<1>2. step' \in [Receivers -> {"look", "download", "inspect", "extract", "modes",
                               "rename", "restored", "failed", "ok", "error", "killed"}]
  BY DEF RestoreInv
<1>3. \A q \in Receivers :
        /\ step'[q] \in {"rename", "restored", "ok"} => modesSet[q] = DirectoriesOf(q)
        /\ step'[q] \in {"restored", "ok"} => step[q] \in {"restored", "ok"}
        /\ step[q] \in {"restored", "ok", "killed"} => step'[q] \in {"restored", "ok", "killed"}
  BY DEF RestoreInv, StagingInv, ModesDone
<1>4. StagingInv'
  BY <1>1, <1>3 DEF RestoreInv, StagingInv
<1>5. DestinationWhole'
  BY <1>1, <1>3 DEF RestoreInv, DestinationWhole, packed
<1>6. QED
  BY <1>2, <1>4, <1>5 DEF RestoreInv, NotDenied, packed

\* The destination changes hands, and every call has the modes that it had:
\* only from who has nothing in it, and to the user or a call that is done.
LEMMA HandedOverInv ==
    ASSUME RestoreInv, UNCHANGED <<packed, modesSet, denied>>,
           destination \in {None, "mine"} \union empty,
           \/ destination' \in {"mine", "used"} /\ step' = step
              /\ (destination \in empty => destination' = "used")
           \/ \E r \in Receivers : destination' = r /\ step[r] = "rename"
                                   /\ step' = [step EXCEPT ![r] = "restored"]
    PROVE  RestoreInv'
<1> USE DirectoryRestoreAssumption
<1>1. \A q \in Receivers : DirectoriesOf(q)' = DirectoriesOf(q)
  BY DEF DirectoriesOf, packed
<1>2. step' \in [Receivers -> {"look", "download", "inspect", "extract", "modes",
                               "rename", "restored", "failed", "ok", "error", "killed"}]
  BY DEF RestoreInv
<1>3. StagingInv'
  BY <1>1 DEF RestoreInv, StagingInv
<1>4. \A q \in Receivers : step[q] \in {"restored", "ok"} => q \in empty
  BY DEF RestoreInv, DestinationWhole
<1>5. DestinationWhole'
  <2>1. CASE destination' \in {"mine", "used"} /\ step' = step
    <3>1. destination' \notin Receivers
      BY <2>1
    <3>2. \A q \in Receivers : step[q] \in {"restored", "ok"} =>
            q \in empty /\ destination' = "used"
      BY <1>4, <2>1 DEF RestoreInv, DestinationWhole
    <3>3. QED
      BY <2>1, <3>1, <3>2 DEF DestinationWhole, packed
  <2>2. ASSUME NEW r \in Receivers, destination' = r, step[r] = "rename",
               step' = [step EXCEPT ![r] = "restored"]
        PROVE  DestinationWhole'
    <3>1. modesSet'[r] = DirectoriesOf(r)' /\ step'[r] = "restored"
      BY <1>1, <2>2 DEF RestoreInv, StagingInv
    <3>2. \A q \in Receivers : q # r /\ step'[q] \in {"restored", "ok"} => q \in empty'
      BY <1>4, <2>2 DEF packed
    <3>3. QED
      BY <2>2, <3>1, <3>2 DEF DestinationWhole
  <2>3. QED
    BY <2>1, <2>2
<1>6. QED
  BY <1>2, <1>3, <1>5 DEF RestoreInv, NotDenied, packed

\* Every step preserves the invariant.
LEMMA RestoreStep == RestoreInv /\ [RestoreNext]_restoreVars => RestoreInv'
<1> SUFFICES ASSUME RestoreInv, [RestoreNext]_restoreVars
             PROVE  RestoreInv'
  OBVIOUS
<1> USE DirectoryRestoreAssumption
<1>1. ASSUME NEW r \in Receivers,
             Inspect(r) \/ Download(r) \/ ExtractEntry(r) \/ CheckRename(r) \/ Fail(r)
      PROVE  RestoreInv'
  BY <1>1, ElsewhereInv
     DEF Inspect, Download, ExtractEntry, CheckRename, Fail, Goto, files
<1>2. ASSUME NEW r \in Receivers, Clean(r) \/ Kill(r)
      PROVE  RestoreInv'
  <2>1. CASE step[r] = "failed" \/ Kill(r)
    BY <1>2, <2>1, ElsewhereInv DEF Clean, Kill, Goto, files
  <2>2. CASE step[r] = "restored" /\ Clean(r)
    BY <2>2, ElsewhereInv DEF Clean, Goto
  <2>3. QED
    BY <1>2, <2>1, <2>2 DEF Clean
<1>3. ASSUME NEW r \in Receivers, Rename(r)
      PROVE  RestoreInv'
  <2>1. CASE destination \in {None, "mine"} \union empty
    BY <1>3, <2>1, HandedOverInv DEF Rename, Goto
  <2>2. CASE destination \notin {None, "mine"} \union empty
    BY <1>3, <2>2, ElsewhereInv DEF Rename, Goto
  <2>3. QED
    BY <2>1, <2>2
<1>4. CASE MakeDirectory
  <2>1. CASE destination \in {None, "mine"} \union empty
    <3>1. destination \in empty => destination \notin {None, "mine"}
      BY DEF RestoreInv
    <3>2. destination' \in {"mine", "used"} /\ (destination \in empty => destination' = "used")
      BY <1>4, <2>1, <3>1 DEF MakeDirectory
    <3>3. QED
      BY <1>4, <2>1, <3>2, HandedOverInv DEF MakeDirectory
  <2>2. CASE destination \notin {None, "mine"} \union empty
    BY <1>4, <2>2 DEF MakeDirectory, RestoreInv, StagingInv, DestinationWhole, NotDenied,
                      DirectoriesOf, packed
  <2>3. QED
    BY <2>1, <2>2
<1>5. CASE UNCHANGED restoreVars
  BY <1>5 DEF restoreVars, files, RestoreInv, StagingInv, DestinationWhole, NotDenied,
              DirectoriesOf, packed
<1>6. QED
  BY <1>1, <1>2, <1>3, <1>4, <1>5, SetModeInv DEF RestoreNext, ReceiveDirectory

LEMMA RestoreInductive == RestoreSpec => []RestoreInv
BY RestoreInitInv, RestoreStep, PTL DEF RestoreSpec

\* For every archive and any number of downloads to one name: a directory that
\* a download put there is complete with all its modes; one with entries
\* belongs to the one such call that succeeds, and stays; an empty one may be
\* replaced (client.Receive, archive.Extract).
THEOREM DestinationComplete == RestoreSpec => []DestinationWhole
<1>1. RestoreInv => DestinationWhole
  BY DEF RestoreInv
<1>2. QED
  BY <1>1, RestoreInductive, PTL

\* Deepest first, the modes of directories never lock the client out, whatever
\* tree the server packed.
THEOREM ModesRestorable == RestoreSpec => []NotDenied
<1>1. RestoreInv => NotDenied
  BY DEF RestoreInv
<1>2. QED
  BY <1>1, RestoreInductive, PTL
=============================================================================
