-------------------------- MODULE SendWindowProofs --------------------------
(***************************************************************************)
(* What the server's send window and its reporter guarantee for every      *)
(* window, archive and chunk size.                                         *)
(***************************************************************************)
EXTENDS ProgressReporter, BitWindowProofs, FiniteSetTheorems, TLAPS

-----------------------------------------------------------------------------
(* The chunks of an archive. *)

\* The number of chunks is the size divided by the chunk size, rounded up.
LEMMA ChunksCoverSize ==
    /\ Chunks \in Nat
    /\ Chunks = 0 => Size = 0
    /\ Chunks > 0 => (Chunks - 1) * ChunkSize < Size
    /\ Size <= Chunks * ChunkSize
<1>1. ChunkSize \in Nat /\ ChunkSize >= 1 /\ Size \in Nat
  BY SendWindowAssumption
<1>2. CASE Size = 0
  <2>1. Chunks = 0  BY <1>1, <1>2 DEF Chunks
  <2>2. QED  BY <1>1, <1>2, <2>1
<1>3. CASE Size > 0
  <2> DEFINE n == Size + ChunkSize - 1
             q == n \div ChunkSize
             r == n % ChunkSize
  <2>1. n \in Nat  BY <1>1
  <2>2. q \in Nat /\ r \in 0 .. ChunkSize - 1 /\ n = ChunkSize * q + r
    <3> HIDE DEF n
    <3>1. QED  BY <1>1, <2>1
  <2>3. Chunks = q  BY <1>3 DEF Chunks
  <2> HIDE DEF q, r
  <2>4. ChunkSize * q \in Nat /\ ChunkSize * q = q * ChunkSize
        /\ (q - 1) * ChunkSize = q * ChunkSize - ChunkSize
    BY <1>1, <2>2
  <2>5. Size + ChunkSize - 1 = ChunkSize * q + r  BY <2>2
  <2>6. q # 0
    <3>1. SUFFICES ASSUME q = 0 PROVE FALSE  OBVIOUS
    <3>2. ChunkSize * q = 0  BY <1>1, <3>1
    <3>3. QED  BY <1>1, <1>3, <2>2, <2>5, <3>2
  <2>7. QED  BY <1>1, <1>3, <2>2, <2>3, <2>4, <2>5, <2>6
<1>4. QED  BY <1>1, <1>2, <1>3

\* Every chunk is full, except the last one, which has what remains.
LEMMA LengthOfChunk ==
    ASSUME NEW i \in ChunkIndex
    PROVE  ChunkLength(i) = ChunkSize - (IF i = Chunks - 1
                                         THEN Chunks * ChunkSize - Size ELSE 0)
<1>1. ChunkSize \in Nat /\ ChunkSize >= 1 /\ Size \in Nat
  BY SendWindowAssumption
<1>2. Chunks \in Nat /\ i \in 0 .. Chunks - 1 /\ (Chunks - 1) * ChunkSize < Size
      /\ Size <= Chunks * ChunkSize
  BY ChunksCoverSize DEF ChunkIndex
<1>3. PICK k \in Nat : Chunks - 1 = i + k
  <2>1. Chunks - 1 - i \in Nat /\ Chunks - 1 = i + (Chunks - 1 - i)  BY <1>2
  <2>2. QED  BY <2>1
<1>4. /\ i * ChunkSize \in Nat /\ k * ChunkSize \in Nat
      /\ (Chunks - 1) * ChunkSize = i * ChunkSize + k * ChunkSize
      /\ Chunks * ChunkSize = (Chunks - 1) * ChunkSize + ChunkSize
  BY <1>1, <1>2, <1>3
<1>5. CASE k = 0
  <2>1. k * ChunkSize = 0 /\ i = Chunks - 1  BY <1>1, <1>2, <1>3, <1>5
  <2>2. QED  BY <1>1, <1>2, <1>4, <2>1 DEF ChunkLength, Smaller
<1>6. CASE k # 0
  <2>1. PICK l \in Nat : k = l + 1
    <3>1. k - 1 \in Nat /\ k = (k - 1) + 1  BY <1>6
    <3>2. QED  BY <3>1
  <2>2. k * ChunkSize = l * ChunkSize + ChunkSize /\ l * ChunkSize \in Nat
    BY <1>1, <2>1
  <2>3. i # Chunks - 1  BY <1>2, <1>3, <1>6
  <2>4. ChunkSize < Size - i * ChunkSize  BY <1>1, <1>2, <1>4, <2>2
  <2>5. QED  BY <1>1, <1>4, <2>3, <2>4 DEF ChunkLength, Smaller
<1>7. QED  BY <1>5, <1>6

-----------------------------------------------------------------------------
(* What shiftSentChunkWindow computes. *)

\* A bit is set after the shift exactly when the next position was set before.
LEMMA ShiftTakesNext ==
    ASSUME NEW words \in Windows, NEW w \in WordIndex, NEW b \in BitIndex
    PROVE  b \in ShiftSentChunkWindow(words)[w] <=>
              \E v \in WordIndex, c \in BitIndex :
                 c \in words[v] /\ Position(v, c) = Position(w, b) + 1
<1>1. WordBits \in Nat /\ WordBits >= 1 /\ Words \in Nat  BY BitWindowAssumption
<1>2. w \in 0 .. Words - 1 /\ b \in 0 .. WordBits - 1  BY DEF WordIndex, BitIndex
<1>3. \A v \in WordIndex : words[v] \subseteq 0 .. WordBits - 1
  BY DEF Windows, BitIndex
<1>4. b \in ShiftSentChunkWindow(words)[w] <=>
         \/ b + 1 \in words[w]
         \/ b = WordBits - 1 /\ w + 1 \in WordIndex /\ 0 \in words[w + 1]
  BY DEF ShiftSentChunkWindow
<1>5. WordBits * (w + 1) = WordBits * w + WordBits /\ WordBits * w \in Int
  BY <1>1, <1>2
<1>6. CASE b # WordBits - 1
  <2>1. b + 1 \in BitIndex  BY <1>1, <1>2, <1>6 DEF BitIndex
  <2>2. Position(w, b + 1) = Position(w, b) + 1
    BY <1>1, <1>2, <1>5 DEF Position
  <2>3. \A v \in WordIndex, c \in BitIndex :
           Position(v, c) = Position(w, b) + 1 => v = w /\ c = b + 1
    BY <2>1, <2>2, PositionIsOneBit
  <2>4. QED  BY <1>4, <1>6, <2>1, <2>2, <2>3
<1>7. CASE b = WordBits - 1
  <2>1. b + 1 \notin words[w]  BY <1>1, <1>2, <1>3, <1>7
  <2>2. WordBits * (w + 1) + 0 = Position(w, b) + 1 /\ 0 \in BitIndex
    BY <1>1, <1>2, <1>5, <1>7 DEF Position, BitIndex
  <2>3. \A v \in WordIndex, c \in BitIndex :
           Position(v, c) = Position(w, b) + 1 => v = w + 1 /\ c = 0
    <3> DEFINE u == w + 1
               z == 0
    <3>1. u \in Int /\ z \in BitIndex /\ WordBits * u + z = Position(w, b) + 1
      BY <1>2, <2>2
    <3> HIDE DEF u, z
    <3>2. \A v \in WordIndex, c \in BitIndex :
             WordBits * v + c = WordBits * u + z => v = u /\ c = z
      BY <3>1, PositionUnique DEF WordIndex
    <3>3. \A v \in WordIndex, c \in BitIndex :
             Position(v, c) = Position(w, b) + 1 => v = u /\ c = z
      BY <3>1, <3>2 DEF Position
    <3>4. QED  BY <3>3 DEF u, z
  <2>4. w + 1 \in WordIndex => Position(w + 1, 0) = Position(w, b) + 1
    BY <2>2 DEF Position
  <2>5. QED  BY <1>4, <1>7, <2>1, <2>2, <2>3, <2>4
<1>8. QED  BY <1>6, <1>7

\* A shifted window is a window.
LEMMA ShiftType ==
    ASSUME NEW words \in Windows
    PROVE  ShiftSentChunkWindow(words) \in Windows
  BY DEF ShiftSentChunkWindow, Windows

-----------------------------------------------------------------------------
(* The inductive invariant. *)

\* Chunks that have been counted: while the base moves, the chunk just marked
\* is recorded and not counted yet.
Counted == IF pc = "shift" THEN Recorded \ {index} ELSE Recorded

\* What the record knows at each point of handleGet.
ProgressInv ==
    /\ pc = "serve" => Recorded = sent
    /\ pc = "send" => Recorded = sent /\ ChunkWithinSendWindow(index)
    /\ pc = "mark" => sent = Recorded \cup {index} /\ ChunkWithinSendWindow(index)
    /\ pc = "shift" => sent = Recorded /\ index \in Recorded
    /\ pc # "serve" => index \in ChunkIndex

\* The base is the first chunk not recorded, and no bit lies beyond the archive.
WindowInv ==
    /\ pc # "shift" => 0 \notin sentChunkWindow[0]
    /\ \A w \in WordIndex, b \in BitIndex :
          b \in sentChunkWindow[w] =>
             sentWindowBase + Position(w, b) \in ChunkIndex

CountInv ==
    /\ sentChunks = Cardinality(Counted)
    /\ sentBytes = sentChunks * ChunkSize
                   - (IF Chunks - 1 \in Counted
                      THEN Chunks * ChunkSize - Size ELSE 0)

TypeInv ==
    /\ sentWindowBase \in 0 .. Chunks
    /\ sentChunkWindow \in Windows
    /\ sentChunks \in Nat
    /\ sentBytes \in Int
    /\ pc \in {"serve", "send", "mark", "shift"}
    /\ index \in Nat
    /\ sent \subseteq ChunkIndex
    /\ received \subseteq sent

IInv == TypeInv /\ WindowInv /\ ProgressInv /\ CountInv

\* The record is a finite set of chunks.
LEMMA RecordedFinite ==
    /\ Recorded \subseteq ChunkIndex
    /\ IsFiniteSet(Recorded)
    /\ IsFiniteSet(ChunkIndex)
    /\ Cardinality(ChunkIndex) = Chunks
<1>1. Recorded \subseteq ChunkIndex  BY DEF Recorded
<1>2. Chunks \in Nat  BY ChunksCoverSize
<1>3. IsFiniteSet(ChunkIndex) /\ Cardinality(ChunkIndex) = Chunks
  <2>1. 0 \in Int /\ Chunks - 1 \in Int  BY <1>2
  <2>2. IsFiniteSet(0 .. Chunks - 1)
        /\ Cardinality(0 .. Chunks - 1)
             = (IF 0 > Chunks - 1 THEN 0 ELSE Chunks - 1 - 0 + 1)
    BY <2>1, FS_Interval
  <2>3. (IF 0 > Chunks - 1 THEN 0 ELSE Chunks - 1 - 0 + 1) = Chunks  BY <1>2
  <2>4. QED  BY <2>2, <2>3 DEF ChunkIndex
<1>4. IsFiniteSet(Recorded)  BY <1>1, <1>3, FS_Subset
<1>5. QED  BY <1>1, <1>3, <1>4

LEMMA InitInv == Init => IInv
<1> SUFFICES ASSUME Init PROVE IInv  OBVIOUS
<1>1. Chunks \in Nat  BY ChunksCoverSize
<1>2. TypeInv
  BY <1>1 DEF Init, TypeInv, EmptyWindow, Windows
<1>3. Recorded = {}
  BY DEF Recorded, Init, EmptyWindow, ChunkIndex
<1>4. WindowInv
  <2>1. 0 \in WordIndex  BY BitWindowAssumption DEF WordIndex
  <2>2. QED  BY <2>1 DEF WindowInv, Init, EmptyWindow
<1>5. ProgressInv  BY <1>3 DEF ProgressInv, Init
<1>6. CountInv
  BY <1>3, FS_EmptySet, SendWindowAssumption DEF CountInv, Counted, Init
<1>7. QED  BY <1>2, <1>4, <1>5, <1>6 DEF IInv

\* A step that leaves the window alone leaves the record alone.
LEMMA RecordedUnchanged ==
    UNCHANGED sendWindow => Recorded' = Recorded
  BY DEF sendWindow, Recorded

LEMMA GetInv ==
    ASSUME IInv, NEW i \in 0 .. Chunks, Get(i)
    PROVE  IInv'
<1> USE DEF IInv
<1>1. Recorded' = Recorded  BY RecordedUnchanged DEF Get
<1>2. Chunks \in Nat /\ pc = "serve"  BY ChunksCoverSize DEF Get
<1>3. TypeInv'
  <2>1. index' \in Nat  BY <1>2 DEF TypeInv, Get
  <2>2. pc' \in {"serve", "send"}  BY <1>2 DEF Get
  <2>3. QED  BY <2>1, <2>2 DEF TypeInv, Get, sendWindow, counters
<1>4. WindowInv'  BY <1>2 DEF WindowInv, Get, sendWindow
<1>5. ProgressInv'
  <2>1. CASE pc' = "send" /\ index' = i /\ i < Chunks /\ ChunkWithinSendWindow(i)
    <3>1. ChunkWithinSendWindow(index)'
      BY <2>1 DEF ChunkWithinSendWindow, Get, sendWindow
    <3>2. index' \in ChunkIndex  BY <1>2, <2>1 DEF ChunkIndex
    <3>3. QED  BY <1>1, <1>2, <2>1, <3>1, <3>2 DEF ProgressInv, Get
  <2>2. CASE UNCHANGED <<pc, index>>
    BY <1>1, <1>2, <2>2 DEF ProgressInv, Get
  <2>3. QED  BY <2>1, <2>2 DEF Get
<1>6. CountInv'
  <2>1. Counted' = Counted  BY <1>1, <1>2 DEF Counted, Get
  <2>2. QED  BY <2>1 DEF CountInv, Get, counters
<1>7. QED  BY <1>3, <1>4, <1>5, <1>6

LEMMA SendInv ==
    ASSUME IInv, Send
    PROVE  IInv'
<1> USE DEF IInv
<1>1. Recorded' = Recorded  BY RecordedUnchanged DEF Send
<1>2. TypeInv'
  BY DEF TypeInv, ProgressInv, Send, sendWindow, counters
<1>3. WindowInv'  BY DEF WindowInv, Send, sendWindow
<1>4. ProgressInv'
  BY <1>1 DEF ProgressInv, Send, sendWindow, ChunkWithinSendWindow
<1>5. CountInv'
  <2>1. Counted' = Counted  BY <1>1 DEF Counted, Send
  <2>2. QED  BY <2>1 DEF CountInv, Send, counters
<1>6. QED  BY <1>2, <1>3, <1>4, <1>5

LEMMA MarkInv ==
    ASSUME IInv, Mark
    PROVE  IInv'
<1> USE DEF IInv
<1>0. /\ pc = "mark" /\ index \in ChunkIndex /\ sent = Recorded \cup {index}
      /\ sentWindowBase \in Nat /\ index \in Nat /\ sentChunkWindow \in Windows
      /\ WindowSize \in Nat
  BY ChunksCoverSize, BitWindowAssumption
     DEF Mark, ProgressInv, TypeInv, WindowSize
<1>1. CASE Countable
  <2> DEFINE n == index - sentWindowBase
  <2>1. n \in Nat /\ n < WindowSize /\ sentWindowBase + n = index
    BY <1>0, <1>1 DEF Countable, Distance
  <2>2. /\ sentChunkWindow' = SetBit(sentChunkWindow, n)
        /\ pc' = "shift"
        /\ UNCHANGED <<sentWindowBase, counters, index, sent, received>>
    BY <1>1 DEF Mark, Distance
  <2>3. ~ BitIsSet(sentChunkWindow, n)  BY <1>1 DEF Countable, Distance
  <2> HIDE DEF n
  <2>4. /\ sentChunkWindow' \in Windows
        /\ \A w \in WordIndex, b \in BitIndex :
              b \in sentChunkWindow'[w] <=>
                 b \in sentChunkWindow[w] \/ Position(w, b) = n
    BY <1>0, <2>1, <2>2, SetBitSetsOneBit
  <2>5. WordAt(n) \in WordIndex /\ BitAt(n) \in BitIndex
        /\ Position(WordAt(n), BitAt(n)) = n
    BY <2>1, DistanceInWindow
  <2>6. Recorded' = Recorded \cup {index}
    <3>1. ASSUME NEW i \in ChunkIndex
          PROVE  i \in Recorded' <=> i \in Recorded \/ i = index
      <4>1. i \in Recorded' <=>
              \/ i < sentWindowBase
              \/ \E w \in WordIndex, b \in BitIndex :
                    /\ b \in sentChunkWindow'[w]
                    /\ i = sentWindowBase + Position(w, b)
        BY <2>2 DEF Recorded
      <4>2. i = index => \E w \in WordIndex, b \in BitIndex :
                            Position(w, b) = n /\ i = sentWindowBase + Position(w, b)
        BY <2>1, <2>5
      <4>3. \A w \in WordIndex, b \in BitIndex :
               Position(w, b) = n /\ i = sentWindowBase + Position(w, b) => i = index
        BY <2>1
      <4>4. QED  BY <2>4, <4>1, <4>2, <4>3 DEF Recorded
    <3>2. Recorded' \subseteq ChunkIndex
      BY DEF Recorded
    <3>3. QED  BY <1>0, <3>1, <3>2, RecordedFinite
  <2>7. index \notin Recorded
    <3>1. SUFFICES ASSUME index \in Recorded PROVE FALSE  OBVIOUS
    <3>2. ~ (index < sentWindowBase)  BY <1>0, <1>1 DEF Countable
    <3>3. PICK w \in WordIndex, b \in BitIndex :
             b \in sentChunkWindow[w] /\ index = sentWindowBase + Position(w, b)
      BY <3>1, <3>2 DEF Recorded
    <3>4. Position(w, b) = n
      BY <1>0, <2>1, <3>3, PositionBound
    <3>5. w = WordAt(n) /\ b = BitAt(n)  BY <2>5, <3>4, PositionIsOneBit
    <3>6. QED  BY <2>3, <3>3, <3>5 DEF BitIsSet
  <2>8. TypeInv'  BY <1>0, <2>2, <2>4 DEF TypeInv, counters
  <2>9. WindowInv'
    BY <1>0, <2>1, <2>2, <2>4 DEF WindowInv
  <2>10. ProgressInv'  BY <1>0, <2>2, <2>6 DEF ProgressInv
  <2>11. CountInv'
    <3>1. Counted' = Recorded /\ Counted = Recorded
      BY <1>0, <2>2, <2>6, <2>7 DEF Counted
    <3>2. QED  BY <2>2, <3>1 DEF CountInv, counters
  <2>12. QED  BY <2>8, <2>9, <2>10, <2>11
<1>2. CASE ~ Countable
  <2>1. /\ pc' = "serve"
        /\ UNCHANGED <<sendWindow, counters, index, sent, received>>
    BY <1>2 DEF Mark, sendWindow
  <2>2. Recorded' = Recorded  BY <2>1, RecordedUnchanged
  <2>3. index \in Recorded
    <3>1. CASE index < sentWindowBase  BY <1>0, <3>1 DEF Recorded
    <3>2. CASE index >= sentWindowBase
      <4> DEFINE n == index - sentWindowBase
      <4>1. n \in Nat /\ n < WindowSize /\ sentWindowBase + n = index
        BY <1>0, <3>2 DEF ProgressInv, ChunkWithinSendWindow
      <4>2. BitIsSet(sentChunkWindow, n)
        BY <1>2, <3>2, <4>1 DEF Countable, Distance
      <4> HIDE DEF n
      <4>3. WordAt(n) \in WordIndex /\ BitAt(n) \in BitIndex
            /\ Position(WordAt(n), BitAt(n)) = n
        BY <4>1, DistanceInWindow
      <4>4. QED  BY <1>0, <4>1, <4>2, <4>3 DEF Recorded, BitIsSet
    <3>3. QED  BY <1>0, <3>1, <3>2
  <2>4. TypeInv'  BY <2>1 DEF TypeInv, sendWindow, counters
  <2>5. WindowInv'  BY <1>0, <2>1 DEF WindowInv, sendWindow
  <2>6. ProgressInv'  BY <1>0, <2>1, <2>2, <2>3 DEF ProgressInv
  <2>7. CountInv'
    <3>1. Counted' = Counted  BY <1>0, <2>1, <2>2 DEF Counted
    <3>2. QED  BY <2>1, <3>1 DEF CountInv, counters
  <2>8. QED  BY <2>4, <2>5, <2>6, <2>7
<1>3. QED  BY <1>1, <1>2

LEMMA ShiftInv ==
    ASSUME IInv, Shift
    PROVE  IInv'
<1> USE DEF IInv
<1>0. /\ pc = "shift" /\ 0 \in sentChunkWindow[0]
      /\ sentWindowBase \in Nat /\ sentChunkWindow \in Windows /\ Chunks \in Nat
      /\ sentWindowBase' = sentWindowBase + 1
      /\ sentChunkWindow' = ShiftSentChunkWindow(sentChunkWindow)
      /\ UNCHANGED <<counters, pc, index, sent, received>>
  BY ChunksCoverSize DEF Shift, TypeInv
<1>1. 0 \in WordIndex /\ 0 \in BitIndex /\ Position(0, 0) = 0
  BY BitWindowAssumption DEF WordIndex, BitIndex, Position
<1>2. sentWindowBase \in ChunkIndex
  <2>1. sentWindowBase + Position(0, 0) \in ChunkIndex
    BY <1>0, <1>1 DEF WindowInv
  <2>2. QED  BY <1>0, <1>1, <2>1
<1>3. \A w \in WordIndex, b \in BitIndex :
         b \in sentChunkWindow'[w] <=>
            \E v \in WordIndex, c \in BitIndex :
               c \in sentChunkWindow[v] /\ Position(v, c) = Position(w, b) + 1
  BY <1>0, ShiftTakesNext
<1>4. \A v \in WordIndex, c \in BitIndex :
         Position(v, c) \in Nat /\ Position(v, c) < WindowSize
  BY PositionBound
<1>5. WindowSize \in Nat  BY BitWindowAssumption DEF WindowSize
<1>6. Recorded' = Recorded
  <2>1. ASSUME NEW i \in Recorded PROVE i \in Recorded'
    <3>0. i \in ChunkIndex /\ i \in Nat  BY RecordedFinite DEF ChunkIndex
    <3>1. CASE i <= sentWindowBase
      BY <1>0, <3>0, <3>1 DEF Recorded
    <3>2. CASE i > sentWindowBase
      <4>1. PICK v \in WordIndex, c \in BitIndex :
               c \in sentChunkWindow[v] /\ i = sentWindowBase + Position(v, c)
        BY <1>0, <3>0, <3>2 DEF Recorded
      <4> DEFINE n == Position(v, c) - 1
      <4>2. n \in Nat /\ n < WindowSize /\ n + 1 = Position(v, c)
        BY <1>0, <1>4, <1>5, <3>0, <3>2, <4>1
      <4>3. PICK w \in WordIndex, b \in BitIndex : Position(w, b) = n
        BY <4>2, DistanceInWindow
      <4>4. b \in sentChunkWindow'[w]  BY <1>3, <4>1, <4>2, <4>3
      <4>5. i = sentWindowBase' + Position(w, b)
        BY <1>0, <1>4, <4>1, <4>2, <4>3
      <4>6. QED  BY <3>0, <4>4, <4>5 DEF Recorded
    <3>3. QED  BY <1>0, <3>0, <3>1, <3>2
  <2>2. ASSUME NEW i \in Recorded' PROVE i \in Recorded
    <3>0. i \in ChunkIndex /\ i \in Nat  BY DEF Recorded, ChunkIndex
    <3>1. CASE i < sentWindowBase  BY <3>0, <3>1 DEF Recorded
    <3>2. CASE i = sentWindowBase
      <4>1. i = sentWindowBase + Position(0, 0)  BY <1>0, <1>1, <3>2
      <4>2. QED  BY <1>0, <1>1, <3>0, <4>1 DEF Recorded
    <3>3. CASE i > sentWindowBase
      <4>1. PICK w \in WordIndex, b \in BitIndex :
               b \in sentChunkWindow'[w] /\ i = sentWindowBase' + Position(w, b)
        BY <1>0, <3>0, <3>3 DEF Recorded
      <4>2. PICK v \in WordIndex, c \in BitIndex :
               c \in sentChunkWindow[v] /\ Position(v, c) = Position(w, b) + 1
        BY <1>3, <4>1
      <4>3. i = sentWindowBase + Position(v, c)
        BY <1>0, <1>4, <4>1, <4>2
      <4>4. QED  BY <3>0, <4>2, <4>3 DEF Recorded
    <3>4. QED  BY <1>0, <3>0, <3>1, <3>2, <3>3
  <2>3. QED  BY <2>1, <2>2
<1>7. TypeInv'
  <2>1. sentWindowBase' \in 0 .. Chunks  BY <1>0, <1>2 DEF ChunkIndex
  <2>2. sentChunkWindow' \in Windows  BY <1>0, ShiftType
  <2>3. QED  BY <1>0, <2>1, <2>2 DEF TypeInv, counters
<1>8. WindowInv'
  <2>1. ASSUME NEW w \in WordIndex, NEW b \in BitIndex, b \in sentChunkWindow'[w]
        PROVE  sentWindowBase' + Position(w, b) \in ChunkIndex
    <3>1. PICK v \in WordIndex, c \in BitIndex :
             c \in sentChunkWindow[v] /\ Position(v, c) = Position(w, b) + 1
      BY <1>3, <2>1
    <3>2. sentWindowBase' + Position(w, b) = sentWindowBase + Position(v, c)
      BY <1>0, <1>4, <3>1
    <3>3. QED  BY <3>1, <3>2 DEF WindowInv
  <2>2. QED  BY <1>0, <2>1 DEF WindowInv
<1>9. ProgressInv'  BY <1>0, <1>6 DEF ProgressInv
<1>10. CountInv'
  <2>1. Counted' = Counted  BY <1>0, <1>6 DEF Counted
  <2>2. QED  BY <1>0, <2>1 DEF CountInv, counters
<1>11. QED  BY <1>7, <1>8, <1>9, <1>10

LEMMA CountStepInv ==
    ASSUME IInv, Count
    PROVE  IInv'
<1> USE DEF IInv
<1>0. /\ pc = "shift" /\ pc' = "serve" /\ 0 \notin sentChunkWindow[0]
      /\ sentChunks' = sentChunks + 1
      /\ sentBytes' = sentBytes + ChunkLength(index)
      /\ UNCHANGED <<sendWindow, index, sent, received>>
      /\ index \in Recorded /\ index \in ChunkIndex
      /\ sentChunks \in Nat /\ sentBytes \in Int
      /\ ChunkSize \in Nat /\ Size \in Nat /\ Chunks \in Nat
  BY ChunksCoverSize, SendWindowAssumption
     DEF Count, ProgressInv, TypeInv
<1>1. Recorded' = Recorded  BY <1>0, RecordedUnchanged
<1>2. Counted = Recorded \ {index} /\ Counted' = Recorded
  BY <1>0, <1>1 DEF Counted
<1>3. ChunkLength(index) = ChunkSize - (IF index = Chunks - 1
                                        THEN Chunks * ChunkSize - Size ELSE 0)
  BY <1>0, LengthOfChunk
<1>4. Chunks * ChunkSize \in Nat  BY <1>0
<1>5. TypeInv'
  <2>1. sentBytes' \in Int  BY <1>0, <1>3, <1>4
  <2>2. QED  BY <1>0, <2>1 DEF TypeInv, sendWindow
<1>6. WindowInv'  BY <1>0 DEF WindowInv, sendWindow
<1>7. ProgressInv'  BY <1>0, <1>1 DEF ProgressInv
<1>8. CountInv'
  <2>1. Cardinality(Recorded \ {index}) = Cardinality(Recorded) - 1
        /\ Cardinality(Recorded) \in Nat
    BY <1>0, RecordedFinite, FS_RemoveElement, FS_CardinalityType
  <2>2. sentChunks' = Cardinality(Counted')
    BY <1>0, <1>2, <2>1 DEF CountInv
  <2>3. (sentChunks + 1) * ChunkSize = sentChunks * ChunkSize + ChunkSize
        /\ sentChunks * ChunkSize \in Nat
    BY <1>0
  <2>4. sentBytes = sentChunks * ChunkSize
                    - (IF Chunks - 1 \in Recorded \ {index}
                       THEN Chunks * ChunkSize - Size ELSE 0)
    BY <1>2 DEF CountInv
  <2>5. sentBytes' = sentChunks' * ChunkSize
                     - (IF Chunks - 1 \in Recorded
                        THEN Chunks * ChunkSize - Size ELSE 0)
    <3>1. CASE index = Chunks - 1
      <4>1. Chunks - 1 \in Recorded /\ Chunks - 1 \notin Recorded \ {index}
        BY <1>0, <3>1
      <4>2. ChunkLength(index) = ChunkSize - (Chunks * ChunkSize - Size)
        BY <1>3, <3>1
      <4>3. sentBytes = sentChunks * ChunkSize  BY <2>3, <2>4, <4>1
      <4>4. QED  BY <1>0, <1>4, <2>3, <4>1, <4>2, <4>3
    <3>2. CASE index # Chunks - 1
      <4>1. Chunks - 1 \in Recorded <=> Chunks - 1 \in Recorded \ {index}
        BY <1>0, <3>2
      <4>2. ChunkLength(index) = ChunkSize  BY <1>0, <1>3, <3>2
      <4>3. CASE Chunks - 1 \in Recorded
        BY <1>0, <1>4, <2>3, <2>4, <4>1, <4>2, <4>3
      <4>4. CASE Chunks - 1 \notin Recorded
        BY <1>0, <1>4, <2>3, <2>4, <4>1, <4>2, <4>4
      <4>5. QED  BY <4>3, <4>4
    <3>3. QED  BY <3>1, <3>2
  <2>6. QED  BY <1>2, <2>2, <2>5 DEF CountInv
<1>9. QED  BY <1>5, <1>6, <1>7, <1>8

LEMMA DeliverInv ==
    ASSUME IInv, NEW i \in ChunkIndex, Deliver(i)
    PROVE  IInv'
<1> USE DEF IInv
<1>1. Recorded' = Recorded  BY RecordedUnchanged DEF Deliver
<1>2. TypeInv'  BY DEF TypeInv, Deliver, sendWindow, counters
<1>3. WindowInv'  BY DEF WindowInv, Deliver, sendWindow
<1>4. ProgressInv'
  BY <1>1 DEF ProgressInv, Deliver, sendWindow, ChunkWithinSendWindow
<1>5. CountInv'
  <2>1. Counted' = Counted  BY <1>1 DEF Counted, Deliver
  <2>2. QED  BY <2>1 DEF CountInv, Deliver, counters
<1>6. QED  BY <1>2, <1>3, <1>4, <1>5

LEMMA NextInv == IInv /\ [Next]_vars => IInv'
<1> SUFFICES ASSUME IInv, [Next]_vars PROVE IInv'  OBVIOUS
<1>1. CASE \E i \in 0 .. Chunks : Get(i)  BY <1>1, GetInv
<1>2. CASE Send  BY <1>2, SendInv
<1>3. CASE Mark  BY <1>3, MarkInv
<1>4. CASE Shift  BY <1>4, ShiftInv
<1>5. CASE Count  BY <1>5, CountStepInv
<1>6. CASE \E i \in ChunkIndex : Deliver(i)  BY <1>6, DeliverInv
<1>7. CASE UNCHANGED vars
  <2>1. Recorded' = Recorded  BY <1>7, RecordedUnchanged DEF vars, sendWindow
  <2>2. QED
    BY <1>7, <2>1 DEF IInv, TypeInv, WindowInv, ProgressInv, CountInv, Counted,
                      vars, ChunkWithinSendWindow
<1>8. QED  BY <1>1, <1>2, <1>3, <1>4, <1>5, <1>6, <1>7 DEF Next

\* The counters stay within the archive, and are complete together.
LEMMA CountersInRange ==
    ASSUME IInv
    PROVE  /\ sentChunks \in 0 .. Chunks
           /\ sentBytes \in 0 .. Size
           /\ sentBytes = Size <=> sentChunks = Chunks
<1> USE DEF IInv
<1>0. Chunks \in Nat /\ ChunkSize \in Nat /\ Size \in Nat
      /\ Size <= Chunks * ChunkSize /\ Chunks * ChunkSize \in Nat
  BY ChunksCoverSize, SendWindowAssumption
<1>1. Counted \subseteq ChunkIndex  BY RecordedFinite DEF Counted
<1>2. Cardinality(Counted) <= Chunks
  BY <1>1, RecordedFinite, FS_Subset
<1>3. sentChunks \in 0 .. Chunks  BY <1>0, <1>2 DEF CountInv, TypeInv
<1>4. sentBytes \in 0 .. Size /\ (sentBytes = Size <=> sentChunks = Chunks)
  <2>1. PICK k \in Nat : Chunks = sentChunks + k
    <3>1. Chunks - sentChunks \in Nat
          /\ Chunks = sentChunks + (Chunks - sentChunks)
      BY <1>0, <1>3
    <3>2. QED  BY <3>1
  <2>2. sentChunks \in Nat /\ sentChunks * ChunkSize \in Nat
        /\ k * ChunkSize \in Nat
        /\ Chunks * ChunkSize = sentChunks * ChunkSize + k * ChunkSize
    BY <1>0, <1>3, <2>1
  <2>3. CASE Chunks - 1 \in Counted
    <3>1. sentBytes = sentChunks * ChunkSize - (Chunks * ChunkSize - Size)
      BY <2>3 DEF CountInv
    <3>2. IsFiniteSet(Counted) /\ Counted # {}
      BY <1>1, <2>3, RecordedFinite, FS_Subset
    <3>3. Cardinality(Counted) # 0  BY <3>2, FS_EmptySet
    <3>4. PICK l \in Nat : sentChunks = l + 1
      <4>1. sentChunks - 1 \in Nat /\ sentChunks = (sentChunks - 1) + 1
        BY <2>2, <3>3 DEF CountInv
      <4>2. QED  BY <4>1
    <3>5. sentChunks * ChunkSize = l * ChunkSize + ChunkSize
          /\ l * ChunkSize \in Nat
      BY <1>0, <3>4
    <3>6. Chunks > 0 /\ (Chunks - 1) * ChunkSize < Size
          /\ (Chunks - 1) * ChunkSize = Chunks * ChunkSize - ChunkSize
      BY <1>0, <2>1, <3>4, ChunksCoverSize
    <3>7. QED  BY <1>0, <2>2, <3>1, <3>5, <3>6
  <2>4. CASE Chunks - 1 \notin Counted
    <3>1. sentBytes = sentChunks * ChunkSize  BY <2>2, <2>4 DEF CountInv
    <3>2. CASE Chunks = 0
      <4>1. sentChunks = 0 /\ Size = 0  BY <1>3, <3>2, ChunksCoverSize
      <4>2. sentBytes = 0  BY <1>0, <3>1, <4>1
      <4>3. QED  BY <1>0, <3>2, <4>1, <4>2
    <3>3. CASE Chunks > 0
      <4>1. sentChunks # Chunks
        <5>1. Chunks - 1 \in ChunkIndex  BY <1>0, <3>3 DEF ChunkIndex
        <5>2. Cardinality(Counted) # Chunks
          BY <1>1, <2>4, <5>1, RecordedFinite, FS_Subset
        <5>3. QED  BY <5>2 DEF CountInv
      <4>2. PICK l \in Nat : k = l + 1
        <5>1. k - 1 \in Nat /\ k = (k - 1) + 1  BY <2>1, <2>2, <4>1
        <5>2. QED  BY <5>1
      <4>3. k * ChunkSize = l * ChunkSize + ChunkSize /\ l * ChunkSize \in Nat
        BY <1>0, <4>2
      <4>4. (Chunks - 1) * ChunkSize < Size
            /\ (Chunks - 1) * ChunkSize = Chunks * ChunkSize - ChunkSize
        BY <1>0, <3>3, ChunksCoverSize
      <4>5. QED  BY <1>0, <2>2, <3>1, <4>3, <4>4
    <3>4. QED  BY <1>0, <3>2, <3>3
  <2>5. QED  BY <2>3, <2>4
<1>5. QED  BY <1>3, <1>4

\* Every reachable state satisfies the inductive invariant.
THEOREM InductiveInvariant == Spec => []IInv
  BY InitInv, NextInv, PTL DEF Spec

-----------------------------------------------------------------------------
(* What a reader should know. *)

\* Base, window and counters stay in range for every archive: the progress
\* never shows more chunks or bytes than the archive has.
THEOREM TypeCorrect == Spec => []TypeOK
<1>1. IInv => TypeOK
  BY CountersInRange DEF IInv, TypeInv, TypeOK
<1>2. QED  BY <1>1, InductiveInvariant, PTL

\* Between two requests the window records exactly the chunks sent.
THEOREM RecordCorrect == Spec => []RecordMatchesSent
<1>1. IInv => RecordMatchesSent
  BY DEF IInv, ProgressInv, RecordMatchesSent
<1>2. QED  BY <1>1, InductiveInvariant, PTL

\* Every chunk is counted once, however often it is asked for.
THEOREM ChunksCounted == Spec => []ChunksCountedOnce
<1>1. IInv => ChunksCountedOnce
  BY DEF IInv, ProgressInv, CountInv, Counted, ChunksCountedOnce
<1>2. QED  BY <1>1, InductiveInvariant, PTL

\* The bytes counted are those of the chunks sent, the short last one included.
THEOREM BytesCounted == Spec => []BytesCountedOnce
<1>1. IInv => BytesCountedOnce
  BY DEF IInv, ProgressInv, CountInv, Counted, BytesCountedOnce
<1>2. QED  BY <1>1, InductiveInvariant, PTL

\* Both together: retransmissions do not disturb what the progress shows.
THEOREM CountingCorrect == Spec => []CountedOnce
BY ChunksCounted, BytesCounted, PTL DEF CountedOnce

\* For all sizes of the two windows, the client's no larger than the server's:
\* no chunk the client may ask for is refused.
THEOREM WindowsFit == Spec => []ClientWindowServed
<1>1. ASSUME IInv, pc = "serve", NEW i \in ChunkIndex,
             \A j \in ChunkIndex : j + ClientWindow <= i => j \in received
      PROVE  ChunkWithinSendWindow(i)
  <2>1. /\ sentWindowBase \in Nat /\ ClientWindow \in Nat /\ WindowSize \in Nat
        /\ ClientWindow <= WindowSize /\ i \in Nat /\ Chunks \in Nat
    BY <1>1, ChunksCoverSize, SendWindowAssumption, BitWindowAssumption
       DEF IInv, TypeInv, ChunkIndex, WindowSize
  <2>2. SUFFICES ASSUME i >= sentWindowBase + WindowSize PROVE FALSE
    BY <2>1 DEF ChunkWithinSendWindow
  <2>3. sentWindowBase \in ChunkIndex /\ sentWindowBase + ClientWindow <= i
    BY <1>1, <2>1, <2>2 DEF ChunkIndex
  <2>4. sentWindowBase \in Recorded
    BY <1>1, <2>3 DEF IInv, TypeInv, ProgressInv
  <2>5. PICK w \in WordIndex, b \in BitIndex :
           /\ b \in sentChunkWindow[w]
           /\ sentWindowBase = sentWindowBase + Position(w, b)
    BY <2>1, <2>4 DEF Recorded
  <2>6. Position(w, b) = 0  BY <2>1, <2>5, PositionBound
  <2>7. w = 0 /\ b = 0
    <3>1. 0 \in WordIndex /\ 0 \in BitIndex /\ Position(0, 0) = 0
      BY BitWindowAssumption DEF WordIndex, BitIndex, Position
    <3>2. QED  BY <2>6, <3>1, PositionIsOneBit
  <2>8. QED  BY <1>1, <2>5, <2>7 DEF IInv, WindowInv
<1>2. IInv => ClientWindowServed  BY <1>1 DEF ClientWindowServed
<1>3. QED  BY <1>2, InductiveInvariant, PTL

-----------------------------------------------------------------------------
(* The reporter. *)

\* The reporter knows what the Serve loop has counted, except the chunk that
\* the loop is about to report.
SumsInv ==
    /\ completedBytes \in 0 .. Size
    /\ completedChunks \in 0 .. Chunks
    /\ prepared \in BOOLEAN
    /\ reporting \in BOOLEAN
    /\ IF reporting
       THEN pc = "serve" /\ completedBytes < sentBytes /\ completedChunks < sentChunks
       ELSE completedBytes = sentBytes /\ completedChunks = sentChunks

\* All chunks were reported, those of an empty archive by the preparing
\* goroutine.
Done == completedChunks = Chunks /\ (Chunks = 0 => prepared)

\* The last line is in the bucket the reporter remembers, not ahead of what it
\* knows, and says 100 exactly when all is done.
LinesInv ==
    /\ logged \in -1 .. 100
    /\ lastBucket = IF logged = -1 THEN -1 ELSE logged \div PercentageStep
    /\ logged <= Percent(completedBytes)
    /\ logged = 100 <=> Done
    /\ completions = IF logged = 100 THEN 1 ELSE 0

ReporterInv == IInv /\ SumsInv /\ LinesInv

\* Division by a positive number keeps the order.
LEMMA DivisionOrdered ==
    ASSUME NEW a \in Nat, NEW b \in Nat, a <= b, NEW n \in Nat \ {0}
    PROVE  a \div n \in Nat /\ b \div n \in Nat /\ a \div n <= b \div n
<1> DEFINE p == a \div n  q == b \div n  r == a % n  t == b % n
<1>1. /\ p \in Nat /\ r \in 0 .. n - 1 /\ a = n * p + r
      /\ q \in Nat /\ t \in 0 .. n - 1 /\ b = n * q + t
  OBVIOUS
<1> HIDE DEF p, q, r, t
<1>2. SUFFICES ASSUME q < p PROVE FALSE
  BY <1>1 DEF p, q
<1>3. PICK k \in Nat : p = q + 1 + k
  <2>1. p - q - 1 \in Nat /\ p = q + 1 + (p - q - 1)
    BY <1>1, <1>2
  <2>2. QED  BY <2>1
<1>4. n * p = n * q + n + n * k /\ n * k \in Nat /\ n * q \in Nat
  BY <1>1, <1>3
<1>5. QED  BY <1>1, <1>4

\* A percentage, 100 only for the whole archive, which is always whole when it
\* is empty.
LEMMA PercentRange ==
    ASSUME NEW b \in 0 .. Size
    PROVE  Percent(b) \in 0 .. 100 /\ (Percent(b) = 100 <=> b = Size)
<1>1. Size \in Nat  BY SendWindowAssumption
<1>2. CASE Size = 0
  BY <1>1, <1>2 DEF Percent
<1>3. CASE Size # 0
  <2> DEFINE q == (b * 100) \div Size
             r == (b * 100) % Size
  <2>1. q \in Nat /\ r \in 0 .. Size - 1 /\ b * 100 = Size * q + r
    BY <1>1, <1>3
  <2>2. Percent(b) = q  BY <1>3 DEF Percent
  <2> HIDE DEF q, r
  <2>3. q <= 100
    <3>1. SUFFICES ASSUME q > 100 PROVE FALSE  BY <2>1
    <3>2. PICK k \in Nat : q = 101 + k
      <4>1. q - 101 \in Nat /\ q = 101 + (q - 101)  BY <2>1, <3>1
      <4>2. QED  BY <4>1
    <3>3. Size * q = Size * 101 + Size * k /\ Size * k \in Nat
      BY <1>1, <3>2
    <3>4. QED  BY <1>1, <1>3, <2>1, <3>3
  <2>4. q = 100 => b = Size
    <3>1. SUFFICES ASSUME q = 100 PROVE b = Size  OBVIOUS
    <3>2. Size * q = Size * 100  BY <3>1
    <3>3. QED  BY <1>1, <2>1, <3>2
  <2>5. b = Size => q = 100
    <3>1. SUFFICES ASSUME b = Size, q # 100 PROVE FALSE  OBVIOUS
    <3>2. PICK k \in Nat : 100 = q + 1 + k
      <4>1. 99 - q \in Nat /\ 100 = q + 1 + (99 - q)  BY <2>1, <2>3, <3>1
      <4>2. QED  BY <4>1
    <3>3. Size * 100 = Size * q + Size + Size * k /\ Size * k \in Nat
      BY <1>1, <2>1, <3>2
    <3>4. QED  BY <1>1, <2>1, <3>1, <3>3
  <2>6. QED  BY <2>1, <2>2, <2>3, <2>4, <2>5
<1>4. QED  BY <1>2, <1>3

\* More bytes are no smaller a percentage.
LEMMA PercentOrdered ==
    ASSUME NEW a \in 0 .. Size, NEW b \in 0 .. Size, a <= b
    PROVE  Percent(a) <= Percent(b)
<1>1. Size \in Nat  BY SendWindowAssumption
<1>2. CASE Size = 0  BY <1>2 DEF Percent
<1>3. CASE Size # 0
  <2>1. a * 100 \in Nat /\ b * 100 \in Nat /\ a * 100 <= b * 100  BY <1>1
  <2>2. (a * 100) \div Size <= (b * 100) \div Size
    BY <1>1, <1>3, <2>1, DivisionOrdered
  <2>3. QED  BY <1>3, <2>2 DEF Percent
<1>4. QED  BY <1>2, <1>3

\* The steps divide 100: the bucket of 100 percent holds nothing else.
LEMMA LastBucketIsFull ==
    ASSUME NEW p \in 0 .. 100
    PROVE  /\ p \div PercentageStep \in Nat
           /\ p \div PercentageStep = 100 \div PercentageStep => p = 100
<1>1. PercentageStep \in Nat \ {0} /\ 100 % PercentageStep = 0
  BY ProgressAssumption
<1> DEFINE q == 100 \div PercentageStep
           k == p \div PercentageStep
           r == p % PercentageStep
<1>2. q \in Nat /\ 100 = PercentageStep * q  BY <1>1
<1>3. k \in Nat /\ r \in 0 .. PercentageStep - 1 /\ p = PercentageStep * k + r
  BY <1>1
<1> HIDE DEF q, k, r
<1>4. ASSUME k = q PROVE p = 100
  <2>1. PercentageStep * k = 100  BY <1>2, <1>4
  <2>2. QED  BY <1>1, <1>3, <2>1
<1>5. QED  BY <1>3, <1>4 DEF q, k

\* The reporter has all bytes exactly when it has all chunks.
LEMMA SumsComplete ==
    ASSUME IInv, SumsInv
    PROVE  completedBytes = Size <=> completedChunks = Chunks
<1>1. Chunks \in Nat /\ Size \in Nat
  BY ChunksCoverSize, SendWindowAssumption
<1>2. QED
  BY <1>1, CountersInRange DEF SumsInv

LEMMA ReporterInit == ProgressInit => ReporterInv
<1> SUFFICES ASSUME ProgressInit PROVE ReporterInv  OBVIOUS
<1>1. IInv  BY InitInv DEF ProgressInit
<1>2. Chunks \in Nat /\ Size \in Nat
  BY ChunksCoverSize, SendWindowAssumption
<1>3. SumsInv
  <2>1. 0 \in 0 .. Size /\ 0 \in 0 .. Chunks  BY <1>2
  <2>2. /\ completedBytes = 0 /\ completedChunks = 0
        /\ sentBytes = 0 /\ sentChunks = 0
        /\ prepared = FALSE /\ reporting = FALSE
    BY DEF ProgressInit, Init
  <2>3. QED  BY <2>1, <2>2 DEF SumsInv
<1>4. Percent(completedBytes) \in 0 .. 100
  BY <1>3, PercentRange DEF SumsInv
<1>5. LinesInv
  BY <1>2, <1>4 DEF ProgressInit, LinesInv, Done
<1>6. QED  BY <1>1, <1>3, <1>5 DEF ReporterInv

\* The sums after a report are the larger ones.
LEMMA ReportSums ==
    ASSUME ReporterInv, NEW bytes \in 0 .. Size, NEW chunks \in 0 .. Chunks,
           Report(bytes, chunks)
    PROVE  /\ completedBytes' = Larger(completedBytes, bytes)
           /\ completedChunks' = Larger(completedChunks, chunks)
           /\ completedBytes' \in 0 .. Size
           /\ completedChunks' \in 0 .. Chunks
           /\ completedBytes <= completedBytes'
<1>1. Chunks \in Nat /\ Size \in Nat
  BY ChunksCoverSize, SendWindowAssumption
<1>2. completedBytes \in 0 .. Size /\ completedChunks \in 0 .. Chunks
  BY DEF ReporterInv, SumsInv
<1>3. /\ completedBytes' = Advance(completedBytes, bytes, Size)
      /\ completedChunks' = Advance(completedChunks, chunks, Chunks)
  BY DEF Report
<1>4. QED
  BY <1>1, <1>2, <1>3 DEF Advance, Larger, Smaller

\* What a report logs: never less than before, and 100 for the first report
\* that completes the archive, whose bucket no earlier line had.
LEMMA ReportLines ==
    ASSUME ReporterInv, NEW bytes \in 0 .. Size, NEW chunks \in 0 .. Chunks,
           Report(bytes, chunks),
           completedBytes' = Size <=> completedChunks' = Chunks
    PROVE  /\ logged' \in -1 .. 100
           /\ lastBucket' = IF logged' = -1 THEN -1 ELSE logged' \div PercentageStep
           /\ logged' <= Percent(completedBytes')
           /\ logged' >= logged
           /\ logged' = 100 <=> completedBytes' = Size
           /\ completions' = IF logged' = 100 THEN 1 ELSE 0
<1> DEFINE percent == Percent(completedBytes')
           bucket == percent \div PercentageStep
           completed == completedBytes' = Size /\ completedChunks' = Chunks
<1>1. /\ \/ /\ Silent(completed, bucket)
            /\ UNCHANGED <<lastBucket, lastReport, logged, completions>>
         \/ /\ ~ Silent(completed, bucket)
            /\ lastBucket' = bucket
            /\ lastReport' = 0
            /\ logged' = percent
            /\ completions' = completions + (IF percent = 100 THEN 1 ELSE 0)
  <2>1. /\ completedBytes' = Advance(completedBytes, bytes, Size)
        /\ completedChunks' = Advance(completedChunks, chunks, Chunks)
    BY DEF Report
  <2>2. QED  BY <2>1 DEF Report
<1>2. percent \in 0 .. 100 /\ (percent = 100 <=> completedBytes' = Size)
  BY ReportSums, PercentRange
<1>3. bucket \in Nat /\ (bucket = 100 \div PercentageStep => percent = 100)
  BY <1>2, LastBucketIsFull
<1>4. /\ Percent(completedBytes) \in 0 .. 100
      /\ Percent(completedBytes) = 100 <=> completedBytes = Size
      /\ Percent(completedBytes) <= percent
  BY ReportSums, PercentRange, PercentOrdered DEF ReporterInv, SumsInv
<1>5. /\ logged \in -1 .. 100
      /\ lastBucket = IF logged = -1 THEN -1 ELSE logged \div PercentageStep
      /\ logged <= Percent(completedBytes)
      /\ completions = IF logged = 100 THEN 1 ELSE 0
  BY DEF ReporterInv, LinesInv
<1>6. logged = 100 => percent = 100
  BY <1>2, <1>4, <1>5
<1>7. logged # -1 /\ logged \div PercentageStep = 100 \div PercentageStep
        => logged = 100
  BY <1>5, LastBucketIsFull
<1>8. completed <=> percent = 100
  BY <1>2
<1> HIDE DEF percent, bucket, completed
<1>9. logged <= percent
  BY <1>2, <1>4, <1>5
<1>10. percent = 100 => bucket = 100 \div PercentageStep
  BY DEF bucket
<1>11. CASE Silent(completed, bucket)
            /\ UNCHANGED <<lastBucket, lastReport, logged, completions>>
  <2>1. bucket = lastBucket  BY <1>11 DEF Silent
  <2>2. logged # -1 /\ lastBucket = logged \div PercentageStep
    BY <1>3, <1>5, <2>1
  <2>3. percent = 100 => logged = 100
    BY <1>7, <1>10, <2>1, <2>2
  <2>4. QED
    BY <1>2, <1>5, <1>6, <1>9, <1>11, <2>2, <2>3 DEF percent
<1>12. CASE /\ ~ Silent(completed, bucket)
            /\ lastBucket' = bucket
            /\ logged' = percent
            /\ completions' = completions + (IF percent = 100 THEN 1 ELSE 0)
  <2>1. logged # 100
    <3>1. SUFFICES ASSUME logged = 100 PROVE FALSE  OBVIOUS
    <3>2. bucket = lastBucket  BY <1>5, <1>6, <1>10, <3>1
    <3>3. QED  BY <1>6, <1>8, <1>12, <3>1, <3>2 DEF Silent
  <2>2. completions = 0  BY <1>5, <2>1
  <2>3. lastBucket' = percent \div PercentageStep /\ percent # -1
    BY <1>2, <1>12 DEF bucket
  <2>4. QED
    BY <1>2, <1>9, <1>12, <2>2, <2>3 DEF percent
<1>13. QED  BY <1>1, <1>11, <1>12

\* The late 0 of the preparing goroutine takes nothing back; it is what
\* completes an empty archive.
LEMMA ReportStartInv ==
    ASSUME ReporterInv, ReportStart
    PROVE  ReporterInv' /\ logged' >= logged
<1>1. Chunks \in Nat /\ Size \in Nat /\ 0 \in 0 .. Size /\ 0 \in 0 .. Chunks
  BY ChunksCoverSize, SendWindowAssumption
<1>2. ~ prepared /\ prepared' = TRUE /\ Report(0, 0) /\ UNCHANGED <<vars, reporting>>
  BY DEF ReportStart
<1>3. completedBytes' = completedBytes /\ completedChunks' = completedChunks
  BY <1>1, <1>2, ReportSums DEF ReporterInv, SumsInv, Larger
<1>4. IInv'
  BY <1>2, NextInv DEF ReporterInv
<1>5. SumsInv'
  BY <1>2, <1>3 DEF ReporterInv, SumsInv, vars
<1>6. completedBytes' = Size <=> completedChunks' = Chunks
  BY <1>3, SumsComplete DEF ReporterInv
<1>7. LinesInv' /\ logged' >= logged
  BY <1>1, <1>2, <1>6, ReportLines DEF LinesInv, Done
<1>8. QED  BY <1>4, <1>5, <1>7 DEF ReporterInv

\* The Serve loop reports what it has counted.
LEMMA ReportSentInv ==
    ASSUME ReporterInv, ReportSent
    PROVE  ReporterInv' /\ logged' >= logged
<1>1. Chunks \in Nat /\ Size \in Nat
  BY ChunksCoverSize, SendWindowAssumption
<1>2. /\ reporting /\ reporting' = FALSE /\ Report(sentBytes, sentChunks)
      /\ UNCHANGED <<vars, prepared>>
  BY DEF ReportSent
<1>3. /\ sentChunks \in 0 .. Chunks /\ sentBytes \in 0 .. Size
      /\ sentBytes = Size <=> sentChunks = Chunks
  BY CountersInRange DEF ReporterInv
<1>4. completedBytes < sentBytes /\ completedChunks < sentChunks
      /\ completedBytes \in 0 .. Size /\ completedChunks \in 0 .. Chunks
  BY <1>2 DEF ReporterInv, SumsInv
<1>5. completedBytes' = sentBytes /\ completedChunks' = sentChunks
  BY <1>1, <1>2, <1>3, <1>4, ReportSums DEF Larger
<1>6. IInv'
  BY <1>2, NextInv DEF ReporterInv
<1>7. SumsInv'
  BY <1>2, <1>3, <1>5 DEF ReporterInv, SumsInv, vars
<1>8. completedBytes' = Size <=> completedChunks' = Chunks
  BY <1>3, <1>5
<1>9. Chunks # 0
  BY <1>1, <1>3, <1>4
<1>10. LinesInv' /\ logged' >= logged
  BY <1>2, <1>3, <1>8, <1>9, ReportLines DEF LinesInv, Done
<1>11. QED  BY <1>6, <1>7, <1>10 DEF ReporterInv

\* Every chunk has at least one byte.
LEMMA ChunkNotEmpty ==
    ASSUME NEW i \in ChunkIndex
    PROVE  ChunkLength(i) \in Nat /\ ChunkLength(i) > 0
<1>1. ChunkSize \in Nat /\ ChunkSize > 0 /\ Size \in Nat /\ Chunks \in Nat /\ Chunks > 0
  BY ChunksCoverSize, SendWindowAssumption DEF ChunkIndex
<1>2. (Chunks - 1) * ChunkSize = Chunks * ChunkSize - ChunkSize /\ Chunks * ChunkSize \in Nat
  BY <1>1
<1>3. QED
  BY <1>1, <1>2, ChunksCoverSize, LengthOfChunk

\* What the Serve loop does before it reports changes no line.
LEMMA ServeInv ==
    ASSUME ReporterInv, Serve
    PROVE  ReporterInv' /\ logged' >= logged
<1>1. ~ reporting /\ UNCHANGED <<reporter, prepared>>
  BY DEF Serve
<1>2. Next
  BY DEF Serve, Next
<1>3. IInv'
  BY <1>2, NextInv DEF ReporterInv
<1>4. /\ completedBytes = sentBytes /\ completedChunks = sentChunks
      /\ completedBytes \in Int /\ completedChunks \in Int /\ logged \in Int
  BY <1>1 DEF ReporterInv, SumsInv, LinesInv
<1>5. SumsInv'
  <2>1. CASE UNCHANGED <<counters, reporting>>
    BY <1>1, <1>4, <2>1 DEF ReporterInv, SumsInv, reporter, counters
  <2>2. CASE Count /\ reporting' = TRUE
    <3>1. index \in ChunkIndex
      BY <2>2 DEF Count, ReporterInv, IInv, ProgressInv
    <3>2. pc' = "serve" /\ sentBytes' > sentBytes /\ sentChunks' > sentChunks
      BY <1>4, <2>2, <3>1, ChunkNotEmpty DEF Count
    <3>3. QED
      BY <1>1, <1>4, <2>2, <3>2 DEF ReporterInv, SumsInv, reporter
  <2>3. QED
    BY <2>1, <2>2 DEF Serve, Get, Send, Mark, Shift
<1>6. LinesInv' /\ logged' >= logged
  BY <1>1, <1>4 DEF ReporterInv, LinesInv, Done, reporter
<1>7. QED  BY <1>3, <1>5, <1>6 DEF ReporterInv

\* Every step of server, network and clock preserves the invariant, and logs no
\* smaller percentage.
LEMMA ReporterStep ==
    ASSUME ReporterInv, [ProgressNext]_progressVars
    PROVE  ReporterInv' /\ logged' >= logged
<1>1. CASE ReportStart  BY <1>1, ReportStartInv
<1>2. CASE Serve  BY <1>2, ServeInv
<1>3. CASE ReportSent  BY <1>3, ReportSentInv
<1>4. CASE Arrive \/ Tick \/ UNCHANGED progressVars
  <2>1. [Next]_vars
    BY <1>4 DEF Arrive, Tick, Next, progressVars
  <2>2. IInv'  BY <2>1, NextInv DEF ReporterInv
  <2>3. /\ UNCHANGED <<completedBytes, completedChunks, lastBucket, logged,
                       completions, prepared, reporting>>
        /\ UNCHANGED <<sentBytes, sentChunks, pc>>
    BY <1>4 DEF Arrive, Deliver, Tick, progressVars, reporter, vars, counters
  <2>4. SumsInv' /\ LinesInv' /\ logged' >= logged
    BY <2>3 DEF ReporterInv, SumsInv, LinesInv, Done
  <2>5. QED  BY <2>2, <2>4 DEF ReporterInv
<1>5. QED  BY <1>1, <1>2, <1>3, <1>4 DEF ProgressNext

\* What browsers and logs show of a transfer, for every size of chunks,
\* archive and percentage step, and whenever the preparing goroutine's report
\* comes: it is what was counted, never goes back, and is complete once
\* (internal/progress/progress.go, handleGet).
THEOREM ProgressCorrect == ProgressSpec => ProgressShown
<1>1. ProgressSpec => []ReporterInv
  BY ReporterInit, ReporterStep, PTL DEF ProgressSpec
<1>2. ReporterInv => ReportsCurrent /\ CompletionOnce
  <2> SUFFICES ASSUME ReporterInv PROVE ReportsCurrent /\ CompletionOnce
    OBVIOUS
  <2>1. ReportsCurrent
    BY DEF ReporterInv, SumsInv, ReportsCurrent
  <2>2. Chunks \in Nat /\ sentChunks \in 0 .. Chunks
    BY ChunksCoverSize, CountersInRange DEF ReporterInv
  <2>3. Done <=> /\ sentChunks = Chunks
                 /\ ~ reporting
                 /\ Chunks = 0 => prepared
    BY <2>2 DEF ReporterInv, SumsInv, Done
  <2>4. CompletionOnce
    BY <2>3 DEF ReporterInv, LinesInv, CompletionOnce
  <2>5. QED  BY <2>1, <2>4
<1>3. ReporterInv /\ [ProgressNext]_progressVars => [logged' >= logged]_progressVars
  BY ReporterStep
<1>4. QED
  BY <1>1, <1>2, <1>3, PTL DEF ProgressSpec, ProgressShown

\* The record, the counters and the fit of the windows do not depend on the
\* reporter: with it, the send window still takes its own steps only.
THEOREM ReportedWindow ==
    ProgressSpec => [](RecordMatchesSent /\ CountedOnce /\ ClientWindowServed)
<1>1. ProgressInit => Init
  BY DEF ProgressInit
<1>2. [ProgressNext]_progressVars => [Next]_vars
  BY DEF ProgressNext, ReportStart, Serve, ReportSent, Arrive, Tick, Next, progressVars
<1>3. ProgressSpec => Spec
  BY <1>1, <1>2, PTL DEF ProgressSpec, Spec
<1>4. QED
  BY <1>3, RecordCorrect, CountingCorrect, WindowsFit, PTL
=============================================================================
