--------------------------- MODULE BitWindowProofs ---------------------------
(***************************************************************************)
(* Lemmas about windows of bits, for every number and size of words.       *)
(***************************************************************************)
EXTENDS BitWindow, TLAPS

\* Division by the word size splits a distance into a word and a bit.
LEMMA WordAndBit ==
    ASSUME NEW n \in Nat
    PROVE  /\ n \div WordBits \in Nat
           /\ n % WordBits \in BitIndex
           /\ n = WordBits * (n \div WordBits) + (n % WordBits)
  BY BitWindowAssumption DEF BitIndex

\* A position determines its word and its bit.
LEMMA PositionUnique ==
    ASSUME NEW v \in Int, NEW w \in Int, NEW b \in BitIndex, NEW c \in BitIndex,
           WordBits * v + b = WordBits * w + c
    PROVE  v = w /\ b = c
<1>1. WordBits \in Nat /\ WordBits >= 1  BY BitWindowAssumption
<1>2. b \in 0 .. WordBits - 1 /\ c \in 0 .. WordBits - 1  BY DEF BitIndex
<1>3. ASSUME NEW x \in Int, NEW y \in Int, x < y
      PROVE  WordBits * x + WordBits <= WordBits * y
  <2>1. PICK k \in Nat : y = x + 1 + k
    <3>1. y - x - 1 \in Nat /\ y = x + 1 + (y - x - 1)  BY <1>3
    <3>2. QED  BY <3>1
  <2>2. WordBits * k \in Nat  BY <1>1
  <2>3. WordBits * y = WordBits * x + WordBits + WordBits * k  BY <1>1, <2>1
  <2>4. WordBits * x \in Int /\ WordBits * y \in Int  BY <1>1
  <2>5. QED  BY <1>1, <2>2, <2>3, <2>4
<1>4. WordBits * v \in Int /\ WordBits * w \in Int  BY <1>1
<1>5. ~ (v < w)  BY <1>1, <1>2, <1>3, <1>4
<1>6. ~ (w < v)  BY <1>1, <1>2, <1>3, <1>4
<1>7. v = w  BY <1>5, <1>6
<1>8. QED  BY <1>2, <1>4, <1>7

\* The positions of the window are the numbers below its size.
LEMMA PositionBound ==
    ASSUME NEW w \in WordIndex, NEW b \in BitIndex
    PROVE  /\ Position(w, b) \in Nat
           /\ Position(w, b) < WindowSize
<1>1. WordBits \in Nat /\ WordBits >= 1 /\ Words \in Nat  BY BitWindowAssumption
<1>2. w \in 0 .. Words - 1 /\ b \in 0 .. WordBits - 1  BY DEF WordIndex, BitIndex
<1>3. PICK k \in Nat : Words = w + 1 + k
  <2>1. Words - w - 1 \in Nat /\ Words = w + 1 + (Words - w - 1)  BY <1>1, <1>2
  <2>2. QED  BY <2>1
<1>4. WordBits * k \in Nat /\ WordBits * w \in Nat  BY <1>1, <1>2
<1>5. WordBits * Words = WordBits * w + WordBits + WordBits * k  BY <1>1, <1>2, <1>3
<1>6. QED  BY <1>1, <1>2, <1>4, <1>5 DEF WindowSize, Position

\* A distance less than the size of the window has its bit in the window.
LEMMA DistanceInWindow ==
    ASSUME NEW n \in Nat, n < WindowSize
    PROVE  /\ WordAt(n) \in WordIndex
           /\ BitAt(n) \in BitIndex
           /\ Position(WordAt(n), BitAt(n)) = n
<1> DEFINE q == n \div WordBits
           r == n % WordBits
<1>1. q \in Nat /\ r \in BitIndex /\ n = WordBits * q + r  BY WordAndBit
<1> HIDE DEF q, r
<1>2. WordBits \in Nat /\ WordBits >= 1 /\ Words \in Nat  BY BitWindowAssumption
<1>3. q < Words
  <2>1. SUFFICES ASSUME q >= Words PROVE FALSE  BY <1>1, <1>2
  <2>2. PICK k \in Nat : q = Words + k
    <3>1. q - Words \in Nat /\ q = Words + (q - Words)  BY <1>1, <1>2, <2>1
    <3>2. QED  BY <3>1
  <2>3. WordBits * q = WordBits * Words + WordBits * k
        /\ WordBits * k \in Nat /\ WordBits * Words \in Nat
    BY <1>2, <2>2
  <2>4. r \in Nat  BY <1>1, <1>2 DEF BitIndex
  <2>5. n >= WindowSize  BY <1>1, <2>3, <2>4 DEF WindowSize
  <2>6. QED  BY <2>3, <2>5 DEF WindowSize
<1>4. WordAt(n) = q /\ BitAt(n) = r  BY DEF WordAt, BitAt, q, r
<1>5. QED  BY <1>1, <1>2, <1>3, <1>4 DEF WordIndex, Position

\* Setting a bit changes the bit at that position only.
LEMMA SetBitSetsOneBit ==
    ASSUME NEW window \in Windows, NEW n \in Nat, n < WindowSize
    PROVE  /\ SetBit(window, n) \in Windows
           /\ \A w \in WordIndex, b \in BitIndex :
                 b \in SetBit(window, n)[w] <=>
                    b \in window[w] \/ Position(w, b) = n
<1>1. WordAt(n) \in WordIndex /\ BitAt(n) \in BitIndex
      /\ Position(WordAt(n), BitAt(n)) = n
  BY DistanceInWindow
<1>2. \A w \in WordIndex, b \in BitIndex :
         Position(w, b) = n <=> w = WordAt(n) /\ b = BitAt(n)
  <2>1. ASSUME NEW w \in WordIndex, NEW b \in BitIndex, Position(w, b) = n
        PROVE  w = WordAt(n) /\ b = BitAt(n)
    <3>1. w \in Int /\ WordAt(n) \in Int  BY <1>1 DEF WordIndex
    <3>2. QED  BY <1>1, <2>1, <3>1, PositionUnique DEF Position
  <2>2. QED  BY <1>1, <2>1
<1>3. QED  BY <1>1, <1>2 DEF SetBit, Windows

\* A bit that is tested is the bit at that position.
LEMMA PositionIsOneBit ==
    ASSUME NEW v \in WordIndex, NEW w \in WordIndex,
           NEW b \in BitIndex, NEW c \in BitIndex,
           Position(v, b) = Position(w, c)
    PROVE  v = w /\ b = c
  BY PositionUnique DEF Position, WordIndex
=============================================================================
