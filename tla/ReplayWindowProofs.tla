------------------------ MODULE ReplayWindowProofs ------------------------
(***************************************************************************)
(* What the replay window guarantees for every word size, window size,     *)
(* sequence limit and set of sealing goroutines.                           *)
(***************************************************************************)
EXTENDS ReplayWindow, BitWindowProofs, TLAPS

-----------------------------------------------------------------------------
(* What shiftReplayWindow computes. *)

\* A bit is set after a shift exactly when the bit that many positions below
\* it was set before: no bit is lost, duplicated or misplaced at the border
\* of two words.
LEMMA ShiftMovesBits ==
    ASSUME NEW window \in Windows, NEW d \in Nat,
           NEW w \in WordIndex, NEW b \in BitIndex
    PROVE  b \in ShiftReplayWindow(window, d)[w] <=>
              \E v \in WordIndex, c \in BitIndex :
                 c \in window[v] /\ Position(w, b) = Position(v, c) + d
<1> DEFINE q == d \div WordBits
           r == d % WordBits
           Source(v, c) == c \in window[v] /\ Position(w, b) = Position(v, c) + d
<1>0. WordBits \in Nat /\ WordBits >= 1 /\ Words \in Nat  BY BitWindowAssumption
<1>1. q \in Nat /\ r \in 0 .. WordBits - 1 /\ d = WordBits * q + r
  BY WordAndBit DEF BitIndex
<1> HIDE DEF q, r
<1>2. w \in 0 .. Words - 1 /\ b \in 0 .. WordBits - 1  BY DEF WordIndex, BitIndex
<1>3. CASE d >= WindowSize
  <2>1. b \notin ShiftReplayWindow(window, d)[w]
    BY <1>3 DEF ShiftReplayWindow, EmptyWindow
  <2>2. ASSUME NEW v \in WordIndex, NEW c \in BitIndex, Source(v, c) PROVE FALSE
    <3>1. Position(v, c) \in Nat /\ Position(w, b) \in Nat
          /\ Position(w, b) < WindowSize
      BY PositionBound
    <3>2. WindowSize \in Nat  BY <1>0 DEF WindowSize
    <3>3. QED  BY <1>3, <2>2, <3>1, <3>2
  <2>3. QED  BY <2>1, <2>2
<1>4. CASE d < WindowSize
  <2>1. ShiftReplayWindow(window, d)[w]
          = (IF w >= q THEN ShiftLeft(window[w - q], r) ELSE {})
            \cup (IF r > 0 /\ w > q
                  THEN ShiftRight(window[w - q - 1], WordBits - r) ELSE {})
    <3>1. WindowSize \in Int  BY <1>0 DEF WindowSize
    <3>2. ~ (d >= WindowSize)  BY <1>4, <3>1
    <3>3. QED  BY <3>2 DEF ShiftReplayWindow, q, r
  <2>2. \A v \in WordIndex, c \in BitIndex :
           Source(v, c) <=>
             c \in window[v] /\ WordBits * (w - q) + (b - r) = WordBits * v + c
    <3> SUFFICES ASSUME NEW v \in WordIndex, NEW c \in BitIndex
                 PROVE  Position(w, b) = Position(v, c) + d <=>
                        WordBits * (w - q) + (b - r) = WordBits * v + c
      OBVIOUS
    <3>1. v \in Int /\ c \in Int  BY DEF WordIndex, BitIndex
    <3>2. WordBits * (w - q) = WordBits * w - WordBits * q  BY <1>0, <1>1, <1>2
    <3>3. WordBits * w \in Int /\ WordBits * q \in Int /\ WordBits * v \in Int
      BY <1>0, <1>1, <1>2, <3>1
    <3>4. q \in Int /\ r \in Int /\ w \in Int /\ b \in Int /\ d = WordBits * q + r
      BY <1>1, <1>2
    <3>5. QED  BY <3>1, <3>2, <3>3, <3>4 DEF Position
  <2>3. \A v \in WordIndex : window[v] \subseteq 0 .. WordBits - 1
    BY DEF BitIndex, Windows
  <2>4. CASE b >= r
    <3>1. b - r \in BitIndex /\ w - q \in Int  BY <1>0, <1>1, <1>2, <2>4 DEF BitIndex
    <3>2. b \in ShiftReplayWindow(window, d)[w] <=> w >= q /\ b - r \in window[w - q]
      <4>1. r > 0 /\ w > q => b \notin ShiftRight(window[w - q - 1], WordBits - r)
        <5>1. SUFFICES ASSUME r > 0, w > q,
                              b + (WordBits - r) \in window[w - q - 1]
                       PROVE  FALSE
          BY DEF ShiftRight
        <5>2. w - q - 1 \in WordIndex  BY <1>0, <1>1, <1>2, <5>1 DEF WordIndex
        <5>3. b + (WordBits - r) \in 0 .. WordBits - 1  BY <2>3, <5>1, <5>2
        <5>4. QED  BY <1>0, <1>1, <1>2, <2>4, <5>3
      <4>2. b \in ShiftLeft(window[w - q], r) <=> b - r \in window[w - q]
        BY DEF ShiftLeft
      <4>3. QED  BY <2>1, <4>1, <4>2
    <3>3. \A v \in WordIndex, c \in BitIndex :
             Source(v, c) => v = w - q /\ c = b - r
      BY <2>2, <3>1, PositionUnique DEF WordIndex
    <3>4. w >= q => w - q \in WordIndex
      BY <1>0, <1>1, <1>2 DEF WordIndex
    <3>5. w >= q /\ b - r \in window[w - q] => Source(w - q, b - r)
      BY <2>2, <3>1, <3>4
    <3>6. \A v \in WordIndex : v = w - q => w >= q
      BY <1>0, <1>1, <1>2 DEF WordIndex
    <3>7. QED  BY <3>1, <3>2, <3>3, <3>4, <3>5, <3>6
  <2>5. CASE b < r
    <3> DEFINE u == w - q - 1
               e == b + (WordBits - r)
    <3>1. e \in BitIndex /\ u \in Int /\ r > 0
      BY <1>0, <1>1, <1>2, <2>5 DEF BitIndex
    <3>2. b \in ShiftReplayWindow(window, d)[w] <=> w > q /\ e \in window[u]
      <4>1. w >= q => b \notin ShiftLeft(window[w - q], r)
        <5>1. SUFFICES ASSUME w >= q, b - r \in window[w - q] PROVE FALSE
          BY DEF ShiftLeft
        <5>2. w - q \in WordIndex  BY <1>0, <1>1, <1>2, <5>1 DEF WordIndex
        <5>3. b - r \in 0 .. WordBits - 1  BY <2>3, <5>1, <5>2
        <5>4. QED  BY <1>1, <1>2, <2>5, <5>3
      <4>2. b \in ShiftRight(window[u], WordBits - r) <=> e \in window[u]
        BY DEF ShiftRight
      <4>3. QED  BY <2>1, <3>1, <4>1, <4>2
    <3>3. WordBits * (w - q) + (b - r) = WordBits * u + e
      <4>1. WordBits * u = WordBits * (w - q) - WordBits  BY <1>0, <1>1, <1>2
      <4>2. WordBits * (w - q) \in Int  BY <1>0, <1>1, <1>2
      <4> HIDE DEF u
      <4>3. QED  BY <1>0, <1>1, <1>2, <4>1, <4>2
    <3>4. \A v \in WordIndex, c \in BitIndex : Source(v, c) => v = u /\ c = e
      <4> SUFFICES ASSUME NEW v \in WordIndex, NEW c \in BitIndex, Source(v, c)
                   PROVE  v = u /\ c = e
        OBVIOUS
      <4>1. WordBits * v + c = WordBits * u + e  BY <2>2, <3>3
      <4>2. v \in Int  BY DEF WordIndex
      <4> HIDE DEF u, e
      <4>3. QED  BY <3>1, <4>1, <4>2, PositionUnique
    <3>5. w > q => u \in WordIndex  BY <1>0, <1>1, <1>2 DEF WordIndex
    <3>6. w > q /\ e \in window[u] => Source(u, e)  BY <2>2, <3>1, <3>3, <3>5
    <3>7. \A v \in WordIndex : v = u => w > q  BY <1>0, <1>1, <1>2 DEF WordIndex
    <3> HIDE DEF u, e
    <3>8. QED  BY <3>1, <3>2, <3>4, <3>5, <3>6, <3>7
  <2>6. QED  BY <1>1, <1>2, <2>4, <2>5
<1>5. QED
  <2>1. WindowSize \in Int  BY <1>0 DEF WindowSize
  <2>2. QED  BY <1>3, <1>4, <2>1

\* A shifted window is a window.
LEMMA ShiftType ==
    ASSUME NEW window \in Windows, NEW d \in Nat
    PROVE  ShiftReplayWindow(window, d) \in Windows
<1>1. \A word, n : ShiftLeft(word, n) \subseteq BitIndex
                   /\ ShiftRight(word, n) \subseteq BitIndex
  BY DEF ShiftLeft, ShiftRight
<1>2. QED  BY <1>1 DEF ShiftReplayWindow, EmptyWindow, Windows

-----------------------------------------------------------------------------
(* The inductive invariant. *)

\* The number of uses of each nonce follows from how far the counter is and
\* whether the goroutine that holds the mutex has used the last number yet.
SealInv ==
    /\ outboundMu = "free" => sealing = {}
    /\ outboundMu # "free" => sealing = {outboundMu}
    /\ sealing # {} => outboundSequence >= 1
    /\ \A s \in Sequences :
          nonceUses[s] = IF s < outboundSequence
                            \/ (s = outboundSequence /\ sealing = {})
                         THEN 1 ELSE 0

\* Nothing above the highest accepted number was accepted.
NothingAhead == \A s \in Sequences : s > inboundSequence => accepted[s] = 0

WindowInv ==
    /\ AcceptedOnce
    /\ WindowRecordsAccepted
    /\ WindowFollowsSender
    /\ NothingAhead

IInv == TypeOK /\ SealInv /\ WindowInv

LEMMA InitInv == Init => IInv
<1> SUFFICES ASSUME Init PROVE IInv  OBVIOUS
<1> USE WindowAssumption, BitWindowAssumption
<1>1. TypeOK  BY DEF Init, TypeOK, Sequences, EmptyWindow, Windows
<1>2. SealInv  BY DEF Init, SealInv, Sequences
<1>3. WindowRecordsAccepted
  <2>1. SUFFICES ASSUME NEW w \in WordIndex, NEW b \in BitIndex
                 PROVE  0 - Position(w, b) \notin Sequences
    BY DEF WindowRecordsAccepted, Init, EmptyWindow
  <2>2. Position(w, b) \in Nat  BY PositionBound
  <2>3. QED  BY <2>2 DEF Sequences
<1>4. AcceptedOnce /\ WindowFollowsSender /\ NothingAhead
  BY DEF Init, AcceptedOnce, WindowFollowsSender, NothingAhead
<1>5. QED  BY <1>1, <1>2, <1>3, <1>4 DEF IInv, WindowInv

-----------------------------------------------------------------------------
(* The sender preserves the invariant. *)

LEMMA SealBeginInv ==
    ASSUME IInv, NEW g \in Sealers, SealBegin(g)
    PROVE  IInv'
<1> USE WindowAssumption, BitWindowAssumption DEF IInv
<1>1. outboundSequence \in Nat /\ outboundSequence' = outboundSequence + 1
      /\ outboundSequence < MaxSequence
  BY DEF SealBegin, TypeOK
<1>2. TypeOK'  BY <1>1 DEF TypeOK, SealBegin, receiver, Sequences
<1>3. SealInv'
  <2>1. outboundMu' = g /\ sealing' = {g} /\ g # "free"
    BY DEF SealInv, SealBegin
  <2>2. ASSUME NEW s \in Sequences
        PROVE  nonceUses'[s] = IF s < outboundSequence'
                                  \/ (s = outboundSequence' /\ sealing' = {})
                               THEN 1 ELSE 0
    <3>1. sealing = {} /\ nonceUses' = nonceUses  BY DEF SealInv, SealBegin
    <3>2. nonceUses[s] = IF s < outboundSequence \/ s = outboundSequence
                         THEN 1 ELSE 0
      BY <3>1 DEF SealInv
    <3>3. sealing' # {}  BY <2>1
    <3>4. s \in Nat  BY DEF Sequences
    <3>5. QED  BY <1>1, <3>1, <3>2, <3>3, <3>4
  <2>3. QED  BY <1>1, <2>1, <2>2 DEF SealInv
<1>4. WindowInv'
  BY DEF WindowInv, SealBegin, receiver, AcceptedOnce, WindowRecordsAccepted,
         WindowFollowsSender, NothingAhead
<1>5. QED  BY <1>2, <1>3, <1>4

LEMMA SealEndInv ==
    ASSUME IInv, NEW g \in Sealers, SealEnd(g)
    PROVE  IInv'
<1> USE WindowAssumption, BitWindowAssumption DEF IInv
<1>1. sealing = {g} /\ outboundMu = g /\ outboundSequence \in Sequences
  BY DEF SealInv, SealEnd, TypeOK, Sequences
<1>2. TypeOK'
  BY <1>1 DEF TypeOK, SealEnd, receiver
<1>3. SealInv'
  <2>1. outboundMu' = "free" /\ sealing' = {}  BY <1>1 DEF SealEnd
  <2>2. ASSUME NEW s \in Sequences
        PROVE  nonceUses'[s] = IF s < outboundSequence \/ s = outboundSequence
                               THEN 1 ELSE 0
    <3>1. nonceUses[s] = IF s < outboundSequence THEN 1 ELSE 0
      BY <1>1 DEF SealInv
    <3>2. nonceUses' = [nonceUses EXCEPT ![outboundSequence] = @ + 1]
      BY DEF SealEnd
    <3>3. nonceUses \in [Sequences -> Nat]  BY DEF TypeOK
    <3>4. outboundSequence \in Nat /\ s \in Nat  BY <1>1 DEF Sequences
    <3>5. CASE s = outboundSequence
      BY <1>1, <3>1, <3>2, <3>3, <3>4, <3>5
    <3>6. CASE s # outboundSequence
      BY <1>1, <3>1, <3>2, <3>3, <3>4, <3>6
    <3>7. QED  BY <3>5, <3>6
  <2>3. QED  BY <2>1, <2>2 DEF SealInv, SealEnd
<1>4. WindowInv'
  BY DEF WindowInv, SealEnd, receiver, AcceptedOnce, WindowRecordsAccepted,
         WindowFollowsSender, NothingAhead
<1>5. QED  BY <1>2, <1>3, <1>4

-----------------------------------------------------------------------------
(* The receiver preserves the invariant. *)

LEMMA AcceptNewestInv ==
    ASSUME IInv, NEW s \in Sequences, s \in wire, AcceptNewest(s), UNCHANGED sender
    PROVE  IInv'
<1> USE WindowAssumption, BitWindowAssumption DEF IInv
<1> DEFINE d == s - inboundSequence
           shifted == ShiftReplayWindow(inboundSeen, d)
<1>1. /\ inboundSequence \in Nat /\ s \in Nat /\ s <= MaxSequence
      /\ d \in Nat /\ d >= 1 /\ accepted \in [Sequences -> Nat]
      /\ inboundSeen \in Windows
  BY DEF TypeOK, AcceptNewest, Sequences
<1>2. /\ inboundSequence' = s
      /\ accepted' = [accepted EXCEPT ![s] = @ + 1]
      /\ inboundSeen' = SetBit(shifted, 0)
  BY DEF AcceptNewest, Accept
<1>3. WindowSize \in Nat /\ 0 < WindowSize  BY DEF WindowSize
<1>4. shifted \in Windows  BY <1>1, ShiftType
<1> HIDE DEF shifted
<1>5. /\ inboundSeen' \in Windows
      /\ \A w \in WordIndex, b \in BitIndex :
            b \in inboundSeen'[w] <=> b \in shifted[w] \/ Position(w, b) = 0
  BY <1>2, <1>3, <1>4, SetBitSetsOneBit
<1>6. accepted[s] = 0  BY DEF WindowInv, NothingAhead, AcceptNewest
<1>7. /\ accepted'[s] = 1
      /\ \A t \in Sequences : t # s => accepted'[t] = accepted[t]
      /\ accepted' \in [Sequences -> Nat]
  BY <1>1, <1>2, <1>6
<1>8. TypeOK'
  BY <1>1, <1>2, <1>5, <1>7 DEF TypeOK, sender
<1>9. SealInv'  BY DEF SealInv, sender
<1>10. WindowRecordsAccepted'
  <2> SUFFICES ASSUME NEW w \in WordIndex, NEW b \in BitIndex
               PROVE  b \in inboundSeen'[w] <=>
                        s - Position(w, b) \in Sequences
                        /\ accepted'[s - Position(w, b)] >= 1
    BY <1>2 DEF WindowRecordsAccepted
  <2> DEFINE pos == Position(w, b)
  <2>1. pos \in Nat /\ pos < WindowSize /\ WindowSize \in Nat
    BY PositionBound DEF WindowSize
  <2>2. b \in shifted[w] <=>
           \E v \in WordIndex, c \in BitIndex :
              c \in inboundSeen[v] /\ pos = Position(v, c) + d
    BY <1>1, ShiftMovesBits DEF shifted
  <2>3. \A v \in WordIndex, c \in BitIndex :
           /\ Position(v, c) \in Nat
           /\ c \in inboundSeen[v] <=>
                inboundSequence - Position(v, c) \in Sequences
                /\ accepted[inboundSequence - Position(v, c)] >= 1
    BY PositionBound DEF WindowInv, WindowRecordsAccepted
  <2> HIDE DEF pos, d
  <2>5. CASE pos = 0
    <3>1. s - pos = s  BY <1>1, <2>5
    <3>2. QED  BY <1>5, <1>7, <2>5, <3>1 DEF pos
  <2>6. CASE pos # 0 /\ pos < d
    <3>1. b \notin shifted[w]  BY <1>1, <2>1, <2>2, <2>3, <2>6
    <3>2. s - pos > inboundSequence /\ s - pos # s
      BY <1>1, <2>1, <2>6 DEF d
    <3>3. s - pos \in Sequences => accepted'[s - pos] = 0
      BY <1>7, <3>2 DEF WindowInv, NothingAhead
    <3>4. QED  BY <1>5, <2>6, <3>1, <3>3 DEF pos
  <2>7. CASE pos # 0 /\ pos >= d
    <3> DEFINE t == s - pos
    <3>1. pos - d \in Nat /\ pos - d < WindowSize /\ t = inboundSequence - (pos - d)
          /\ t # s /\ pos = (pos - d) + d
      BY <1>1, <2>1, <2>7 DEF d
    <3>2. PICK v \in WordIndex, c \in BitIndex : Position(v, c) = pos - d
      BY <3>1, DistanceInWindow
    <3>3. c \in inboundSeen[v] <=> t \in Sequences /\ accepted[t] >= 1
      BY <2>3, <3>1, <3>2
    <3>4. ASSUME NEW x \in WordIndex, NEW y \in BitIndex,
                 pos = Position(x, y) + d
          PROVE  x = v /\ y = c
      <4>1. Position(x, y) = Position(v, c)
        BY <1>1, <2>1, <2>3, <3>1, <3>2, <3>4
      <4>2. QED  BY <4>1, PositionIsOneBit
    <3>5. pos = Position(v, c) + d  BY <2>3, <3>1, <3>2
    <3>6. b \in shifted[w] <=> t \in Sequences /\ accepted[t] >= 1
      BY <2>2, <3>3, <3>4, <3>5
    <3>7. QED  BY <1>5, <1>7, <2>7, <3>1, <3>6 DEF pos
  <2>8. QED  BY <1>1, <2>1, <2>5, <2>6, <2>7
<1>11. AcceptedOnce'  BY <1>7 DEF AcceptedOnce, WindowInv
<1>12. WindowFollowsSender'
  BY <1>2, <1>7 DEF WindowFollowsSender, sender
<1>13. NothingAhead'
  <2>1. ASSUME NEW t \in Sequences, t > s PROVE accepted'[t] = 0
    <3>1. t \in Nat /\ t > inboundSequence /\ t # s
      BY <1>1, <2>1 DEF Sequences, AcceptNewest
    <3>2. QED  BY <1>7, <3>1 DEF WindowInv, NothingAhead
  <2>2. QED  BY <1>2, <2>1 DEF NothingAhead
<1>14. QED
  BY <1>8, <1>9, <1>10, <1>11, <1>12, <1>13 DEF WindowInv

LEMMA AcceptLateInv ==
    ASSUME IInv, NEW s \in Sequences, s \in wire, AcceptLate(s), UNCHANGED sender
    PROVE  IInv'
<1> USE WindowAssumption, BitWindowAssumption DEF IInv
<1> DEFINE d == inboundSequence - s
           v == WordAt(d)
           c == BitAt(d)
<1>1. /\ inboundSequence \in Nat /\ s \in Nat /\ d \in Nat /\ d < WindowSize
      /\ accepted \in [Sequences -> Nat]
      /\ inboundSeen \in Windows
  BY DEF TypeOK, AcceptLate, InWindow, Sequences
<1>2. v \in WordIndex /\ c \in BitIndex /\ d = Position(v, c)
  BY <1>1, DistanceInWindow
<1> HIDE DEF v, c
<1>3. /\ inboundSequence' = inboundSequence
      /\ accepted' = [accepted EXCEPT ![s] = @ + 1]
      /\ inboundSeen' = SetBit(inboundSeen, d)
      /\ c \notin inboundSeen[v]
  BY DEF AcceptLate, Accept, Seen, BitIsSet, v, c
<1>4. /\ inboundSeen' \in Windows
      /\ \A w \in WordIndex, b \in BitIndex :
            b \in inboundSeen'[w] <=> b \in inboundSeen[w] \/ Position(w, b) = d
  BY <1>1, <1>2, <1>3, SetBitSetsOneBit
<1>5. inboundSequence - Position(v, c) = s
  BY <1>1, <1>2
<1>6. accepted[s] = 0
  BY <1>1, <1>2, <1>3, <1>5 DEF WindowInv, WindowRecordsAccepted, AcceptedOnce
<1>7. /\ accepted'[s] = 1
      /\ \A t \in Sequences : t # s => accepted'[t] = accepted[t]
      /\ accepted' \in [Sequences -> Nat]
  BY <1>1, <1>3, <1>6
<1>8. TypeOK'  BY <1>3, <1>4, <1>7 DEF TypeOK, sender
<1>9. SealInv'  BY DEF SealInv, sender
<1>10. WindowRecordsAccepted'
  <2> SUFFICES ASSUME NEW w \in WordIndex, NEW b \in BitIndex
               PROVE  b \in inboundSeen'[w] <=>
                        inboundSequence - Position(w, b) \in Sequences
                        /\ accepted'[inboundSequence - Position(w, b)] >= 1
    BY <1>3 DEF WindowRecordsAccepted
  <2> DEFINE t == inboundSequence - Position(w, b)
  <2>1. b \in inboundSeen[w] <=> t \in Sequences /\ accepted[t] >= 1
    BY DEF WindowInv, WindowRecordsAccepted
  <2>2. CASE w = v /\ b = c
    <3>1. t = s  BY <1>5, <2>2
    <3>2. QED  BY <1>2, <1>4, <1>7, <2>2, <3>1
  <2>3. CASE ~ (w = v /\ b = c)
    <3>1. Position(w, b) # Position(v, c)
      BY <1>2, <2>3, PositionIsOneBit
    <3>2. Position(w, b) \in Nat  BY PositionBound
    <3>3. t # s  BY <1>1, <1>2, <3>1, <3>2
    <3> HIDE DEF t
    <3>4. b \in inboundSeen'[w] <=> t \in Sequences /\ accepted'[t] >= 1
      BY <1>2, <1>4, <1>7, <2>1, <3>1, <3>3
    <3>5. QED  BY <3>4 DEF t
  <2>4. QED  BY <2>2, <2>3
<1>11. AcceptedOnce'  BY <1>7 DEF AcceptedOnce, WindowInv
<1>12. WindowFollowsSender'
  <2>1. inboundSequence \in Sequences => accepted'[inboundSequence] >= accepted[inboundSequence]
    BY <1>1, <1>6, <1>7
  <2>2. wire \subseteq Sequences  BY DEF TypeOK
  <2>3. inboundSequence \in Sequences => accepted'[inboundSequence] \in Nat
                                         /\ accepted[inboundSequence] \in Nat
    BY <1>1, <1>7
  <2>4. CASE inboundSequence = 0
    BY <1>3, <2>4 DEF WindowFollowsSender
  <2>5. CASE inboundSequence \in wire /\ accepted[inboundSequence] >= 1
    BY <1>3, <2>1, <2>2, <2>3, <2>5 DEF WindowFollowsSender, sender
  <2>6. QED  BY <2>4, <2>5 DEF WindowInv, WindowFollowsSender
<1>13. NothingAhead'
  BY <1>1, <1>3, <1>7 DEF NothingAhead, WindowInv, AcceptLate
<1>14. QED
  BY <1>8, <1>9, <1>10, <1>11, <1>12, <1>13 DEF WindowInv

LEMMA UnchangedInv == IInv /\ UNCHANGED vars => IInv'
  BY DEF IInv, TypeOK, SealInv, WindowInv, vars, AcceptedOnce,
         WindowRecordsAccepted, WindowFollowsSender, NothingAhead

LEMMA OpenInv ==
    ASSUME IInv, NEW s \in Datagrams, Open(s)
    PROVE  IInv'
<1>1. CASE s \in Sequences /\ Authentic(s)
  <2>1. s \in wire /\ AcceptInboundSequence(s) /\ UNCHANGED sender
    BY <1>1 DEF Open, Authentic
  <2>2. CASE AcceptNewest(s)  BY <1>1, <2>1, <2>2, AcceptNewestInv
  <2>3. CASE AcceptLate(s)  BY <1>1, <2>1, <2>3, AcceptLateInv
  <2>4. CASE RejectReplay(s)
    BY <2>1, <2>4, UnchangedInv DEF RejectReplay, vars, sender, receiver
  <2>5. QED  BY <2>1, <2>2, <2>3, <2>4 DEF AcceptInboundSequence
<1>2. CASE ~ (s \in Sequences /\ Authentic(s))
  BY <1>2, UnchangedInv DEF Open, vars, sender, receiver
<1>3. QED  BY <1>1, <1>2

LEMMA NextInv == IInv /\ [Next]_vars => IInv'
<1> SUFFICES ASSUME IInv, [Next]_vars PROVE IInv'  OBVIOUS
<1>1. CASE \E g \in Sealers : SealBegin(g)  BY <1>1, SealBeginInv
<1>2. CASE \E g \in Sealers : SealEnd(g)  BY <1>2, SealEndInv
<1>3. CASE \E s \in Datagrams : Open(s)  BY <1>3, OpenInv
<1>4. CASE UNCHANGED vars  BY <1>4, UnchangedInv
<1>5. QED  BY <1>1, <1>2, <1>3, <1>4 DEF Next

\* Every reachable state satisfies the inductive invariant.
THEOREM InductiveInvariant == Spec => []IInv
  BY InitInv, NextInv, PTL DEF Spec

-----------------------------------------------------------------------------
(* What a reader should know. *)

\* The state of a session direction is well formed: counters stay in range and
\* every word of the window keeps its width through all shifts.
THEOREM TypeCorrect == Spec => []TypeOK
<1>1. IInv => TypeOK  BY DEF IInv
<1>2. QED  BY <1>1, InductiveInvariant, PTL

\* Open returns no packet twice, for every size of the window: what
\* acceptInboundSequence and shiftReplayWindow are there for.
THEOREM NoReplay == Spec => []AcceptedOnce
<1>1. IInv => AcceptedOnce  BY DEF IInv, WindowInv
<1>2. QED  BY <1>1, InductiveInvariant, PTL

\* The words of the window record exactly the numbers accepted, through all
\* shifts inside and across words.
THEOREM WindowCorrect == Spec => []WindowRecordsAccepted
<1>1. IInv => WindowRecordsAccepted  BY DEF IInv, WindowInv
<1>2. QED  BY <1>1, InductiveInvariant, PTL

\* Only a packet of the sender moves the window.
THEOREM WindowGenuine == Spec => []WindowFollowsSender
<1>1. IInv => WindowFollowsSender  BY DEF IInv, WindowInv
<1>2. QED  BY <1>1, InductiveInvariant, PTL

\* No nonce encrypts two packets, for every number of goroutines that seal.
THEOREM NonceUnique == Spec => []NonceUsedOnce
<1>1. IInv => NonceUsedOnce
  BY DEF IInv, SealInv, NonceUsedOnce
<1>2. QED  BY <1>1, InductiveInvariant, PTL

\* A packet that was not delivered before and is less than a window late is
\* never reported as a replay.
THEOREM NoFalseReplay == Spec => []FreshNotLost
<1>1. ASSUME IInv, NEW s \in wire, accepted[s] = 0,
             inboundSequence - s < WindowSize, Replayed(s)
      PROVE  FALSE
  <2>1. s \in Sequences /\ s \in Nat /\ inboundSequence \in Nat
    BY <1>1 DEF IInv, TypeOK, Sequences
  <2>2. s <= inboundSequence /\ Seen(s)  BY <1>1 DEF Replayed, InWindow
  <2>3. inboundSequence - s \in Nat  BY <2>1, <2>2
  <2> DEFINE v == WordAt(inboundSequence - s)
             c == BitAt(inboundSequence - s)
  <2>4. v \in WordIndex /\ c \in BitIndex /\ c \in inboundSeen[v]
        /\ Position(v, c) = inboundSequence - s
    BY <1>1, <2>2, <2>3, DistanceInWindow DEF Seen, BitIsSet
  <2> HIDE DEF v, c
  <2>5. inboundSequence - Position(v, c) = s  BY <2>1, <2>4
  <2>6. accepted[s] >= 1
    BY <1>1, <2>4, <2>5 DEF IInv, WindowInv, WindowRecordsAccepted
  <2>7. QED  BY <1>1, <2>6
<1>2. IInv => FreshNotLost  BY <1>1 DEF FreshNotLost
<1>3. QED  BY <1>2, InductiveInvariant, PTL
=============================================================================
