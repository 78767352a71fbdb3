------------------------------ MODULE BitWindow ------------------------------
(***************************************************************************)
(* Windows of bits as both ends of a transfer keep them: an array of Words *)
(* machine words (session.inboundSeen of internal/secure, sentChunkWindow  *)
(* of internal/server).  A word is the set of its bits that are set, so    *)
(* that shifts and the carry between words are part of the models that     *)
(* use this module.                                                        *)
(***************************************************************************)
EXTENDS Integers

CONSTANTS WordBits,  \* bits of a word (64 in the code)
          Words      \* replayWindowWords and sendWindowWords (both 4)

ASSUME BitWindowAssumption == WordBits \in Nat \ {0} /\ Words \in Nat \ {0}

WindowSize == WordBits * Words

BitIndex == 0 .. WordBits - 1
WordIndex == 0 .. Words - 1

Windows == [WordIndex -> SUBSET BitIndex]

EmptyWindow == [w \in WordIndex |-> {}]

\* The place of bit b of word w in the window, and the way back.
Position(w, b) == WordBits * w + b
WordAt(n) == n \div WordBits
BitAt(n) == n % WordBits

BitIsSet(window, n) == BitAt(n) \in window[WordAt(n)]
SetBit(window, n) == [window EXCEPT ![WordAt(n)] = @ \cup {BitAt(n)}]

\* The machine's shifts of one word.
ShiftLeft(word, n) == {b \in BitIndex : b - n \in word}
ShiftRight(word, n) == {b \in BitIndex : b + n \in word}
=============================================================================
