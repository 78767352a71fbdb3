---------------------------- MODULE ReplayWindow ----------------------------
(***************************************************************************)
(* One direction of an encrypted session (internal/secure/session.go): the *)
(* sender's outboundSequence, from which Seal takes the number and the     *)
(* AES-GCM nonce of a packet, and the receiver's window of numbers already *)
(* seen, with which Open rejects replays.  Several goroutines of the       *)
(* sender may call Seal at once (on the server the Serve loop and the      *)
(* goroutine that prepares the archive do).  The network keeps every       *)
(* sealed packet: it may deliver it never, late, or many times, in any     *)
(* order.                                                                  *)
(*                                                                         *)
(* The receiver's window is an array of machine words (module BitWindow):  *)
(* the bit at position n stands for the number inboundSequence - n.        *)
(***************************************************************************)
EXTENDS BitWindow

CONSTANTS MaxSequence,   \* largest sequence number (math.MaxUint32)
          Sealers        \* goroutines of the sender

ASSUME WindowAssumption ==
    /\ MaxSequence \in Nat
    /\ "free" \notin Sealers

VARIABLES outboundSequence, \* last number used by Seal
          outboundMu,       \* the Sealer that holds the mutex, or "free"
          sealing,          \* Sealers between the increment and the encryption
          wire,             \* numbers of the packets handed to the network
          nonceUses,        \* history: times a nonce was used to encrypt
          inboundSequence,  \* highest number accepted by Open
          inboundSeen,      \* the window, word by word
          accepted          \* history: times Open returned a packet

sender == <<outboundSequence, outboundMu, sealing, wire, nonceUses>>
receiver == <<inboundSequence, inboundSeen, accepted>>
vars == <<outboundSequence, outboundMu, sealing, wire, nonceUses,
          inboundSequence, inboundSeen, accepted>>

Sequences == 1 .. MaxSequence

-----------------------------------------------------------------------------
(* The sender. *)

\* Mutants of SealBegin: the mutex is not awaited; the limit is off by one.
SealBeginUnlocked(g) ==
    /\ g \notin sealing
    /\ outboundSequence < MaxSequence
    /\ outboundMu' = g
    /\ outboundSequence' = outboundSequence + 1
    /\ sealing' = sealing \cup {g}
    /\ UNCHANGED <<wire, nonceUses, receiver>>

\* The mutex is taken, the limit is checked, and the counter is advanced.
SealBegin(g) ==
    /\ g \notin sealing
    /\ outboundMu = "free"
    /\ outboundSequence < MaxSequence
    /\ outboundMu' = g
    /\ outboundSequence' = outboundSequence + 1
    /\ sealing' = sealing \cup {g}
    /\ UNCHANGED <<wire, nonceUses, receiver>>

\* The counter is read again, the packet is encrypted under the nonce made of
\* it, the mutex is released, and the caller writes the packet to the socket.
SealEnd(g) ==
    /\ g \in sealing
    /\ nonceUses' = [nonceUses EXCEPT ![outboundSequence] = @ + 1]
    /\ wire' = wire \cup {outboundSequence}
    /\ sealing' = sealing \ {g}
    /\ outboundMu' = "free"
    /\ UNCHANGED <<outboundSequence, receiver>>

-----------------------------------------------------------------------------
(* The receiver. *)

\* Mutant: the bits that leave a word are not carried into the next one.
ShiftReplayWindowNoCarry(window, distance) ==
    [w \in WordIndex |->
        IF distance < WindowSize /\ w >= distance \div WordBits
        THEN ShiftLeft(window[w - distance \div WordBits], distance % WordBits)
        ELSE {}]

\* Mutant: a jump by whole words leaves the window where it is.
ShiftReplayWindowByBits(window, distance) ==
    [w \in WordIndex |->
        IF distance >= WindowSize THEN {}
        ELSE ShiftLeft(window[w], distance % WordBits)]

\* The window moved by distance positions: every word takes the low part from
\* the word wordShift below it and the carry from the word below that one.
ShiftReplayWindow(window, distance) ==
    LET wordShift == distance \div WordBits
        bitShift  == distance % WordBits
        Low(w)    == IF w >= wordShift
                     THEN ShiftLeft(window[w - wordShift], bitShift) ELSE {}
        Carry(w)  == IF bitShift > 0 /\ w > wordShift
                     THEN ShiftRight(window[w - wordShift - 1],
                                     WordBits - bitShift) ELSE {}
    IN  IF distance >= WindowSize
        THEN EmptyWindow
        ELSE [w \in WordIndex |-> Low(w) \cup Carry(w)]

Accept(s) == accepted' = [accepted EXCEPT ![s] = @ + 1]

\* A number above all others moves the window up to it.
AcceptNewest(s) ==
    /\ s > inboundSequence
    /\ inboundSeen' =
          SetBit(ShiftReplayWindow(inboundSeen, s - inboundSequence), 0)
    /\ inboundSequence' = s
    /\ Accept(s)

\* A late number is accepted when it is in the window and its bit is clear.
InWindowTooShort(s) == inboundSequence - s < WindowSize - 1  \* mutant

InWindow(s) == inboundSequence - s < WindowSize

Seen(s) == BitIsSet(inboundSeen, inboundSequence - s)

AcceptLate(s) ==
    /\ s <= inboundSequence
    /\ InWindow(s)
    /\ ~ Seen(s)
    /\ inboundSeen' = SetBit(inboundSeen, inboundSequence - s)
    /\ Accept(s)
    /\ UNCHANGED inboundSequence

\* Any other authentic packet is reported as a replay.
Replayed(s) ==
    /\ s <= inboundSequence
    /\ InWindow(s) => Seen(s)

RejectReplay(s) == Replayed(s) /\ UNCHANGED receiver

AcceptInboundSequence(s) == AcceptNewest(s) \/ AcceptLate(s) \/ RejectReplay(s)

\* Open of a datagram that carries number s.  Only a packet that was sealed
\* under this number passes the authentication, which comes before the
\* window is touched; a number out of range is refused even earlier.
AuthenticLater(s) == TRUE  \* mutant: the window moves before the check

Authentic(s) == s \in wire

Open(s) ==
    /\ IF s \in Sequences /\ Authentic(s)
       THEN AcceptInboundSequence(s)
       ELSE UNCHANGED receiver
    /\ UNCHANGED sender

\* What the network may hand over: packets of the sender and damaged ones,
\* whose number field may be anything.
Datagrams == 0 .. MaxSequence + 1

-----------------------------------------------------------------------------
Init ==
    /\ outboundSequence = 0
    /\ outboundMu = "free"
    /\ sealing = {}
    /\ wire = {}
    /\ nonceUses = [s \in Sequences |-> 0]
    /\ inboundSequence = 0
    /\ inboundSeen = EmptyWindow
    /\ accepted = [s \in Sequences |-> 0]

Next ==
    \/ \E g \in Sealers : SealBegin(g) \/ SealEnd(g)
    \/ \E s \in Datagrams : Open(s)

Spec == Init /\ [][Next]_vars

-----------------------------------------------------------------------------
TypeOK ==
    /\ outboundSequence \in 0 .. MaxSequence
    /\ outboundMu \in Sealers \cup {"free"}
    /\ sealing \subseteq Sealers
    /\ wire \subseteq Sequences
    /\ nonceUses \in [Sequences -> Nat]
    /\ inboundSequence \in 0 .. MaxSequence
    /\ inboundSeen \in Windows
    /\ accepted \in [Sequences -> Nat]

\* Open never returns the packet of one sequence number twice, however the
\* network repeats and reorders packets and wherever the window stands.
AcceptedOnce == \A s \in Sequences : accepted[s] <= 1

\* Two packets of a session are never encrypted under one nonce, although
\* several goroutines seal packets at once.
NonceUsedOnce == \A s \in Sequences : nonceUses[s] <= 1

\* The window is a faithful record of what was accepted: the bit of each
\* number in it is set exactly when that number was accepted.
WindowRecordsAccepted ==
    \A w \in WordIndex, b \in BitIndex :
        LET s == inboundSequence - Position(w, b)
        IN  b \in inboundSeen[w] <=> (s \in Sequences /\ accepted[s] >= 1)

\* Only packets of the sender move the window: a damaged datagram cannot
\* push it past packets that are still under way.
WindowFollowsSender ==
    \/ inboundSequence = 0
    \/ inboundSequence \in wire /\ accepted[inboundSequence] >= 1

\* A packet that was not delivered before and is less than a window behind is
\* not mistaken for a replay: a request or a chunk that was merely reordered
\* is not lost.
FreshNotLost ==
    \A s \in wire :
        accepted[s] = 0 /\ inboundSequence - s < WindowSize => ~ Replayed(s)
=============================================================================
