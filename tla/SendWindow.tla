----------------------------- MODULE SendWindow -----------------------------
(***************************************************************************)
(* The chunks of one prepared archive as the server hands them out:        *)
(* handleGet, markChunkSent, chunkWithinSendWindow and                     *)
(* shiftSentChunkWindow of internal/server/server.go.                      *)
(*                                                                         *)
(* The server counts every chunk once, however often the client asks for   *)
(* it again.  It remembers which chunks it has sent in a window of bits    *)
(* above sentWindowBase, the first chunk that was not sent.  Requests      *)
(* arrive in any order and any number of times; the chunks sent reach the  *)
(* client in any order or never.  The Serve loop handles one packet at a   *)
(* time, so that the steps of one request do not meet those of another.    *)
(*                                                                         *)
(* The bit at position n of the window (module BitWindow) stands for chunk *)
(* sentWindowBase + n.                                                     *)
(***************************************************************************)
EXTENDS BitWindow, FiniteSets

CONSTANTS ChunkSize,     \* protocol.ChunkSize (1120)
          Size,          \* bytes of the archive, meta.Size
          ClientWindow   \* transferWindowSize of the client (64)

ASSUME SendWindowAssumption ==
    /\ ChunkSize \in Nat \ {0}
    /\ Size \in Nat
    /\ ClientWindow \in Nat
    /\ ClientWindow <= WindowSize

VARIABLES sentWindowBase,   \* session.sentWindowBase
          sentChunkWindow,  \* session.sentChunkWindow, word by word
          sentChunks,       \* session.sentChunks
          sentBytes,        \* session.sentBytes
          pc,               \* where the Serve loop is inside handleGet
          index,            \* chunk the request asks for
          sent,             \* history: chunks the socket has taken
          received          \* history: chunks that have reached the client

vars == <<sentWindowBase, sentChunkWindow, sentChunks, sentBytes, pc, index,
          sent, received>>
counters == <<sentChunks, sentBytes>>
sendWindow == <<sentWindowBase, sentChunkWindow>>

\* prepare: the number of chunks, rounded up.
Chunks == IF Size > 0 THEN (Size + ChunkSize - 1) \div ChunkSize ELSE 0

ChunkIndex == 0 .. Chunks - 1

Smaller(m, n) == IF m < n THEN m ELSE n

\* The bytes of chunk i: the last chunk takes what remains.
ChunkLength(i) == Smaller(ChunkSize, Size - i * ChunkSize)

-----------------------------------------------------------------------------
\* Mutant: without the first disjunct the unsigned difference wraps around for
\* a chunk below the window.
ChunkWithinSendWindowWrapped(i) ==
    i >= sentWindowBase /\ i - sentWindowBase < WindowSize

ChunkWithinSendWindow(i) ==
    i < sentWindowBase \/ i - sentWindowBase < WindowSize

\* A request for chunk i is decoded; it is dropped when there is no such chunk
\* or when it lies beyond the window.  The chunk is read from the file; when
\* that fails an error is sent and nothing is counted.
Get(i) ==
    /\ pc = "serve"
    /\ \/ /\ i < Chunks
          /\ ChunkWithinSendWindow(i)
          /\ pc' = "send"
          /\ index' = i
       \/ UNCHANGED <<pc, index>>
    /\ UNCHANGED <<sendWindow, counters, sent, received>>

\* sendEncrypted: the socket takes the chunk, or refuses it and the request
\* ends.
Send ==
    /\ pc = "send"
    /\ \/ sent' = sent \cup {index} /\ pc' = "mark"
       \/ UNCHANGED sent /\ pc' = "serve"
    /\ UNCHANGED <<sendWindow, counters, index, received>>

Distance == index - sentWindowBase

\* Mutant: a chunk that is sent again is counted again.
CountableAgain == index >= sentWindowBase /\ Distance < WindowSize

\* markChunkSent, first part: only a chunk of the window whose bit is clear is
\* marked.
Countable ==
    /\ index >= sentWindowBase
    /\ Distance < WindowSize
    /\ ~ BitIsSet(sentChunkWindow, Distance)

Mark ==
    /\ pc = "mark"
    /\ IF Countable
       THEN /\ sentChunkWindow' = SetBit(sentChunkWindow, Distance)
            /\ pc' = "shift"
       ELSE UNCHANGED sentChunkWindow /\ pc' = "serve"
    /\ UNCHANGED <<sentWindowBase, counters, index, sent, received>>

\* Mutant: the lowest bit of a word is not carried into the word below.
ShiftSentChunkWindowNoCarry(words) ==
    [w \in WordIndex |-> {b \in BitIndex : b + 1 \in words[w]}]

\* The window moved down by one chunk; each word takes the lowest bit of the
\* word above.
ShiftSentChunkWindow(words) ==
    [w \in WordIndex |->
        {b \in BitIndex :
            \/ b + 1 \in words[w]
            \/ b = WordBits - 1 /\ w + 1 \in WordIndex /\ 0 \in words[w + 1]}]

\* markChunkSent, second part: the base moves over all chunks already sent.
\* The mutex is held from Mark to Count.
Shift ==
    /\ pc = "shift"
    /\ 0 \in sentChunkWindow[0]
    /\ sentChunkWindow' = ShiftSentChunkWindow(sentChunkWindow)
    /\ sentWindowBase' = sentWindowBase + 1
    /\ UNCHANGED <<counters, pc, index, sent, received>>

\* The chunk that was marked is counted and handleGet returns.
Count ==
    /\ pc = "shift"
    /\ 0 \notin sentChunkWindow[0]
    /\ sentChunks' = sentChunks + 1
    /\ sentBytes' = sentBytes + ChunkLength(index)
    /\ pc' = "serve"
    /\ UNCHANGED <<sendWindow, index, sent, received>>

\* A chunk that was sent reaches the client.
Deliver(i) ==
    /\ i \in sent
    /\ received' = received \cup {i}
    /\ UNCHANGED <<sendWindow, counters, pc, index, sent>>

-----------------------------------------------------------------------------
Init ==
    /\ sentWindowBase = 0
    /\ sentChunkWindow = EmptyWindow
    /\ sentChunks = 0
    /\ sentBytes = 0
    /\ pc = "serve"
    /\ index = 0
    /\ sent = {}
    /\ received = {}

\* A request may name any chunk, also one the archive does not have.
Next ==
    \/ \E i \in 0 .. Chunks : Get(i)
    \/ Send
    \/ Mark
    \/ Shift
    \/ Count
    \/ \E i \in ChunkIndex : Deliver(i)

Spec == Init /\ [][Next]_vars

-----------------------------------------------------------------------------
TypeOK ==
    /\ sentWindowBase \in 0 .. Chunks
    /\ sentChunkWindow \in Windows
    /\ sentChunks \in 0 .. Chunks
    /\ sentBytes \in 0 .. Size
    /\ pc \in {"serve", "send", "mark", "shift"}
    /\ index \in Nat
    /\ sent \subseteq ChunkIndex
    /\ received \subseteq sent

\* Chunks the server has recorded as sent.
Recorded ==
    {i \in ChunkIndex :
        \/ i < sentWindowBase
        \/ \E w \in WordIndex, b \in BitIndex :
              /\ b \in sentChunkWindow[w]
              /\ i = sentWindowBase + Position(w, b)}

\* Between requests the record of sent chunks is exactly the set of chunks the
\* socket took: the window never forgets a chunk, invents one, or leaves one
\* behind when its base moves on.
RecordMatchesSent == pc = "serve" => Recorded = sent

\* Every chunk is counted exactly once, whatever is asked for again: the
\* number of chunks the progress shows is the number of different chunks sent.
ChunksCountedOnce == pc = "serve" => sentChunks = Cardinality(sent)

\* The bytes shown are those of the different chunks sent; only the last chunk
\* of the archive may be short.
BytesCountedOnce ==
    pc = "serve" =>
        sentBytes = sentChunks * ChunkSize
                    - (IF Chunks - 1 \in sent THEN Chunks * ChunkSize - Size ELSE 0)

\* What the progress of a transfer shows has counted each chunk once.
CountedOnce == ChunksCountedOnce /\ BytesCountedOnce

\* The server never refuses a chunk a client may ask for: one at most
\* ClientWindow above the first chunk it has not received.  The windows of both
\* sides fit each other although the server moves its own by what it has sent
\* and the client by what has arrived.
ClientWindowServed ==
    pc = "serve" =>
        \A i \in ChunkIndex :
            (\A j \in ChunkIndex : j + ClientWindow <= i => j \in received)
                => ChunkWithinSendWindow(i)
=============================================================================
