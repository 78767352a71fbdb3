------------------------- MODULE TransferArithmetic -------------------------
(***************************************************************************)
(* The sizes that server and client compute with: the server's chunk count *)
(* (server.go, prepare) and chunk lengths (handleGet), DecodeMeta, and the *)
(* client's expectations (client.go, downloadArchive and receiveChunks),   *)
(* all modulo the width of their types.  (ClientTransfer takes for granted *)
(* that both sides agree on the chunks of an archive.)                     *)
(***************************************************************************)
EXTENDS Integers

CONSTANTS
  Sizes,       \* the number of values of a uint64, 2^64
  Counts,      \* those of a uint32, 2^32
  ChunkBytes   \* protocol.ChunkSize, the largest chunk (1120)

ASSUME ArithmeticAssumption ==
  /\ Sizes \in Nat \ {0} /\ Counts \in Nat \ {0} /\ ChunkBytes \in Nat \ {0}
  /\ 2 * (ChunkBytes * Counts) <= Sizes

Wrap(n) == n % Sizes
MaxCount == Counts - 1

ExpectedChunks(size, chunk) ==
  IF size = 0 THEN 0 ELSE Wrap(size + chunk - 1) \div chunk

-----------------------------------------------------------------------------
(* The server. *)

\* prepare: an archive of more chunks than a uint32 counts is refused.
Preparable(archive) == ExpectedChunks(archive, ChunkBytes) <= MaxCount

Prepare(archive) ==
  [size |-> archive, chunks |-> ExpectedChunks(archive, ChunkBytes), chunkSize |-> ChunkBytes]

\* handleGet: the length of a chunk, computed in int64.
ServedLength(meta, index) ==
  LET remaining == meta.size - index * meta.chunkSize
  IN  IF remaining < meta.chunkSize THEN remaining ELSE meta.chunkSize

-----------------------------------------------------------------------------
(* The client. *)

DecodeMeta(meta) ==
  /\ meta.chunkSize \in 1..ChunkBytes
  /\ ExpectedChunks(meta.size, meta.chunkSize) = meta.chunks

\* receiveChunks refuses a chunk of another length.
ExpectedChunkLength(meta, index) ==
  LET remaining == Wrap(meta.size - Wrap(index * meta.chunkSize))
  IN  IF remaining < meta.chunkSize THEN remaining ELSE meta.chunkSize

\* The bytes of the first n chunks, and what the client computes for them.
Total(meta, n) ==
  LET total[i \in 0..n] ==
        IF i = 0 THEN 0 ELSE total[i - 1] + ExpectedChunkLength(meta, i - 1)
  IN  total[n]

ReceiveChunks(meta) == Wrap(Total(meta, meta.chunks))

\* Mutant: the sum is not compared with the size.
SizeReachedAlways(meta) == TRUE

\* downloadArchive, when the last chunk is written.
SizeReached(meta) == ReceiveChunks(meta) = meta.size

-----------------------------------------------------------------------------

Archives == 0..((Sizes \div 2) - 1)    \* an int64 of the file system

\* Whatever another program with the same keys could send.
Metas == [size : 0..(Sizes - 1), chunks : 0..MaxCount, chunkSize : 0..(ChunkBytes + 1)]

\* What the server prepares the client takes for its archive, chunk by chunk
\* to the last byte.
ServerUnderstood ==
  \A archive \in Archives : Preparable(archive) =>
    LET meta == Prepare(archive)
    IN  /\ DecodeMeta(meta)
        /\ \A i \in 0..(meta.chunks - 1) :
             ServedLength(meta, i) = ExpectedChunkLength(meta, i)
        /\ SizeReached(meta)

OnlyHugeRefused ==
  \A archive \in Archives : Preparable(archive) <=> archive <= ChunkBytes * MaxCount

\* Nothing else completes: the bytes received are those announced, although
\* computations wrap around.
NothingElseCompletes ==
  \A meta \in Metas :
    DecodeMeta(meta) /\ SizeReached(meta) => Total(meta, meta.chunks) = meta.size

\* What our server could prepare the client receives to the last byte; and no
\* metadata, whether or not a computation wraps around, make it take fewer or
\* more bytes than they say for complete.
ArithmeticAgrees ==
  /\ []ServerUnderstood
  /\ [](OnlyHugeRefused /\ NothingElseCompletes)
=============================================================================
