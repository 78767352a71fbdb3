---------------------------- MODULE FileTransfer ----------------------------
(***************************************************************************)
(* What a download promises to its caller (client.DownloadArchive): the    *)
(* destination receives the chunks of the archive in order, a call that    *)
(* succeeds has written the archive that the server announced, all of it   *)
(* and nothing else, and every call returns.                               *)
(*                                                                         *)
(* Chunks may reach the destination before their checksum is known, so a   *)
(* call that fails may leave a part of the archive, or a wrong chunk.      *)
(***************************************************************************)
EXTENDS Integers, Sequences

CONSTANT Chunks     \* number of chunks of the archive

VARIABLES delivered,    \* chunks written to the destination
          outcome       \* "running", or how the call returned

vars == <<delivered, outcome>>

Contents == {"right", "altered"}

\* Chunk number i of the archive has index i - 1; its content is what the
\* announced checksum covers, or something else.
ChunkAt(i) == [index : {i - 1}, content : Contents]

Archive == [i \in 1 .. Chunks |-> [index |-> i - 1, content |-> "right"]]

Init ==
    /\ delivered = << >>
    /\ outcome = "running"

\* The destination grows, and only at its end.
Extends(longer) ==
    /\ Len(delivered) <= Len(longer)
    /\ SubSeq(longer, 1, Len(delivered)) = delivered
    /\ Len(longer) <= Chunks
    /\ \A i \in Len(delivered) + 1 .. Len(longer) : longer[i] \in ChunkAt(i)

Deliver ==
    /\ outcome = "running"
    /\ Extends(delivered')
    /\ UNCHANGED outcome

Succeed ==
    /\ outcome = "running"
    /\ delivered = Archive
    /\ outcome' = "success"
    /\ UNCHANGED delivered

\* The call may fail while it writes.
Fail ==
    /\ outcome = "running"
    /\ Extends(delivered')
    /\ outcome' = "failure"

Next == Deliver \/ Succeed \/ Fail

Spec == Init /\ [][Next]_vars

\* Every call returns.
Returns == <>(outcome # "running")
=============================================================================
