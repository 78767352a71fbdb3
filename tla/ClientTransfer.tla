--------------------------- MODULE ClientTransfer ---------------------------
(***************************************************************************)
(* One download (internal/client/client.go, downloadArchive): handshake,   *)
(* request, chunks in a sliding window, completion; over a network that    *)
(* loses, delays and reorders datagrams, against the one session of a      *)
(* server that answers them.                                               *)
(*                                                                         *)
(* Sealed packets: what the replay window rejects (module ReplayWindow) is *)
(* a datagram without effect here, and so is any datagram that is not of   *)
(* this session (IgnoreDatagram).  The server's own handling of sessions   *)
(* is in module ServerSessions and that of its window in SendWindow; here  *)
(* its session is what a client can see of it.                             *)
(***************************************************************************)
EXTENDS Integers, Sequences

CONSTANTS Chunks,           \* meta.Chunks
          Window,           \* transferWindowSize
          InactivityTimeout,\* config.InactivityTimeout, in ticks
          Faults            \* what may be wrong, see AllFaults

\* "none"         nothing is wrong
\* "identity"     the server's signature does not verify
\* "preparation"  the directory cannot be archived
\* "size"         the archive is larger than config.MaxArchiveSize
\* "reading"      the prepared archive cannot be read, at times
\* "altered"      the archive is not the one whose checksum was announced
\* "disk"         the destination cannot be written
\* "socket"       the socket fails, e.g. the port is unreachable
AllFaults ==
    {"none", "identity", "preparation", "size", "reading", "altered", "disk", "socket"}

ASSUME ClientAssumption ==
    /\ Chunks \in Nat
    /\ Window \in Nat \ {0}
    /\ InactivityTimeout \in Nat \ {0}
    /\ Faults \subseteq AllFaults

VARIABLES
    \* downloadArchive and the functions it calls in turn.
    phase,          \* the exchange that is going on, or the outcome
    pc,             \* "begin" or "wait" (reading) in the exchange's loop
    nextWrite,      \* the chunk to write next
    nextRequest,    \* the chunk to request next
    buffered,       \* chunks received ahead of nextWrite
    written,        \* what the destination got
    idle,           \* ticks since activity.reset
    cancelled,      \* the context is done
    \* The network.
    toServer,       \* datagrams on their way to the server
    toClient,       \* datagrams on their way to the client
    \* The server.
    session,        \* the session of this download
    fault           \* what is wrong in this behaviour

clientVars == <<phase, pc, nextWrite, nextRequest, buffered, written, idle>>
vars == <<phase, pc, nextWrite, nextRequest, buffered, written, idle, cancelled,
          toServer, toClient, session, fault>>

Indexes == 0 .. Chunks - 1

Contents == {"right", "altered"}

Chunk == [index : Indexes, content : Contents]

Exchanges == {"handshake", "request", "chunks", "finish"}

Get(i) == [type |-> "Get", index |-> i]
Request(type) == [type |-> type]
Answer(type) == [type |-> type]
Data(i, content) == [type |-> "Data", index |-> i, content |-> content]

Requests == [type : {"ClientHello", "Request", "Done"}] \cup {Get(i) : i \in Indexes}
Answers == [type : {"ServerHello", "Meta", "Error", "Done"}]
           \cup {Data(i, c) : i \in Indexes, c \in Contents}

-----------------------------------------------------------------------------
(* The client. *)

Active == phase \in Exchanges

\* transferError: the context is done or the inactivity timer has run out.
TransferError == cancelled \/ idle = InactivityTimeout

\* An exchange gives up.  The completion is not needed for success: its error
\* is only logged.
Abandon == phase' = IF phase = "finish" THEN "success" ELSE "failure"

\* What an attempt sends; chunks are requested elsewhere.
Attempt == [handshake |-> {Request("ClientHello")},
            request   |-> {Request("Request")},
            chunks    |-> {},
            finish    |-> {Request("Done")}]

\* The head of a loop: give up, or send and wait until the attempt's deadline.
Begin ==
    /\ Active
    /\ pc = "begin"
    /\ \/ /\ TransferError
          /\ Abandon
          /\ UNCHANGED <<pc, toServer>>
       \/ /\ ~ TransferError
          /\ toServer' = toServer \cup Attempt[phase]
          /\ pc' = "wait"
          /\ UNCHANGED phase
    /\ UNCHANGED <<nextWrite, nextRequest, buffered, written, idle, cancelled,
                   toClient, session, fault>>

\* The completion's own context, of three retry intervals, is done.
CompletionExpires ==
    /\ phase = "finish"
    /\ pc = "begin"
    /\ Abandon
    /\ UNCHANGED <<pc, nextWrite, nextRequest, buffered, written, idle, cancelled,
                   toServer, toClient, session, fault>>

Received == {c.index : c \in buffered}

\* Mutant: the chunk to write next is not requested again.
MissingBehind == (nextWrite + 1 .. nextRequest - 1) \ Received

\* Mutant: the whole window is requested again.
MissingAll == nextWrite .. nextRequest - 1

\* The chunks of the window that did not arrive.
Missing == (nextWrite .. nextRequest - 1) \ Received

\* The read deadline has passed: the missing chunks of the window are
\* requested again; the other exchanges send at their loop's head.
ReadTimeout ==
    /\ Active
    /\ pc = "wait"
    /\ toServer' = IF phase = "chunks" THEN toServer \cup {Get(i) : i \in Missing}
                   ELSE toServer
    /\ pc' = "begin"
    /\ UNCHANGED <<phase, nextWrite, nextRequest, buffered, written, idle,
                   cancelled, toClient, session, fault>>

\* Reading or sending fails for another reason.
SocketFails ==
    /\ Active
    /\ fault = "socket"
    /\ Abandon
    /\ UNCHANGED <<pc, nextWrite, nextRequest, buffered, written, idle, cancelled,
                   toServer, toClient, session, fault>>

\* A datagram is read before the deadline, which is never after the inactivity
\* timer's.
Reads(answer) ==
    /\ Active
    /\ pc = "wait"
    /\ idle < InactivityTimeout
    /\ answer \in toClient
    /\ toClient' = toClient \ {answer}

\* Reading goes on: within the attempt, but the loop of the chunks starts anew
\* and with it the deadline.
ReadOn == pc' = IF phase = "chunks" THEN "begin" ELSE "wait"

NoProgress == UNCHANGED <<nextWrite, nextRequest, buffered, written, idle>>

\* handshake.Complete decides about the first ServerHello.
ReceiveServerHello ==
    /\ phase = "handshake"
    /\ Reads(Answer("ServerHello"))
    /\ IF fault = "identity"
       THEN phase' = "failure" /\ UNCHANGED <<pc, idle>>
       ELSE phase' = "request" /\ pc' = "begin" /\ idle' = 0
    /\ UNCHANGED <<nextWrite, nextRequest, buffered, written, cancelled, toServer,
                   session, fault>>

AtMost(a, b) == IF a < b THEN a ELSE b

WindowEnd(first) == AtMost(first + Window, Chunks)

\* Mutant: the window stays when the first chunks are written.
FillWindowOnce(first) ==
    /\ nextRequest' = AtMost(Window, Chunks)
    /\ toServer' = toServer \cup {Get(i) : i \in nextRequest .. AtMost(Window, Chunks) - 1}

\* fillWindow: the window begins at first; its chunks that were not requested
\* yet are requested.
FillWindow(first) ==
    /\ nextRequest' = WindowEnd(first)
    /\ toServer' = toServer \cup {Get(i) : i \in nextRequest .. WindowEnd(first) - 1}

\* The checksum of what was written is the announced one.
ChecksumMatches(chunks) == \A i \in DOMAIN chunks : chunks[i].content = "right"

\* Mutant: the checksum is not looked at.
AfterChunksUnchecked(chunks) ==
    phase' = IF Len(chunks) < Chunks THEN "chunks" ELSE "finish"

\* Chunks are received until the last one is written; then the size and the
\* checksum decide.
AfterChunks(chunks) ==
    phase' = IF Len(chunks) < Chunks THEN "chunks"
             ELSE IF ChecksumMatches(chunks) THEN "finish" ELSE "failure"

ReceiveMeta ==
    /\ phase = "request"
    /\ Reads(Answer("Meta"))
    /\ IF fault = "size"
       THEN phase' = "failure" /\ UNCHANGED <<pc, nextRequest, toServer>>
       ELSE AfterChunks(written) /\ FillWindow(0) /\ pc' = "begin"
    /\ idle' = 0
    /\ UNCHANGED <<nextWrite, buffered, written, cancelled, session, fault>>

\* An error of the server ends every exchange that opens sealed packets.
ReceiveError ==
    /\ phase \in {"request", "chunks", "finish"}
    /\ Reads(Answer("Error"))
    /\ Abandon
    /\ NoProgress
    /\ UNCHANGED <<pc, cancelled, toServer, session, fault>>

\* The first index of nextWrite .. Chunks that did not arrive.
FirstMissing(arrived) ==
    CHOOSE n \in nextWrite .. Chunks :
        /\ \A m \in nextWrite .. n - 1 : m \in arrived
        /\ n \notin arrived

\* The chunk is in the window and new.
Wanted(i) == nextWrite <= i /\ i < nextRequest /\ i \notin Received

\* The chunks before end are written, in order.
WriteUpTo(end, chunks) ==
    /\ nextWrite' = end
    /\ written' = written \o
          [k \in 1 .. end - nextWrite |->
              CHOOSE c \in chunks : c.index = nextWrite + k - 1]
    /\ buffered' = {c \in chunks : c.index >= end}

\* Mutant: a chunk is written when it arrives.
AcceptDataAtOnce(chunk) ==
    /\ nextWrite' = nextWrite + 1
    /\ written' = Append(written, chunk)
    /\ UNCHANGED buffered
    /\ FillWindow(nextWrite + 1)
    /\ AfterChunks(written')
    /\ pc' = "begin"

\* A wanted chunk is buffered, all chunks that are next are written, and the
\* window moves on; or writing fails on the way.
AcceptData(chunk) ==
    LET chunks == buffered \cup {chunk}
        end    == FirstMissing(Received \cup {chunk.index})
    IN  \/ /\ WriteUpTo(end, chunks)
           /\ FillWindow(end)
           /\ AfterChunks(written')
           /\ pc' = "begin"
        \/ /\ fault = "disk"
           /\ \E failed \in nextWrite .. end - 1 : WriteUpTo(failed, chunks)
           /\ phase' = "failure"
           /\ UNCHANGED <<pc, nextRequest, toServer>>

ReceiveData(chunk) ==
    /\ phase = "chunks"
    /\ Reads(Data(chunk.index, chunk.content))
    /\ IF Wanted(chunk.index)
       THEN AcceptData(chunk) /\ idle' = 0
       ELSE NoProgress /\ ReadOn /\ UNCHANGED <<phase, toServer>>
    /\ UNCHANGED <<cancelled, session, fault>>

ReceiveDone ==
    /\ phase = "finish"
    /\ Reads(Answer("Done"))
    /\ phase' = "success"
    /\ idle' = 0
    /\ UNCHANGED <<pc, nextWrite, nextRequest, buffered, written, cancelled,
                   toServer, session, fault>>

\* What an exchange answers to; other datagrams are read and dropped.
Expected == [handshake |-> {"ServerHello"},
             request   |-> {"Meta", "Error"},
             chunks    |-> {"Data", "Error"},
             finish    |-> {"Done", "Error"}]

ReceiveOther(answer) ==
    /\ Reads(answer)
    /\ answer.type \notin Expected[phase]
    /\ ReadOn
    /\ NoProgress
    /\ UNCHANGED <<phase, cancelled, toServer, session, fault>>

\* Mutant: every datagram restarts the inactivity timer.
IgnoreDatagramResets ==
    /\ phase = "chunks"
    /\ pc = "wait"
    /\ idle < InactivityTimeout
    /\ ReadOn
    /\ idle' = 0
    /\ UNCHANGED <<phase, nextWrite, nextRequest, buffered, written, cancelled,
                   toServer, toClient, session, fault>>

\* A datagram that Header or Open rejects starts the chunks' loop anew.
IgnoreDatagram ==
    /\ phase = "chunks"
    /\ pc = "wait"
    /\ idle < InactivityTimeout
    /\ ReadOn
    /\ NoProgress
    /\ UNCHANGED <<phase, cancelled, toServer, toClient, session, fault>>

Receive ==
    \/ ReceiveServerHello
    \/ ReceiveMeta
    \/ ReceiveError
    \/ \E chunk \in Chunk : ReceiveData(chunk)
    \/ ReceiveDone
    \/ \E answer \in Answers : ReceiveOther(answer)

\* Time passes.
Tick ==
    /\ Active
    /\ idle < InactivityTimeout
    /\ idle' = idle + 1
    /\ UNCHANGED <<phase, pc, nextWrite, nextRequest, buffered, written, cancelled,
                   toServer, toClient, session, fault>>

\* The caller gives up.
Cancel ==
    /\ Active
    /\ ~ cancelled
    /\ cancelled' = TRUE
    /\ UNCHANGED <<clientVars, toServer, toClient, session, fault>>

-----------------------------------------------------------------------------
(* The network and the server. *)

Lose ==
    /\ Active
    /\ \/ /\ \E r \in toServer : toServer' = toServer \ {r}
          /\ UNCHANGED toClient
       \/ /\ \E a \in toClient : toClient' = toClient \ {a}
          /\ UNCHANGED toServer
    /\ UNCHANGED <<clientVars, cancelled, session, fault>>

Handles(request) == request \in toServer /\ toServer' = toServer \ {request}

Replies(answers) == toClient' = toClient \cup answers

\* handleClientHello: the first hello makes the session, later ones get the
\* same answer.
HandleClientHello ==
    /\ Handles(Request("ClientHello"))
    /\ IF session \in {"closed", "expired"}
       THEN UNCHANGED <<session, toClient>>
       ELSE /\ session' = IF session = "none" THEN "accepted" ELSE session
            /\ Replies({Answer("ServerHello")})
    /\ UNCHANGED <<clientVars, cancelled, fault>>

\* handleRequest: the first request starts the preparation, later ones are
\* answered when it is over.
HandleRequest ==
    /\ Handles(Request("Request"))
    /\ \/ session = "accepted" /\ session' = "preparing" /\ UNCHANGED toClient
       \/ session = "published" /\ Replies({Answer("Meta")}) /\ UNCHANGED session
       \/ session \notin {"accepted", "published"} /\ UNCHANGED <<session, toClient>>
    /\ UNCHANGED <<clientVars, cancelled, fault>>

\* prepare: the metadata of the archive, or the error, are sent once.
Prepared ==
    /\ session = "preparing"
    /\ IF fault = "preparation"
       THEN session' = "closed" /\ Replies({Answer("Error")})
       ELSE session' = "published" /\ Replies({Answer("Meta")})
    /\ UNCHANGED <<clientVars, cancelled, toServer, fault>>

\* handleGet.
HandleGet(i) ==
    /\ Handles(Get(i))
    /\ \/ /\ session = "published"
          /\ \/ Replies({Data(i, "right")})
             \/ fault = "altered" /\ Replies({Data(i, "altered")})
             \/ fault = "reading" /\ Replies({Answer("Error")})
       \/ session # "published" /\ UNCHANGED toClient
    /\ UNCHANGED <<clientVars, cancelled, session, fault>>

\* handleDone.
HandleDone ==
    /\ Handles(Request("Done"))
    /\ IF session \in {"closed", "expired"}
       THEN UNCHANGED <<session, toClient>>
       ELSE session' = "closed" /\ Replies({Answer("Done")})
    /\ UNCHANGED <<clientVars, cancelled, fault>>

\* cleanupExpired, or a restart: the server forgets the session.
Expire ==
    /\ session \in {"accepted", "preparing", "published"}
    /\ session' = "expired"
    /\ UNCHANGED <<clientVars, cancelled, toServer, toClient, fault>>

Handle ==
    \/ HandleClientHello
    \/ HandleRequest
    \/ \E i \in Indexes : HandleGet(i)
    \/ HandleDone

Init ==
    /\ phase = "handshake"
    /\ pc = "begin"
    /\ nextWrite = 0
    /\ nextRequest = 0
    /\ buffered = {}
    /\ written = << >>
    /\ idle = 0
    /\ cancelled = FALSE
    /\ toServer = {}
    /\ toClient = {}
    /\ session = "none"
    /\ fault \in Faults

Client == Begin \/ CompletionExpires \/ ReadTimeout \/ SocketFails \/ Receive

Next ==
    \/ Client
    \/ IgnoreDatagram
    \/ Tick
    \/ Cancel
    \/ Lose
    \/ Handle
    \/ Prepared
    \/ Expire

Spec == Init /\ [][Next]_vars

\* The client's loops run and time passes; the network and the server owe
\* nothing.
ClientFairness ==
    /\ WF_vars(Begin)
    /\ WF_vars(Tick)
    /\ WF_vars(ReadTimeout)

FairSpec == Spec /\ ClientFairness

ReceiveOneOf(answers) == Receive /\ \E a \in toClient \ toClient' : a \in answers
HandleOneOf(requests) == Handle /\ \E r \in toServer \ toServer' : r \in requests

\* The network delivers what it does not lose, each chunk in its turn, the
\* server handles datagrams and prepares, and a retry interval passes in
\* silence now and then: every datagram of the server answers one of the
\* client's.
DeliveryFairness ==
    /\ WF_vars(Begin)
    /\ SF_vars(CompletionExpires)
    /\ SF_vars(ReadTimeout)
    /\ SF_vars(ReceiveOneOf({a \in Answers : a.type # "Data"}))
    /\ SF_vars(HandleOneOf({r \in Requests : r.type # "Get"}))
    /\ \A i \in Indexes : /\ SF_vars(ReceiveOneOf({Data(i, c) : c \in Contents}))
                          /\ SF_vars(HandleOneOf({Get(i)}))
    /\ WF_vars(Prepared)

DeliverySpec == Spec /\ DeliveryFairness

-----------------------------------------------------------------------------
TypeOK ==
    /\ phase \in Exchanges \cup {"success", "failure"}
    /\ pc \in {"begin", "wait"}
    /\ nextWrite \in 0 .. Chunks
    /\ nextRequest \in 0 .. Chunks
    /\ buffered \subseteq Chunk
    /\ written \in Seq(Chunk)
    /\ idle \in 0 .. InactivityTimeout
    /\ cancelled \in BOOLEAN
    /\ toServer \subseteq Requests
    /\ toClient \subseteq Answers
    /\ session \in {"none", "accepted", "preparing", "published", "closed", "expired"}
    /\ fault \in AllFaults

\* The destination gets every chunk once and in order, however chunks arrive:
\* what is written is exactly the chunks before nextWrite.
WrittenInOrder ==
    /\ Len(written) = nextWrite
    /\ \A i \in 1 .. Len(written) : written[i].index = i - 1

\* While chunks are received, the buffer holds chunks of the window only, each
\* once, never the one to write next; the window is full of requested chunks.
WindowWellFormed ==
    /\ TypeOK
    /\ phase = "chunks" =>
          /\ nextRequest = WindowEnd(nextWrite)
          /\ Received \subseteq nextWrite + 1 .. nextRequest - 1
          /\ \A c, d \in buffered : c.index = d.index => c = d

\* README.md: a retry asks only for the chunks of the window that are missing.
OnlyMissingRequested ==
    [][\A i \in Indexes :
          Get(i) \in toServer' \ toServer => i >= nextWrite /\ i \notin Received]_vars

\* Success is reported only for the whole archive with the announced checksum,
\* and the session is finished (its archive removed) only by a client that has
\* written and verified everything.
ReleasedWhenVerified ==
    phase \in {"finish", "success"} \/ Request("Done") \in toServer =>
        Len(written) = Chunks /\ ChecksumMatches(written)

\* The download implements what its caller is promised: the destination grows
\* as a beginning of the archive, except perhaps for content that the server
\* altered, success is reported for the whole archive only, and a call that
\* has returned changes nothing (refinement of FileTransfer).
Promise == INSTANCE FileTransfer WITH
    delivered <- written,
    outcome   <- IF Active THEN "running" ELSE phase

PromiseKept == Promise!Spec

\* Every download ends: the inactivity timer only restarts on progress, of
\* which there is a bounded amount, and datagrams without effect do not keep
\* the client waiting.
DownloadReturns == Promise!Returns

\* Against a healthy server, a download that is neither cancelled nor too slow
\* for the timers succeeds whichever datagrams are lost, if not for ever.
TransferSucceeds ==
    (/\ fault = "none"
     /\ [](~ cancelled /\ idle = 0 /\ session # "expired")
     /\ <>[][~ Lose]_vars)
    => <>(phase = "success")
=============================================================================
