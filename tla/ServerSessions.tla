--------------------------- MODULE ServerSessions ---------------------------
(***************************************************************************)
(* The session table of the server (internal/server/server.go), the Serve  *)
(* loop that handles one datagram at a time, and the goroutines that       *)
(* prepare archives beside it.                                             *)
(*                                                                         *)
(* A *session struct is a number of Objects, in the order in which         *)
(* handshakes are accepted; the table maps a request ID to an object or to *)
(* nil, so that a goroutine that still holds an object can find the ID     *)
(* mapped to another one.  A packet names the object whose keys sealed it: *)
(* only the session with these keys can open it.                           *)
(*                                                                         *)
(* Datagrams come in any order: late, repeated, from another address.  The *)
(* client's packets are not produced by a client here; every packet that a *)
(* client with the right keys could ever have sent may arrive at any time. *)
(* The window of chunks and its counters are in module SendWindow.         *)
(***************************************************************************)
EXTENDS Integers, FiniteSets

CONSTANTS Ids,          \* protocol.RequestID
          Keys,         \* ephemeral keys of a client, what tells hellos apart
          Addresses,    \* client addresses
          Paths,        \* directories that may be requested
          Noise,        \* kinds of other traffic, of {"Malformed", "Unexpected"}
          MaxSessions,  \* config.MaxSessions
          MaxAccepts,   \* bound: handshakes that are accepted in a behaviour
          SessionTTL    \* config.SessionTTL, in ticks of the cleanup period

ASSUME ServerAssumption ==
    /\ MaxSessions \in Nat \ {0}
    /\ MaxAccepts \in Nat
    /\ SessionTTL \in Nat \ {0}
    /\ Noise \subseteq {"Malformed", "Unexpected"}
    /\ Ids # {} /\ Keys # {} /\ Addresses # {}
    /\ "" \notin Paths

VARIABLES
    \* The Server and its sessions.
    sessions,       \* Server.sessions: the object of an ID, or nil
    accepts,        \* number of objects made so far
    clientHello,    \* the hello an object was made for (any, before)
    clientAddress,  \* the address it came from
    requestedPath,  \* the path requested, or "" before
    preparing,      \* session.preparing
    published,      \* session.file, filePath and meta are set
    idle,           \* ticks since session.lastAccess
    \* The goroutines that prepare archives, one per object at most.
    prepare,        \* where the goroutine of an object is
    \* The operating system.
    handle,         \* descriptor of the prepared archive
    disk,           \* the temporary file of an object
    \* The Serve loop.
    serve,          \* where the loop is
    datagram,       \* the datagram received, or NoDatagram
    sinceCleanup,   \* TRUE when lastCleanup is a second ago or more
    cancelled,      \* the context was cancelled
    \* What the environment sees.
    answer          \* the datagram sent by the last step, or NoAnswer

tableVars == <<sessions, accepts, clientHello, clientAddress>>
objectVars == <<requestedPath, preparing, published>>
osVars == <<handle, disk>>
loopVars == <<sinceCleanup, cancelled>>
vars == <<sessions, accepts, clientHello, clientAddress, requestedPath,
          preparing, published, idle, prepare, handle, disk, serve, datagram,
          sinceCleanup, cancelled, answer>>

Objects == 1 .. MaxAccepts
nil == 0

Hellos == [id : Ids, key : Keys]

Inner == [type : {"Request"}, path : Paths] \cup [type : {"Get", "Done"}]

\* What may be in the socket: noise, a hello of some client, or a packet
\* sealed with the keys of an object, perhaps from another address.
Datagrams ==
    [type : Noise]
    \cup [type : {"ClientHello"}, hello : Hellos, from : Addresses]
    \cup [type : {"Secure"}, keys : Objects, inner : Inner, from : Addresses]

NoDatagram == [type |-> "None"]

Answers == [type : {"ServerHello", "Meta", "Data", "Error", "Done"}, keys : Objects]
NoAnswer == [type |-> "None", keys |-> nil]
Answer(type, n) == answer' = [type |-> type, keys |-> n]
Silent == answer' = NoAnswer

IdOf(n) == clientHello[n].id

\* The table still maps the object's ID to this very object.
Listed(n) == n <= accepts /\ sessions[IdOf(n)] = n

ListedIds == {id \in Ids : sessions[id] # nil}

\* Mutant: off by one.
OverFull == Cardinality(ListedIds) > MaxSessions

Full == Cardinality(ListedIds) >= MaxSessions

\* The object a secure packet finds in the table, or nil.
Current == sessions[IdOf(datagram.keys)]

-----------------------------------------------------------------------------
(* Closing sessions: closeSession, cleanupExpired, closeSessions. *)

\* The sessions of the objects in closing leave the table.  A session that has
\* its archive closes and removes it; one that is still preparing leaves that
\* to its goroutine.
CloseAndDelete(closing) ==
    /\ sessions' = [id \in Ids |-> IF sessions[id] \in closing THEN nil
                                   ELSE sessions[id]]
    /\ handle' = [n \in Objects |-> IF n \in closing /\ published[n] THEN "closed"
                                    ELSE handle[n]]
    /\ disk' = [n \in Objects |-> IF n \in closing /\ published[n] THEN "absent"
                                  ELSE disk[n]]
    /\ UNCHANGED <<accepts, clientHello, clientAddress>>

ListedObjects == {n \in Objects : Listed(n)}

Expired == {n \in ListedObjects : idle[n] >= SessionTTL}

CleanupExpired == CloseAndDelete(Expired)

-----------------------------------------------------------------------------
(* Serve: reading. *)

\* A datagram reaches the socket.
Arrive(d) ==
    /\ serve = "read"
    /\ datagram = NoDatagram
    /\ d.type = "Secure" => d.keys <= accepts
    /\ datagram' = d
    /\ Silent
    /\ UNCHANGED <<tableVars, objectVars, osVars, loopVars, idle, prepare,
                   serve>>

\* Mutant: the sessions stay when Serve returns.
ReturnAtOnce ==
    /\ serve' = "stopped"
    /\ UNCHANGED <<tableVars, osVars>>

Return ==
    /\ CloseAndDelete(ListedObjects)
    /\ serve' = "stopped"

\* Mutant: the context is not looked at.
ReadTimeoutDeaf ==
    /\ serve = "read"
    /\ datagram = NoDatagram
    /\ CleanupExpired
    /\ Silent
    /\ UNCHANGED <<objectVars, loopVars, idle, prepare, serve, datagram>>

\* Nothing arrived before the read deadline.  Only here is the context looked
\* at; otherwise expired sessions are removed.
ReadTimeout ==
    /\ serve = "read"
    /\ datagram = NoDatagram
    /\ IF cancelled THEN Return ELSE CleanupExpired /\ UNCHANGED serve
    /\ Silent
    /\ UNCHANGED <<objectVars, loopVars, idle, prepare, datagram>>

\* The read fails for another reason: the connection was closed, or an error
\* that Serve returns.
ReadFails ==
    /\ serve = "read"
    /\ datagram = NoDatagram
    /\ Return
    /\ Silent
    /\ UNCHANGED <<objectVars, loopVars, idle, prepare, datagram>>

\* The datagram has no valid header: the loop continues at once and skips the
\* cleanup check.
IgnoreMalformed ==
    /\ serve = "read"
    /\ datagram.type = "Malformed"
    /\ datagram' = NoDatagram
    /\ Silent
    /\ UNCHANGED <<tableVars, objectVars, osVars, loopVars, idle, prepare,
                   serve>>

\* The handler of the datagram has returned.
Handled == serve' = "cleanup" /\ datagram' = NoDatagram

IgnoreUnexpected ==
    /\ serve = "read"
    /\ datagram.type = "Unexpected"
    /\ Handled
    /\ Silent
    /\ UNCHANGED <<tableVars, objectVars, osVars, loopVars, idle, prepare>>

\* Mutant: the period starts anew although nothing was cleaned up.
CleanupCheckIdle ==
    /\ serve = "cleanup"
    /\ sinceCleanup' = FALSE
    /\ serve' = "read"
    /\ Silent
    /\ UNCHANGED <<tableVars, objectVars, osVars, cancelled, idle, prepare,
                   datagram>>

\* After a datagram expired sessions are removed, at most once a second.
CleanupCheck ==
    /\ serve = "cleanup"
    /\ IF sinceCleanup
       THEN CleanupExpired /\ sinceCleanup' = FALSE
       ELSE UNCHANGED <<tableVars, osVars, sinceCleanup>>
    /\ serve' = "read"
    /\ Silent
    /\ UNCHANGED <<objectVars, cancelled, idle, prepare, datagram>>

-----------------------------------------------------------------------------
(* handleClientHello. *)

\* Under the lock: a repeated hello is answered with the same ServerHello, one
\* that collides with another session is dropped, and so is one that finds the
\* table full.  Otherwise the handshake is computed without the lock.
HelloLookup ==
    LET id == datagram.hello.id
        n  == sessions[id]
        Repeated == /\ clientAddress[n] = datagram.from
                    /\ clientHello[n] = datagram.hello
    IN  /\ serve = "read"
        /\ datagram.type = "ClientHello"
        /\ \/ n # nil /\ Repeated /\ Answer("ServerHello", n) /\ Handled
           \/ n # nil /\ ~ Repeated /\ Silent /\ Handled
           \/ n = nil /\ Full /\ Silent /\ Handled
           \/ n = nil /\ ~ Full /\ Silent /\ serve' = "accept" /\ UNCHANGED datagram
        /\ UNCHANGED <<tableVars, objectVars, osVars, loopVars, idle, prepare>>

\* The handshake is refused (wrong secret), or it succeeds and the new session
\* is entered under the lock, unless the table has changed for the worse.
HelloAccept ==
    LET id == datagram.hello.id
        n  == accepts + 1
    IN  /\ serve = "accept"
        /\ \/ /\ n <= MaxAccepts
              /\ sessions[id] = nil
              /\ ~ Full
              /\ sessions' = [sessions EXCEPT ![id] = n]
              /\ accepts' = n
              /\ clientHello' = [clientHello EXCEPT ![n] = datagram.hello]
              /\ clientAddress' = [clientAddress EXCEPT ![n] = datagram.from]
              /\ idle' = [idle EXCEPT ![n] = 0]
              /\ Answer("ServerHello", n)
           \/ UNCHANGED <<tableVars, idle>> /\ Silent
        /\ Handled
        /\ UNCHANGED <<objectVars, osVars, loopVars, prepare>>

-----------------------------------------------------------------------------
(* handleSecure and the handlers of inner packets. *)

Opens == /\ Current = datagram.keys
         /\ clientAddress[Current] = datagram.from

\* Under the lock: the packet must belong to the session of its ID, come from
\* the session's address and open with its keys; then the session is in use.
SecureOpen ==
    /\ serve = "read"
    /\ datagram.type = "Secure"
    /\ IF Opens
       THEN /\ idle' = [idle EXCEPT ![Current] = 0]
            /\ serve' = "dispatch"
            /\ UNCHANGED datagram
       ELSE Handled /\ UNCHANGED idle
    /\ Silent
    /\ UNCHANGED <<tableVars, objectVars, osVars, loopVars, prepare>>

\* The lock was free meanwhile: the session may be gone.
SessionGone ==
    /\ serve = "dispatch"
    /\ Current = nil
    /\ Handled
    /\ Silent
    /\ UNCHANGED <<tableVars, objectVars, osVars, loopVars, idle, prepare>>

Dispatch(type) ==
    /\ serve = "dispatch"
    /\ datagram.inner.type = type
    /\ Current # nil

\* Mutant: the path is not remembered.
HandleRequestForgets ==
    LET n == Current
    IN  /\ Dispatch("Request")
        /\ idle' = [idle EXCEPT ![n] = 0]
        /\ preparing' = [preparing EXCEPT ![n] = TRUE]
        /\ prepare' = [prepare EXCEPT ![n] = "create"]
        /\ Silent
        /\ Handled
        /\ UNCHANGED <<tableVars, osVars, loopVars, requestedPath, published>>

\* The first request starts a goroutine.  A repeated one is answered with the
\* metadata once they are there; another path is an error.
HandleRequest ==
    LET n == Current
        path == datagram.inner.path
    IN  /\ Dispatch("Request")
        /\ idle' = [idle EXCEPT ![n] = 0]
        /\ \/ /\ requestedPath[n] = ""
              /\ requestedPath' = [requestedPath EXCEPT ![n] = path]
              /\ preparing' = [preparing EXCEPT ![n] = TRUE]
              /\ prepare' = [prepare EXCEPT ![n] = "create"]
              /\ Silent
           \/ /\ requestedPath[n] \notin {"", path}
              /\ Answer("Error", n)
              /\ UNCHANGED <<requestedPath, preparing, prepare>>
           \/ /\ requestedPath[n] = path
              /\ IF ~ preparing[n] /\ published[n]
                 THEN Answer("Meta", n) ELSE Silent
              /\ UNCHANGED <<requestedPath, preparing, prepare>>
        /\ Handled
        /\ UNCHANGED <<tableVars, osVars, loopVars, published>>

\* A chunk of a published archive is read from the open file and sent; a chunk
\* that is refused (SendWindow says which) changes nothing.
HandleGet ==
    LET n == Current
    IN  /\ Dispatch("Get")
        /\ \/ /\ ~ preparing[n]
              /\ published[n]
              /\ idle' = [idle EXCEPT ![n] = 0]
              /\ \/ handle[n] = "open" /\ Answer("Data", n)
                 \/ Answer("Error", n)
           \/ UNCHANGED idle /\ Silent
        /\ Handled
        /\ UNCHANGED <<tableVars, objectVars, osVars, loopVars, prepare>>

\* Mutant: the session is closed and not removed from the table.
HandleDoneKeeps ==
    LET n == Current
    IN  /\ Dispatch("Done")
        /\ Answer("Done", n)
        /\ handle' = [handle EXCEPT ![n] = IF published[n] THEN "closed" ELSE @]
        /\ disk' = [disk EXCEPT ![n] = IF published[n] THEN "absent" ELSE @]
        /\ Handled
        /\ UNCHANGED <<tableVars, objectVars, loopVars, idle, prepare>>

\* The client has everything: the session is acknowledged, closed and removed.
HandleDone ==
    LET n == Current
    IN  /\ Dispatch("Done")
        /\ Answer("Done", n)
        /\ CloseAndDelete({n})
        /\ Handled
        /\ UNCHANGED <<objectVars, loopVars, idle, prepare>>

Serve ==
    \/ ReadTimeout
    \/ IgnoreMalformed
    \/ IgnoreUnexpected
    \/ HelloLookup
    \/ HelloAccept
    \/ SecureOpen
    \/ SessionGone
    \/ HandleRequest
    \/ HandleGet
    \/ HandleDone
    \/ CleanupCheck

-----------------------------------------------------------------------------
(* The goroutine that prepares the archive of object n. *)

Goto(n, place) == prepare' = [prepare EXCEPT ![n] = place]

\* os.CreateTemp makes an empty file, or fails.
CreateTemp(n) ==
    /\ prepare[n] = "create"
    /\ \/ Goto(n, "archive") /\ disk' = [disk EXCEPT ![n] = "empty"]
       \/ Goto(n, "fail") /\ UNCHANGED disk
    /\ Silent
    /\ UNCHANGED <<tableVars, objectVars, loopVars, handle, idle, serve, datagram>>

\* archive.Create fails before it opens its output, which stays as it is; or
\* while it writes it, and removes it; or the archive is written.
CreateArchive(n) ==
    /\ prepare[n] = "archive"
    /\ \/ Goto(n, "fail") /\ UNCHANGED disk
       \/ Goto(n, "fail") /\ disk' = [disk EXCEPT ![n] = "absent"]
       \/ Goto(n, "open") /\ disk' = [disk EXCEPT ![n] = "archive"]
    /\ Silent
    /\ UNCHANGED <<tableVars, objectVars, loopVars, handle, idle, serve, datagram>>

\* The archive is opened; one with too many chunks, or that cannot be opened,
\* is removed.
OpenArchive(n) ==
    /\ prepare[n] = "open"
    /\ \/ /\ Goto(n, "publish")
          /\ handle' = [handle EXCEPT ![n] = "open"]
          /\ UNCHANGED disk
       \/ /\ Goto(n, "fail")
          /\ disk' = [disk EXCEPT ![n] = "absent"]
          /\ UNCHANGED handle
    /\ Silent
    /\ UNCHANGED <<tableVars, objectVars, loopVars, idle, serve, datagram>>

\* Mutant: the ID is looked up, not the object.
StillMineById(n) == sessions[IdOf(n)] # nil

StillMine(n) == sessions[IdOf(n)] = n

\* Under the lock: the archive is handed to the session, if the table still has
\* it; otherwise it is closed and removed.
Publish(n) ==
    /\ prepare[n] = "publish"
    /\ IF StillMine(n)
       THEN /\ preparing' = [preparing EXCEPT ![n] = FALSE]
            /\ published' = [published EXCEPT ![n] = TRUE]
            /\ idle' = [idle EXCEPT ![n] = 0]
            /\ Goto(n, "meta")
            /\ UNCHANGED osVars
       ELSE /\ handle' = [handle EXCEPT ![n] = "closed"]
            /\ disk' = [disk EXCEPT ![n] = "absent"]
            /\ Goto(n, "done")
            /\ UNCHANGED <<preparing, published, idle>>
    /\ Silent
    /\ UNCHANGED <<tableVars, loopVars, requestedPath, serve, datagram>>

\* The lock is released: the session may be gone when its metadata are sent.
SendMeta(n) ==
    /\ prepare[n] = "meta"
    /\ Goto(n, "done")
    /\ Answer("Meta", n)
    /\ UNCHANGED <<tableVars, objectVars, osVars, loopVars, idle, serve, datagram>>

\* Mutant: the session of a failed preparation stays in the table.
FailPreparationKeeps(n) ==
    /\ prepare[n] = "fail"
    /\ Goto(n, "error")
    /\ Silent
    /\ UNCHANGED <<tableVars, objectVars, osVars, loopVars, idle, serve,
                   datagram>>

\* failPreparation, under the lock: the session is removed if it is still there.
FailPreparation(n) ==
    /\ prepare[n] = "fail"
    /\ sessions' = [sessions EXCEPT ![IdOf(n)] = IF @ = n THEN nil ELSE @]
    /\ Goto(n, "error")
    /\ Silent
    /\ UNCHANGED <<accepts, clientHello, clientAddress, objectVars, osVars,
                   loopVars, idle, serve, datagram>>

\* The error is sent once; nobody answers a later request of this session.
SendError(n) ==
    /\ prepare[n] = "error"
    /\ Goto(n, "done")
    /\ Answer("Error", n)
    /\ UNCHANGED <<tableVars, objectVars, osVars, loopVars, idle, serve, datagram>>

Prepare(n) ==
    /\ serve # "exited"
    /\ \/ CreateTemp(n)
       \/ CreateArchive(n)
       \/ OpenArchive(n)
       \/ Publish(n)
       \/ SendMeta(n)
       \/ FailPreparation(n)
       \/ SendError(n)

-----------------------------------------------------------------------------
(* Time and the process. *)

\* A cleanup period passes.
Tick ==
    /\ serve \notin {"stopped", "exited"}
    /\ idle' = [n \in Objects |-> IF Listed(n) /\ idle[n] < SessionTTL
                                  THEN idle[n] + 1 ELSE idle[n]]
    /\ sinceCleanup' = TRUE
    /\ Silent
    /\ UNCHANGED <<tableVars, objectVars, osVars, cancelled, prepare, serve,
                   datagram>>

\* SIGINT or SIGTERM.
Cancel ==
    /\ ~ cancelled
    /\ serve \notin {"stopped", "exited"}
    /\ cancelled' = TRUE
    /\ Silent
    /\ UNCHANGED <<tableVars, objectVars, osVars, sinceCleanup, idle, prepare,
                   serve, datagram>>

\* runServer returns after Serve: the process ends, whatever its goroutines do.
Exit ==
    /\ serve = "stopped"
    /\ serve' = "exited"
    /\ Silent
    /\ UNCHANGED <<tableVars, objectVars, osVars, loopVars, idle, prepare,
                   datagram>>

Init ==
    /\ sessions = [id \in Ids |-> nil]
    /\ accepts = 0
    /\ clientHello = [n \in Objects |-> CHOOSE h \in Hellos : TRUE]
    /\ clientAddress = [n \in Objects |-> CHOOSE a \in Addresses : TRUE]
    /\ requestedPath = [n \in Objects |-> ""]
    /\ preparing = [n \in Objects |-> FALSE]
    /\ published = [n \in Objects |-> FALSE]
    /\ idle = [n \in Objects |-> 0]
    /\ prepare = [n \in Objects |-> "none"]
    /\ handle = [n \in Objects |-> "none"]
    /\ disk = [n \in Objects |-> "absent"]
    /\ serve = "read"
    /\ datagram = NoDatagram
    /\ sinceCleanup = FALSE
    /\ cancelled = FALSE
    /\ answer = NoAnswer

Next ==
    \/ \E d \in Datagrams : Arrive(d)
    \/ Serve
    \/ ReadFails
    \/ \E n \in Objects : Prepare(n)
    \/ Tick
    \/ Cancel
    \/ Exit

\* The loop and the goroutines keep running and time passes; nothing obliges
\* the network to bring a datagram.
Fairness ==
    /\ WF_vars(Serve)
    /\ \A n \in Objects : WF_vars(Prepare(n))
    /\ WF_vars(Tick)

Spec == Init /\ [][Next]_vars

FairSpec == Spec /\ Fairness

-----------------------------------------------------------------------------
TypeOK ==
    /\ sessions \in [Ids -> Objects \cup {nil}]
    /\ accepts \in 0 .. MaxAccepts
    /\ clientHello \in [Objects -> Hellos]
    /\ clientAddress \in [Objects -> Addresses]
    /\ requestedPath \in [Objects -> Paths \cup {""}]
    /\ preparing \in [Objects -> BOOLEAN]
    /\ published \in [Objects -> BOOLEAN]
    /\ idle \in [Objects -> 0 .. SessionTTL]
    /\ prepare \in [Objects -> {"none", "create", "archive", "open", "publish",
                                "meta", "fail", "error", "done"}]
    /\ handle \in [Objects -> {"none", "open", "closed"}]
    /\ disk \in [Objects -> {"absent", "empty", "archive"}]
    /\ serve \in {"read", "accept", "dispatch", "cleanup", "stopped", "exited"}
    /\ datagram \in Datagrams \cup {NoDatagram}
    /\ sinceCleanup \in BOOLEAN
    /\ cancelled \in BOOLEAN
    /\ answer \in Answers \cup {NoAnswer}

\* The table never holds more sessions than configured, although it is checked
\* and filled in two steps and goroutines remove sessions between them.
TableBounded == Cardinality(ListedIds) <= MaxSessions

\* An entry of the table is the session of its own ID, and a session has a
\* preparation exactly when a path was requested.
Consistent ==
    /\ TypeOK
    /\ \A id \in Ids : sessions[id] # nil =>
          sessions[id] <= accepts /\ IdOf(sessions[id]) = id
    /\ \A n \in Objects : prepare[n] = "none" <=> requestedPath[n] = ""

\* No descriptor and no written archive leaks: each belongs to the goroutine
\* about to publish it or to a session in the table, also when the session
\* expired, was finished, or was replaced by a new one with the same ID meanwhile.
ArchivesOwned ==
    \A n \in Objects :
        LET served == Listed(n) /\ published[n]
        IN  /\ handle[n] = "open" => served \/ prepare[n] = "publish"
            /\ disk[n] = "archive" => served \/ prepare[n] \in {"open", "publish"}

\* A session that serves chunks serves them from its open, existing archive: no
\* cleanup closes a file that is still being read; metadata and chunks are sent
\* only by such a session.
PublishedIsReadable ==
    /\ \A n \in Objects : Listed(n) /\ published[n] =>
          handle[n] = "open" /\ disk[n] = "archive" /\ ~ preparing[n]
    /\ answer.type \in {"Meta", "Data"} => published[answer.keys]

\* A listed session that got its request has an archive or a goroutine that
\* still works on it: no session drops all requests of a client that keeps it
\* alive by asking.
NoDeadSession ==
    \A n \in Objects : Listed(n) /\ requestedPath[n] # "" =>
        published[n] \/ prepare[n] \in {"create", "archive", "open", "publish", "fail"}

\* After Serve has returned, also in the middle of transfers, no session is
\* left, and goroutines that finish later leave no archive and no descriptor.
StoppedIsClean ==
    serve \in {"stopped", "exited"} =>
        /\ ListedIds = {}
        /\ \A n \in Objects : prepare[n] \in {"none", "done"} =>
              handle[n] # "open" /\ disk[n] # "archive"

\* A session that nobody uses for SessionTTL is removed, whatever other valid
\* packets keep the loop busy.
ExpiredSessionsLeave ==
    \A n \in Objects : []<>(~ Listed(n) \/ idle[n] < SessionTTL)

\* Every preparation ends: the session gets an archive or disappears.
PreparationSettles ==
    \A n \in Objects :
        Listed(n) /\ preparing[n] ~> ~ (Listed(n) /\ preparing[n])

\* A cancelled server stops once no more datagrams come.
StopsWhenQuiet ==
    <>[](datagram = NoDatagram) => (cancelled ~> serve \in {"stopped", "exited"})

\* A claim of the documentation that the code does not keep.

\* README.md: the temporary archive is removed on completion, or at the latest
\* when the session expires; no temporary file outlives session and goroutine.
TemporaryFilesOwned ==
    \A n \in Objects : disk[n] # "absent" =>
        prepare[n] \notin {"none", "done"} \/ (Listed(n) /\ published[n])
=============================================================================
