------------------------ MODULE ServerSessionsProofs ------------------------
(***************************************************************************)
(* The session table of the server keeps its safety properties for any     *)
(* number of request IDs, clients, paths, sessions and handshakes.         *)
(***************************************************************************)
EXTENDS ServerSessions, FiniteSetTheorems, TLAPS

\* An entry of the table is the session of its own ID.
OwnIds ==
    \A id \in Ids : sessions[id] # nil =>
        sessions[id] <= accepts /\ IdOf(sessions[id]) = id

\* The table is within its bound.
Bounded == IsFiniteSet(ListedIds) /\ TableBounded

\* Where the Serve loop is: what it decided to handle is still there, and the
\* session that a packet has opened is in the table or gone, but not replaced,
\* since only this loop fills the table.
Handling ==
    /\ serve = "accept" => datagram.type = "ClientHello"
    /\ datagram.type = "Secure" => datagram.keys <= accepts
    /\ serve = "dispatch" =>
          datagram.type = "Secure" /\ Current \in {nil, datagram.keys}
    /\ serve \in {"stopped", "exited"} => ListedIds = {}

\* What belongs to an object at each place of its goroutine.  A published
\* archive is the session's, and is closed and removed with it; one that is not
\* is the goroutine's, which gives up only an object that is not in the table.
Owned(n) ==
    /\ n > accepts => prepare[n] = "none"
    /\ prepare[n] = "none" <=> requestedPath[n] = ""
    /\ preparing[n] <=> prepare[n] # "none" /\ ~ published[n]
    /\ published[n] =>
          /\ prepare[n] \in {"meta", "done"}
          /\ handle[n] = IF Listed(n) THEN "open" ELSE "closed"
          /\ disk[n] = IF Listed(n) THEN "archive" ELSE "absent"
    /\ ~ published[n] =>
          /\ prepare[n] # "meta"
          /\ handle[n] = "open" <=> prepare[n] = "publish"
          /\ disk[n] = "archive" <=> prepare[n] \in {"open", "publish"}
          /\ prepare[n] \in {"error", "done"} => ~ Listed(n)

\* Metadata and chunks are of a published archive.
Answered == answer.type \in {"Meta", "Data"} => published[answer.keys]

Table == OwnIds /\ Bounded
Goroutines == \A n \in Objects : Owned(n)

IInv == TypeOK /\ Table /\ Handling /\ Goroutines /\ Answered

-----------------------------------------------------------------------------
\* The constants, apart.
LEMMA Constants ==
    /\ MaxSessions \in Nat /\ MaxSessions >= 1
    /\ MaxAccepts \in Nat
    /\ SessionTTL \in Nat /\ SessionTTL >= 1
    /\ "ClientHello" \notin Noise /\ "Secure" \notin Noise
<1>1. MaxSessions \in Nat \ {0} /\ MaxAccepts \in Nat /\ SessionTTL \in Nat \ {0}
  BY ServerAssumption
<1>2. "ClientHello" \notin Noise /\ "Secure" \notin Noise
  BY ServerAssumption
<1>3. QED
  BY <1>1, <1>2

\* What kind of datagram has which fields.
LEMMA DatagramFields ==
    ASSUME NEW d \in Datagrams \cup {NoDatagram}
    PROVE  /\ d.type = "ClientHello" => d.hello \in Hellos /\ d.from \in Addresses
           /\ d.type = "Secure" => d.keys \in Objects
           /\ d.type = "Secure" /\ d.inner.type = "Request" => d.inner.path \in Paths
<1>1. CASE d.type = "ClientHello"
  BY <1>1, Constants DEF Datagrams, NoDatagram
<1>2. CASE d.type = "Secure"
  <2>1. d \in [type : {"Secure"}, keys : Objects, inner : Inner, from : Addresses]
    BY <1>2, Constants DEF Datagrams, NoDatagram
  <2>2. d.inner.type = "Request" => d.inner.path \in Paths
    BY <2>1 DEF Inner
  <2>3. QED
    BY <1>2, <2>1, <2>2
<1>3. QED
  BY <1>1, <1>2

\* No datagram and no answer are none of these.
LEMMA Nothing ==
    /\ NoDatagram.type \notin {"ClientHello", "Secure"}
    /\ NoAnswer.type \notin {"Meta", "Data"}
  BY DEF NoDatagram, NoAnswer

\* What an object keeps and what its goroutine has, apart from the rest.
ObjectsTyped ==
    /\ preparing \in [Objects -> BOOLEAN]
    /\ published \in [Objects -> BOOLEAN]
    /\ prepare \in [Objects -> {"none", "create", "archive", "open", "publish",
                                "meta", "fail", "error", "done"}]
    /\ handle \in [Objects -> {"none", "open", "closed"}]
    /\ disk \in [Objects -> {"absent", "empty", "archive"}]

LEMMA Objectwise ==
    ASSUME TypeOK
    PROVE  ObjectsTyped
  BY DEF TypeOK, ObjectsTyped

\* A session that is used is not idle.
LEMMA IdleTyped ==
    ASSUME TypeOK, NEW n \in Objects, idle' = [idle EXCEPT ![n] = 0]
    PROVE  idle' \in [Objects -> 0 .. SessionTTL]
<1>1. 0 \in 0 .. SessionTTL
  BY Constants
<1>2. idle \in [Objects -> 0 .. SessionTTL]
  BY DEF TypeOK
<1>3. QED
  BY <1>1, <1>2

\* An answer names an object.
LEMMA AnswersTyped ==
    ASSUME NEW n \in Objects,
           NEW type \in {"ServerHello", "Meta", "Data", "Error", "Done"}
    PROVE  [type |-> type, keys |-> n] \in Answers
  BY DEF Answers

\* An object has an ID; nil is no object.
LEMMA ObjectIds ==
    ASSUME TypeOK, NEW n \in Objects
    PROVE  IdOf(n) \in Ids /\ n # nil /\ n \in Nat
<1>1. n \in Nat /\ n # 0
  BY Constants DEF Objects
<1>2. clientHello[n] \in Hellos
  BY DEF TypeOK
<1>3. QED
  BY <1>1, <1>2 DEF Hellos, IdOf, nil

LEMMA AcceptsTyped ==
    ASSUME TypeOK
    PROVE  accepts \in Nat
<1>1. accepts \in 0 .. MaxAccepts
  BY DEF TypeOK
<1>2. QED
  BY <1>1, Constants

\* An entry of the table is a listed object, with the ID of the entry.
LEMMA EntriesListed ==
    ASSUME TypeOK, OwnIds, NEW id \in Ids, sessions[id] # nil
    PROVE  sessions[id] \in ListedObjects /\ IdOf(sessions[id]) = id
  BY DEF TypeOK, OwnIds, ListedObjects, Listed

\* A smaller table is within the bound too.
LEMMA FewerBounded ==
    ASSUME Bounded, ListedIds' \subseteq ListedIds
    PROVE  Bounded'
<1>1. IsFiniteSet(ListedIds') /\ Cardinality(ListedIds') <= Cardinality(ListedIds)
  BY FS_Subset DEF Bounded
<1>2. Cardinality(ListedIds) \in Nat /\ Cardinality(ListedIds') \in Nat
  BY <1>1, FS_CardinalityType DEF Bounded
<1>3. QED
  BY <1>1, <1>2, Constants DEF Bounded, TableBounded

\* Sessions that leave the table: it stays in order, and the others stay.
LEMMA CloseTable ==
    ASSUME TypeOK, Table, NEW closing \in SUBSET ListedObjects,
           CloseAndDelete(closing)
    PROVE  /\ sessions' \in [Ids -> Objects \cup {nil}]
           /\ handle' \in [Objects -> {"none", "open", "closed"}]
           /\ disk' \in [Objects -> {"absent", "empty", "archive"}]
           /\ Table'
           /\ \A id \in Ids : sessions'[id] \in {sessions[id], nil}
           /\ \A n \in Objects : Listed(n)' <=> Listed(n) /\ n \notin closing
           /\ closing = ListedObjects => ListedIds' = {}
<1> USE DEF Table, CloseAndDelete
<1>1. /\ sessions' \in [Ids -> Objects \cup {nil}]
      /\ \A id \in Ids : sessions'[id] = IF sessions[id] \in closing THEN nil ELSE sessions[id]
  BY DEF TypeOK
<1>2. handle' \in [Objects -> {"none", "open", "closed"}]
      /\ disk' \in [Objects -> {"absent", "empty", "archive"}]
  BY DEF TypeOK
<1>3. OwnIds'
  BY <1>1 DEF OwnIds, IdOf
<1>4. ListedIds' \subseteq ListedIds
  BY <1>1 DEF ListedIds
<1>5. Bounded'
  BY <1>4, FewerBounded
<1>6. ASSUME NEW n \in Objects
      PROVE  Listed(n)' <=> Listed(n) /\ n \notin closing
  <2>1. IdOf(n) \in Ids /\ n # nil /\ IdOf(n)' = IdOf(n) /\ accepts' = accepts
    BY ObjectIds DEF IdOf
  <2>2. QED
    BY <1>1, <2>1 DEF Listed
<1>7. ASSUME closing = ListedObjects
      PROVE  ListedIds' = {}
  BY <1>1, <1>7, EntriesListed DEF ListedIds
<1>8. QED
  BY <1>1, <1>2, <1>3, <1>5, <1>6, <1>7

\* A session that is closed leaves its archive to its goroutine, or takes it
\* with it.
LEMMA CloseOwned ==
    ASSUME IInv, NEW closing \in SUBSET ListedObjects, CloseAndDelete(closing),
           UNCHANGED <<objectVars, prepare>>
    PROVE  Goroutines'
<1> SUFFICES ASSUME NEW n \in Objects
             PROVE  Owned(n)'
  BY DEF Goroutines
<1> USE DEF IInv, objectVars
<1>1. Listed(n)' <=> Listed(n) /\ n \notin closing
  BY CloseTable
<1>2. n \in closing => Listed(n)
  BY DEF ListedObjects
<1>3. /\ handle'[n] = IF n \in closing /\ published[n] THEN "closed" ELSE handle[n]
      /\ disk'[n] = IF n \in closing /\ published[n] THEN "absent" ELSE disk[n]
      /\ accepts' = accepts
  BY DEF CloseAndDelete
<1>4. Owned(n)
  BY DEF Goroutines
<1>5. QED
  BY <1>1, <1>2, <1>3, <1>4 DEF Owned

\* The bound holds when a session is entered, which was checked under the same
\* lock.
LEMMA EnterBounded ==
    ASSUME TypeOK, Table, ~ Full, NEW id \in Ids, NEW n,
           sessions' = [sessions EXCEPT ![id] = n]
    PROVE  Bounded'
<1>1. ListedIds' \subseteq ListedIds \cup {id}
  BY DEF ListedIds, TypeOK
<1>2. /\ IsFiniteSet(ListedIds \cup {id})
      /\ Cardinality(ListedIds \cup {id}) <= Cardinality(ListedIds) + 1
      /\ Cardinality(ListedIds) \in Nat
  BY FS_AddElement, FS_CardinalityType DEF Table, Bounded
<1>3. /\ IsFiniteSet(ListedIds')
      /\ Cardinality(ListedIds') <= Cardinality(ListedIds \cup {id})
  BY <1>1, <1>2, FS_Subset
<1>4. Cardinality(ListedIds') \in Nat /\ Cardinality(ListedIds \cup {id}) \in Nat
  BY <1>2, <1>3, FS_CardinalityType
<1>5. Cardinality(ListedIds) < MaxSessions
  BY <1>2, Constants DEF Full
<1>6. QED
  BY <1>2, <1>3, <1>4, <1>5, Constants DEF Bounded, TableBounded

-----------------------------------------------------------------------------
\* Nothing has happened yet.
LEMMA InitIInv == Init => IInv
<1> SUFFICES ASSUME Init
             PROVE  IInv
  OBVIOUS
<1>1. 0 \in 0 .. MaxAccepts /\ 0 \in 0 .. SessionTTL
  BY Constants
<1> USE DEF Init
<1>2. /\ clientHello \in [Objects -> Hellos]
      /\ clientAddress \in [Objects -> Addresses]
  <2>1. PICK id \in Ids, key \in Keys, address \in Addresses : TRUE
    BY ServerAssumption
  <2>2. [id |-> id, key |-> key] \in Hellos
    BY DEF Hellos
  <2>3. (CHOOSE h \in Hellos : TRUE) \in Hellos /\ (CHOOSE a \in Addresses : TRUE) \in Addresses
    BY <2>1, <2>2
  <2>4. QED
    BY <2>3
<1>3. TypeOK
  BY <1>1, <1>2 DEF TypeOK
<1>4. ListedIds = {}
  BY DEF ListedIds
<1>5. OwnIds
  BY DEF OwnIds
<1>6. Bounded
  <2> HIDE DEF Init
  <2>1. QED
    BY <1>4, FS_EmptySet, Constants DEF Bounded, TableBounded
<1>7. Handling /\ Answered
  BY DEF Handling, Answered, NoDatagram, NoAnswer
<1>8. Goroutines
  BY DEF Goroutines, Owned
<1>9. QED
  BY <1>3, <1>5, <1>6, <1>7, <1>8 DEF IInv, Table

-----------------------------------------------------------------------------
\* A step that touches neither the table nor an object.
LEMMA SameSessions ==
    ASSUME IInv, UNCHANGED <<tableVars, objectVars, osVars, prepare>>
    PROVE  Table' /\ Goroutines' /\ ListedIds' = ListedIds
<1> USE DEF IInv, tableVars, objectVars, osVars
<1>1. ListedIds' = ListedIds
  BY DEF ListedIds
<1>2. Table'
  BY <1>1 DEF Table, OwnIds, Bounded, TableBounded, IdOf
<1>3. Goroutines'
  BY DEF Goroutines, Owned, Listed, IdOf
<1>4. QED
  BY <1>1, <1>2, <1>3

\* The Serve loop, where it leaves the sessions alone.
LEMMA LoopIInv ==
    ASSUME IInv,
           \/ \E d \in Datagrams : Arrive(d)
           \/ IgnoreMalformed \/ IgnoreUnexpected
           \/ HelloLookup \/ SecureOpen \/ SessionGone
           \/ HandleGet \/ Tick \/ Cancel \/ Exit
    PROVE  IInv'
<1> USE Nothing, Constants DEF IInv, tableVars, objectVars, osVars, loopVars, Handled
<1>1. UNCHANGED <<tableVars, objectVars, osVars, prepare>>
  BY DEF Arrive, IgnoreMalformed, IgnoreUnexpected, HelloLookup, SecureOpen, SessionGone,
         HandleGet, Tick, Cancel, Exit
<1>2. Table' /\ Goroutines' /\ ListedIds' = ListedIds
  BY <1>1, SameSessions
<1>3. ASSUME NEW d \in Datagrams, Arrive(d)
      PROVE  TypeOK' /\ Handling' /\ Answered'
  BY <1>2, <1>3 DEF Arrive, TypeOK, Handling, Answered, Silent
<1>4. CASE IgnoreMalformed \/ IgnoreUnexpected \/ SessionGone
  <2>1. /\ datagram' = NoDatagram /\ serve' \in {"read", "cleanup"}
        /\ answer' = NoAnswer /\ UNCHANGED <<idle, loopVars>>
    BY <1>4 DEF IgnoreMalformed, IgnoreUnexpected, SessionGone, Silent
  <2>2. QED
    BY <1>1, <1>2, <2>1 DEF TypeOK, Handling, Answered
<1>5. CASE HelloLookup
  <2> DEFINE n == sessions[datagram.hello.id]
  <2>1. n \in Objects \cup {nil}
    BY <1>5, DatagramFields DEF HelloLookup, TypeOK, Hellos
  <2>2. answer' \in Answers \cup {NoAnswer} /\ answer'.type \notin {"Meta", "Data"}
    <3>1. CASE answer' = NoAnswer
      BY <3>1
    <3>2. CASE n # nil /\ answer' = [type |-> "ServerHello", keys |-> n]
      BY <2>1, <3>2, AnswersTyped
    <3>3. QED
      BY <1>5, <3>1, <3>2 DEF HelloLookup, Silent, Answer
  <2>3. serve' \in {"cleanup", "accept"} /\ datagram' \in {datagram, NoDatagram}
        /\ (serve' = "accept" => datagram' = datagram /\ datagram.type = "ClientHello")
    BY <1>5 DEF HelloLookup
  <2>4. TypeOK'
    BY <1>5, <2>2, <2>3 DEF HelloLookup, TypeOK
  <2>5. QED
    BY <1>1, <1>2, <2>2, <2>3, <2>4 DEF Handling, Answered
<1>6. CASE SecureOpen
  <2>1. datagram.keys \in Objects
    BY <1>6, DatagramFields DEF SecureOpen, TypeOK
  <2>2. TypeOK'
    <3>0. idle' = idle \/ idle' = [idle EXCEPT ![datagram.keys] = 0]
      BY <1>6 DEF SecureOpen, Opens
    <3>1. idle' \in [Objects -> 0 .. SessionTTL]
      BY <2>1, <3>0, IdleTyped DEF TypeOK
    <3>2. QED
      BY <1>1, <1>6, <3>1 DEF SecureOpen, TypeOK, Silent
  <2>3. Handling'
    BY <1>1, <1>2, <1>6 DEF SecureOpen, Opens, Handling, Current, IdOf
  <2>4. QED
    BY <1>2, <1>6, <2>2, <2>3 DEF SecureOpen, Answered, Silent
<1>7. CASE HandleGet
  <2>1. datagram.keys \in Objects /\ Current = datagram.keys
    BY <1>7, DatagramFields DEF HandleGet, Dispatch, TypeOK, Handling
  <2>2. TypeOK'
    <3>0. idle' = idle \/ idle' = [idle EXCEPT ![datagram.keys] = 0]
      BY <1>7, <2>1 DEF HandleGet
    <3>1. idle' \in [Objects -> 0 .. SessionTTL]
      BY <2>1, <3>0, IdleTyped DEF TypeOK
    <3>2. answer' \in Answers \cup {NoAnswer}
      BY <1>7, <2>1, AnswersTyped DEF HandleGet, Silent, Answer
    <3>3. QED
      BY <1>1, <1>7, <3>1, <3>2 DEF HandleGet, TypeOK
  <2>3. Handling'
    BY <1>2, <1>7 DEF HandleGet, Handling
  <2>4. Answered'
    BY <1>7 DEF HandleGet, Answered, Silent, Answer
  <2>5. QED
    BY <1>2, <2>2, <2>3, <2>4
<1>8. CASE Tick
  <2>1. idle' \in [Objects -> 0 .. SessionTTL]
    <3> SUFFICES ASSUME NEW n \in Objects
                 PROVE  idle'[n] \in 0 .. SessionTTL
      BY <1>8 DEF Tick
    <3>1. idle[n] \in 0 .. SessionTTL
      BY DEF TypeOK
    <3>2. \/ idle'[n] = idle[n] + 1 /\ idle[n] < SessionTTL
          \/ idle'[n] = idle[n]
      BY <1>8 DEF Tick
    <3>3. QED
      BY <3>1, <3>2
  <2>2. TypeOK'
    BY <1>8, <2>1 DEF Tick, TypeOK, Silent
  <2>3. QED
    BY <1>1, <1>2, <1>8, <2>2 DEF Tick, Handling, Current, IdOf, Answered, Silent
<1>9. CASE Cancel \/ Exit
  <2>1. /\ UNCHANGED <<datagram, idle>> /\ answer' = NoAnswer
        /\ cancelled' \in BOOLEAN /\ sinceCleanup' \in BOOLEAN
        /\ serve' = serve \/ (serve = "stopped" /\ serve' = "exited")
    BY <1>9 DEF Cancel, Exit, TypeOK, Silent
  <2>2. QED
    BY <1>1, <1>2, <2>1 DEF TypeOK, Handling, Current, IdOf, Answered
<1>10. QED
  BY <1>2, <1>3, <1>4, <1>5, <1>6, <1>7, <1>8, <1>9

\* The session of a packet that is dispatched is the object with its keys.
LEMMA Dispatched ==
    ASSUME TypeOK, OwnIds, Handling, NEW type, Dispatch(type)
    PROVE  /\ Current = datagram.keys /\ datagram.keys \in ListedObjects
           /\ datagram.type = "Secure"
<1>1. datagram.type = "Secure" /\ datagram.keys \in Objects /\ Current = datagram.keys
  BY DatagramFields DEF Dispatch, Handling, TypeOK
<1>2. IdOf(datagram.keys) \in Ids /\ sessions[IdOf(datagram.keys)] # nil
  BY <1>1, ObjectIds DEF Current, Dispatch
<1>3. datagram.keys <= accepts
  BY <1>1 DEF Handling
<1>4. QED
  BY <1>1, <1>3 DEF ListedObjects, Listed, Current

\* Sessions are closed by the Serve loop: expired ones after a read timeout or
\* at the cleanup check, a finished one at once, all of them when Serve returns.
LEMMA ClosingIInv ==
    ASSUME IInv, ReadTimeout \/ ReadFails \/ CleanupCheck \/ HandleDone
    PROVE  IInv'
<1> USE Nothing DEF IInv, objectVars, loopVars
<1>1. ASSUME NEW closing \in SUBSET ListedObjects, CloseAndDelete(closing),
             UNCHANGED <<objectVars, prepare, idle>>,
             cancelled' \in BOOLEAN, sinceCleanup' \in BOOLEAN,
             datagram' \in {datagram, NoDatagram}, answer' \in Answers \cup {NoAnswer},
             answer'.type \notin {"Meta", "Data"},
             serve' \in {"read", "cleanup", "stopped"},
             serve' = "stopped" => closing = ListedObjects
      PROVE  IInv'
  <2>1. /\ sessions' \in [Ids -> Objects \cup {nil}]
        /\ handle' \in [Objects -> {"none", "open", "closed"}]
        /\ disk' \in [Objects -> {"absent", "empty", "archive"}]
        /\ Table'
        /\ closing = ListedObjects => ListedIds' = {}
    BY <1>1, CloseTable
  <2>2. UNCHANGED <<accepts, clientHello, clientAddress>>
    BY <1>1 DEF CloseAndDelete
  <2>3. TypeOK'
    BY <1>1, <2>1, <2>2 DEF TypeOK
  <2>4. Goroutines'
    BY <1>1, CloseOwned
  <2>5. Handling' /\ Answered'
    BY <1>1, <2>1, <2>2 DEF Handling, Answered
  <2>6. QED
    BY <2>1, <2>3, <2>4, <2>5
<1>2. Expired \in SUBSET ListedObjects
  BY DEF Expired
<1>3. CASE ReadTimeout
  <2>1. CASE cancelled
    BY <1>1, <1>3, <2>1 DEF ReadTimeout, Return, Silent, TypeOK
  <2>2. CASE ~ cancelled
    <3>1. CloseAndDelete(Expired) /\ serve' = "read"
      BY <1>3, <2>2 DEF ReadTimeout, CleanupExpired
    <3>2. QED
      BY <1>1, <1>2, <1>3, <3>1 DEF ReadTimeout, Silent, TypeOK
  <2>3. QED
    BY <2>1, <2>2
<1>4. CASE ReadFails
  BY <1>1, <1>4 DEF ReadFails, Return, Silent, TypeOK
<1>5. CASE CleanupCheck
  <2>1. CASE sinceCleanup
    <3>1. CloseAndDelete(Expired) /\ sinceCleanup' = FALSE
      BY <1>5, <2>1 DEF CleanupCheck, CleanupExpired
    <3>2. QED
      BY <1>1, <1>2, <1>5, <3>1 DEF CleanupCheck, Silent, TypeOK
  <2>2. CASE ~ sinceCleanup
    <3>1. /\ UNCHANGED <<tableVars, objectVars, osVars, prepare, idle, loopVars, datagram>>
          /\ serve' = "read" /\ answer' = NoAnswer
      BY <1>5, <2>2 DEF CleanupCheck, Silent
    <3>2. Table' /\ Goroutines'
      BY <3>1, SameSessions
    <3>3. TypeOK' /\ Handling' /\ Answered'
      BY <3>1 DEF TypeOK, Handling, Answered, tableVars, osVars
    <3>4. QED
      BY <3>2, <3>3
  <2>3. QED
    BY <2>1, <2>2
<1>6. CASE HandleDone
  <2>1. /\ Current = datagram.keys /\ datagram.keys \in ListedObjects
        /\ datagram.keys \in Objects
    BY <1>6, Dispatched DEF HandleDone, Table, ListedObjects
  <2>2. answer' \in Answers /\ answer'.type = "Done"
    BY <1>6, <2>1, AnswersTyped DEF HandleDone, Answer
  <2>3. CloseAndDelete({datagram.keys}) /\ serve' = "cleanup" /\ datagram' = NoDatagram
    BY <1>6, <2>1 DEF HandleDone, Handled
  <2>4. QED
    BY <1>1, <1>6, <2>1, <2>2, <2>3 DEF HandleDone, TypeOK
<1>7. QED
  BY <1>3, <1>4, <1>5, <1>6

\* A session is entered: its object is new, so that nothing belongs to it.
LEMMA AcceptIInv ==
    ASSUME IInv, HelloAccept
    PROVE  IInv'
<1> USE Nothing DEF IInv, objectVars, osVars, loopVars, tableVars
<1> DEFINE id == datagram.hello.id
           n == accepts + 1
<1>1. id \in Ids /\ datagram.hello \in Hellos /\ datagram.from \in Addresses
      /\ datagram.hello.id = id
  BY DatagramFields DEF HelloAccept, Handling, TypeOK, Hellos
<1>2. CASE UNCHANGED <<tableVars, idle>> /\ Silent
  <2>1. Table' /\ Goroutines'
    BY <1>2, SameSessions DEF HelloAccept
  <2>2. TypeOK' /\ Handling' /\ Answered'
    BY <1>2 DEF HelloAccept, Handled, Silent, TypeOK, Handling, Answered
  <2>3. QED
    BY <2>1, <2>2
<1>3. CASE /\ n <= MaxAccepts
           /\ sessions[id] = nil
           /\ ~ Full
           /\ sessions' = [sessions EXCEPT ![id] = n]
           /\ accepts' = n
           /\ clientHello' = [clientHello EXCEPT ![n] = datagram.hello]
           /\ clientAddress' = [clientAddress EXCEPT ![n] = datagram.from]
           /\ idle' = [idle EXCEPT ![n] = 0]
           /\ Answer("ServerHello", n)
  <2>1. accepts \in Nat /\ n \in Objects /\ n \in Nat /\ n # nil
    <3>1. accepts \in 0 .. MaxAccepts
      BY DEF TypeOK
    <3>2. QED
      BY <1>3, <3>1, Constants DEF Objects, nil
  <2>2. n \in 0 .. MaxAccepts
    BY <1>3, <2>1, Constants
  <2>3. answer' \in Answers /\ answer'.type = "ServerHello"
    BY <1>3, <2>1, AnswersTyped DEF Answer
  <2> HIDE DEF n
  <2>4. UNCHANGED <<objectVars, osVars, prepare>> /\ serve' = "cleanup" /\ datagram' = NoDatagram
    BY DEF HelloAccept, Handled
  <2>5. TypeOK'
    <3>1. sessions' \in [Ids -> Objects \cup {nil}]
      BY <1>1, <1>3, <2>1 DEF TypeOK
    <3>2. clientHello' \in [Objects -> Hellos] /\ clientAddress' \in [Objects -> Addresses]
      BY <1>1, <1>3, <2>1 DEF TypeOK
    <3>3. idle' \in [Objects -> 0 .. SessionTTL]
      BY <1>3, <2>1, IdleTyped
    <3>4. QED
      BY <1>3, <2>2, <2>3, <2>4, <3>1, <3>2, <3>3 DEF TypeOK, HelloAccept
  <2>6. \A k \in Objects : k <= accepts => IdOf(k)' = IdOf(k) /\ k # n
    <3> SUFFICES ASSUME NEW k \in Objects, k <= accepts
                 PROVE  IdOf(k)' = IdOf(k) /\ k # n
      OBVIOUS
    <3>1. k \in Nat /\ k # n
      BY <2>1, ObjectIds DEF n
    <3>2. QED
      BY <1>3, <3>1 DEF IdOf, TypeOK
  <2>7. clientHello'[n].id = id
    <3>1. clientHello'[n] = datagram.hello
      BY <1>3, <2>1 DEF TypeOK
    <3>2. QED
      BY <3>1
  <2>8. OwnIds'
    <3> SUFFICES ASSUME NEW i \in Ids, sessions'[i] # nil
                 PROVE  sessions'[i] <= accepts' /\ IdOf(sessions[i])' = i
      BY DEF OwnIds
    <3>1. CASE i = id
      <4>1. sessions'[i] = n
        BY <1>1, <1>3, <3>1 DEF TypeOK
      <4>2. sessions'[i] <= accepts'
        BY <1>3, <2>1, <4>1
      <4>3. IdOf(sessions[i])' = i
        BY <2>7, <3>1, <4>1 DEF IdOf
      <4>4. QED
        BY <4>2, <4>3
    <3>2. CASE i # id
      <4>0. sessions'[i] = sessions[i]
        <5>1. sessions \in [Ids -> Objects \cup {nil}]
          BY DEF TypeOK
        <5>2. sessions' = [sessions EXCEPT ![id] = n]
          BY <1>3
        <5>3. QED
          BY <3>2, <5>1, <5>2
      <4>1. /\ sessions[i] \in Objects /\ sessions[i] <= accepts
            /\ IdOf(sessions[i]) = i
        <5>1. OwnIds /\ sessions \in [Ids -> Objects \cup {nil}]
          BY DEF TypeOK, Table
        <5>2. QED
          BY <4>0, <5>1 DEF OwnIds
      <4>2. sessions[i] \in Nat
        BY <4>1, ObjectIds
      <4>3. IdOf(sessions[i])' = i
        BY <2>6, <4>0, <4>1
      <4>4. QED
        BY <1>3, <2>1, <4>0, <4>1, <4>2, <4>3 DEF n
    <3>3. QED
      BY <3>1, <3>2
  <2>9. Bounded'
    BY <1>1, <1>3, EnterBounded
  <2>10. Goroutines'
    <3> SUFFICES ASSUME NEW k \in Objects
                 PROVE  Owned(k)'
      BY DEF Goroutines
    <3>1. Owned(k) /\ k \in Nat /\ IdOf(k) \in Ids
      BY ObjectIds DEF Goroutines
    <3>2. CASE k <= accepts
      <4>1. Listed(k)' <=> Listed(k)
        <5>1. IdOf(k)' = IdOf(k) /\ k # n /\ k <= accepts'
          BY <1>3, <2>1, <2>6, <3>1, <3>2 DEF n
        <5>2. IdOf(k) = id => sessions[IdOf(k)] # k /\ sessions'[IdOf(k)] # k
          BY <1>1, <1>3, <3>1, <5>1, ObjectIds DEF TypeOK
        <5>3. QED
          BY <1>1, <1>3, <3>1, <3>2, <5>1, <5>2 DEF Listed, TypeOK
      <4>2. ~ (k > accepts')
        BY <1>3, <2>1, <3>1, <3>2 DEF n
      <4>3. QED
        BY <2>4, <3>1, <4>1, <4>2 DEF Owned
    <3>3. CASE k > accepts
      <4>1. prepare[k] = "none" /\ ~ published[k]
        BY <2>1, <3>1, <3>3 DEF Owned
      <4>2. QED
        BY <2>4, <3>1, <4>1 DEF Owned
    <3>4. QED
      BY <2>1, <3>1, <3>2, <3>3
  <2>11. Handling' /\ Answered'
    BY <2>3, <2>4 DEF Handling, Answered
  <2>12. QED
    BY <2>5, <2>8, <2>9, <2>10, <2>11 DEF Table
<1>4. QED
  BY <1>2, <1>3 DEF HelloAccept

\* A request: the first one gives the session a path and a goroutine.
LEMMA RequestIInv ==
    ASSUME IInv, HandleRequest
    PROVE  IInv'
<1> USE Nothing DEF IInv, tableVars, osVars, loopVars, Handled
<1> DEFINE n == datagram.keys
           path == datagram.inner.path
<1>1. Current = n /\ n \in Objects /\ Listed(n) /\ path \in Paths
  <2>1. Current = n /\ n \in ListedObjects /\ datagram.type = "Secure"
    BY Dispatched DEF HandleRequest, Table
  <2>2. datagram.inner.type = "Request" /\ datagram \in Datagrams \cup {NoDatagram}
    BY DEF HandleRequest, Dispatch, TypeOK
  <2>3. QED
    BY <2>1, <2>2, DatagramFields DEF ListedObjects
<1>2. /\ UNCHANGED <<tableVars, osVars, loopVars, published>>
      /\ idle' = [idle EXCEPT ![n] = 0]
      /\ serve' = "cleanup" /\ datagram' = NoDatagram
  BY <1>1 DEF HandleRequest
<1> HIDE DEF n, path
<1>3. idle' \in [Objects -> 0 .. SessionTTL]
  BY <1>1, <1>2, IdleTyped
<1>4. Table' /\ Handling'
  <2>1. ListedIds' = ListedIds
    BY <1>2 DEF ListedIds
  <2>2. QED
    BY <1>2, <2>1 DEF Table, OwnIds, Bounded, TableBounded, IdOf, Handling
<1>5. CASE /\ requestedPath[n] = ""
           /\ requestedPath' = [requestedPath EXCEPT ![n] = path]
           /\ preparing' = [preparing EXCEPT ![n] = TRUE]
           /\ prepare' = [prepare EXCEPT ![n] = "create"]
           /\ Silent
  <2>1. TypeOK'
    BY <1>1, <1>2, <1>3, <1>5 DEF TypeOK, Silent
  <2>2. Answered'
    BY <1>5 DEF Answered, Silent
  <2>3. ASSUME NEW k \in Objects
        PROVE  Owned(k)'
    <3>1. Owned(k) /\ (Listed(k)' <=> Listed(k)) /\ accepts' = accepts
      BY <1>2 DEF Goroutines, Listed, IdOf
    <3>2. CASE k = n
      <4>1. /\ prepare'[k] = "create" /\ preparing'[k] /\ requestedPath'[k] = path
            /\ handle'[k] = handle[k] /\ disk'[k] = disk[k] /\ published'[k] = published[k]
        BY <1>1, <1>2, <1>5, <3>2 DEF TypeOK
      <4>2. path # ""
        BY <1>1, ServerAssumption
      <4>3. prepare[k] = "none" /\ ~ (k > accepts)
        <5>1. k \in Nat /\ accepts \in Nat /\ k <= accepts
          BY <1>1, <3>2, ObjectIds, AcceptsTyped DEF Listed
        <5>2. prepare[k] = "none"
          BY <1>5, <3>1, <3>2 DEF Owned
        <5>3. QED
          BY <5>1, <5>2
      <4>4. QED
        BY <3>1, <4>1, <4>2, <4>3 DEF Owned
    <3>3. CASE k # n
      <4>1. /\ prepare'[k] = prepare[k] /\ preparing'[k] = preparing[k]
            /\ requestedPath'[k] = requestedPath[k] /\ handle'[k] = handle[k]
            /\ disk'[k] = disk[k] /\ published'[k] = published[k]
        BY <1>2, <1>5, <3>3 DEF TypeOK
      <4>2. QED
        BY <3>1, <4>1 DEF Owned
    <3>4. QED
      BY <3>2, <3>3
  <2>4. QED
    BY <1>4, <2>1, <2>2, <2>3 DEF Goroutines
<1>6. CASE /\ UNCHANGED <<requestedPath, preparing, prepare>>
           /\ \/ Answer("Error", n)
              \/ published[n] /\ Answer("Meta", n)
              \/ Silent
  <2>1. answer' \in Answers \cup {NoAnswer}
    BY <1>1, <1>6, AnswersTyped DEF Answer, Silent
  <2>2. TypeOK'
    BY <1>2, <1>3, <1>6, <2>1 DEF TypeOK
  <2>3. Answered'
    BY <1>2, <1>6 DEF Answered, Answer, Silent
  <2>4. Goroutines'
    BY <1>2, <1>6, SameSessions DEF objectVars
  <2>5. QED
    BY <1>4, <2>2, <2>3, <2>4
<1>7. QED
  BY <1>1, <1>5, <1>6 DEF HandleRequest, n, path

-----------------------------------------------------------------------------
\* A goroutine works on an object that was accepted, and touches no other.
LEMMA PreparedIInv ==
    ASSUME IInv, NEW n \in Objects,
           UNCHANGED <<tableVars, loopVars, requestedPath, serve, datagram>>,
           \A k \in Objects \ {n} :
               /\ prepare'[k] = prepare[k] /\ preparing'[k] = preparing[k]
               /\ published'[k] = published[k]
               /\ handle'[k] = handle[k] /\ disk'[k] = disk[k],
           TypeOK', Owned(n)', Answered'
    PROVE  IInv'
<1> USE DEF IInv, tableVars, loopVars
<1>1. ListedIds' = ListedIds
  BY DEF ListedIds
<1>2. Table' /\ Handling'
  BY <1>1 DEF Table, OwnIds, Bounded, TableBounded, IdOf, Handling, Current
<1>3. ASSUME NEW k \in Objects, k # n
      PROVE  Owned(k)'
  <2>1. Owned(k)
    BY DEF Goroutines
  <2>2. /\ prepare'[k] = prepare[k] /\ preparing'[k] = preparing[k]
        /\ published'[k] = published[k]
        /\ handle'[k] = handle[k] /\ disk'[k] = disk[k]
    BY <1>3
  <2>3. Listed(k)' <=> Listed(k)
    BY DEF Listed, IdOf
  <2>4. QED
    BY <2>1, <2>2, <2>3 DEF Owned
<1>4. QED
  BY <1>2, <1>3 DEF Goroutines

\* The goroutine alone: until it publishes, the descriptor and the file are its
\* own.
LEMMA PrepareIInv ==
    ASSUME IInv, NEW n \in Objects,
           \/ CreateTemp(n) \/ CreateArchive(n) \/ OpenArchive(n)
           \/ SendMeta(n) \/ SendError(n)
    PROVE  IInv'
<1> USE Nothing DEF IInv, objectVars, loopVars, osVars, Goto
<1>1. Owned(n)
  BY DEF Goroutines
<1>2. UNCHANGED <<tableVars, objectVars, loopVars, idle, serve, datagram>>
  BY DEF CreateTemp, CreateArchive, OpenArchive, SendMeta, SendError
<1>3. (Listed(n)' <=> Listed(n)) /\ accepts' = accepts
  BY <1>2 DEF tableVars, Listed, IdOf
<1>4. /\ prepare' \in [Objects -> {"none", "create", "archive", "open", "publish",
                                   "meta", "fail", "error", "done"}]
      /\ handle' \in [Objects -> {"none", "open", "closed"}]
      /\ disk' \in [Objects -> {"absent", "empty", "archive"}]
      /\ \A k \in Objects \ {n} :
            prepare'[k] = prepare[k] /\ handle'[k] = handle[k] /\ disk'[k] = disk[k]
  <2>1. ObjectsTyped
    BY Objectwise
  <2> HIDE DEF IInv, objectVars, loopVars, osVars
  <2>2. CASE CreateTemp(n)
    BY <2>1, <2>2 DEF CreateTemp, ObjectsTyped
  <2>3. CASE CreateArchive(n)
    BY <2>1, <2>3 DEF CreateArchive, ObjectsTyped
  <2>4. CASE OpenArchive(n)
    BY <2>1, <2>4 DEF OpenArchive, ObjectsTyped
  <2>5. CASE SendMeta(n)
    BY <2>1, <2>5 DEF SendMeta, ObjectsTyped, osVars
  <2>6. CASE SendError(n)
    BY <2>1, <2>6 DEF SendError, ObjectsTyped, osVars
  <2>7. QED
    BY <2>2, <2>3, <2>4, <2>5, <2>6
<1>5. answer' \in Answers \cup {NoAnswer}
  BY AnswersTyped
     DEF CreateTemp, CreateArchive, OpenArchive, SendMeta, SendError, Silent, Answer
<1>6. TypeOK'
  BY <1>2, <1>4, <1>5 DEF TypeOK, tableVars
<1>7. Answered'
  <2>1. SendMeta(n) => published[n]
    BY <1>1 DEF SendMeta, Owned
  <2>2. QED
    BY <1>2, <2>1
       DEF CreateTemp, CreateArchive, OpenArchive, SendMeta, SendError, Answered, Silent, Answer
<1>8. Owned(n)'
  <2>0. ObjectsTyped
    BY Objectwise
  <2> HIDE DEF IInv
  <2> USE DEF ObjectsTyped, Owned
  <2>1. CASE CreateTemp(n)
    BY <1>1, <1>2, <1>3, <2>0, <2>1 DEF CreateTemp
  <2>2. CASE CreateArchive(n)
    BY <1>1, <1>2, <1>3, <2>0, <2>2 DEF CreateArchive
  <2>3. CASE OpenArchive(n)
    BY <1>1, <1>2, <1>3, <2>0, <2>3 DEF OpenArchive
  <2>4. CASE SendMeta(n)
    BY <1>1, <1>2, <1>3, <2>0, <2>4 DEF SendMeta
  <2>5. CASE SendError(n)
    BY <1>1, <1>2, <1>3, <2>0, <2>5 DEF SendError
  <2>6. QED
    BY <2>1, <2>2, <2>3, <2>4, <2>5
<1>9. QED
  BY <1>2, <1>4, <1>6, <1>7, <1>8, PreparedIInv

\* The archive is handed over under the lock, or is given up: the session that
\* gets it is in the table, and its object is this one.
LEMMA PublishIInv ==
    ASSUME IInv, NEW n \in Objects, Publish(n)
    PROVE  IInv'
<1> USE Nothing DEF IInv, osVars, loopVars, Goto
<1>1. Owned(n) /\ ~ (n > accepts)
  BY DEF Goroutines, Owned, Publish
<1>2. UNCHANGED <<tableVars, loopVars, requestedPath, serve, datagram>>
  BY DEF Publish
<1>3. (Listed(n)' <=> Listed(n)) /\ accepts' = accepts
  BY <1>2 DEF tableVars, Listed, IdOf
<1>4. StillMine(n) <=> Listed(n)
  <2>1. n \in Nat /\ accepts \in Nat
    BY ObjectIds, AcceptsTyped
  <2>2. QED
    BY <1>1, <2>1 DEF StillMine, Listed
<1>5. idle' \in [Objects -> 0 .. SessionTTL]
  <2>1. idle' = idle \/ idle' = [idle EXCEPT ![n] = 0]
    BY DEF Publish
  <2>2. QED
    BY <2>1, IdleTyped DEF TypeOK
<1>6. TypeOK'
  <2>1. ObjectsTyped'
    <3>1. ObjectsTyped
      BY Objectwise
    <3> HIDE DEF IInv, loopVars
    <3>2. QED
      BY <3>1 DEF Publish, ObjectsTyped
  <2>2. UNCHANGED <<tableVars, loopVars, requestedPath, serve, datagram>> /\ answer' = NoAnswer
    BY <1>2 DEF Publish, Silent
  <2>3. QED
    BY <1>5, <2>1, <2>2 DEF TypeOK, ObjectsTyped, tableVars
<1>7. Answered'
  BY DEF Publish, Answered, Silent
<1>8. Owned(n)'
  <2>1. ~ published[n] /\ handle[n] = "open" /\ disk[n] = "archive"
        /\ prepare[n] = "publish" /\ preparing[n]
    BY <1>1 DEF Publish, Owned
  <2>0. ObjectsTyped
    BY Objectwise
  <2> HIDE DEF IInv, loopVars
  <2>2. CASE StillMine(n)
    <3>1. /\ prepare'[n] = "meta" /\ ~ preparing'[n] /\ published'[n]
          /\ handle'[n] = "open" /\ disk'[n] = "archive"
      BY <2>0, <2>1, <2>2 DEF Publish, ObjectsTyped
    <3>2. QED
      BY <1>1, <1>2, <1>3, <1>4, <2>1, <2>2, <3>1 DEF Owned
  <2>3. CASE ~ StillMine(n)
    <3>1. /\ prepare'[n] = "done" /\ preparing'[n] /\ ~ published'[n]
          /\ handle'[n] = "closed" /\ disk'[n] = "absent"
      BY <2>0, <2>1, <2>3 DEF Publish, ObjectsTyped
    <3>2. QED
      BY <1>1, <1>2, <1>3, <1>4, <2>1, <2>3, <3>1 DEF Owned
  <2>4. QED
    BY <2>2, <2>3
<1>9. \A k \in Objects \ {n} :
         /\ prepare'[k] = prepare[k] /\ preparing'[k] = preparing[k]
         /\ published'[k] = published[k]
         /\ handle'[k] = handle[k] /\ disk'[k] = disk[k]
  <2>1. ObjectsTyped
    BY Objectwise
  <2> HIDE DEF IInv, loopVars
  <2>2. QED
    BY <2>1 DEF Publish, ObjectsTyped
<1>10. QED
  BY <1>2, <1>6, <1>7, <1>8, <1>9, PreparedIInv

\* The preparation failed: its session leaves the table if it is still there,
\* and not another one with the same ID.
LEMMA FailIInv ==
    ASSUME IInv, NEW n \in Objects, FailPreparation(n)
    PROVE  IInv'
<1> USE Nothing DEF IInv, objectVars, osVars, loopVars, Goto
<1>1. UNCHANGED <<accepts, clientHello, clientAddress, objectVars, osVars, loopVars,
                  idle, serve, datagram>>
  BY DEF FailPreparation
<1>2. IdOf(n) \in Ids /\ n # nil
  BY ObjectIds
<1>3. /\ sessions' \in [Ids -> Objects \cup {nil}]
      /\ \A id \in Ids : sessions'[id] = IF id = IdOf(n) /\ sessions[id] = n THEN nil
                                         ELSE sessions[id]
  BY <1>2 DEF FailPreparation, TypeOK
<1>4. TypeOK' /\ Answered'
  BY <1>1, <1>3 DEF FailPreparation, TypeOK, Answered, Silent
<1>5. ListedIds' \subseteq ListedIds
  BY <1>3 DEF ListedIds
<1>6. Table'
  <2>1. OwnIds'
    BY <1>1, <1>3 DEF Table, OwnIds, IdOf
  <2>2. QED
    BY <1>5, <2>1, FewerBounded DEF Table
<1>7. Handling'
  <2>1. ListedIds = {} => ListedIds' = {}
    BY <1>5
  <2>2. datagram.type = "Secure" => Current' \in {nil, Current}
    <3>1. datagram.type = "Secure" => IdOf(datagram.keys) \in Ids
      BY DatagramFields, ObjectIds DEF TypeOK
    <3>2. QED
      BY <1>1, <1>3, <3>1 DEF Current, IdOf
  <2>3. QED
    BY <1>1, <2>1, <2>2 DEF Handling
<1>8. ASSUME NEW k \in Objects
      PROVE  Owned(k)'
  <2>1. Owned(k) /\ IdOf(k) \in Ids /\ k # nil /\ IdOf(k)' = IdOf(k)
    BY <1>1, ObjectIds DEF Goroutines, IdOf
  <2>2. CASE k = n
    <3>1. ~ Listed(k)'
      BY <1>3, <2>1, <2>2 DEF Listed
    <3>2. prepare'[k] = "error" /\ prepare[k] = "fail"
      BY <2>2 DEF FailPreparation, TypeOK
    <3>3. QED
      BY <1>1, <2>1, <3>1, <3>2 DEF Owned
  <2>3. CASE k # n
    <3>1. Listed(k)' <=> Listed(k)
      BY <1>1, <1>2, <1>3, <2>1, <2>3 DEF Listed
    <3>2. prepare'[k] = prepare[k]
      BY <2>3 DEF FailPreparation, TypeOK
    <3>3. QED
      BY <1>1, <2>1, <3>1, <3>2 DEF Owned
  <2>4. QED
    BY <2>2, <2>3
<1>9. QED
  BY <1>4, <1>6, <1>7, <1>8 DEF Goroutines

-----------------------------------------------------------------------------
\* The invariant is inductive.  NoDeadSession and ArchivesOwned are not by
\* themselves: what keeps them is where each goroutine is, and that none gives
\* up an object that is still in the table.
THEOREM Inductive == Spec => []IInv
<1>1. Init => IInv
  BY InitIInv
<1>2. IInv /\ [Next]_vars => IInv'
  <2> SUFFICES ASSUME IInv, [Next]_vars
               PROVE  IInv'
    OBVIOUS
  <2>1. CASE \/ \E d \in Datagrams : Arrive(d)
             \/ IgnoreMalformed \/ IgnoreUnexpected
             \/ HelloLookup \/ SecureOpen \/ SessionGone
             \/ HandleGet \/ Tick \/ Cancel \/ Exit
    BY <2>1, LoopIInv
  <2>2. CASE ReadTimeout \/ ReadFails \/ CleanupCheck \/ HandleDone
    BY <2>2, ClosingIInv
  <2>3. CASE HelloAccept
    BY <2>3, AcceptIInv
  <2>4. CASE HandleRequest
    BY <2>4, RequestIInv
  <2>5. ASSUME NEW n \in Objects, Prepare(n)
        PROVE  IInv'
    BY <2>5, PrepareIInv, PublishIInv, FailIInv DEF Prepare
  <2>6. CASE UNCHANGED vars
    <3>1. Table' /\ Goroutines'
      BY <2>6, SameSessions DEF vars, tableVars, objectVars, osVars
    <3>2. TypeOK'
      BY <2>6 DEF vars, IInv, TypeOK
    <3>3. Handling' /\ Answered'
      BY <2>6 DEF vars, IInv, Handling, Current, ListedIds, IdOf, Answered
    <3>4. QED
      BY <3>1, <3>2, <3>3 DEF IInv
  <2>7. QED
    BY <2>1, <2>2, <2>3, <2>4, <2>5, <2>6 DEF Next, Serve
<1>3. QED
  BY <1>1, <1>2, PTL DEF Spec

\* server.go keeps its map keyed by the ID that each session was made for, also
\* when goroutines delete entries and IDs are used again, and starts a goroutine
\* exactly for the sessions that got a path.
THEOREM TableConsistent == Spec => []Consistent
<1>1. IInv => Consistent
  BY DEF IInv, Consistent, Table, OwnIds, Goroutines, Owned
<1>2. QED
  BY <1>1, Inductive, PTL

\* handleClientHello checks the length of the map, releases the lock, and enters
\* the session later: the map never exceeds MaxSessions, however many.
THEOREM TableWithinLimit == Spec => []TableBounded
<1>1. IInv => TableBounded
  BY DEF IInv, Table, Bounded
<1>2. QED
  BY <1>1, Inductive, PTL

\* Of prepareArchive, closeSession and failPreparation, exactly one closes the
\* file and removes the archive, whichever comes first.
THEOREM NoArchiveLeaks == Spec => []ArchivesOwned
<1>1. IInv => ArchivesOwned
  BY DEF IInv, ArchivesOwned, Goroutines, Owned
<1>2. QED
  BY <1>1, Inductive, PTL

\* handleGet reads from a file that is open and exists while its session is in
\* the table, and Meta and Data are only sent when prepareArchive has published.
THEOREM ServedIsReadable == Spec => []PublishedIsReadable
<1>1. IInv => PublishedIsReadable
  BY DEF IInv, PublishedIsReadable, Goroutines, Owned, Answered
<1>2. QED
  BY <1>1, Inductive, PTL

\* A session that handleRequest has given a path is served or still prepared: a
\* preparation that gives up takes its session out of the map first.
THEOREM SessionsAlive == Spec => []NoDeadSession
<1>1. IInv => NoDeadSession
  BY DEF IInv, NoDeadSession, Goroutines, Owned, TypeOK
<1>2. QED
  BY <1>1, Inductive, PTL

\* closeSessions, deferred by Serve, leaves nothing in the map, and a goroutine
\* that ends after it leaves neither its file nor its descriptor.
THEOREM NothingLeftBehind == Spec => []StoppedIsClean
<1>1. IInv => StoppedIsClean
  <2> SUFFICES ASSUME IInv, serve \in {"stopped", "exited"}
               PROVE  /\ ListedIds = {}
                      /\ \A n \in Objects : prepare[n] \in {"none", "done"} =>
                            handle[n] # "open" /\ disk[n] # "archive"
    BY DEF StoppedIsClean
  <2>1. ListedIds = {}
    BY DEF IInv, Handling
  <2>2. \A n \in Objects : ~ Listed(n)
    BY <2>1, ObjectIds DEF IInv, ListedIds, Listed
  <2>3. QED
    BY <2>1, <2>2 DEF IInv, Goroutines, Owned
<1>2. QED
  BY <1>1, Inductive, PTL

-----------------------------------------------------------------------------
\* What a step may do to an object: a path, once requested, stays, a published
\* archive stays the session's, and a session that has left the table is neither
\* entered again nor given a path or an archive.
Lasting(n) ==
    /\ requestedPath[n] # "" => requestedPath'[n] = requestedPath[n]
    /\ published[n] => published'[n]
    /\ n <= accepts /\ ~ Listed(n) =>
          /\ ~ Listed(n)'
          /\ requestedPath'[n] = requestedPath[n]
          /\ published'[n] = published[n]

\* An object that is what it was, in the table or not.
LEMMA SameLasts ==
    ASSUME NEW n, UNCHANGED <<tableVars, requestedPath, published>>
    PROVE  Lasting(n)
  BY DEF Lasting, tableVars, Listed, IdOf

\* Sessions that leave the table.
LEMMA CloseLasts ==
    ASSUME TypeOK, NEW n \in Objects, NEW closing, CloseAndDelete(closing),
           UNCHANGED objectVars
    PROVE  Lasting(n)
<1>1. IdOf(n)' = IdOf(n) /\ accepts' = accepts /\ IdOf(n) \in Ids /\ n # nil
  BY ObjectIds DEF CloseAndDelete, IdOf
<1>2. Listed(n)' => Listed(n)
  BY <1>1 DEF CloseAndDelete, Listed
<1>3. QED
  BY <1>2 DEF Lasting, objectVars

\* A session that is entered is a new object, and the others stay what they were.
LEMMA AcceptLasts ==
    ASSUME IInv, NEW n \in Objects, HelloAccept
    PROVE  Lasting(n)
<1> DEFINE id == datagram.hello.id
           m == accepts + 1
<1>1. UNCHANGED objectVars
  BY DEF HelloAccept
<1>2. CASE UNCHANGED tableVars
  BY <1>1, <1>2, SameLasts DEF objectVars
<1>3. CASE /\ sessions' = [sessions EXCEPT ![id] = m]
           /\ accepts' = m
           /\ clientHello' = [clientHello EXCEPT ![m] = datagram.hello]
  <2>1. SUFFICES ASSUME n <= accepts, ~ Listed(n)
                 PROVE  ~ Listed(n)'
    BY <1>1 DEF Lasting, objectVars
  <2>2. n \in Nat /\ accepts \in Nat /\ n # m
    <3>1. n \in Nat /\ accepts \in Nat
      BY ObjectIds, AcceptsTyped DEF IInv
    <3>2. QED
      BY <2>1, <3>1
  <2> HIDE DEF m
  <2>3. IdOf(n)' = IdOf(n)
    BY <1>3, <2>2 DEF IInv, TypeOK, IdOf
  <2>4. sessions[IdOf(n)] # n
    BY <2>1 DEF Listed
  <2>5. sessions'[IdOf(n)] # n
    <3>1. IdOf(n) \in Ids /\ sessions \in [Ids -> Objects \cup {nil}]
      BY ObjectIds DEF IInv, TypeOK
    <3>2. sessions'[IdOf(n)] \in {sessions[IdOf(n)], m}
      BY <1>3, <3>1
    <3>3. QED
      BY <2>2, <2>4, <3>2
  <2>6. QED
    BY <2>3, <2>5 DEF Listed
<1>4. QED
  BY <1>2, <1>3 DEF HelloAccept

\* Only a session in the table gets a path, and only its first.
LEMMA RequestLasts ==
    ASSUME IInv, NEW n \in Objects, HandleRequest
    PROVE  Lasting(n)
<1> DEFINE m == datagram.keys
           path == datagram.inner.path
<1>1. Current = m /\ Listed(m) /\ m \in Objects
  BY Dispatched DEF HandleRequest, IInv, Table, ListedObjects
<1>2. /\ UNCHANGED <<tableVars, published>>
      /\ \/ requestedPath[m] = "" /\ requestedPath' = [requestedPath EXCEPT ![m] = path]
         \/ requestedPath' = requestedPath
  BY <1>1 DEF HandleRequest
<1>3. Listed(n)' <=> Listed(n)
  BY <1>2 DEF tableVars, Listed, IdOf
<1> HIDE DEF m, path
<1>4. requestedPath \in [Objects -> Paths \cup {""}]
  BY DEF IInv, TypeOK
<1>5. CASE n = m
  BY <1>1, <1>2, <1>3, <1>5 DEF Lasting
<1>6. CASE n # m
  <2>1. requestedPath'[n] = requestedPath[n]
    BY <1>2, <1>4, <1>6
  <2>2. QED
    BY <1>2, <1>3, <2>1 DEF Lasting
<1>7. QED
  BY <1>5, <1>6

\* The goroutine publishes for a session in the table, and a failing one takes
\* its session out.
LEMMA PrepareLasts ==
    ASSUME IInv, NEW n \in Objects, NEW m \in Objects, Prepare(m)
    PROVE  Lasting(n)
<1>1. CASE CreateTemp(m) \/ CreateArchive(m) \/ OpenArchive(m) \/ SendMeta(m) \/ SendError(m)
  BY <1>1, SameLasts
     DEF CreateTemp, CreateArchive, OpenArchive, SendMeta, SendError, objectVars
<1>2. CASE Publish(m)
  <2>1. UNCHANGED <<tableVars, requestedPath>>
    BY <1>2 DEF Publish
  <2>2. Listed(n)' <=> Listed(n)
    BY <2>1 DEF tableVars, Listed, IdOf
  <2>3. published \in [Objects -> BOOLEAN]
    BY DEF IInv, TypeOK
  <2>4. \/ published' = published
        \/ StillMine(m) /\ published' = [published EXCEPT ![m] = TRUE]
    BY <1>2 DEF Publish
  <2>5. published[n] => published'[n]
    BY <2>3, <2>4
  <2>6. ASSUME n <= accepts, ~ Listed(n)
        PROVE  published'[n] = published[n]
    <3>1. ~ StillMine(n)
      BY <2>6 DEF Listed, StillMine
    <3>2. QED
      BY <2>3, <2>4, <3>1
  <2>7. QED
    BY <2>1, <2>2, <2>5, <2>6 DEF Lasting
<1>3. CASE FailPreparation(m)
  <2>1. /\ sessions' = [sessions EXCEPT ![IdOf(m)] = IF @ = m THEN nil ELSE @]
        /\ UNCHANGED <<accepts, clientHello, objectVars>>
    BY <1>3 DEF FailPreparation
  <2>2. IdOf(n) \in Ids /\ n # nil /\ IdOf(n)' = IdOf(n)
    BY <2>1, ObjectIds DEF IInv, IdOf
  <2>3. sessions'[IdOf(n)] \in {sessions[IdOf(n)], nil}
    <3>1. sessions \in [Ids -> Objects \cup {nil}]
      BY DEF IInv, TypeOK
    <3>2. QED
      BY <2>1, <2>2, <3>1
  <2>4. Listed(n)' => Listed(n)
    BY <2>1, <2>2, <2>3 DEF Listed
  <2>5. QED
    BY <2>1, <2>4 DEF Lasting, objectVars
<1>4. QED
  BY <1>1, <1>2, <1>3 DEF Prepare

\* A session is over for good once it is out of the map of server.go, also for the
\* goroutine that still prepares for it, and whoever has its ID afterwards; until
\* then it serves the one path that it was asked for.
THEOREM RemovedIsFinal == Spec => [][\A n \in Objects : Lasting(n)]_vars
<1>1. IInv /\ [Next]_vars => [\A n \in Objects : Lasting(n)]_vars
  <2> SUFFICES ASSUME IInv, Next, NEW n \in Objects
               PROVE  Lasting(n)
    OBVIOUS
  <2>1. CASE \/ \E d \in Datagrams : Arrive(d)
             \/ IgnoreMalformed \/ IgnoreUnexpected
             \/ HelloLookup \/ SecureOpen \/ SessionGone
             \/ HandleGet \/ Tick \/ Cancel \/ Exit
    <3>1. UNCHANGED <<tableVars, objectVars>>
      BY <2>1 DEF Arrive, IgnoreMalformed, IgnoreUnexpected, HelloLookup, SecureOpen,
                  SessionGone, HandleGet, Tick, Cancel, Exit
    <3>2. QED
      BY <3>1, SameLasts DEF objectVars
  <2>2. CASE ReadTimeout \/ ReadFails \/ CleanupCheck \/ HandleDone
    <3>1. UNCHANGED objectVars
      BY <2>2 DEF ReadTimeout, ReadFails, CleanupCheck, HandleDone
    <3>2. UNCHANGED tableVars \/ \E closing : CloseAndDelete(closing)
      BY <2>2 DEF ReadTimeout, ReadFails, CleanupCheck, HandleDone, Return, CleanupExpired
    <3>3. QED
      BY <3>1, <3>2, SameLasts, CloseLasts DEF objectVars, IInv
  <2>3. CASE HelloAccept
    BY <2>3, AcceptLasts
  <2>4. CASE HandleRequest
    BY <2>4, RequestLasts
  <2>5. CASE \E m \in Objects : Prepare(m)
    BY <2>5, PrepareLasts
  <2>6. QED
    BY <2>1, <2>2, <2>3, <2>4, <2>5 DEF Next, Serve
<1>2. QED
  BY <1>1, Inductive, PTL DEF Spec

=============================================================================
