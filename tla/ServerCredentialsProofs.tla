---------------------- MODULE ServerCredentialsProofs ----------------------
(***************************************************************************)
(* The default credentials of a server implement WriteOnce, and what has   *)
(* been published is complete, for any number of processes and starts.     *)
(***************************************************************************)
EXTENDS ServerCredentials, TLAPS

Building == {"make", "private", "public", "keys", "state", "staging", "rename"}
Owning == {"acquire", "look", "clean", "cleaned"} \union Building
Loading == {"loadState", "loadKeys", "return"}
Locked == {"look", "clean", "cleaned", "publish"} \union Building \union Loading
Steps == {"idle", "acquire"} \union Locked

Contents == [names : SUBSET Files, whole : SUBSET Files, synced : SUBSET Files,
             named : SUBSET (Files \union {"keys"})]

TypeOK ==
  /\ lock \in {"flock", "mutex"}
  /\ step \in [Processes -> Steps]
  /\ identity \in [Processes -> 0..MaxStarts]
  /\ created \in [Processes -> BOOLEAN]
  /\ holder \subseteq Processes
  /\ root \in {"absent", "made", "kept"}
  /\ dir \in [0..MaxStarts -> Contents]
  /\ server \in {None} \union 0..MaxStarts
  /\ kept \in {None} \union 0..MaxStarts
  /\ starts \in 0..MaxStarts

\* The file lock excludes other processes, and who works has the lock.
Exclusion ==
  /\ \A p \in Processes : step[p] \in Locked => p \in holder
  /\ lock = "flock" => \A p, q \in holder : p = q

\* Every start has a number of its own, and the published directory is of
\* no process that still builds.
OwnDirectory ==
  \A p \in Processes : step[p] \in Owning =>
    /\ identity[p] \in 1..starts
    /\ server # identity[p]
    /\ \A q \in Processes : step[q] \in Owning /\ q # p => identity[q] # identity[p]

\* What is on disk for certain.
OnDisk(d, files) == files \subseteq d.names /\ files \subseteq d.whole /\ files \subseteq d.synced

\* What is done in staging directory d at a step of its process.
Done(d, at) ==
  /\ at \in {"public", "keys", "state", "staging", "rename"} => OnDisk(d, {"private"})
  /\ at \in {"keys", "state", "staging", "rename"} => OnDisk(d, Keys)
  /\ at \in {"state", "staging", "rename"} => Keys \subseteq d.named
  /\ at \in {"staging", "rename"} => OnDisk(d, Files)
  /\ at = "rename" => {"keys", "state"} \subseteq d.named

Progressing == \A p \in Processes : Done(dir[identity[p]], step[p])

Complete(d) == OnDisk(d, Files) /\ Files \union {"keys"} \subseteq d.named

\* The published directory is complete, and an interrupted one, which only
\* one process at a time may remove, is empty.
Published ==
  /\ server \in Identities => server <= starts /\ Complete(dir[server])
  /\ dir[0].names = {} /\ dir[0].whole = {}
  /\ lock = "mutex" => server # 0 /\ kept # 0
  /\ \A p \in Processes : step[p] = "clean" => lock = "flock" /\ server = 0
  /\ \A p \in Processes : step[p] = "publish" => server = identity[p] /\ server \in Identities

\* A loss of power gives back nothing but what is published, and whoever works
\* does so in a configuration directory that is there.
Kept ==
  /\ kept \in {None, 0, server}
  /\ root = "absent" => server = None /\ kept = None /\ \A p \in Processes : step[p] = "idle"

\* Who has loaded has what is published, and whose token was printed is what
\* is published and synced in the configuration directory.
Loaded ==
  /\ \A p \in Processes : step[p] \in {"loadKeys", "return"} =>
       server \in Identities /\ identity[p] = server
  /\ \A p \in Processes : created[p] => step[p] \in Loading /\ kept = server /\ server \in Identities
  /\ \A v \in printed : v = server /\ kept = server /\ server \in Identities
  /\ promised \subseteq printed
  /\ promised # {} => root = "kept"

IInv ==
  /\ TypeOK /\ Exclusion /\ OwnDirectory /\ Progressing
  /\ Published /\ Kept /\ Loaded

-----------------------------------------------------------------------------

\* The number 0 and None are no identities.
LEMMA Distinct ==
  /\ 0 \in 0..MaxStarts /\ 0 \notin Identities
  /\ 0..MaxStarts = {0} \union Identities
  /\ None \notin Identities /\ None # 0
BY ServerCredentialsAssumption DEF Identities

\* Nothing has been created, or something was interrupted.
LEMMA InitIInv == Init => IInv
<1> SUFFICES ASSUME Init
             PROVE  IInv
  OBVIOUS
<1> USE Distinct, ServerCredentialsAssumption DEF Init
<1>1. dir \in [0..MaxStarts -> Contents] /\ dir[0] = Empty
  BY DEF Contents, Empty, Identities, Files
<1>2. TypeOK
  BY <1>1 DEF TypeOK, Steps
<1>3. Exclusion /\ OwnDirectory /\ Progressing
  BY DEF Exclusion, OwnDirectory, Progressing, Done, Locked, Owning, Building, Loading
<1>4. Published /\ Kept /\ Loaded
  BY <1>1 DEF Published, Kept, Loaded, Empty
<1>5. QED
  BY <1>2, <1>3, <1>4 DEF IInv

\* A complete directory has its state file, by which a start knows it.
LEMMA CompleteHasState ==
  ASSUME NEW d, Complete(d)
  PROVE  "state" \in d.names /\ Files \subseteq d.whole
BY DEF Complete, OnDisk, Files

\* Nothing is demanded of a directory before its first file, and none of
\* processes that do not build.
LEMMA NothingDone ==
  ASSUME NEW d, NEW at \in Steps \ {"public", "keys", "state", "staging", "rename"}
  PROVE  Done(d, at)
BY DEF Done, Steps, Locked, Building, Loading

\* A file is written: what was done before is done, and the file.
LEMMA WriteDone ==
  ASSUME NEW d \in Contents, NEW f \in Files, NEW next, Done(d, f),
         <<f, next>> \in {<<"private", "public">>, <<"public", "keys">>, <<"state", "staging">>}
  PROVE  Written(d, f) \in Contents /\ Done(Written(d, f), next)
<1> DEFINE e == Written(d, f)
<1>1. /\ e.names = d.names \union {f} /\ e.whole = d.whole \union {f}
      /\ e.synced = d.synced \union {f} /\ e.named = d.named
  BY DEF Written, Contents
<1>2. e \in Contents
  BY DEF Written, Contents
<1> HIDE DEF e
<1>3. Done(e, next)
  BY <1>1 DEF Done, OnDisk, Files, Keys
<1>4. QED
  BY <1>2, <1>3 DEF e

\* A directory is synced: its entries are on disk.
LEMMA SyncDone ==
  ASSUME NEW d \in Contents, NEW entries, NEW at, NEW next, Done(d, at),
         <<at, entries, next>> \in {<<"keys", Keys, "state">>,
                                    <<"staging", {"keys", "state"}, "rename">>}
  PROVE  LET e == [d EXCEPT !.named = @ \union entries]
         IN  e \in Contents /\ Done(e, next)
<1> DEFINE e == [d EXCEPT !.named = @ \union entries]
<1>1. /\ e.names = d.names /\ e.whole = d.whole /\ e.synced = d.synced
      /\ e.named = d.named \union entries
  BY DEF Contents
<1>2. entries \subseteq Files \union {"keys"}
  BY DEF Files, Keys
<1>3. e \in Contents
  BY <1>2 DEF Contents
<1> HIDE DEF e
<1>4. Done(e, next)
  BY <1>1 DEF Done, OnDisk, Files, Keys
<1>5. QED
  BY <1>3, <1>4 DEF e

-----------------------------------------------------------------------------

\* A staging directory is of one process and is not the published one: what
\* happens in it matters to nobody else.
LEMMA StagingIInv ==
  ASSUME IInv, NEW p \in Processes, NEW e \in Contents, NEW next \in Building,
         step[p] \in Building, Goto(p, next), Done(e, next),
         dir' = [dir EXCEPT ![identity[p]] = e],
         UNCHANGED <<identity, created, holder, lock, starts, history, root, server, kept>>
  PROVE  IInv'
<1> USE Distinct, ServerCredentialsAssumption DEF IInv, Goto, history
<1>1. identity[p] \in Identities /\ identity[p] # server
  BY DEF TypeOK, OwnDirectory, Owning, Identities
<1>2. TypeOK'
  BY DEF TypeOK, Steps, Locked
<1>3. Exclusion'
  BY DEF TypeOK, Exclusion, Locked
<1>4. OwnDirectory'
  BY DEF TypeOK, OwnDirectory, Owning
<1>5. Progressing'
  <2> SUFFICES ASSUME NEW q \in Processes
               PROVE  Done(dir'[identity[q]], step'[q])
    BY DEF Progressing
  <2>1. CASE q = p
    BY <1>1, <2>1 DEF TypeOK
  <2>2. CASE q # p /\ step[q] \in Owning
    BY <1>1, <2>2 DEF TypeOK, OwnDirectory, Owning, Progressing
  <2>3. CASE q # p /\ step[q] \notin Owning
    BY <2>3, NothingDone DEF TypeOK, Owning, Building
  <2>4. QED
    BY <2>1, <2>2, <2>3
<1>6. \A g \in {0, server} : dir'[g] = dir[g]
  BY <1>1
<1>7. Published' /\ Kept' /\ Loaded'
  BY <1>1, <1>6 DEF TypeOK, Published, Kept, Loaded, Building, Loading
<1>8. QED
  BY <1>2, <1>3, <1>4, <1>5, <1>7

\* The calls that fill the staging directory.
LEMMA BuildIInv ==
  ASSUME IInv, NEW p \in Processes, Build(p)
  PROVE  IInv'
<1>1. identity[p] \in 0..MaxStarts /\ dir[identity[p]] \in Contents /\ Done(dir[identity[p]], step[p])
  BY DEF IInv, TypeOK, Progressing
<1>2. ASSUME NEW f \in Files, NEW next \in Building, Write(p, f, next),
             <<f, next>> \in {<<"private", "public">>, <<"public", "keys">>, <<"state", "staging">>}
      PROVE  IInv'
  <2>1. step[p] = f /\ f \in Building
    BY <1>2 DEF Write, Calls, Building
  <2>2. QED
    BY <1>1, <1>2, <2>1, WriteDone, StagingIInv DEF Write, Calls
<1>3. ASSUME NEW entries, NEW next \in Building, Sync(p, entries, next),
             <<step[p], entries, next>> \in {<<"keys", Keys, "state">>,
                                             <<"staging", {"keys", "state"}, "rename">>}
      PROVE  IInv'
  <2>1. step[p] \in Building
    BY <1>3 DEF Sync, Building
  <2>2. QED
    BY <1>1, <1>3, <2>1, SyncDone, StagingIInv DEF Sync, Calls
<1>4. QED
  BY <1>2, <1>3 DEF Build, Files, Building

\* The calls that publish, load and answer, failures and kills.  Only who has
\* the lock removes what was interrupted, and only where the lock excludes
\* the others; only a complete directory gets the name.
LEMMA ProcessIInv ==
  ASSUME IInv, NEW p \in Processes, Start(p) \/ LoadOrCreate(p) \/ Kill(p)
  PROVE  IInv'
<1> USE Distinct, ServerCredentialsAssumption
    DEF IInv, TypeOK, Exclusion, OwnDirectory, Progressing, Done, Published, Kept, Loaded,
        Steps, Locked, Owning, Building, Loading, Goto, disk, history
<1>1. CASE Start(p)
  BY <1>1 DEF Start, EnsureConfigurationRoot
<1>2. CASE Acquire(p)
  BY <1>2 DEF Acquire
<1>3. CASE Look(p)
  <2>1. CASE server = None
    BY <1>3, <2>1 DEF Look, Calls
  <2>2. CASE server # None /\ "state" \in dir[server].names
    BY <1>3, <2>2 DEF Look, Calls
  <2>3. CASE server # None /\ "state" \notin dir[server].names
    <3>1. server = 0 /\ lock = "flock"
      BY <2>3, CompleteHasState
    <3>2. Goto(p, "clean")
      BY <1>3, <2>3 DEF Look, Calls
    <3>3. QED
      BY <1>3, <3>1, <3>2 DEF Look, Calls
  <2>4. QED
    BY <2>1, <2>2, <2>3
<1>4. CASE RemoveInterrupted(p)
  BY <1>4 DEF RemoveInterrupted, Calls
<1>5. CASE SyncRemoval(p)
  BY <1>5 DEF SyncRemoval, Calls
<1>6. CASE MakeStaging(p)
  BY <1>6 DEF MakeStaging, Calls
<1>7. CASE Build(p)
  BY <1>7, BuildIInv
<1>8. CASE Rename(p)
  <2>1. CASE server = None
    <3>1. step[p] = "rename" /\ step' = [step EXCEPT ![p] = "publish"]
      BY <1>8, <2>1 DEF Rename, Calls
    <3>2. Complete(dir[identity[p]])
      BY <3>1 DEF Complete, Files, Keys
    <3>3. identity[p] \in Identities /\ identity[p] <= starts /\ server' = identity[p]
      BY <1>8, <2>1, <3>1 DEF Rename, Identities
    <3>4. QED
      BY <1>8, <2>1, <3>1, <3>2, <3>3 DEF Rename, Calls
  <2>2. CASE server # None
    <3>1. /\ step[p] = "rename" /\ step' = [step EXCEPT ![p] = "loadState"]
          /\ UNCHANGED <<lock, identity, created, holder, root, dir, server, kept, starts, printed, promised>>
      BY <1>8, <2>2 DEF Rename, Calls
    <3>2. QED
      BY <3>1
  <2>3. QED
    BY <2>1, <2>2
<1>9. CASE SyncPublication(p)
  BY <1>9 DEF SyncPublication
<1>10. CASE LoadState(p)
  BY <1>10 DEF LoadState
<1>11. CASE LoadKeys(p)
  BY <1>11 DEF LoadKeys, Calls
<1>12. CASE Return(p)
  BY <1>12 DEF Return, Leave
<1>13. CASE Fail(p)
  BY <1>13 DEF Fail, Leave
<1>14. CASE Kill(p)
  BY <1>14 DEF Kill
<1>15. QED
  BY <1>1, <1>2, <1>3, <1>4, <1>5, <1>6, <1>7, <1>8, <1>9, <1>10, <1>11, <1>12,
     <1>13, <1>14, Zenon DEF LoadOrCreate

\* A loss of power leaves a complete directory complete, because what was
\* synced is all there, and an empty one empty.
LEMMA RemainsComplete ==
  ASSUME NEW d \in Contents, NEW q \in Remains(d)
  PROVE  LET r == [q EXCEPT !.whole = @ \intersect q.names, !.synced = @ \intersect q.names]
         IN  /\ r \in Contents
             /\ Complete(d) => Complete(r)
             /\ d.names = {} /\ d.whole = {} => r.names = {} /\ r.whole = {}
<1> DEFINE r == [q EXCEPT !.whole = @ \intersect q.names, !.synced = @ \intersect q.names]
<1>1. PICK n \in SUBSET d.names, w \in SUBSET d.whole :
        /\ Durable(d) \subseteq n /\ d.synced \subseteq w
        /\ q = [names |-> n, whole |-> w, synced |-> w, named |-> n \union {"keys"}]
  BY DEF Remains
<1>2. r.names = n /\ r.whole = w \intersect n /\ r.synced = w \intersect n
      /\ r.named = n \union {"keys"}
  BY <1>1
<1>3. r \in Contents
  BY <1>1 DEF Contents
<1> HIDE DEF r
<1>4. ASSUME Complete(d) PROVE Complete(r)
  <2>1. Durable(d) = Files
    BY <1>4 DEF Durable, Complete
  <2>2. QED
    BY <1>1, <1>2, <1>4, <2>1 DEF Complete, OnDisk
<1>5. d.names = {} /\ d.whole = {} => r.names = {} /\ r.whole = {}
  BY <1>2
<1>6. QED
  BY <1>3, <1>4, <1>5 DEF r

\* A loss of power leaves the published directory, or what was there before.
LEMMA PowerLossIInv ==
  ASSUME IInv, PowerLoss
  PROVE  IInv'
<1> USE Distinct, ServerCredentialsAssumption DEF IInv
<1>1. /\ kept' = server'
      /\ step' = [p \in Processes |-> "idle"] /\ identity' = [p \in Processes |-> 0]
      /\ created' = [p \in Processes |-> FALSE] /\ holder' = {}
      /\ UNCHANGED <<lock, starts, promised>>
  BY DEF PowerLoss
<1>12. \/ root = "made" /\ root' = "absent" /\ server' = None /\ printed' = {}
      \/ /\ root' = (IF root = "made" THEN "kept" ELSE root)
         /\ server' \in {server, kept} /\ printed' = printed
  BY DEF PowerLoss
<1>13. server' \in {server, kept, None}
  BY <1>12
<1>2. Empty \in Contents /\ Empty.names = {} /\ Empty.whole = {}
  BY DEF Empty, Contents
<1>3. PICK r : /\ dir' = [g \in {0} \union Identities |-> IF g = server' THEN r ELSE Empty]
               /\ r \in IF server' = None THEN {Empty}
                        ELSE {[q EXCEPT !.whole = @ \intersect q.names,
                                        !.synced = @ \intersect q.names] : q \in Remains(dir[server'])}
  BY DEF PowerLoss
<1>4. /\ r \in Contents
      /\ server' \in Identities => Complete(r)
      /\ server' = 0 => r.names = {} /\ r.whole = {}
  <2>1. CASE server' = None
    BY <1>2, <1>3, <2>1
  <2>2. CASE server' # None
    <3>1. PICK q \in Remains(dir[server']) :
            r = [q EXCEPT !.whole = @ \intersect q.names, !.synced = @ \intersect q.names]
      BY <1>3, <2>2
    <3>2. server' \in 0..MaxStarts /\ dir[server'] \in Contents
      BY <1>13, <2>2 DEF TypeOK
    <3>3. server' \in Identities => Complete(dir[server'])
      BY <1>13 DEF Kept, Published
    <3>4. dir[0].names = {} /\ dir[0].whole = {}
      BY DEF Published
    <3>5. QED
      BY <3>1, <3>2, <3>3, <3>4, RemainsComplete
  <2>3. QED
    BY <2>1, <2>2
<1>5. TypeOK'
  BY <1>1, <1>12, <1>2, <1>3, <1>4 DEF TypeOK, Steps
<1>6. Exclusion' /\ OwnDirectory' /\ Progressing'
  BY <1>1 DEF Exclusion, OwnDirectory, Progressing, Done, Locked, Owning, Building, Loading
<1>7. server' = server \/ server' \in {None, 0}
  BY <1>13 DEF Kept
<1>8. dir'[0].names = {} /\ dir'[0].whole = {}
  BY <1>2, <1>3, <1>4
<1>9. Published'
  <2>1. server' \in Identities => server' <= starts' /\ Complete(dir'[server'])
    BY <1>1, <1>3, <1>4, <1>7 DEF Published
  <2>2. QED
    BY <1>1, <1>13, <1>8, <2>1, Distinct DEF Published
<1>10. Kept' /\ Loaded'
  <2>1. Kept'
    BY <1>1, <1>12 DEF TypeOK, Kept
  <2>2. \A p \in Processes : step'[p] = "idle" /\ ~ created'[p]
    BY <1>1
  <2>3. /\ \A v \in printed' : v = server' /\ kept' = server' /\ server' \in Identities
        /\ promised' \subseteq printed'
        /\ promised' # {} => root' = "kept"
    BY <1>1, <1>12 DEF Loaded
  <2>4. QED
    BY <2>1, <2>2, <2>3 DEF Loaded
<1>11. QED
  BY <1>5, <1>6, <1>9, <1>10

\* Every step preserves the invariant.
LEMMA StepIInv == IInv /\ [Next]_vars => IInv'
<1>1. ASSUME IInv, UNCHANGED vars
      PROVE  IInv'
  BY <1>1 DEF IInv, TypeOK, Exclusion, OwnDirectory, Progressing, Published, Kept, Loaded,
              vars, locals, disk, history
<1>2. QED
  BY <1>1, ProcessIInv, PowerLossIInv DEF Next

\* The invariant holds always.
LEMMA Inductive == Spec => []IInv
BY InitIInv, StepIInv, PTL DEF Spec

\* A directory that the next start takes for finished is whole, whoever was
\* killed and whenever power was lost (automatic.go:67-72).
THEOREM PublishedComplete == Spec => []PublishedIsComplete
<1>1. IInv => PublishedIsComplete
  <2> SUFFICES ASSUME IInv, server # None, "state" \in dir[server].names
               PROVE  Files \subseteq dir[server].whole
    BY DEF PublishedIsComplete
  <2>1. server \in Identities
    BY Distinct DEF IInv, TypeOK, Published
  <2>2. QED
    BY <2>1, CompleteHasState DEF IInv, Published
<1>2. QED
  BY <1>1, Inductive, PTL

-----------------------------------------------------------------------------

\* A step of one process writes the register, answers, or shows nothing: what
\* it removes was never finished.
LEMMA ProcessImplements ==
  ASSUME IInv, NEW p \in Processes, Start(p) \/ LoadOrCreate(p) \/ Kill(p)
  PROVE  [Register!Next]_(Register!vars)
<1> USE Distinct DEF Register!vars, disk, history
<1>1. CASE RemoveInterrupted(p)
  <2>1. server = 0 /\ server' = None
    BY <1>1 DEF RemoveInterrupted, Calls, IInv, Published
  <2>2. QED
    BY <1>1, <2>1 DEF RemoveInterrupted, Calls
<1>2. CASE Rename(p)
  <2>1. CASE server = None
    <3>1. step[p] = "rename" /\ server' = identity[p] /\ UNCHANGED history
      BY <1>2, <2>1 DEF Rename, Calls
    <3>2. identity[p] \in Identities \ {None} /\ identity[p] # 0
      BY <3>1 DEF IInv, TypeOK, OwnDirectory, Owning, Building, Identities
    <3>3. Register!Set(identity[p])
      BY <2>1, <3>1, <3>2 DEF Register!Set
    <3>4. QED
      BY <3>2, <3>3 DEF Register!Next
  <2>2. CASE server # None
    BY <1>2, <2>2 DEF Rename, Calls
  <2>3. QED
    BY <2>1, <2>2
<1>3. CASE Return(p)
  <2>1. server \in Identities /\ identity[p] = server
    BY <1>3 DEF Return, IInv, Loaded
  <2>2. Register!Answer
    BY <1>3, <2>1 DEF Return, Register!Answer
  <2>3. QED
    BY <2>2 DEF Register!Next
<1>4. CASE Start(p) \/ Acquire(p) \/ Look(p) \/ SyncRemoval(p) \/ MakeStaging(p)
           \/ SyncPublication(p) \/ LoadState(p) \/ LoadKeys(p) \/ Fail(p) \/ Kill(p)
  BY <1>4 DEF Start, EnsureConfigurationRoot, Acquire, Look, SyncRemoval, MakeStaging, SyncPublication,
              LoadState, LoadKeys, Fail, Kill, Calls
<1>5. CASE Build(p)
  BY <1>5 DEF Build, Write, Sync, Calls
<1>6. QED
  BY <1>1, <1>2, <1>3, <1>4, <1>5 DEF LoadOrCreate

\* A loss of power is one of the register: what was promised is kept.
LEMMA PowerLossImplements ==
  ASSUME IInv, PowerLoss
  PROVE  [Register!Next]_(Register!vars)
<1>1. /\ server' \in {server, kept, None} /\ answered' = {} /\ promised' = promised
      /\ root = "kept" => server' \in {server, kept}
  BY DEF PowerLoss
<1>2. /\ kept \in {None, 0, server}
      /\ promised # {} => root = "kept" /\ kept = server
  BY DEF IInv, Kept, Loaded
<1>3. Register!Lose
  BY <1>1, <1>2, Distinct DEF Register!Lose
<1>4. QED
  BY <1>3 DEF Register!Next

\* Processes that start together, are killed, or come after a loss of power
\* have one identity, and one whose token was printed at creation, in a
\* configuration directory that is on disk, is there for good
\* (automatic.go:44-131).
THEOREM CredentialsImplement == Spec => IdentityKept
<1>1. Init => Register!Init
  BY Distinct DEF Init, Register!Init
<1>2. IInv /\ [Next]_vars => [Register!Next]_(Register!vars)
  <2>1. ASSUME UNCHANGED vars
        PROVE  UNCHANGED Register!vars
    BY <2>1 DEF vars, Register!vars, disk, history
  <2>2. QED
    BY <2>1, ProcessImplements, PowerLossImplements DEF Next
<1>3. QED
  BY <1>1, <1>2, Inductive, PTL DEF Spec, IdentityKept, Register!Spec

\* All calls that returned an identity since power was lost have that of the
\* published directory, and so do those that printed its token since the
\* configuration directory was lost, if it ever was (automatic.go:44-131).
THEOREM ServersAgree == Spec => [](\A v \in answered \union printed : v = server)
<1> DEFINE Agree == IInv /\ \A v \in answered : v = server /\ v \in Identities
<1>1. Init => Agree
  BY InitIInv DEF Init
<1>2. Agree /\ [Next]_vars => Agree'
  <2> SUFFICES ASSUME IInv, \A v \in answered : v = server /\ v \in Identities, [Next]_vars
               PROVE  \A v \in answered' : v = server' /\ v \in Identities
    BY StepIInv
  <2>1. CASE PowerLoss
    BY <2>1 DEF PowerLoss
  <2>2. ASSUME NEW p \in Processes, Return(p)
        PROVE  \A v \in answered' : v = server' /\ v \in Identities
    BY <2>2 DEF Return, disk, IInv, Loaded
  <2>3. ASSUME NEW p \in Processes, RemoveInterrupted(p) \/ Rename(p)
        PROVE  \A v \in answered' : v = server' /\ v \in Identities
    BY <2>3, Distinct DEF RemoveInterrupted, Rename, Calls, disk, history, IInv, Published
  <2>4. ASSUME NEW p \in Processes,
               \/ Start(p) \/ Acquire(p) \/ Look(p) \/ SyncRemoval(p) \/ MakeStaging(p) \/ Build(p)
               \/ SyncPublication(p) \/ LoadState(p) \/ LoadKeys(p) \/ Fail(p) \/ Kill(p)
        PROVE  UNCHANGED <<answered, server>>
    BY <2>4 DEF Start, EnsureConfigurationRoot, Acquire, Look, SyncRemoval, MakeStaging, Build, Write, Sync, SyncPublication,
                LoadState, LoadKeys, Fail, Kill, Calls, disk, history
  <2>5. CASE UNCHANGED vars
    BY <2>5 DEF vars, disk, history
  <2>6. QED
    BY <2>1, <2>2, <2>3, <2>4, <2>5 DEF Next, LoadOrCreate
<1>3. Agree => \A v \in answered \union printed : v = server
  BY DEF IInv, Loaded
<1>4. QED
  BY <1>1, <1>2, <1>3, Inductive, PTL DEF Spec

\* What was printed stays so, but for a loss of the configuration directory.
LEMMA PrintedStays ==
  ASSUME Next
  PROVE  /\ printed \subseteq printed' \/ (root = "made" /\ root' = "absent")
         /\ promised \subseteq promised'
BY DEF Next, LoadOrCreate, PowerLoss, Start, EnsureConfigurationRoot, Kill, Acquire, Look, RemoveInterrupted,
       SyncRemoval, MakeStaging, Build, Write, Sync, Rename, SyncPublication,
       LoadState, LoadKeys, Return, Fail, Calls, history

\* An identity whose token was printed is not lost or replaced by kills, other
\* processes or losses of power, except by one that takes a configuration
\* directory made since the last one, whose entry nothing has synced
\* (automatic.go:49, 116, 128).
THEOREM PrintedLasts ==
  Spec => [][\A v \in printed : server' = v \/ (root = "made" /\ root' = "absent")]_vars
<1>1. IInv' /\ [Next]_vars
        => [\A v \in printed : server' = v \/ (root = "made" /\ root' = "absent")]_vars
  BY PrintedStays DEF IInv, Loaded
<1>2. QED
  BY <1>1, Inductive, PTL DEF Spec

\* What was promised lasts without exception: an identity whose token was
\* printed in a configuration directory that was on disk (automatic.go:116).
THEOREM PromisedLasts == Spec => [][\A v \in promised : server' = v]_vars
<1>1. IInv' /\ [Next]_vars => [\A v \in promised : server' = v]_vars
  BY PrintedStays DEF IInv, Loaded
<1>2. QED
  BY <1>1, Inductive, PTL DEF Spec
=============================================================================
