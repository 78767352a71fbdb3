------------------------- MODULE ServerCredentials -------------------------
(***************************************************************************)
(* The default credentials of a server, appconfig/automatic.go: server     *)
(* processes that start at the same time load server/credentials.json and  *)
(* its keys, or create them: under a file lock, in a staging directory of  *)
(* their own that is renamed to "server" when everything in it is on disk. *)
(* Every system call may fail, every process may be killed, and power may  *)
(* be lost, upon which what was not synced may be there or not.            *)
(*                                                                         *)
(* A directory is known by the identity that was generated in it: a number *)
(* in order of creation.  0 is a directory without credentials.json.  All  *)
(* are in the configuration directory, which a start makes if need be; its *)
(* own entry in the directory above it is never synced.                    *)
(***************************************************************************)
EXTENDS Naturals, FiniteSets

CONSTANTS
  Processes,   \* server processes
  MaxStarts,   \* bound: calls of LoadOrCreateDefaultServerCredentials
  None         \* no directory

ASSUME ServerCredentialsAssumption ==
  MaxStarts \in Nat \ {0} /\ None \notin 0..MaxStarts

VARIABLES
  lock,       \* "flock" (lock_unix.go), or "mutex" (lock_other.go), which
              \* does not exclude other processes
  step,       \* step[p]: the next system call of p, "idle" outside the function
  identity,   \* identity[p]: of the staging directory, or of the loaded state
  created,    \* created[p]: p has published its own directory
  holder,     \* the holders of the lock
  root,       \* the configuration directory: "absent", "made" by a start
              \* since power was last lost, or "kept" on disk
  dir,        \* dir[g]: contents of directory g
  server,     \* the directory named "server", or None
  kept,       \* the one that a loss of power leaves for certain
  starts,     \* calls so far; a staging directory has the number of its call
  answered,   \* history: identities returned since power was lost
  printed,    \* history: identities whose token was printed at creation,
              \* since the configuration directory was last lost
  promised    \* history: those printed with that directory on disk

locals == <<step, identity, created, holder>>
disk == <<root, dir, server, kept>>
history == <<answered, printed, promised>>
vars == <<lock, locals, disk, starts, history>>

Files == {"private", "public", "state"}
Keys == {"private", "public"}
Identities == 1..MaxStarts

\* names: files there now; whole: with all their data; synced: data on disk;
\* named: directory entries on disk, "keys" being that of the subdirectory.
Empty == [names |-> {}, whole |-> {}, synced |-> {}, named |-> {}]

\* Files whose names are certain to survive.
Durable(d) == {f \in d.named \intersect Files : f \in Keys => "keys" \in d.named}

-----------------------------------------------------------------------------

\* A lock file that cannot be opened ends the call before it has begun; once
\* it waits for the lock, it waits.
Fallible == {"clean", "cleaned", "make", "private", "public", "keys",
             "state", "staging", "rename", "publish", "loadState", "loadKeys"}

Goto(p, next) == step' = [step EXCEPT ![p] = next]

\* From "at" to "next", a call that touches nothing but the disk.
Calls(p, at, next) ==
  /\ step[p] = at
  /\ Goto(p, next)
  /\ UNCHANGED <<identity, created, holder, lock, starts, history>>

\* Mutant: the lock is released by hand, and not when an error is returned.
LeaveLocked(p) ==
  /\ Goto(p, "idle")
  /\ identity' = [identity EXCEPT ![p] = 0]
  /\ created' = [created EXCEPT ![p] = FALSE]
  /\ holder' = IF step[p] = "return" THEN holder \ {p} ELSE holder

\* The deferred functions: the lock is released, the staging directory
\* removed (a directory that was renamed has left it).
Leave(p) ==
  /\ Goto(p, "idle")
  /\ identity' = [identity EXCEPT ![p] = 0]
  /\ created' = [created EXCEPT ![p] = FALSE]
  /\ holder' = holder \ {p}

\* The directory is made if need be, and nothing syncs its entry.
EnsureConfigurationRoot == root' = IF root = "absent" THEN "made" ELSE root

Start(p) ==
  /\ step[p] = "idle" /\ starts < MaxStarts
  /\ Goto(p, "acquire")
  /\ identity' = [identity EXCEPT ![p] = starts + 1]
  /\ starts' = starts + 1
  /\ EnsureConfigurationRoot
  /\ UNCHANGED <<created, holder, dir, server, kept, lock, history>>

Acquire(p) ==
  /\ step[p] = "acquire"
  /\ lock = "flock" => holder = {}
  /\ holder' = holder \union {p}
  /\ Goto(p, "look")
  /\ UNCHANGED <<identity, created, disk, lock, starts, history>>

Look(p) ==
  /\ Calls(p, "look",
       CASE server = None -> "make"
         [] server # None /\ "state" \in dir[server].names -> "loadState"
         [] OTHER -> "clean")
  /\ UNCHANGED disk

RemoveInterrupted(p) ==
  /\ Calls(p, "clean", "cleaned")
  /\ server' = None
  /\ UNCHANGED <<root, dir, kept>>

SyncRemoval(p) ==
  /\ Calls(p, "cleaned", "make")
  /\ kept' = server
  /\ UNCHANGED <<root, dir, server>>

MakeStaging(p) ==
  /\ Calls(p, "make", "private")
  /\ UNCHANGED disk

\* writeExclusivePEM and writeExclusiveFile: the file gets its name and its
\* data, and the data are synced.  Nobody looks into a staging directory of
\* another process, so the order of these calls inside it does not show.
Written(d, f) ==
  [d EXCEPT !.names = @ \union {f}, !.whole = @ \union {f}, !.synced = @ \union {f}]

Write(p, f, next) ==
  /\ Calls(p, f, next)
  /\ dir' = [dir EXCEPT ![identity[p]] = Written(@, f)]
  /\ UNCHANGED <<root, server, kept>>

\* syncDirectory of a directory whose entries are these.
Sync(p, entries, next) ==
  /\ step[p] \in {"keys", "staging"}
  /\ Calls(p, step[p], next)
  /\ dir' = [dir EXCEPT ![identity[p]].named = @ \union entries]
  /\ UNCHANGED <<root, server, kept>>

\* Mutant: the state file is written before the keys are on disk.
BuildStateFirst(p) ==
  \/ Write(p, "private", "public")
  \/ Write(p, "public", "state")
  \/ Write(p, "state", "staging")
  \/ step[p] = "staging" /\ Sync(p, {"keys", "state"}, "rename")

\* The calls that fill a staging directory, in order.
Build(p) ==
  \/ Write(p, "private", "public")
  \/ Write(p, "public", "keys")
  \/ step[p] = "keys" /\ Sync(p, Keys, "state")
  \/ Write(p, "state", "staging")
  \/ step[p] = "staging" /\ Sync(p, {"keys", "state"}, "rename")

\* A directory cannot be renamed to the name of another; the one that is
\* there is loaded instead.
Rename(p) ==
  \/ /\ server = None
     /\ Calls(p, "rename", "publish")
     /\ server' = identity[p]
     /\ UNCHANGED <<root, dir, kept>>
  \/ /\ server # None
     /\ Calls(p, "rename", "loadState")
     /\ UNCHANGED disk

\* Mutant: the directory that holds the new name is not synced.
SyncPublicationNot(p) ==
  /\ step[p] = "publish"
  /\ Goto(p, "loadState")
  /\ created' = [created EXCEPT ![p] = TRUE]
  /\ UNCHANGED <<identity, holder, disk, lock, starts, history>>

SyncPublication(p) ==
  /\ step[p] = "publish"
  /\ Goto(p, "loadState")
  /\ created' = [created EXCEPT ![p] = TRUE]
  /\ kept' = server
  /\ UNCHANGED <<identity, holder, root, dir, server, lock, starts, history>>

\* loadDefaultServerCredentials reads the state and then the keys, each by
\* its path.
LoadState(p) ==
  /\ step[p] = "loadState"
  /\ server # None
  /\ "state" \in dir[server].whole
  /\ Goto(p, "loadKeys")
  /\ identity' = [identity EXCEPT ![p] = server]
  /\ UNCHANGED <<created, holder, disk, lock, starts, history>>

LoadKeys(p) ==
  /\ server # None
  /\ Keys \subseteq dir[server].whole
  /\ Calls(p, "loadKeys", "return")
  /\ UNCHANGED disk

\* The token is printed when the credentials were created, and may be relied
\* on if the directory that they are in is itself on disk.  (Shown again on
\* demand it changes nothing.)
Return(p) ==
  /\ step[p] = "return"
  /\ answered' = answered \union {identity[p]}
  /\ printed' = IF created[p] THEN printed \union {identity[p]} ELSE printed
  /\ promised' = IF created[p] /\ root = "kept" THEN promised \union {identity[p]} ELSE promised
  /\ Leave(p)
  /\ UNCHANGED <<disk, lock, starts>>

\* A system call fails, or what it reads is not whole, and so does the call.
Fail(p) ==
  /\ step[p] \in Fallible
  /\ Leave(p)
  /\ UNCHANGED <<disk, lock, starts, history>>

\* LoadOrCreateDefaultServerCredentials, and the printing of the token.
LoadOrCreate(p) ==
  \/ Acquire(p) \/ Look(p) \/ RemoveInterrupted(p) \/ SyncRemoval(p) \/ MakeStaging(p)
  \/ Build(p) \/ Rename(p) \/ SyncPublication(p)
  \/ LoadState(p) \/ LoadKeys(p) \/ Return(p) \/ Fail(p)

\* The process is killed; the kernel releases its lock.
Kill(p) ==
  /\ step[p] # "idle"
  /\ Goto(p, "idle")
  /\ identity' = [identity EXCEPT ![p] = 0]
  /\ created' = [created EXCEPT ![p] = FALSE]
  /\ holder' = holder \ {p}
  /\ UNCHANGED <<disk, lock, starts, history>>

\* What may be left of directory d: names on disk and perhaps others, data on
\* disk and perhaps others.
Remains(d) ==
  {[names |-> n, whole |-> w, synced |-> w, named |-> n \union {"keys"}] :
     n \in {m \in SUBSET d.names : Durable(d) \subseteq m},
     w \in {v \in SUBSET d.whole : d.synced \subseteq v}}

\* The configuration directory goes with all that is in it, if it can, or is
\* found on disk.
PowerLoss ==
  /\ \/ /\ root = "made" /\ root' = "absent"
        /\ server' = None
        /\ printed' = {}
     \/ /\ root' = IF root = "made" THEN "kept" ELSE root
        /\ server' \in {server, kept}
        /\ UNCHANGED printed
  /\ kept' = server'
  /\ dir' \in {[g \in {0} \union Identities |-> IF g = server' THEN r ELSE Empty] :
                 r \in IF server' = None THEN {Empty}
                       ELSE {[q EXCEPT !.whole = @ \intersect q.names,
                                       !.synced = @ \intersect q.names] : q \in Remains(dir[server'])}}
  /\ step' = [p \in Processes |-> "idle"]
  /\ identity' = [p \in Processes |-> 0]
  /\ created' = [p \in Processes |-> FALSE]
  /\ holder' = {}
  /\ answered' = {}
  /\ UNCHANGED <<lock, starts, promised>>

\* An interrupted creation by a version without staging directories is taken
\* up where the lock excludes other processes.  (Where it does not, a second
\* process may remove what the first has put in its place.)
Init ==
  /\ step = [p \in Processes |-> "idle"]
  /\ identity = [p \in Processes |-> 0]
  /\ created = [p \in Processes |-> FALSE]
  /\ holder = {}
  /\ dir = [g \in {0} \union Identities |-> Empty]
  /\ lock \in {"flock", "mutex"}
  /\ root \in {"absent", "kept"}
  /\ server \in IF lock = "flock" /\ root = "kept" THEN {None, 0} ELSE {None}
  /\ kept = server
  /\ starts = 0
  /\ answered = {} /\ printed = {} /\ promised = {}

Next ==
  \/ \E p \in Processes : Start(p) \/ LoadOrCreate(p) \/ Kill(p)
  \/ PowerLoss

\* A process runs, and the kernel gives the lock to one that waits.  Calls
\* are bounded, so that no waiting process is overtaken for ever.
Fairness == \A p \in Processes : WF_vars(LoadOrCreate(p))

Spec == Init /\ [][Next]_vars /\ Fairness

-----------------------------------------------------------------------------

\* A directory that the next start takes for finished, because it has a
\* credentials.json, has whole keys and a whole state, after kills and losses
\* of power as well: a start never repairs it (automatic.go:67-72), so that
\* the server could not be started any more.
PublishedIsComplete ==
  server # None /\ "state" \in dir[server].names => Files \subseteq dir[server].whole

\* Server processes that start together, are killed, or come after a loss of
\* power all have one identity, and one whose token was printed at creation is
\* there for good, if only the configuration directory was on disk before
\* (automatic.go:116 syncs what is in it, and nothing its own entry): the
\* credentials are a register that is written once (refinement of WriteOnce).
Register == INSTANCE WriteOnce WITH
  Values <- Identities,
  value <- IF server = 0 THEN None ELSE server,
  promised <- promised

IdentityKept == Register!Spec

\* Every call returns, whatever the other processes do, and if they are killed.
CallsReturn == \A p \in Processes : step[p] # "idle" ~> step[p] = "idle"
=============================================================================
