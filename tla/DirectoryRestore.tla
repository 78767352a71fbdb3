-------------------------- MODULE DirectoryRestore --------------------------
(***************************************************************************)
(* client.Receive and archive.Extract: a verified archive becomes a        *)
(* directory.  Several downloads may have the same destination, and the    *)
(* user may make a directory of that name in the meantime.  Entries are    *)
(* restored in a staging directory, directories get their modes last and   *)
(* deepest first, and the staging directory is renamed.  What failed is    *)
(* removed as far as its modes allow.  What a download asked for may be an *)
(* empty directory.                                                        *)
(*                                                                         *)
(* An entry is known by its path, a sequence of names.                     *)
(***************************************************************************)
EXTENDS Naturals, Sequences, FiniteSets

CONSTANTS
  Receivers,     \* calls of Receive with the same destination
  Entries,       \* an archive: paths in the order of archive.Create's walk
  Directories,   \* those that are directories
  None           \* no directory

Paths == {Entries[i] : i \in DOMAIN Entries}

ASSUME DirectoryRestoreAssumption ==
  /\ Entries \in Seq(Seq(STRING))
  /\ Directories \subseteq Paths
  /\ \A e \in Paths : Len(e) > 1 => SubSeq(e, 1, Len(e) - 1) \in Directories
  /\ Receivers \intersect {None, "mine", "used"} = {} /\ None \notin {"mine", "used"}

VARIABLES
  empty,        \* the calls whose archive has no entries; the others' has Entries
  mode,         \* mode[d]: of directory d in the archive
  privileged,   \* the client runs as root, whom modes do not stop
  step,         \* step[r]: what r does next
  download,     \* download[r]: r's temporary archive exists
  staged,       \* staged[r]: number of entries in r's staging directory, or None
  modesSet,     \* modesSet[r]: directories in it that have their modes
  destination,  \* None, "mine" (of the user, empty), "used" (with files), or a receiver
  denied        \* history: an access that modes set before did not allow

files == <<download, staged, modesSet, destination>>
packed == <<empty, mode>>
restoreVars == <<packed, privileged, step, files, denied>>

Modes == {"open", "readonly", "closed"}   \* rwx, r-x, --- for the owner

\* The directories on the way to e.
Above(e) == {d \in Directories : \E n \in 1..(Len(e) - 1) : d = SubSeq(e, 1, n)}

Occupied(d) == \E e \in Paths : d \in Above(e)

ArchiveLength(r) == IF r \in empty THEN 0 ELSE Len(Entries)
DirectoriesOf(r) == IF r \in empty THEN {} ELSE Directories

Goto(r, next) == step' = [step EXCEPT ![r] = next]

-----------------------------------------------------------------------------

\* Receive and Extract inspect the destination; the download in between
\* comes to its end or fails.
Inspect(r) ==
  /\ step[r] \in {"look", "inspect"}
  /\ destination = None
  /\ \/ /\ step[r] = "look"
        /\ Goto(r, "download")
        /\ download' = [download EXCEPT ![r] = TRUE]
        /\ UNCHANGED staged
     \/ /\ step[r] = "inspect"
        /\ Goto(r, "extract")
        /\ staged' = [staged EXCEPT ![r] = 0]
        /\ UNCHANGED download
  /\ UNCHANGED <<packed, privileged, modesSet, destination, denied>>

Download(r) ==
  /\ step[r] = "download"
  /\ Goto(r, "inspect")
  /\ UNCHANGED <<packed, privileged, files, denied>>

ExtractEntry(r) ==
  /\ step[r] = "extract"
  /\ IF staged[r] < ArchiveLength(r)
       THEN staged' = [staged EXCEPT ![r] = @ + 1] /\ UNCHANGED step
       ELSE Goto(r, "modes") /\ UNCHANGED staged
  /\ UNCHANGED <<packed, privileged, download, modesSet, destination, denied>>

\* Mutant: directories get their modes in the order of the archive.
NextDirectoriesAsPacked(r) ==
  LET left == DirectoriesOf(r) \ modesSet[r]
  IN  {d \in left : \A other \in left : Len(d) <= Len(other)}

\* The directories sorted by depth, deepest first; sort.Slice leaves open
\* the order of those of one depth.
NextDirectories(r) ==
  LET left == DirectoriesOf(r) \ modesSet[r]
  IN  {d \in left : \A other \in left : Len(d) >= Len(other)}

\* Whether r gets at what is below these directories.
Reachable(r, above) ==
  privileged \/ \A d \in above \intersect modesSet[r] : mode[d] # "closed"

SetMode(r) ==
  /\ step[r] = "modes"
  /\ \E d \in NextDirectories(r) :
       /\ modesSet' = [modesSet EXCEPT ![r] = @ \union {d}]
       /\ Goto(r, IF Reachable(r, Above(d)) THEN "modes" ELSE "failed")
       /\ denied' = (denied \/ ~Reachable(r, Above(d)))
  /\ UNCHANGED <<packed, privileged, download, staged, destination>>

\* Mutant: the staging directory is renamed before it has all its modes.
ModesDoneEarly(r) == Cardinality(modesSet[r]) + 1 >= Cardinality(DirectoriesOf(r))

ModesDone(r) == modesSet[r] = DirectoriesOf(r)

\* os.Rename looks whether the new name is that of a directory ...
CheckRename(r) ==
  /\ step[r] = "modes" /\ ModesDone(r)
  /\ Goto(r, IF destination = None THEN "rename" ELSE "failed")
  /\ UNCHANGED <<packed, privileged, files, denied>>

\* ... and calls rename(2), which replaces an empty directory, whoever made
\* it, and no other.
Rename(r) ==
  /\ step[r] = "rename"
  /\ IF destination \in {None, "mine"} \union empty
       THEN /\ destination' = r
            /\ staged' = [staged EXCEPT ![r] = None]
            /\ Goto(r, "restored")
       ELSE Goto(r, "failed") /\ UNCHANGED <<destination, staged>>
  /\ UNCHANGED <<packed, privileged, download, modesSet, denied>>

\* The destination exists, or some call fails.
Fail(r) ==
  /\ step[r] \in {"look", "download", "inspect", "extract", "modes", "rename"}
  /\ Goto(r, "failed")
  /\ UNCHANGED <<packed, privileged, files, denied>>

\* os.RemoveAll cannot empty a directory that may not be written.
Removable(r) ==
  privileged \/ \A d \in modesSet[r] : Occupied(d) => mode[d] = "open"

\* The deferred functions of Extract and Receive; what cannot be removed stays.
Clean(r) ==
  /\ step[r] \in {"failed", "restored"}
  /\ Goto(r, IF step[r] = "failed" THEN "error" ELSE "ok")
  /\ download' = [download EXCEPT ![r] = FALSE]
  /\ staged' = IF Removable(r) THEN [staged EXCEPT ![r] = None] ELSE staged
  /\ UNCHANGED <<packed, privileged, modesSet, destination, denied>>

ReceiveDirectory(r) ==
  \/ Inspect(r) \/ Download(r) \/ ExtractEntry(r) \/ SetMode(r)
  \/ CheckRename(r) \/ Rename(r) \/ Fail(r) \/ Clean(r)

\* udpfile download has no signal handler: it dies at once.
Kill(r) ==
  /\ step[r] \notin {"killed", "ok", "error"}
  /\ Goto(r, "killed")
  /\ UNCHANGED <<packed, privileged, files, denied>>

\* The user makes the directory, or puts files into an empty one.
MakeDirectory ==
  /\ destination' = CASE destination = None -> "mine"
                      [] destination \in {"mine"} \union empty -> "used"
                      [] OTHER -> destination
  /\ UNCHANGED <<packed, privileged, step, download, staged, modesSet, denied>>

RestoreInit ==
  /\ empty \in SUBSET Receivers
  /\ mode \in [Directories -> Modes]
  /\ privileged \in BOOLEAN
  /\ step = [r \in Receivers |-> "look"]
  /\ download = [r \in Receivers |-> FALSE]
  /\ staged = [r \in Receivers |-> None]
  /\ modesSet = [r \in Receivers |-> {}]
  /\ destination = None
  /\ denied = FALSE

RestoreNext == (\E r \in Receivers : ReceiveDirectory(r) \/ Kill(r)) \/ MakeDirectory

RestoreSpec == RestoreInit /\ [][RestoreNext]_restoreVars

-----------------------------------------------------------------------------

\* Whatever else happens to that name, and at whatever point a download is
\* killed: a directory of a download appears at the destination complete and
\* with all its modes.  One with entries stays, so that only one such call
\* returns without error; an empty one gives way at most to the directory of
\* another download (archive.go:276) or to files of the user.
DestinationWhole ==
  /\ destination \in Receivers =>
       /\ modesSet[destination] = DirectoriesOf(destination)
       /\ step[destination] \in {"restored", "ok", "killed"}
  /\ \A r \in Receivers : step[r] \in {"restored", "ok"} =>
       destination = r \/ (r \in empty /\ destination \in Receivers \union {"used"})

\* Setting the mode of one directory never locks the client out of another
\* that is still to be set: what a server could pack, a client can restore.
NotDenied == ~denied
=============================================================================
