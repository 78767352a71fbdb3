------------------------- MODULE ClientCredentials -------------------------
(***************************************************************************)
(* What a client remembers of one server: appconfig/client_store.go with   *)
(* its callers, udpfile download (cli/client.go) and the goroutines of the *)
(* web helper (webui/handler.go).  A client that finds no credentials uses *)
(* those of a pairing token, and saves them when the download has worked.  *)
(* Nothing but the file system keeps clients apart: a file is written      *)
(* under another name and linked to its own, which fails if it exists.     *)
(*                                                                         *)
(* Credentials are known by the identity of the server: a number, which    *)
(* grows when the server is re-keyed.                                      *)
(***************************************************************************)
EXTENDS Naturals

CONSTANTS
  Clients,         \* processes, or goroutines of the web helper
  MaxIdentities,   \* bound: identities that the server has one after another
  None             \* no credentials

ASSUME ClientCredentialsAssumption ==
  MaxIdentities \in Nat \ {0} /\ None \notin 0..MaxIdentities

VARIABLES
  step,      \* step[c]: what c does next
  mine,      \* mine[c]: the credentials that c uses
  token,     \* token[c]: those of the token that c was given, or None
  current,   \* the identity of the server
  directory, \* of all files: "absent", "made" by a client since power was last
             \* lost, or "kept" on disk; nothing syncs its own entry
  file,      \* what is stored, or None
  synced,    \* the file's entry in the directory is on disk
  answered,  \* history: credentials that clients loaded, or saved, since power was lost
  reported,  \* history: those reported as saved, since the file was last lost
  promised   \* history: those reported as saved when they were on disk

locals == <<step, mine, token>>
disk == <<directory, file, synced>>
history == <<answered, reported, promised>>
vars == <<locals, current, disk, history>>

Identities == 1..MaxIdentities
Saving == {"saveLoad", "link", "sync"}

Goto(c, next) ==
  /\ step' = [step EXCEPT ![c] = next]
  /\ UNCHANGED <<mine, token>>

End(c) ==
  /\ step' = [step EXCEPT ![c] = "idle"]
  /\ mine' = [mine EXCEPT ![c] = None]
  /\ token' = [token EXCEPT ![c] = None]

-----------------------------------------------------------------------------

\* NewDefaultClientCredentialStore makes the directory if need be.
EnsureDirectory == directory' = IF directory = "absent" THEN "made" ELSE directory

\* A client is started, with or without a token of the server of these days
\* or of earlier ones.
Start(c) ==
  /\ step[c] = "idle"
  /\ step' = [step EXCEPT ![c] = "load"]
  /\ token' \in {[token EXCEPT ![c] = t] : t \in {None} \union 1..current}
  /\ EnsureDirectory
  /\ UNCHANGED <<mine, current, file, synced, history>>

Load(c) ==
  /\ step[c] = "load"
  /\ \/ /\ file = None /\ token[c] # None
        /\ step' = [step EXCEPT ![c] = "download"]
        /\ mine' = [mine EXCEPT ![c] = token[c]]
     \/ /\ file # None
        /\ step' = [step EXCEPT ![c] = IF token[c] = None THEN "use" ELSE "check"]
        /\ mine' = [mine EXCEPT ![c] = file]
  /\ UNCHANGED <<token, current, disk, history>>

\* A token given in addition is passed to Save, which must find the same.
\* This is not reported as saving.
Check(c) ==
  /\ step[c] = "check" /\ file = token[c]
  /\ Goto(c, "use")
  /\ UNCHANGED <<current, disk, history>>

\* The cached credentials are what the client goes on with.
Use(c) ==
  /\ step[c] = "use"
  /\ End(c)
  /\ answered' = answered \union {mine[c]}
  /\ UNCHANGED <<current, disk, reported, promised>>

\* A download with the credentials of a token works if they are the server's.
Download(c) ==
  /\ step[c] = "download" /\ mine[c] = current
  /\ Goto(c, "saveLoad")
  /\ UNCHANGED <<current, disk, history>>

\* Save has returned without an error, and the client says that the
\* credentials are saved.
Saved(c, onDisk) ==
  /\ End(c)
  /\ answered' = answered \union {mine[c]}
  /\ reported' = reported \union {mine[c]}
  /\ promised' = IF onDisk THEN promised \union {mine[c]} ELSE promised

\* Save looks for credentials and finds the same, which the client that
\* linked them may not have synced yet, or none: then it writes and syncs a
\* temporary file, which concerns nobody before it is linked.
SaveLoad(c) ==
  /\ step[c] = "saveLoad"
  /\ \/ /\ file = mine[c]
        /\ Saved(c, synced /\ directory = "kept")
     \/ /\ file = None
        /\ Goto(c, "link")
        /\ UNCHANGED history
  /\ UNCHANGED <<current, disk>>

\* The name is free.
Linked(c) ==
  /\ file = None
  /\ file' = mine[c] /\ synced' = FALSE
  /\ Goto(c, "sync")
  /\ UNCHANGED directory

\* Mutant: the temporary file is renamed, whatever is there.
LinkOver(c) ==
  /\ step[c] = "link"
  /\ file' = mine[c] /\ synced' = FALSE
  /\ Goto(c, "sync")
  /\ UNCHANGED <<current, directory, history>>

\* Mutant: when the name is taken, only the link is tried again.
LinkAgain(c) ==
  /\ step[c] = "link"
  /\ Linked(c) \/ (file # None /\ Goto(c, "link") /\ UNCHANGED disk)
  /\ UNCHANGED <<current, history>>

\* The temporary file gets its name; if that is taken, Save starts again.
Link(c) ==
  /\ step[c] = "link"
  /\ Linked(c) \/ (file # None /\ Goto(c, "saveLoad") /\ UNCHANGED disk)
  /\ UNCHANGED <<current, history>>

\* The directory is synced, and with it the entry of the file.
Sync(c) ==
  /\ step[c] = "sync"
  /\ synced' = TRUE
  /\ Saved(c, directory = "kept")
  /\ UNCHANGED <<current, directory, file>>

\* There is neither a file nor a token, the credentials do not fit, or they
\* differ from those stored.
Refuse(c) ==
  /\ \/ step[c] = "load" /\ file = None /\ token[c] = None
     \/ step[c] = "check" /\ file # token[c]
     \/ step[c] = "download" /\ mine[c] # current
     \/ step[c] = "saveLoad" /\ file \notin {None, mine[c]}
  /\ End(c)
  /\ UNCHANGED <<current, disk, history>>

\* A system call or the download fails, or the client is killed.
Fail(c) ==
  /\ step[c] # "idle"
  /\ End(c)
  /\ UNCHANGED <<current, disk, history>>

Client(c) ==
  \/ Load(c) \/ Check(c) \/ Use(c) \/ Download(c)
  \/ SaveLoad(c) \/ Link(c) \/ Sync(c) \/ Refuse(c)

Rekey ==
  /\ current < MaxIdentities
  /\ current' = current + 1
  /\ UNCHANGED <<locals, disk, history>>

\* The user removes the file of a server that was re-keyed, as the message of
\* Save says, while no client runs.  That power is lost before the removal is
\* on disk, so that the old file comes back, is left out.
Remove ==
  /\ file # None
  /\ \A c \in Clients : step[c] = "idle"
  /\ file' = None /\ synced' = FALSE
  /\ answered' = {} /\ reported' = {} /\ promised' = {}
  /\ UNCHANGED <<locals, current, directory>>

\* The directory goes with the file in it, if it can, or is found on disk.
PowerLoss ==
  /\ \/ /\ directory = "made" /\ directory' = "absent"
        /\ file' = None
     \/ /\ directory' = IF directory = "made" THEN "kept" ELSE directory
        /\ UNCHANGED file \/ (~synced /\ file' = None)
  /\ synced' = (file' # None)
  /\ step' = [c \in Clients |-> "idle"]
  /\ mine' = [c \in Clients |-> None]
  /\ token' = [c \in Clients |-> None]
  /\ answered' = {}
  /\ reported' = IF file' = None THEN {} ELSE reported
  /\ UNCHANGED <<current, promised>>

Init ==
  /\ step = [c \in Clients |-> "idle"]
  /\ mine = [c \in Clients |-> None]
  /\ token = [c \in Clients |-> None]
  /\ current = 1
  /\ directory \in {"absent", "kept"} /\ file = None /\ synced = FALSE
  /\ answered = {} /\ reported = {} /\ promised = {}

Next ==
  \/ \E c \in Clients : Start(c) \/ Client(c) \/ Fail(c)
  \/ Rekey \/ Remove \/ PowerLoss

\* A client runs: its system calls return, and its download does.
Fairness == \A c \in Clients : WF_vars(Client(c))

Spec == Init /\ [][Next]_vars /\ Fairness

-----------------------------------------------------------------------------

\* However clients overlap, fail or lose power, and whichever tokens they
\* hold: all that load or save credentials of a server have the same, and
\* those reported as saved are there until the user removes them, if the
\* directory was on disk and either the client that reports them wrote them
\* or their writer had synced them (client_store.go:84-100).  The store is a
\* register that is written once (refinement of WriteOnce).
Register == INSTANCE WriteOnce WITH Values <- Identities, value <- file

TrustKept == Register!Spec

\* Save, which calls itself when another client was faster, ends.
SavesEnd == \A c \in Clients : step[c] \in Saving ~> step[c] \notin Saving
=============================================================================
