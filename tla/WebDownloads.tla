---------------------------- MODULE WebDownloads ----------------------------
(***************************************************************************)
(* The local web helper (internal/webui/handler.go): browsers post         *)
(* downloads and poll their progress.  net/http runs every request in a    *)
(* goroutine of its own; they meet in the semaphore of download slots, in  *)
(* the table of transfers under progressMu, and in the credential store.   *)
(*                                                                         *)
(* A member of Requests is one such goroutine, which may serve one request *)
(* after another.  What is checked before a slot is taken (method, form,   *)
(* token, address) changes no state and is left out.  The download itself  *)
(* is module ClientTransfer: it ends, with the archive or with an error.   *)
(* All requests are for one server, and the helper has a credential store  *)
(* (it has none when it was started with fixed keys).                      *)
(***************************************************************************)
EXTENDS Integers, FiniteSets

CONSTANTS Requests,         \* goroutines of /download
          TaskIds,          \* task IDs that browsers choose
          Untracked,        \* the empty task ID
          MaxConcurrent,    \* config.MaxConcurrent
          MaxRetained,      \* maxRetainedTransfers (128)
          Retention         \* progressRetention, in ticks

ASSUME WebAssumption ==
    /\ IsFiniteSet(Requests) /\ IsFiniteSet(TaskIds)
    /\ Untracked \notin TaskIds
    /\ MaxConcurrent \in Nat \ {0}
    /\ MaxRetained \in Nat
    /\ Retention \in Nat

VARIABLES
    slots,          \* len(Handler.downloadSlots)
    transfers,      \* Handler.transfers: the status of a task, or "absent"
    age,            \* ticks since the task's UpdatedAt
    pc,             \* where a goroutine is in serveDownload
    task,           \* its taskID
    finished,       \* its transferFinished
    pairing,        \* its shouldCacheCredentials, and the token it was given
    temporary,      \* goroutines whose temporary file exists
    stored,         \* the store's credentials for the server
    delivered       \* history: tasks whose archive the browser got entirely

vars == <<slots, transfers, age, pc, task, finished, pairing, temporary, stored,
          delivered>>
table == <<transfers, age>>
locals == <<task, finished, pairing>>

Terminal == {"completed", "failed"}
Active == {"starting", "downloading"}
Statuses == {"absent"} \cup Active \cup Terminal

Present(entries) == {t \in TaskIds : entries[t] # "absent"}

Goto(r, place) == pc' = [pc EXCEPT ![r] = place]

Tracked(r) == task[r] # Untracked

-----------------------------------------------------------------------------
(* The table of transfers; each operator is used under progressMu. *)

SetStatus(t, status) ==
    /\ transfers' = [transfers EXCEPT ![t] = status]
    /\ age' = [age EXCEPT ![t] = 0]

\* removeExpiredTransfersLocked.
Expired(t) == transfers[t] \in Terminal /\ age[t] > Retention

Unexpired == [t \in TaskIds |-> IF Expired(t) THEN "absent" ELSE transfers[t]]

TableFull(entries) == Cardinality(Present(entries)) >= MaxRetained

\* Mutant: whatever is oldest may go.
RemovableAny(entries) == Present(entries)

Removable(entries) == {t \in TaskIds : entries[t] \in Terminal}

\* removeOldestTerminalTransferLocked.
Oldest(entries) ==
    {t \in Removable(entries) : \A u \in Removable(entries) : age[u] <= age[t]}

\* A browser polls its progress: expired entries go.
ServeProgress ==
    /\ transfers' = Unexpired
    /\ UNCHANGED <<slots, age, pc, locals, temporary, stored, delivered>>

-----------------------------------------------------------------------------
(* serveDownload. *)

\* A request gets a slot if there is one; else it is answered and changes
\* nothing.
TakeSlot(r, t) ==
    /\ pc[r] = "idle"
    /\ slots < MaxConcurrent
    /\ slots' = slots + 1
    /\ task' = [task EXCEPT ![r] = t]
    /\ Goto(r, IF t = Untracked THEN "create" ELSE "begin")
    /\ UNCHANGED <<table, finished, pairing, temporary, stored, delivered>>

\* The deferred release of the slot is all that is left to do.
Refuse(r) == Goto(r, "release")

\* beginTransfer: an ID that is known is refused, and so is a new one if the
\* table is full of active transfers; else the oldest finished one makes room.
BeginTransfer(r) ==
    LET t == task[r]
        Enter(entries) == transfers' = [entries EXCEPT ![t] = "starting"]
    IN  /\ pc[r] = "begin"
        /\ \/ /\ \/ Unexpired[t] # "absent"
                 \/ TableFull(Unexpired) /\ Removable(Unexpired) = {}
              /\ transfers' = Unexpired
              /\ Refuse(r)
              /\ UNCHANGED <<age, delivered>>
           \/ /\ Unexpired[t] = "absent"
              /\ \/ ~ TableFull(Unexpired) /\ Enter(Unexpired)
                 \/ /\ TableFull(Unexpired)
                    /\ \E u \in Oldest(Unexpired) :
                          Enter([Unexpired EXCEPT ![u] = "absent"])
              /\ age' = [age EXCEPT ![t] = 0]
              /\ delivered' = delivered \ {t}
              /\ Goto(r, "create")
        /\ UNCHANGED <<slots, locals, temporary, stored>>

\* The temporary file for the archive.
CreateTemp(r) ==
    /\ pc[r] = "create"
    /\ \/ Goto(r, "credentials") /\ temporary' = temporary \cup {r}
       \/ Goto(r, "finish") /\ UNCHANGED temporary
    /\ UNCHANGED <<slots, table, locals, stored, delivered>>

\* Credentials are loaded.  Without any, a pairing token is needed, and it will
\* be saved after it has worked; with some, a token must agree with them.
\* Errors end the request.
Credentials(r) ==
    /\ pc[r] = "credentials"
    /\ \/ /\ stored = "none"
          /\ \E token \in {"right", "wrong"} :
                pairing' = [pairing EXCEPT ![r] = token]
          /\ Goto(r, "download")
       \/ /\ stored # "none"
          /\ Goto(r, "download")
          /\ UNCHANGED pairing
       \/ Goto(r, "clean") /\ UNCHANGED pairing
    /\ UNCHANGED <<slots, table, task, finished, temporary, stored, delivered>>

\* progressObserver, called by the download.
Progress(r) ==
    /\ pc[r] = "download"
    /\ Tracked(r)
    /\ transfers[task[r]] # "absent"
    /\ SetStatus(task[r], "downloading")
    /\ UNCHANGED <<slots, pc, locals, temporary, stored, delivered>>

\* client.DownloadArchive returns; with a wrong pairing token the handshake
\* fails.
Download(r) ==
    /\ pc[r] = "download"
    /\ \/ pairing[r] = "no" /\ Goto(r, "respond")
       \/ pairing[r] = "right" /\ Goto(r, "save")
       \/ Goto(r, "clean")
    /\ UNCHANGED <<slots, table, locals, temporary, stored, delivered>>

\* credentialStore.Save; another goroutine may have saved the same meanwhile.
SaveCredentials(r) ==
    /\ pc[r] = "save"
    /\ \/ /\ stored \in {"none", pairing[r]}
          /\ stored' = pairing[r]
          /\ Goto(r, "respond")
       \/ Goto(r, "clean") /\ UNCHANGED stored
    /\ UNCHANGED <<slots, table, locals, temporary, delivered>>

\* Mutant: the number of bytes copied is not looked at.
RespondTruncated(r) ==
    /\ pc[r] = "respond"
    /\ \/ Goto(r, "complete") /\ delivered' = delivered \cup ({task[r]} \cap TaskIds)
       \/ Goto(r, "complete") /\ UNCHANGED delivered
    /\ UNCHANGED <<slots, table, locals, temporary, stored>>

\* The archive is copied to the browser: all of it, or the connection breaks, or
\* less than all.
Respond(r) ==
    /\ pc[r] = "respond"
    /\ \/ Goto(r, "complete") /\ delivered' = delivered \cup ({task[r]} \cap TaskIds)
       \/ Goto(r, "clean") /\ UNCHANGED delivered
    /\ UNCHANGED <<slots, table, locals, temporary, stored>>

\* finishTransfer changes the status of a task that is still in the table.
FinishTransfer(t, status) ==
    IF transfers[t] # "absent" THEN SetStatus(t, status) ELSE UNCHANGED table

Complete(r) ==
    /\ pc[r] = "complete"
    /\ IF Tracked(r)
       THEN /\ FinishTransfer(task[r], "completed")
            /\ finished' = [finished EXCEPT ![r] = TRUE]
       ELSE UNCHANGED <<table, finished>>
    /\ Goto(r, "clean")
    /\ UNCHANGED <<slots, task, pairing, temporary, stored, delivered>>

\* Mutant: the file stays.
CleanNothing(r) ==
    /\ pc[r] = "clean"
    /\ Goto(r, "finish")
    /\ UNCHANGED <<slots, table, locals, temporary, stored, delivered>>

\* The deferred functions run last in, first out: the file is removed,
Clean(r) ==
    /\ pc[r] = "clean"
    /\ temporary' = temporary \ {r}
    /\ Goto(r, "finish")
    /\ UNCHANGED <<slots, table, locals, stored, delivered>>

\* Mutant: it is forgotten that the transfer was completed.
MustFailAlways(r) == Tracked(r)

\* Mutant: a failed transfer is not recorded.
MustFailNever(r) == FALSE

MustFail(r) == Tracked(r) /\ ~ finished[r]

\* a tracked transfer that was not completed has failed,
Finish(r) ==
    /\ pc[r] = "finish"
    /\ IF MustFail(r) THEN FinishTransfer(task[r], "failed") ELSE UNCHANGED table
    /\ Goto(r, "release")
    /\ UNCHANGED <<slots, locals, temporary, stored, delivered>>

\* and the slot is free again; the locals are gone.
ReleaseSlot(r) ==
    /\ pc[r] = "release"
    /\ slots' = slots - 1
    /\ Goto(r, "idle")
    /\ task' = [task EXCEPT ![r] = Untracked]
    /\ finished' = [finished EXCEPT ![r] = FALSE]
    /\ pairing' = [pairing EXCEPT ![r] = "no"]
    /\ UNCHANGED <<table, temporary, stored, delivered>>

\* The steps that serveDownload takes without being asked.
ServeDownload(r) ==
    \/ BeginTransfer(r)
    \/ CreateTemp(r)
    \/ Credentials(r)
    \/ Download(r)
    \/ SaveCredentials(r)
    \/ Respond(r)
    \/ Complete(r)
    \/ Clean(r)
    \/ Finish(r)
    \/ ReleaseSlot(r)

Tick ==
    /\ age' = [t \in TaskIds |->
                 IF transfers[t] # "absent" /\ age[t] <= Retention
                 THEN age[t] + 1 ELSE age[t]]
    /\ UNCHANGED <<slots, transfers, pc, locals, temporary, stored, delivered>>

Init ==
    /\ slots = 0
    /\ transfers = [t \in TaskIds |-> "absent"]
    /\ age = [t \in TaskIds |-> 0]
    /\ pc = [r \in Requests |-> "idle"]
    /\ task = [r \in Requests |-> Untracked]
    /\ finished = [r \in Requests |-> FALSE]
    /\ pairing = [r \in Requests |-> "no"]
    /\ temporary = {}
    /\ stored = "none"
    /\ delivered = {}

Next ==
    \/ \E r \in Requests :
          \/ \E t \in TaskIds \cup {Untracked} : TakeSlot(r, t)
          \/ ServeDownload(r)
          \/ Progress(r)
    \/ ServeProgress
    \/ Tick

Spec == Init /\ [][Next]_vars

\* A request that has a slot goes on: downloads return (ClientTransfer).  Only
\* the copying to the browser need not: a write has no deadline, and a browser
\* that is there and does not read holds it up as long as it likes.
Fairness == \A r \in Requests : WF_vars(pc[r] # "respond" /\ ServeDownload(r))

FairSpec == Spec /\ Fairness

-----------------------------------------------------------------------------
TypeOK ==
    /\ slots \in 0 .. MaxConcurrent
    /\ transfers \in [TaskIds -> Statuses]
    /\ age \in [TaskIds -> 0 .. Retention + 1]
    /\ pc \in [Requests -> {"idle", "begin", "create", "credentials", "download",
                            "save", "respond", "complete", "clean", "finish",
                            "release"}]
    /\ task \in [Requests -> TaskIds \cup {Untracked}]
    /\ finished \in [Requests -> BOOLEAN]
    /\ pairing \in [Requests -> {"no", "right", "wrong"}]
    /\ temporary \subseteq Requests
    /\ stored \in {"none", "right", "wrong"}
    /\ delivered \subseteq TaskIds

\* No slot leaks on any way out of serveDownload, and none is freed twice; an
\* archive in the temporary directory belongs to a goroutine with a slot, so
\* that there are never more of them than MaxConcurrent.
SlotsHeld ==
    LET holders == {r \in Requests : pc[r] # "idle"}
    IN  /\ TypeOK
        /\ slots = Cardinality(holders)
        /\ temporary \subseteq holders

\* The goroutine works on a task that it has begun and not finished yet.
Owns(r, t) ==
    /\ task[r] = t
    /\ pc[r] \in {"create", "credentials", "download", "save", "respond",
                  "complete", "clean", "finish"}
    /\ ~ finished[r]

\* An entry of the table is active exactly while one goroutine works on it:
\* neither expiry nor eviction takes it away, no two share it, and none is
\* left behind that would never end.
ActiveIsOwned ==
    \A t \in TaskIds :
        /\ transfers[t] \in Active <=> \E r \in Requests : Owns(r, t)
        /\ \A r, s \in Requests : Owns(r, t) /\ Owns(s, t) => r = s

\* The table keeps its bound, and a task with a new ID is never refused for lack
\* of room, unless more slots are configured than the table has entries: each
\* active entry has another slot.
RoomForNewTask ==
    /\ Cardinality(Present(transfers)) <= MaxRetained
    /\ MaxConcurrent <= MaxRetained =>
          \A r \in Requests :
              pc[r] = "begin" /\ Unexpired[task[r]] = "absent" =>
                  ~ TableFull(Unexpired) \/ Removable(Unexpired) # {}

\* README.md: completed is shown only when the browser got the whole archive,
\* and stays.
CompletedIsDelivered ==
    \A t \in TaskIds : transfers[t] = "completed" => t \in delivered

\* What a browser has seen to be completed or failed does not change any more,
\* until the entry is removed (and the ID may be begun again).
TerminalIsFinal ==
    [][\A t \in TaskIds :
          transfers[t] \in Terminal =>
              transfers'[t] \in {transfers[t], "absent", "starting"}]_vars

\* A browser has the archive of the transfer offered and has not read it all.
AwaitsBrowser(t) == \E r \in Requests : Owns(r, t) /\ pc[r] = "respond"

\* Every transfer that a browser polls ends, or comes to where it waits for
\* the browser to read the archive (handler.go:338, which is without deadline:
\* web.go:81-86); and if the browser does, or goes away, it ends too.
TransfersEnd ==
    \A t \in TaskIds :
        transfers[t] \in Active ~> transfers[t] \notin Active \/ AwaitsBrowser(t)
=============================================================================
