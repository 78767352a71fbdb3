# udpfile: specifications, model checking and proofs

udpfile sends a directory over UDP. A server packs the directory into a
temporary `tar.gz`, a client fetches it chunk by chunk over encrypted datagrams,
verifies its SHA-256 and unpacks it; a web helper does the same for a browser.
This directory holds TLA+ modules of the parts of that program where order,
loss, concurrency and arithmetic decide about correctness, the TLC
configurations that check them on small instances, and proofs checked by TLAPS
for all instances. `PROJECT.json` lists runs, theorems, hazards and, definition
by definition, the lines of source that are modelled.

## 1. The system

| Component | State | Operations | Talks to |
|---|---|---|---|
| Secure session (`internal/secure/session.go`) | outbound sequence number under `outboundMu`; inbound sequence number and 256-bit replay window under `inboundMu` | `Seal`, `Open`, handshake of both sides | called by server and client; on the server by the Serve loop and by preparing goroutines at once |
| Server (`internal/server/server.go`) | table of sessions under `mu`; per session: path, `preparing`, archive file, metadata, counters, 256-bit window of sent chunks, `lastAccess` | `Serve` (one datagram at a time), handlers of ClientHello, Request, Get, Done, `prepare` (one goroutine per session), expiry, shutdown | socket, temporary directory, archive, secure session, progress |
| Client (`internal/client/client.go`) | `nextWrite`, `nextRequest`, buffered chunks, inactivity timer; for `Receive`, a temporary archive | handshake, `awaitMeta`, `receiveChunks`, `finishSession`, retry every 300 ms; `Receive` downloads and unpacks | socket, destination, secure session, archives, progress |
| Wire format (`internal/protocol`) | none | encode, decode and validate packets | server, client, secure session |
| Archives (`internal/archive`) | file system | `Create` (pack with limits), `Extract` (staging directory, modes, rename) | server, client |
| Progress (`internal/progress`) | largest sums reported, last percentage logged and when, under a lock | `Report`, `Observe` | Serve loop, preparing goroutine, client, web |
| Web helper (`internal/webui`) | semaphore of download slots, table of transfers under a lock | `serveDownload`, `serveProgress`, `beginTransfer`, `finishTransfer`, expiry | browser, client, client credentials |
| Client credential store (`appconfig/client_store.go`) | one file per server address | `Load`, `Save` | the file system; other processes and goroutines that do the same |
| Default server credentials (`appconfig/automatic.go`, `keys.go`, `lock_*.go`) | the directory `server` with two key files and `credentials.json`; a lock file | `LoadOrCreateDefaultServerCredentials` | the file system; other server processes |
| Pairing token, command line, installer | none that lasts | | user |

Hard behaviours, and what correctness means for each component:

* **Secure session.** Two goroutines of the server seal packets of one session
  concurrently; packets arrive late, twice and in any order, and the window moves
  by arbitrary distances over four 64-bit words. Correct: no nonce is used twice;
  no packet is accepted twice; no new packet within the window is rejected; the
  window is exactly the set of accepted packets in range.
* **Server.** A session can expire, finish or be replaced by one with the same
  ID while its archive is being prepared; handlers release the lock between
  looking a session up and using it; shutdown meets running goroutines; the limit
  on sessions is checked and taken in two steps. Correct: no archive without an
  owner, no served session without its file, no session that swallows requests
  for ever, the table bounded, expired sessions removed.
* **Send window and progress.** Chunks are asked for out of order and again; the
  goroutine that prepared reports 0 after chunks may have been sent. Correct: each
  chunk counted once, all that the client may need served, progress never goes
  back and is complete once.
* **Client.** Lost, late, repeated and useless datagrams, cancellation,
  inactivity, full disks. Correct: the destination is the archive, in order;
  success only for the whole verified archive; only missing chunks are asked for
  again; every call returns; losses alone do not prevent success.
* **Wire format and sizes.** Five limits on lengths computed from each other in
  three files; unsigned sums and products that wrap around. Correct: what one side
  sends passes every layer of the other; both agree on chunks and lengths; no
  metadata make an incomplete download pass for complete.
* **Restoring.** Two downloads and the user compete for one destination; a kill
  or a failure at any call; modes that lock the client out of what it restores.
  Correct: a destination appears complete or not at all, and one that has entries
  is never replaced.
* **Web helper.** Every request runs in a goroutine of its own; a task ID expires,
  is evicted or is used again while deferred functions of earlier requests still
  run; more than a dozen ways out of `serveDownload`. Correct: no slot and no
  temporary archive leaks; an entry of the table is active exactly while one
  goroutine works on it; a new task finds room; "completed" is shown only for an
  archive that the browser got entirely, and is final; every transfer ends, or
  waits for its browser to read.
* **Credentials.** Processes that load and create at once, with and without a file
  lock, are killed at any system call and lose power. Correct: one identity for
  all, published only when it is whole and on disk; a token that was printed, and
  credentials reported as saved, hold (section 3 names where they may not);
  stored credentials are never replaced behind a client's back.

`PROJECT.json`, "hazards", names each of these at the line where it bites.

## 2. Modules

| Module | Models | Abstracts |
|---|---|---|
| `BitWindow` | the words of bits that both windows are made of: positions, setting, testing and shifting words | a word is the set of its bits |
| `ReplayWindow` | `Seal` in two steps by several goroutines, `Open`, `acceptInboundSequence`, `shiftReplayWindow` | a packet is its sequence number; `wire` is every packet ever sent, so that reading from it in any order is delay, reordering and repetition at once |
| `SendWindow` | `handleGet` step by step (window check, send, mark, shift, count), `markChunkSent`, `chunkWithinSendWindow`, `shiftSentChunkWindow` | one request at a time, as in the Serve loop; the contents of chunks |
| `ProgressReporter` | `Reporter.Report` with its thresholds, called by the Serve loop of `SendWindow`, which it extends, and by the preparing goroutine | the text of lines; time beyond the quiet interval |
| `ServerSessions` | table of sessions, Serve loop with its three ways to expire sessions, all handlers, `prepare` and `failPreparation` step by step, closing, shutdown | handshakes succeed or fail; window and counters (in `SendWindow`); time is counted in cleanup periods |
| `FileTransfer` | abstract: what a download promises its caller | everything but the destination and the outcome |
| `ClientTransfer` | `downloadArchive` with all exchanges, retries and timers, over a network that loses and reorders, against the one session of a server | the server's own table; sealed packets that `Open` rejects are datagrams without effect |
| `WireFormat` | the lengths of all packets through encoding, sealing, reading, opening and decoding: operators | the contents of packets |
| `TransferArithmetic` | chunk counts, chunk lengths and sums of both sides with their widths: operators | everything but sizes |
| `DirectoryRestore` | `Receive` and `Extract` of several downloads with one destination, with kills, and a user who makes directories | entries are paths and modes; what tar and gzip report is a failure at some step |
| `WebDownloads` | `serveDownload` with its deferred functions, `beginTransfer`, `finishTransfer`, expiry and eviction, `progressObserver`, `serveProgress` | the download, which ends with the archive or with an error; one server, whose credentials are absent, right or wrong; percentages |
| `WriteOnce` | abstract: what credential files promise: a register that is written once and remembers what was promised | who writes, and how |
| `ServerCredentials` | `LoadOrCreateDefaultServerCredentials` system call by system call, in several processes, with failures, kills and loss of power | identities are numbers; modes and owners of files |
| `ClientCredentials` | `Load` and `Save` as the command line and the web helper use them, in several clients, with re-keying and loss of power | one server; credentials are the identity that they are for |
| `MCReplayWindow`, `MCDirectoryRestore`, `MCClientDelivery` | for TLC: symmetry of goroutines; the archive that is restored; `ClientTransfer` with the calculations it rests on | |
| `BitWindowProofs`, `ReplayWindowProofs`, `SendWindowProofs` (with the reporter), `ServerSessionsProofs`, `ClientProofs` (transfer, calculations, packets, directory), `WebDownloadsProofs`, `ClientCredentialsProofs`, `ServerCredentialsProofs` | theorems | |

How state and actions correspond to the code:

* Go mutexes are modelled by making the code between `Lock` and `Unlock` one
  action and splitting where the lock is free: in `ServerSessions`,
  `HelloLookup` and `HelloAccept` are the two critical sections of
  `handleClientHello`; `SecureOpen` and the action of a handler are those of
  `handleSecure` and, say, `handleRequest`, with `SessionGone` for a session
  removed in between. In `ReplayWindow` the lock itself is a variable, because
  what happens without it is the question.
* A `*session` of the server is an *object*: a number in order of acceptance.
  The table maps IDs to objects, so that "the table still has my object"
  (`server.sessions[id] == current`) differs from "the table has my ID".
* The goroutine of an object is at a place (`prepare[n]`) named for its next
  call. `handle` and `disk` are the operating system's side of the archive.
* `datagram` in `ServerSessions` is whatever the socket returns next. The client
  that produced it may be gone, so every packet that a client with the keys
  could have sent may come at any time.
* In the modules about files a step is a system call, or several that nobody else
  can see between (a staging directory has a name that only its process knows).
  `os.Rename` is two steps where it looks before it calls rename(2)
  (`DirectoryRestore`). A loss of power keeps what was synced, and of the rest any
  part (`ServerCredentials!Remains`); a directory entry is on disk when its
  directory was synced. The directory that the files are in is a variable as well
  (`ServerCredentials!root`, `ClientCredentials!directory`): a start makes it,
  nothing syncs its own entry, and the next loss of power takes it with all that
  is in it, or leaves it on disk for good.
* `promised` is what callers may rely on: tokens printed, and credentials reported
  as saved, when that directory was on disk and, for the clients' store, the
  file's entry too. What is told to users without that is recorded in `printed`
  and `reported`, about which theorems say what still holds.
* `WireFormat` and `TransferArithmetic` have no state. Their properties are
  `[]` of a formula over constants, so that they can be checked next to the
  protocol that takes them for granted.
* A variable whose comment says "history" is not state of the program; it
  records what properties speak about.
* Operators marked "Mutant" are wrong versions of the next definition. They are
  not used; replacing the definition by them shows that a property notices.

## 3. Runs

All runs finish in less than three minutes with two workers.

| Run | Bounds | Shows |
|---|---|---|
| `replay_window` | 3 words of 3 bits, 12 packets, 2 goroutines | safety of sealing and opening |
| `send_progress` | 2 words of 2 bits, 8 chunks of which the last is short, client window 4, a line every 20 percent or after 2 ticks | chunks counted once, window exact, client served, progress true and complete once |
| `server_reuse` | 2 IDs, 2 addresses, 1 place, 2 accepted handshakes, expiry after 1 period, malformed traffic | ownership of files and table under reuse of IDs |
| `server_liveness` | 1 ID, 2 paths, expiry after 2 periods, other traffic | expiry, end of preparations, shutdown |
| `server_malformed` | 1 ID, malformed traffic | **fails**: finding 1 |
| `server_tempfile` | 1 ID, 1 path | **fails**: finding 2 |
| `client_safety` | 3 chunks, window 2, all faults (a failed read of the archive among them), inactivity after 2 ticks | order, window, verified success, refinement of `FileTransfer`, and that every call returns |
| `client_delivery` | 3 chunks, window 2, healthy server; fields of packets up to 1300 bytes; 256 sizes, 16 counts, chunks of at most 6 bytes | success despite losses; packets fit; both sides agree on chunks |
| `directory_restore` | 2 downloads, each of an empty directory or of 5 entries with 3 directories, every combination of modes, user or root | destination whole, one with entries never replaced, client not locked out |
| `web_downloads` | 2 goroutines, 3 task IDs, 2 slots, 2 entries, retention 0 | slots, ownership of entries, room, truth and finality of "completed", every transfer ends or waits for its browser to read |
| `server_credentials` | 2 processes, 3 starts, flock and mutex, configuration directory new or on disk | published credentials whole, refinement of `WriteOnce`, every call returns |
| `client_credentials` | 3 clients, 2 identities of the server, directory new or on disk | refinement of `WriteOnce`, `Save` ends |

Why these bounds are enough to meet the interesting cases:

* Windows: for the replay window 3 words, so that a shift has a first, a middle
  and a last word, and 3 bits, so that distances within a word, of whole words and
  of both occur; the send window moves by one at a time, for which 2 words of 2
  bits have every case. Sequence numbers and chunks exceed the windows, so that
  they are both cleared and passed. The proofs cover the real sizes (64 bits, 4
  words).
* Progress: of 8 chunks some share a bucket of 20 percent and some do not; the
  clock stops at the quiet interval, beyond which the code does not distinguish
  times.
* Objects: two accepted handshakes are enough for a goroutine of an old object
  to meet a new session of its ID; one place in the table makes the limit bite,
  and two IDs make it bite across IDs.
* Chunks: with three chunks in a window of two, a chunk is received ahead of a
  missing one, the window moves by one and by two, and its end meets the end of
  the archive: in the run for success as in the one for safety.
* Packets: `WireFormat` has the real limits; `MaxField` is above the size of a
  datagram, so that every limit is exceeded by some field.
* Sizes: 2 * 6 * 16 <= 256, as 2 * 1120 * 2^32 <= 2^64: the relation between the widths
  that keeps products of the server's own archives from wrapping around, while
  those of other metadata do.
* Web helper: one task ID more than entries, so that entries must be evicted, and
  two finished entries of different ages to choose from. With a goroutine for each
  slot a slot is never waited for; a slot that leaks still shows in `SlotsHeld`.
  `RoomForNewTask` has `MaxConcurrent <= MaxRetained` as a premise, because the
  command line allows more than 128 downloads at once.
* Restoring: a directory in a directory with a file in each, and an empty one, so
  that depth, occupation and siblings all matter; two downloads, so that the
  rename of one meets each step of the other, and one of an empty directory that
  of one with entries, on either side.
* Credentials: two processes, so that one finds what another leaves at each call;
  a third start for the one that comes after a loss of power. Three clients: one
  that links, one that loses to it, one that reads in between; two identities,
  so that old and new tokens meet.

`CHECK_DEADLOCK FALSE` is given where the system may stop: a server that has
exited, a download that has returned, starts and identities at their bound. The
bounds on counters are `MaxSequence` (the code's own limit is 2^32 - 1 packets),
`MaxAccepts`, `MaxStarts`, `MaxIdentities`, and the caps of `idle` at
`SessionTTL` and at `InactivityTimeout`, of `age` at `Retention + 1` and of
`lastReport` at `QuietInterval`, beyond which the code does not distinguish
values.

### Findings

1. `server_malformed` (`server.go:148`): `ExpiredSessionsLeave` holds under any
   well-formed traffic (`server_liveness`) and fails under malformed traffic: its
   `continue` skips the cleanup check.
2. `server_tempfile` (`server.go:292`): a preparation that fails early in
   `archive.Create` leaves its empty temporary file. Written archives never leak
   (`ArchivesOwned` in `server_reuse`).

Observed while modelling, without a run of their own:

* A restore that fails after directories got their modes cannot remove its staging
  directory if an occupied one is not writable: `DirectoryRestore!Removable`;
  `archive.go:196` drops the error (`README.md:188` of the program: no half-finished
  directory is left).
* Nothing syncs the entries of the directories that `os.MkdirAll` makes
  (`automatic.go:128`, `client_store.go:37`). A token printed at the very first
  start, or the first credentials saved, may be lost with the directory in a loss
  of power soon after, although everything in it was synced (`automatic.go:116`,
  `client_store.go:100`). `IdentityKept` and `TrustKept` promise what was printed
  or saved with the directory on disk; the theorems `PrintedLasts` and
  `SavedLasts` name the exception.
* A client that finds its credentials stored already reports them as saved
  (`client_store.go:84`, `cli/client.go:79`), also between another client's link
  and its sync: a loss of power may then take them, and the user is asked
  for the token again.
* rename(2) replaces an empty directory: of two downloads past the check of
  `os.Rename`, the second replaces what the first has restored if that was an
  empty directory, and both report success (`archive.go:276`).
* No deadline ends the copy to a browser (`handler.go:338`; `web.go:81-86` sets none
  for writes): one that stays connected and does not read keeps its slot, its
  entry and its temporary archive.
* A token shown by `-show-pairing-token` after a creation that was killed between
  `automatic.go:110` and `:116` may be void after a loss of power: that start loads
  without syncing. `IdentityKept` is about tokens printed at creation.
* Lines of a slow transfer may be almost two quiet intervals apart
  (`progress.go:90`), while the program's `README.md:198` speaks of one: a report
  that comes early is left out and nothing logs it later.

## 4. Fairness

* `ServerSessions!Fairness`: the Serve loop runs (its handlers return, its read
  has a deadline), each preparing goroutine runs until it ends (it waits only for
  a mutex that is held for bounded code), and time passes. Nothing obliges a
  datagram to arrive or a read to time out while datagrams arrive: that is why
  `StopsWhenQuiet` has "once no more datagrams come" as a premise.
* `ClientTransfer!ClientFairness`: the client's loops run, its read deadline
  passes, time passes. The network and the server owe nothing, so `DownloadReturns`
  holds whatever they do.
* `ClientTransfer!DeliveryFairness`, for `TransferSucceeds` only: what the
  network does not lose is delivered and what reaches the server is handled, each
  chunk and each request for one in its turn, other datagrams as one group (at
  any time only those of one exchange matter), and a retry interval without
  datagrams occurs again and again (every datagram of the server answers one of
  the client's, and between retries the client sends none but in answer to
  progress). The premises of the property say what may go
  wrong in earnest: cancellation, timers too short, an expired session, losses
  without end.
* `WebDownloads!Fairness`: a goroutine that has a slot goes on, except where it
  copies the archive to the browser: there it owes nothing, because no deadline
  ends a write to a browser that does not read. The download in it returns
  by `DownloadReturns`. `TransfersEnd` therefore says that a transfer ends or
  comes to that copy (`AwaitsBrowser`).
* `ServerCredentials!Fairness`: processes run, and whoever waits for the lock gets
  it when it is free. Starts are bounded, so that weak fairness is enough: nobody
  is overtaken for ever.
* `ClientCredentials!Fairness`: clients run; the download in one returns.

The other modules claim no liveness.

## 5. Proofs

TLAPS checks, for all values of the constants allowed by the modules' `ASSUME`s:

* `ReplayWindowProofs`: types, no replay, no nonce twice, the window exact, no
  false rejection. The properties are not inductive by themselves. The invariant
  adds that the lock has one holder and that a holder's number is the current
  one (so the next nonce is new), that accepted numbers are never above
  `inboundSequence`, and that bit `n` of the window is set exactly when packet
  `inboundSequence - n` was accepted. The heart is lemma `ShiftMovesBits`: shifting
  words with carry moves bit `n` to `n + distance`, for all sizes and distances.
* `SendWindowProofs`: types, the window exact, chunks and bytes counted once, the
  client's window within the server's. The invariant ties the base, the bits and
  the history of sent chunks together at each place of `handleGet`, in particular
  between `Mark` and `Count`, when a chunk is recorded and not yet counted.
* `BitWindowProofs`: the correspondence between positions and (word, bit) pairs
  on which both rest.
* `ServerSessionsProofs`: `Consistent`, `TableBounded`, `ArchivesOwned`,
  `PublishedIsReadable`, `NoDeadSession` and `StoppedIsClean`, for any number of
  IDs, clients, paths, places and handshakes. The invariant says what belongs to an
  object at each place of its goroutine (`Owned`): before it publishes, the
  archive is the goroutine's, which is why an object that leaves the table early
  leaks nothing; afterwards it is open and on disk exactly as long as the
  object is in the table; and a goroutine that gave up has taken its object out
  first. `Handling` says what the Serve loop may rely on when it takes the lock
  again: the session that it opened a packet for is still the one of its ID or
  gone, but not replaced, because only this loop fills the table; that is also why
  the limit checked in one critical section still holds in the next. From the same
  invariant follows an action property that no run states, `RemovedIsFinal`: a
  session that has left the table is never entered again, nor given a path or an
  archive. One lemma per
  group of actions, and three about what they have in common: what an action
  that changes neither table nor objects keeps (`SameSessions`), that entering one
  session keeps the bound (`EnterBounded`), and that a step of one goroutine
  leaves what belongs to the others (`PreparedIInv`).
* `ClientProofs`, in four parts.
  - The transfer: `WrittenInOrder`, `WindowWellFormed`, `ReleasedWhenVerified`,
    `OnlyMissingRequested`, and `PromiseKept`, the refinement of `FileTransfer`
    (initial states, and each step of the client a step or a stutter of the
    promise; steps of server and network are stutters). The invariant adds that
    nothing is written before the metadata are there, and that while chunks
    are received one is missing and the window starts with it. What the chunks
    received in a row append is the subject of two lemmas: `FirstMissingFound` says
    that the run ends at the first chunk that did not arrive, and `Writes` that it is
    appended in order and that what was written stays.
  - The calculations: `ArithmeticAgrees` for all widths with
    `2 * (ChunkBytes * Counts) <= Sizes`, the one the code has (`Sizes` = 2^64,
    `Counts` = 2^32, `ChunkBytes` = 1120) among them. That the lengths of the
    chunks add up to the size is an induction over the chunks. The induction
    theorems of the library cannot be instantiated here; it is done by the least
    element of a set of counterexamples (`LeastElement`, from well-foundedness of
    `<`), as lemma `Induction` about a set of numbers.
  - The packets: `EncodedIsDecoded` for fields of every length (`MaxField`), with
    one lemma on the payload of each packet.
  - The directory: `DestinationWhole` and `NotDenied` for every tree, every
    combination of modes, and any number of downloads, kills and failures. The
    invariant (`StagingInv`) says that directories that have their modes are no
    higher than those that have not: a mode is set when nothing below is
    left to be set, so that it locks nobody out. That one step of a download
    keeps it is split into what concerns the others (`ElsewhereInv`), a rename
    that hands the destination over (`HandedOverInv`: only from a download without
    entries) and what the step does for its own call (`RestoreStep`).
* `SendWindowProofs` also proves `ProgressShown`, of `ProgressReporter` composed
  with the send window: the reporter's sums are what the Serve loop has
  counted, except the chunk that the loop is about to report (`SumsInv`); and the
  last line is in the bucket that the reporter remembers, is not ahead of the
  sums, and says 100 exactly when all chunks were reported (`LinesInv`). The late
  report of the preparing goroutine adds nothing to sums that are there.
  `ReportedWindow` carries the properties of the window over to the composition.
* `WebDownloadsProofs`: `SlotsHeld`, `ActiveIsOwned`, `CompletedIsDelivered`,
  `RoomForNewTask` and `TerminalIsFinal`, for any number of requests, tasks, slots
  and entries. The invariant ties the place of a goroutine in `serveDownload` to
  what it has (`Local`): only before its deferred functions has it an
  unfinished task, and at `complete` its archive was delivered. Active entries are
  mapped one to one to goroutines by ownership, and goroutines with a slot
  are counted by the semaphore, so that there are fewer active entries than
  slots when another request begins: `RoomForNewTask` counts with that. The
  lemmas on ownership (`AloneIInv`) say that a step of one goroutine leaves the
  others' entries alone; expiry and eviction only remove finished ones
  (`RemovedIInv`).
* `ClientCredentialsProofs`: `TrustKept`, the refinement of `WriteOnce` by the
  store of clients. The invariant says that whoever may link the file has an
  identity to write, that nobody replaces the file between a client's reading or
  linking it and its answer, that there is no file without its directory
  (`InDirectory`), that what was reported is what is stored, and that what was
  promised is synced in a directory that is on disk (`ReportsStored`). From it
  follow `HoldersAgree` (what was answered or reported is what the file holds),
  `SavedLasts` (what was reported stays, unless the user removes it or power is
  lost before it and its directory are on disk) and `PromisedLasts` (once they are,
  only the user removes it). The first also rests on what the abstract register
  says by itself, lemma `RegisterInductive`.
* `ServerCredentialsProofs`: `IdentityKept`, the refinement of `WriteOnce` by
  the default credentials, and `PublishedIsComplete`. The first holds only
  because of how directories are filled and published, so the invariant says for
  every place of a process how much of its staging directory is written and
  synced (`Done`), that this directory is nobody else's and not the published
  one, that the published one is complete and on disk or an interrupted one
  (which only a holder of a file lock is about to remove), that a loss of power
  gives back nothing but the published one (`Kept`), and that it can give back
  nothing else once its creation was synced. The lemmas on data are `WriteDone`,
  `SyncDone` (a call keeps what was done before it) and `RemainsComplete` (a loss
  of power leaves a complete directory complete).
  All of this is in a configuration directory that may not be on disk itself:
  `Kept` says that nobody works and nothing is published without one, and
  `Loaded` that what was promised is in one that is on disk. For callers, `ServersAgree`
  (one identity for all that load or print), `PrintedLasts` (no start, kill or loss
  of power replaces an identity whose token was printed, except one that takes a
  configuration directory made since the last) and `PromisedLasts` (without that
  exception, if the directory was on disk).

Assumptions: `BitWindowAssumption`, `WindowAssumption`, `SendWindowAssumption`
(sizes are positive, the client's window is at most the server's, as 64 <= 256),
`ProgressAssumption` (a step of percentages divides 100, as 5 does; without it
100 percent would share a bucket with less), `ServerAssumption` (limits are
positive; "" is no path, which `DecodeRequest` ensures), `ClientAssumption`
(window and timer are positive), `ArithmeticAssumption` (above),
`WireFormatAssumption` (some field exceeds a datagram),
`DirectoryRestoreAssumption` (what the walk of `archive.Create` ensures: the
directory that an entry is in is an entry; the names of the destination's states
differ), `WebAssumption` (finitely many goroutines and tasks, at least one slot), `ClientCredentialsAssumption`,
`ServerCredentialsAssumption` (`None` is no identity, and the bounds on starts and
keys are numbers, of any size). Every one is evaluated by a run of its module.

Only model-checked is liveness, which together with `ENABLED` is outside the reach
of this prover: `ExpiredSessionsLeave`, `PreparationSettles`, `StopsWhenQuiet`,
`DownloadReturns`, `TransferSucceeds`, `TransfersEnd`, `CallsReturn`, `SavesEnd`.
All safety properties of the passing runs are theorems.

## 6. Plan

Done: all modules of section 2, and a theorem for each safety property. What is
worth doing next, in order of importance:

1. The steps that liveness rests on, as far as they are safety: that a preparing
   goroutine is never blocked at a place, that each round of retries of the client
   lowers a variant or is one of the outcomes, that every way out of
   `serveDownload` leads to `release`. What remains for TLC is then fairness
   alone.
2. The unmodelled parts of section 7 that keep state: the polling page, and
   the interrupted prompt of the command line.


## 7. Not modelled, and why

* Cryptographic primitives and key derivation: taken to do what they promise. The
  computation of a handshake is one step.
* The contents of packets, pairing tokens, parsing of keys and environment
  variables, `udpfile keygen`: conversions of single values without state; unit
  tests cover them.
* The prompt for a pairing token (signals and terminal modes around one read),
  flags, the installer, the HTML page: input and output.
* The walk of the source tree in `archive.Create`, except its outcomes, and the
  checks of entry names and types in `Extract`.
* What killed processes leave behind: temporary archives (`server.go`, also when
  the process ends because `Serve` has returned), staging directories. Nothing in
  the code takes it up again, so that there is nothing to state.
* The removal of stored credentials by the user that a loss of power undoes
  (`ClientCredentials!Remove`): nothing in this program does or syncs it.
* An interrupted creation of credentials together with the lock of platforms that
  have none between processes: excluded by `ServerCredentials!Init`, where a
  comment says what would happen.
