-------------------------- MODULE ProgressReporter --------------------------
(***************************************************************************)
(* progress.Reporter as the server uses it: the goroutine that prepared    *)
(* the archive reports 0 once, at some time after it has published the     *)
(* session, while the Serve loop counts chunks (module SendWindow) under   *)
(* the server's lock and reports the sums after it has released it.  Init  *)
(* is the publication.  (The client's only goroutine reports 0 first.)     *)
(***************************************************************************)
EXTENDS SendWindow

CONSTANTS PercentageStep,   \* percentageStep (5)
          QuietInterval     \* maximumQuietInterval (2 s), in ticks

ASSUME ProgressAssumption ==
    /\ PercentageStep \in 1 .. 100
    /\ 100 % PercentageStep = 0
    /\ QuietInterval \in Nat \ {0}

VARIABLES completedBytes,   \* of the reporter
          completedChunks,
          lastBucket,
          lastReport,       \* ticks since a line was logged, up to QuietInterval
          prepared,         \* the goroutine has reported
          reporting,        \* the Serve loop has sums to report
          logged,           \* history: the last percentage logged, or -1
          completions       \* history: lines that say 100

reporter == <<completedBytes, completedChunks, lastBucket, lastReport, logged,
              completions>>
progressVars == <<vars, reporter, prepared, reporting>>

Larger(m, n) == IF m > n THEN m ELSE n

\* Mutant: the latest report counts, not the largest.
AdvanceToLatest(current, reported, total) == Smaller(reported, total)

\* A report never takes back what another one has reported.
Advance(current, reported, total) == Smaller(Larger(current, reported), total)

Percent(bytes) == IF Size = 0 THEN 100 ELSE (bytes * 100) \div Size

\* A line of the same bucket is left out if it came soon, or says again that
\* all is done.
Silent(completed, bucket) ==
    bucket = lastBucket /\ (completed \/ lastReport < QuietInterval)

Report(bytes, chunks) ==
    LET newBytes == Advance(completedBytes, bytes, Size)
        newChunks == Advance(completedChunks, chunks, Chunks)
        percent == Percent(newBytes)
        completed == newBytes = Size /\ newChunks = Chunks
        bucket == percent \div PercentageStep
    IN  /\ completedBytes' = newBytes
        /\ completedChunks' = newChunks
        /\ \/ /\ Silent(completed, bucket)
              /\ UNCHANGED <<lastBucket, lastReport, logged, completions>>
           \/ /\ ~ Silent(completed, bucket)
              /\ lastBucket' = bucket
              /\ lastReport' = 0
              /\ logged' = percent
              /\ completions' = completions + (IF percent = 100 THEN 1 ELSE 0)

-----------------------------------------------------------------------------
\* prepare: Report(0, 0), after the session was published.
ReportStart ==
    /\ ~ prepared
    /\ prepared' = TRUE
    /\ Report(0, 0)
    /\ UNCHANGED <<vars, reporting>>

\* handleGet until it releases the lock; the sums are read under it.
Serve ==
    /\ ~ reporting
    /\ \/ (\E i \in 0 .. Chunks : Get(i)) /\ UNCHANGED reporting
       \/ (Send \/ Mark \/ Shift) /\ UNCHANGED reporting
       \/ Count /\ reporting' = TRUE
    /\ UNCHANGED <<reporter, prepared>>

\* handleGet, after the lock.
ReportSent ==
    /\ reporting
    /\ reporting' = FALSE
    /\ Report(sentBytes, sentChunks)
    /\ UNCHANGED <<vars, prepared>>

Arrive ==
    /\ \E i \in ChunkIndex : Deliver(i)
    /\ UNCHANGED <<reporter, prepared, reporting>>

Tick ==
    /\ lastReport < QuietInterval
    /\ lastReport' = lastReport + 1
    /\ UNCHANGED <<vars, completedBytes, completedChunks, lastBucket, logged,
                   completions, prepared, reporting>>

ProgressInit ==
    /\ Init
    /\ completedBytes = 0
    /\ completedChunks = 0
    /\ lastBucket = -1
    /\ lastReport = QuietInterval    \* the zero time is long ago
    /\ prepared = FALSE
    /\ reporting = FALSE
    /\ logged = -1
    /\ completions = 0

ProgressNext == ReportStart \/ Serve \/ ReportSent \/ Arrive \/ Tick

ProgressSpec == ProgressInit /\ [][ProgressNext]_progressVars

-----------------------------------------------------------------------------
\* Between two requests the reporter knows what the session has counted, also
\* when the preparing goroutine's 0 comes late.
ReportsCurrent ==
    ~ reporting /\ pc = "serve" =>
        completedBytes = sentBytes /\ completedChunks = sentChunks

\* 100 percent is logged once: with the last chunk (of an empty archive with
\* the first report).
CompletionOnce ==
    completions = IF /\ sentChunks = Chunks
                     /\ ~ reporting
                     /\ Chunks = 0 => prepared
                  THEN 1 ELSE 0

\* Whenever the late report of the preparing goroutine comes: what browsers
\* and logs show is what was counted, never goes back, and is complete once.
ProgressShown ==
    /\ [](ReportsCurrent /\ CompletionOnce)
    /\ [][logged' >= logged]_progressVars
=============================================================================
