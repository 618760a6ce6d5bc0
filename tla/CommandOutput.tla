---------------------------- MODULE CommandOutput ----------------------------
(***************************************************************************)
(* runCommandOutput of src/src/command-output.ts: the two output streams   *)
(* of a command are scanned for secrets, kept in memory up to a threshold, *)
(* and beyond it moved to a page cache whose writer is created while the   *)
(* streams go on. A secret suppresses everything; a failing writer         *)
(* degrades the result to a bounded preview.                               *)
(*                                                                         *)
(* A chunk is one unit of data, numbered per stream in the order of its    *)
(* arrival; a buffer is a sequence of such units. The matcher is its       *)
(* verdict: it finds a secret, or releases a prefix of what it holds. The  *)
(* callback of a stream handles one chunk at a time (capture.ts queues     *)
(* them per stream); a step is what runs between two awaits.               *)
(***************************************************************************)
EXTENDS Naturals, Sequences, FiniteSets, SequencesExt

CONSTANTS
    Tiers,        \* the values of MCP_SECRETS_SCAN; "cache" stands for "strict" too
    MemoryMax,    \* limits.memoryOutputBytes, in chunks
    Cap,          \* limits.maxStdoutBytes and maxStderrBytes
    FallbackMax,  \* COMMAND_OUTPUT_FALLBACK_PREVIEW_BYTES
    MaxChunks,    \* bound: chunks per stream
    MaxFaults     \* bound: failures of the page cache writer

ASSUME OutputAssumption ==
    /\ Tiers \subseteq {"off", "write", "cache"}
    /\ {MemoryMax, Cap, FallbackMax, MaxChunks} \subseteq Nat \ {0}
    /\ MemoryMax <= 2 * Cap
    /\ MaxFaults \in Nat

Streams == {"stdout", "stderr"}
Units   == 1..MaxChunks

\* Those that may wait for the writer or the spill: the callback of each
\* stream, the replay of the spill, and runCommandOutput after the capture.
Handlers == Streams \cup {"spill", "main"}

VARIABLES
    tier,       \* getSecretsScanTier
    arrived,    \* StreamState: how many chunks came, what memory holds, the
    chunks,     \* retained count, the truncated flag, the fallback preview
    retained,
    truncated,
    fallback,
    held,       \* what each matcher holds back
    secret,     \* secretDetected
    disabled,   \* cacheDisabledReason, set by a failure of the page cache
    spill,      \* ensureSpill: "none", what it awaits, or "over"
    replay,     \* the buffers that ensureSpill has still to write
    staging,    \* PageCacheWriter; "open" as long as the variable writer is set
    disk,       \* what the writer was told to write
    work,       \* what each handler awaits, for which stream, with which buffer
    stage,      \* runCommandOutput: awaiting the capture, or finishing
    \* History.
    cleared,    \* units that a matcher has released
    crossed,    \* streams that had a chunk handled during a spill
    early,      \* the capture settled before its callbacks had ended
    faults      \* failures of the page cache writer

dataVars  == <<chunks, retained, truncated, fallback>>
scanVars  == <<held, cleared, secret>>
cacheVars == <<disabled, spill, replay, staging, disk>>
runVars   == <<tier, stage, early>>
outputVars == <<arrived, dataVars, scanVars, cacheVars, work, runVars, crossed, faults>>

Buffer == Seq(Units)
Idle == [at |-> "idle", on |-> "stdout", data |-> <<>>, room |-> 0]

OutputTypeOK ==
    /\ tier \in Tiers
    /\ arrived \in [Streams -> 0..MaxChunks]
    /\ chunks \in [Streams -> Seq(Buffer)] /\ replay \in [Streams -> Seq(Buffer)]
    /\ retained \in [Streams -> Nat]
    /\ truncated \subseteq Streams /\ crossed \subseteq Streams
    /\ fallback \in [Streams -> Buffer] /\ \A s \in Streams : Len(fallback[s]) <= FallbackMax
    /\ held \in [Streams -> Buffer] /\ disk \in [Streams -> Buffer]
    /\ secret \in BOOLEAN /\ disabled \in BOOLEAN /\ early \in BOOLEAN
    /\ spill \in {"none", "creating", "replaying", "over"}
    /\ staging \in {"none", "open", "discarded", "published"}
    /\ work \in [Handlers -> [at : {"idle", "spilling", "writing"}, on : Streams,
                              data : Buffer, room : 0..Cap]]
    /\ stage \in {"capture", "settle", "publish", "returned", "threw"} \cup Streams
    /\ cleared \in [Streams -> SUBSET Units]
    /\ faults \in 0..MaxFaults

Nothing == [s \in Streams |-> <<>>]

OutputInit ==
    /\ tier \in Tiers
    /\ arrived = [s \in Streams |-> 0]
    /\ chunks = Nothing /\ fallback = Nothing
    /\ retained = [s \in Streams |-> 0] /\ truncated = {}
    /\ held = Nothing /\ cleared = [s \in Streams |-> {}] /\ secret = FALSE
    /\ disabled = FALSE /\ spill = "none" /\ replay = Nothing
    /\ staging = "none" /\ disk = Nothing
    /\ work = [h \in Handlers |-> Idle]
    /\ stage = "capture" /\ early = FALSE
    /\ crossed = {} /\ faults = 0
-----------------------------------------------------------------------------
Least(m, n)    == IF m < n THEN m ELSE n
First(n, buf)  == SubSeq(buf, 1, Least(n, Len(buf)))
Rest(n, buf)   == SubSeq(buf, n + 1, Len(buf))

\* The room that is left under the cap of a stream.
Room(s) == IF retained[s] < Cap THEN Cap - retained[s] ELSE 0

\* feedFallback, and the truncated flag of what a cap cuts off.
Fed(s, buf) == [fallback EXCEPT ![s] = First(FallbackMax, @ \o buf)]
Cut(s, buf) == IF Len(buf) > Room(s) THEN truncated \cup {s} ELSE truncated

\* A stream has a matcher from the start, or (tier "write") since the spill.
Matching == tier = "cache" \/ (tier = "write" /\ spill # "none")

Rests(h)          == work' = [work EXCEPT ![h] = Idle]
Awaits(h, at, s, buf) ==
    work' = [work EXCEPT ![h] = [at |-> at, on |-> s, data |-> buf, room |-> Room(s)]]

\* markSecret: all that was retained is dropped, and an open writer discarded.
MarkSecret ==
    /\ secret' = TRUE
    /\ chunks' = Nothing /\ fallback' = Nothing
    /\ retained' = [s \in Streams |-> 0]
    /\ staging' = IF staging = "open" THEN "discarded" ELSE staging
    /\ UNCHANGED <<truncated, disabled>>

\* disableCache: what is in memory is dropped, the preview stays.
DisableCache ==
    /\ disabled' = (disabled \/ ~secret)
    /\ chunks' = IF secret \/ disabled THEN chunks ELSE Nothing
    /\ retained' = IF secret \/ disabled THEN retained ELSE [s \in Streams |-> 0]
    /\ staging' = IF ~secret /\ ~disabled /\ staging = "open" THEN "discarded" ELSE staging
    /\ UNCHANGED <<truncated, fallback, secret>>

(***************************************************************************)
(* writeAccepted: what the cap admits is written, and counted as retained  *)
(* when the write is done. The replay does not feed the preview again.     *)
(***************************************************************************)
WriteAccepted(h, s, buf, fed) ==
    LET accepted == First(Room(s), buf)
    IN  /\ truncated' = Cut(s, buf)
        /\ fallback' = IF fed THEN Fed(s, accepted) ELSE fallback
        /\ IF accepted = <<>> \/ staging # "open"
           THEN Rests(h) /\ UNCHANGED disk
           ELSE Awaits(h, "writing", s, accepted) /\ disk' = [disk EXCEPT ![s] = @ \o accepted]
        /\ UNCHANGED <<chunks, retained, secret, disabled, spill, staging>>
-----------------------------------------------------------------------------
(***************************************************************************)
(* processSafe, for a non-empty buffer while no secret has been found: in  *)
(* memory, to the preview, to the writer, or beyond the threshold to the   *)
(* spill, which is started or joined.                                      *)
(***************************************************************************)
Keep(h, s, buf) ==
    LET accepted == First(Room(s), buf)
    IN  /\ truncated' = Cut(s, buf)
        /\ chunks' = IF accepted = <<>> THEN chunks ELSE [chunks EXCEPT ![s] = Append(@, accepted)]
        /\ retained' = [retained EXCEPT ![s] = @ + Len(accepted)]
        /\ fallback' = Fed(s, accepted)
        /\ Rests(h)
        /\ UNCHANGED <<secret, cacheVars>>

Degrade(h, s, buf) ==
    /\ truncated' = Cut(s, buf)
    /\ fallback' = Fed(s, First(Room(s), buf))
    /\ Rests(h)
    /\ UNCHANGED <<chunks, retained, secret, cacheVars>>

Overflows(s, buf) ==
    retained["stdout"] + retained["stderr"] + Len(First(Room(s), buf)) > MemoryMax

JoinSpill(h, s, buf) ==
    /\ truncated' = Cut(s, buf)
    /\ Awaits(h, "spilling", s, buf)
    /\ spill' = IF spill = "none" THEN "creating" ELSE spill
    /\ replay' = IF spill = "none" THEN chunks ELSE replay
    /\ UNCHANGED <<chunks, retained, fallback, secret, disabled, staging, disk>>

ProcessSafe(h, s, buf) ==
    IF disabled THEN Degrade(h, s, buf)
    ELSE IF staging = "open" THEN WriteAccepted(h, s, buf, TRUE) /\ UNCHANGED replay
    ELSE IF Overflows(s, buf) THEN JoinSpill(h, s, buf)
    ELSE Keep(h, s, buf)
-----------------------------------------------------------------------------
(***************************************************************************)
(* In tier "write" ensureSpill scans what memory holds, for the first      *)
(* time, and replays what the matchers release: n[t] units of stream t.    *)
(***************************************************************************)
InMemory(t) == FlattenSeq(chunks[t])

\* Mutant of Replayed: tier "write" replays what memory holds, unscanned.
ReplayedUnscanned(n) == chunks

Replayed(n) == [t \in Streams |-> IF n[t] = 0 THEN <<>> ELSE <<First(n[t], InMemory(t))>>]

ScanMemory(h, s, buf) ==
    \/ /\ MarkSecret
       /\ spill' = "over"
       /\ Rests(h)
       /\ UNCHANGED <<held, cleared, replay, disk>>
    \/ \E n \in [Streams -> 0..MaxChunks] :
          /\ \A t \in Streams : n[t] <= Len(InMemory(t))
          /\ replay' = Replayed(n)
          /\ held' = [t \in Streams |-> Rest(n[t], InMemory(t))]
          /\ cleared' = [t \in Streams |-> cleared[t] \cup ToSet(First(n[t], InMemory(t)))]
          /\ fallback' = [t \in Streams |-> First(FallbackMax, First(n[t], InMemory(t)))]
          /\ truncated' = Cut(s, buf)
          /\ spill' = "creating"
          /\ Awaits(h, "spilling", s, buf)
          /\ UNCHANGED <<chunks, retained, secret, disabled, staging, disk>>

SecretFound(h) ==
    /\ MarkSecret
    /\ Rests(h)
    /\ UNCHANGED <<held, cleared, spill, replay, disk>>

\* Mutant of Release: the matcher goes on holding what it has released.
ReleaseKeeps(h, s, buf, n) ==
    /\ held' = [held EXCEPT ![s] = buf]
    /\ cleared' = [cleared EXCEPT ![s] = @ \cup ToSet(First(n, buf))]
    /\ IF n = 0
       THEN Rests(h) /\ UNCHANGED <<dataVars, secret, cacheVars>>
       ELSE ProcessSafe(h, s, First(n, buf))

\* What a matcher releases, its first n units, goes to processSafe.
Release(h, s, buf, n) ==
    /\ held' = [held EXCEPT ![s] = Rest(n, buf)]
    /\ cleared' = [cleared EXCEPT ![s] = @ \cup ToSet(First(n, buf))]
    /\ IF n = 0
       THEN Rests(h) /\ UNCHANGED <<dataVars, secret, cacheVars>>
       ELSE ProcessSafe(h, s, First(n, buf))

\* scan, followed by processSafe.
Scan(h, s, buf) ==
    IF secret THEN Rests(h) /\ UNCHANGED <<dataVars, scanVars, cacheVars>>
    ELSE IF Matching
         THEN \/ SecretFound(h)
              \/ \E n \in 0..Len(held[s] \o buf) : Release(h, s, held[s] \o buf, n)
    ELSE IF tier = "write" /\ ~disabled /\ staging # "open" /\ Overflows(s, buf)
         THEN ScanMemory(h, s, buf)
    ELSE ProcessSafe(h, s, buf) /\ UNCHANGED <<held, cleared>>
-----------------------------------------------------------------------------
InProgress == spill \in {"creating", "replaying"}

(***************************************************************************)
(* The callback of a stream gets its next chunk. The stream has crossed    *)
(* the spill if the chunk passes it: it goes ahead during the spill, or it *)
(* was scanned and, after the spill, is scanned once more.                 *)
(***************************************************************************)
Take(s) ==
    /\ stage = "capture" /\ work[s].at = "idle"
    /\ arrived[s] < MaxChunks
    /\ arrived' = [arrived EXCEPT ![s] = @ + 1]
    /\ Scan(s, s, <<arrived[s] + 1>>)
    /\ crossed' = IF InProgress /\ (work'[s].at # "spilling" \/ tier = "write")
                  THEN crossed \cup {s} ELSE crossed
    /\ UNCHANGED <<runVars, faults>>

Still == UNCHANGED <<arrived, runVars, crossed>>

\* PageCacheWriter.create returns. It does not matter what happened meanwhile.
SpillCreated ==
    /\ spill = "creating"
    /\ chunks' = Nothing /\ retained' = [s \in Streams |-> 0]
    /\ staging' = "open" /\ spill' = "replaying"
    /\ Still
    /\ UNCHANGED <<truncated, fallback, scanVars, disabled, replay, disk, work, faults>>

\* Mutant of SpillFails: the failure resets the spill, and wakes nobody.
SpillFailsUnsettled ==
    /\ spill = "creating" /\ faults < MaxFaults
    /\ faults' = faults + 1
    /\ DisableCache
    /\ spill' = "none"
    /\ Still
    /\ UNCHANGED <<held, cleared, replay, disk, work>>

SpillFails ==
    /\ spill = "creating" /\ faults < MaxFaults
    /\ faults' = faults + 1
    /\ DisableCache
    /\ spill' = "over"
    /\ Still
    /\ UNCHANGED <<held, cleared, replay, disk, work>>

NextReplayed == IF replay["stdout"] # <<>> THEN "stdout" ELSE "stderr"

\* The buffers are written one by one, those of stdout first.
ReplayWrite ==
    /\ spill = "replaying" /\ work["spill"].at = "idle"
    /\ replay[NextReplayed] # <<>>
    /\ replay' = [replay EXCEPT ![NextReplayed] = Tail(@)]
    /\ IF secret
       THEN UNCHANGED <<dataVars, secret, disabled, spill, staging, disk, work>>
       ELSE WriteAccepted("spill", NextReplayed, Head(replay[NextReplayed]), FALSE)
    /\ Still
    /\ UNCHANGED <<held, cleared, faults>>

ReplayEnds ==
    /\ spill = "replaying" /\ work["spill"].at = "idle"
    /\ \A s \in Streams : replay[s] = <<>>
    /\ spill' = "over"
    /\ Still
    /\ UNCHANGED <<dataVars, scanVars, disabled, replay, staging, disk, work, faults>>

\* Those that wait for the spill continue in the order in which they came;
\* runCommandOutput itself comes last.
Joins(h) ==
    /\ work[h].at = "spilling" /\ spill = "over"
    /\ h = "main" => \A s \in Streams : work[s].at # "spilling"

SpillJoined(h) ==
    LET s == work[h].on  buf == work[h].data
    IN  /\ Joins(h)
        /\ IF secret THEN Rests(h) /\ UNCHANGED <<dataVars, scanVars, cacheVars>>
           ELSE IF tier = "write" THEN Scan(h, s, buf)
           ELSE /\ IF staging = "open"
                   THEN WriteAccepted(h, s, buf, TRUE) /\ UNCHANGED replay
                   ELSE /\ fallback' = Fed(s, First(work[h].room, buf))
                        /\ Rests(h)
                        /\ UNCHANGED <<chunks, retained, truncated, secret, cacheVars>>
                /\ UNCHANGED <<held, cleared>>
        /\ Still
        /\ UNCHANGED faults

WriteDone(h) ==
    /\ work[h].at = "writing"
    /\ retained' = [retained EXCEPT ![work[h].on] = @ + Len(work[h].data)]
    /\ Rests(h)
    /\ Still
    /\ UNCHANGED <<chunks, truncated, fallback, scanVars, cacheVars, faults>>

WriteFails(h) ==
    /\ work[h].at = "writing" /\ faults < MaxFaults
    /\ faults' = faults + 1
    /\ DisableCache
    /\ Rests(h)
    /\ Still
    /\ UNCHANGED <<held, cleared, spill, replay, disk>>
-----------------------------------------------------------------------------
Goes(to) == stage' = to /\ UNCHANGED tier
Idles    == UNCHANGED <<arrived, dataVars, scanVars, cacheVars, work, crossed, faults>>

\* "close": the capture settles when the callbacks have ended.
Closes ==
    /\ stage = "capture"
    /\ \A s \in Streams : work[s].at = "idle"
    /\ Goes("stdout")
    /\ Idles /\ UNCHANGED early

\* onTerminationFailed settles the capture under the callbacks.
TerminationFails ==
    /\ stage = "capture"
    /\ Goes("stdout")
    /\ early' = TRUE
    /\ Idles

\* An error of the capture is thrown, whatever exists by then.
CaptureErrors ==
    /\ stage = "capture"
    /\ Goes("threw")
    /\ Idles /\ UNCHANGED early

After(s) == IF s = "stdout" THEN "stderr" ELSE "settle"

\* The matcher of stream s resolves what it still holds.
FinishStream(s) ==
    /\ stage = s /\ work["main"].at = "idle"
    /\ \/ /\ secret \/ ~Matching
          /\ Goes("settle")
          /\ UNCHANGED <<dataVars, scanVars, cacheVars, work>>
       \/ /\ ~secret /\ Matching
          /\ Goes("settle")
          /\ SecretFound("main")
       \/ /\ ~secret /\ Matching
          /\ Goes(After(s))
          /\ Release("main", s, held[s], Len(held[s]))
    /\ UNCHANGED <<arrived, early, crossed, faults>>

Settle ==
    /\ stage = "settle" /\ work["main"].at = "idle" /\ ~InProgress
    /\ \A s \in Streams : work[s].at # "spilling"
    /\ Goes(IF staging = "open" /\ ~disabled /\ ~secret THEN "publish" ELSE "returned")
    /\ Idles /\ UNCHANGED early

\* PageCacheWriter.finalize, which waits for the writes.
Publish ==
    /\ stage = "publish" /\ staging = "open"
    /\ \A h \in Handlers : work[h].at # "writing"
    /\ staging' = "published"
    /\ Goes("returned")
    /\ UNCHANGED <<arrived, dataVars, scanVars, disabled, spill, replay, disk, work,
                   early, crossed, faults>>

\* It fails, by itself or since a write has failed, or the first page cannot
\* be read of what it has published.
PublishFails ==
    /\ stage = "publish"
    /\ \/ staging # "open" /\ UNCHANGED faults
       \/ faults < MaxFaults /\ faults' = faults + 1
    /\ DisableCache
    /\ Goes("returned")
    /\ UNCHANGED <<arrived, held, cleared, spill, replay, disk, work, early, crossed>>
-----------------------------------------------------------------------------
Settles == Closes \/ TerminationFails \/ CaptureErrors
Spills  == SpillCreated \/ SpillFails \/ ReplayWrite \/ ReplayEnds
Works(h) == SpillJoined(h) \/ WriteDone(h) \/ WriteFails(h)
Finishes == (\E s \in Streams : FinishStream(s)) \/ Settle \/ Publish \/ PublishFails

OutputNext ==
    \/ \E s \in Streams : Take(s)
    \/ Spills
    \/ \E h \in Handlers : Works(h)
    \/ Settles
    \/ Finishes

OutputSpec == OutputInit /\ [][OutputNext]_outputVars

\* The operations of the page cache return, and the event loop runs what is
\* ready. Nothing makes the capture settle: a descendant of the child may keep
\* the pipes open, and as long as it does no "close" comes, while the
\* termination takes the exit of the child for enough and does not fail
\* (process-supervisor.ts:164, capture.ts:117).
FairOutputSpec ==
    /\ OutputSpec
    /\ WF_outputVars(Spills) /\ WF_outputVars(Finishes)
    /\ \A h \in Handlers : WF_outputVars(Works(h))
-----------------------------------------------------------------------------
(***************************************************************************)
(* Properties.                                                             *)
(***************************************************************************)
Returned == stage = "returned" /\ ~secret

\* What the caller gets of stream s, over all pages, and whether it is flagged.
Result(s) ==
    IF disabled THEN fallback[s]
    ELSE IF staging = "published" THEN disk[s]
    ELSE InMemory(s)

Flagged(s) ==
    \/ s \in truncated \/ arrived[s] > Cap
    \/ (disabled \/ staging # "published") /\ arrived[s] > Len(Result(s))

Faithful(s) ==
    /\ \A i, j \in DOMAIN Result(s) : i < j => Result(s)[i] < Result(s)[j]
    /\ Flagged(s) \/ ToSet(Result(s)) = 1..arrived[s]

\* The output of a command is returned in its order and without a gap that is
\* not flagged, whether it stays in memory, is spilled, or is degraded to the
\* preview (runCommandOutput). It says nothing of a stream that had a chunk
\* handled during the spill (see OutputComplete), where output is lost and
\* changes places, nor of a capture that settled early.
OutputFaithful ==
    Returned /\ ~early => \A s \in Streams \ crossed : Faithful(s)

\* The same of every stream: "output beyond this spills to the page cache".
OutputComplete ==
    Returned /\ ~early => \A s \in Streams : Faithful(s)

\* With a scanner, nothing is written to the page cache that the matcher of its
\* stream has not released, what memory held before the spill included
\* (ensureSpill, writeAccepted).
ScanBeforePersist ==
    tier # "off" => \A s \in Streams : ToSet(disk[s]) \subseteq cleared[s]

\* From the moment a secret is found in either stream, no buffer of any stream
\* is written, neither by a waiting callback nor by the replay (markSecret).
NothingWrittenAfterSecret == [][secret => disk' = disk]_outputVars

\* When the command returns, a cache has been published only if no secret was
\* found, and no staging directory is left behind, except if the secret was
\* found while the writer was being created: by the other stream, or, when the
\* capture had settled early, by the final scan.
StagingSettled ==
    stage = "returned" =>
        /\ staging = "published" => ~secret
        /\ staging = "open" => secret /\ (crossed # {} \/ early)

\* The scanner stands between the output and the disk until the end: what is
\* written was scanned, and what is kept or left behind is clean (ensureSpill,
\* runCommandOutput).
ScannedOrGone == ScanBeforePersist /\ StagingSettled

\* A run waits for its child and never for itself: whatever fails, it returns
\* once the capture has settled, and before that the callbacks of both streams
\* end again, which a "close" waits for (capture.ts:226): none waits for ever for
\* the spill, for the replay, or for another that waits for the same
\* (command-output.ts:424).
AwaitsChild == stage = "capture" /\ \A s \in Streams : work[s].at = "idle"

RunReturns == []<>(AwaitsChild \/ stage \in {"returned", "threw"})

\* The run of a child that has ended returns, whatever holds its pipes. It is
\* false, for want of a "close" or a failed termination.
AlwaysReturns == <>(stage \in {"returned", "threw"})
=============================================================================
