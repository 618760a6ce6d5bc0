------------------------------ MODULE AuditLog ------------------------------
(***************************************************************************)
(* The audit log of src/src/audit.ts: a bounded in-memory queue, a write   *)
(* chain that runs one drain at a time, a flush timer and a retry timer,   *)
(* and a trail on disk (the current file and its rotations) that is        *)
(* rotated and compacted after each successful append.                     *)
(*                                                                         *)
(* An entry is its position in the order in which record() was called, and *)
(* every size is counted in entries. A step is what runs between two       *)
(* awaits; rotation and compaction touch nothing a concurrent record() or  *)
(* flush() reads, and are one step.                                        *)
(***************************************************************************)
EXTENDS Integers, Sequences, FiniteSets, SequencesExt

CONSTANTS
    QueueMax,     \* MCP_AUDIT_QUEUE_MAX_ENTRIES
    FileMax,      \* MCP_AUDIT_MAX_FILE_BYTES, in entries
    EntriesMax,   \* MCP_AUDIT_MAX_ENTRIES
    Rotations,    \* MCP_AUDIT_MAX_ROTATIONS, which may also be 0: not modelled
    Flushers,     \* callers of flush: recent() and the shutdown
    MaxRecords,   \* bound: entries recorded
    MaxFailures   \* bound: faults of the file system

ASSUME ConstantsAssumption ==
    /\ QueueMax \in Nat \ {0}
    /\ FileMax \in Nat
    /\ EntriesMax \in Nat \ {0}
    /\ Rotations \in Nat \ {0}
    /\ MaxRecords \in Nat
    /\ MaxFailures \in Nat

VARIABLES
    queue,           \* this.queue
    dropped,         \* the entries counted in this.dropped
    failures,        \* this.consecutiveFailures
    size,            \* this.lastFileSize; -1: not yet observed
    flushTimer,      \* this.flushTimer # null
    retryTimer,      \* this.retryTimer # null
    writeScheduled,  \* this.writeScheduled
    path,            \* logFilePathPromise: unresolved, resolved or rejected
    drain,           \* where the running drainOnce is, "idle" if none runs
    batch,           \* the entries drainOnce has put in its payload
    flusher,         \* where each flush call is
    report,          \* the last FlushReport of each: clean, and what it saw
    trail,           \* trail[0]: the file; trail[i]: audit.jsonl.i
    trimmed,         \* entries that rotation and compaction deleted
    \* History.
    recorded,        \* number of entries recorded
    late,            \* entries recorded while an append was in flight
    failed           \* number of faults of the file system

queueVars == <<queue, dropped, recorded, late>>
diskVars  == <<size, path, trail, trimmed>>
flushVars == <<flusher, report>>
vars == <<queueVars, failures, flushTimer, retryTimer, writeScheduled, drain, batch,
          flushVars, diskVars, failed>>

Entries == 1..MaxRecords
FailedThreshold == 3

TypeOK ==
    /\ queue \in Seq(Entries) /\ Len(queue) <= QueueMax
    /\ dropped \subseteq Entries /\ trimmed \subseteq Entries /\ late \subseteq Entries
    /\ failures \in 0..FailedThreshold /\ failed \in 0..MaxFailures
    /\ size \in Int
    /\ {flushTimer, retryTimer, writeScheduled} \subseteq BOOLEAN
    /\ path \in {"unresolved", "resolved", "rejected"}
    /\ drain \in {"idle", "path", "append", "tidy"}
    /\ batch \in Seq(Entries)
    /\ flusher \in [Flushers -> {"idle", "queued", "running", "looping"}]
    /\ report \in [Flushers -> [clean : BOOLEAN, asked : 0..MaxRecords]]
    /\ trail \in [0..Rotations -> Seq(Entries)]
    /\ recorded \in 0..MaxRecords

Init ==
    /\ queue = <<>> /\ dropped = {} /\ recorded = 0 /\ late = {}
    /\ failures = 0 /\ failed = 0
    /\ size = -1 /\ path = "unresolved"
    /\ flushTimer = FALSE /\ retryTimer = FALSE /\ writeScheduled = FALSE
    /\ drain = "idle" /\ batch = <<>>
    /\ flusher = [f \in Flushers |-> "idle"]
    /\ report = [f \in Flushers |-> [clean |-> FALSE, asked |-> 0]]
    /\ trail = [i \in 0..Rotations |-> <<>>] /\ trimmed = {}

OnDisk == UNION {ToSet(trail[i]) : i \in 0..Rotations}
-----------------------------------------------------------------------------

(***************************************************************************)
(* record: the oldest entries are dropped while the queue is over its      *)
(* limit, and a flush is scheduled unless a timer is already set.          *)
(***************************************************************************)
Record ==
    /\ recorded < MaxRecords
    /\ LET longer == Append(queue, recorded + 1)
           over   == IF Len(longer) > QueueMax THEN Len(longer) - QueueMax ELSE 0
       IN  /\ queue' = SubSeq(longer, over + 1, Len(longer))
           /\ dropped' = dropped \cup ToSet(SubSeq(longer, 1, over))
    /\ recorded' = recorded + 1
    /\ late' = IF drain = "append" THEN late \cup {recorded + 1} ELSE late
    /\ flushTimer' = (flushTimer \/ ~retryTimer)
    /\ UNCHANGED <<failures, retryTimer, writeScheduled, drain, batch, flushVars, diskVars, failed>>

\* The continuation of a flush runs before any timer does.
TimersRun == \A f \in Flushers : flusher[f] # "looping"

\* scheduleFlush's timer.
FlushTimer ==
    /\ flushTimer /\ TimersRun
    /\ flushTimer' = FALSE
    /\ writeScheduled' = TRUE
    /\ UNCHANGED <<queueVars, failures, retryTimer, drain, batch, flushVars, diskVars, failed>>

\* recordWriteFailure's timer.
RetryTimer ==
    /\ retryTimer /\ TimersRun
    /\ retryTimer' = FALSE
    /\ writeScheduled' = (writeScheduled \/ queue # <<>>)
    /\ UNCHANGED <<queueVars, failures, flushTimer, drain, batch, flushVars, diskVars, failed>>
-----------------------------------------------------------------------------

\* The callers that await the task that ends now take up their loop again.
Released == [f \in Flushers |-> IF flusher[f] = "running" THEN "looping" ELSE flusher[f]]

(***************************************************************************)
(* The write chain starts the scheduled task, for which the flushers that  *)
(* are queued behind it now wait. drainOnce returns at once if the queue   *)
(* is empty.                                                               *)
(***************************************************************************)
DrainStarts ==
    /\ writeScheduled /\ drain = "idle"
    /\ writeScheduled' = FALSE
    /\ LET next == IF queue = <<>> THEN "looping" ELSE "running"
       IN  flusher' = [f \in Flushers |-> IF flusher[f] = "queued" THEN next ELSE flusher[f]]
    /\ drain' = IF queue = <<>> THEN "idle" ELSE "path"
    /\ UNCHANGED <<queueVars, failures, flushTimer, retryTimer, batch, report, diskVars, failed>>

\* Mutant of WriteFails: no retry.
WriteFailsOnce ==
    /\ failures' = IF failures < FailedThreshold THEN failures + 1 ELSE failures
    /\ drain' = "idle" /\ batch' = <<>>
    /\ flusher' = Released
    /\ UNCHANGED <<queueVars, flushTimer, retryTimer, writeScheduled, report>>

\* Mutant of WriteFails: the batch was spliced off the queue.
WriteFailsSpliced ==
    /\ failures' = IF failures < FailedThreshold THEN failures + 1 ELSE failures
    /\ retryTimer' = TRUE
    /\ queue' = SubSeq(queue, Len(batch) + 1, Len(queue))
    /\ drain' = "idle" /\ batch' = <<>>
    /\ flusher' = Released
    /\ UNCHANGED <<dropped, recorded, late, flushTimer, writeScheduled, report>>

\* recordWriteFailure, which ends the drain and leaves the queue as it is. The
\* count of consecutive failures matters up to FAILED_THRESHOLD.
WriteFails ==
    /\ failures' = IF failures < FailedThreshold THEN failures + 1 ELSE failures
    /\ retryTimer' = TRUE
    /\ drain' = "idle" /\ batch' = <<>>
    /\ flusher' = Released
    /\ UNCHANGED <<queueVars, flushTimer, writeScheduled, report>>

\* A failure of the file system, of which there are MaxFailures.
Fault == failed < MaxFailures /\ failed' = failed + 1

\* Mutant of PathResolves: the queue is emptied when its payload is taken.
PathResolvesEmpties ==
    /\ drain = "path" /\ path # "rejected"
    /\ path' = "resolved"
    /\ drain' = "append"
    /\ batch' = queue /\ queue' = <<>>
    /\ UNCHANGED <<dropped, recorded, late, failures, flushTimer, retryTimer, writeScheduled,
                   flushVars, size, trail, trimmed, failed>>

(***************************************************************************)
(* ensureLogFilePath. The promise of the path is kept, rejected or not:    *)
(* once the state migration has failed every later drain fails too.        *)
(***************************************************************************)
PathResolves ==
    /\ drain = "path" /\ path # "rejected"
    /\ path' = "resolved"
    /\ drain' = "append"
    /\ batch' = queue
    /\ UNCHANGED <<queueVars, failures, flushTimer, retryTimer, writeScheduled, flushVars,
                   size, trail, trimmed, failed>>

MkdirFails ==
    /\ drain = "path" /\ path # "rejected"
    /\ Fault /\ WriteFails
    /\ path' = "resolved"
    /\ UNCHANGED <<size, trail, trimmed>>

MigrationFails ==
    /\ drain = "path" /\ path = "unresolved"
    /\ Fault /\ WriteFails
    /\ path' = "rejected"
    /\ UNCHANGED <<size, trail, trimmed>>

PathRejected ==
    /\ drain = "path" /\ path = "rejected"
    /\ WriteFails
    /\ UNCHANGED <<diskVars, failed>>

\* Mutant of AppendSucceeds: the queue is left to the next drain.
AppendKeepsQueue ==
    /\ drain = "append"
    /\ trail' = [trail EXCEPT ![0] = @ \o batch]
    /\ size' = Len(trail'[0])
    /\ failures' = 0
    /\ drain' = "tidy" /\ batch' = <<>>
    /\ UNCHANGED <<queueVars, flushTimer, retryTimer, writeScheduled, flushVars, path, trimmed,
                   failed>>

(***************************************************************************)
(* appendFile. Its success empties the queue: the batch, and whatever      *)
(* record() has queued since the batch was taken.                          *)
(***************************************************************************)
KnownSize == IF size < 0 THEN Len(trail[0]) ELSE size

AppendSucceeds ==
    /\ drain = "append"
    /\ trail' = [trail EXCEPT ![0] = @ \o batch]
    /\ size' = KnownSize + Len(batch)
    /\ queue' = <<>>
    /\ failures' = 0
    /\ drain' = "tidy" /\ batch' = <<>>
    /\ UNCHANGED <<dropped, recorded, late, flushTimer, retryTimer, writeScheduled, flushVars,
                   path, trimmed, failed>>

AppendFails ==
    /\ drain = "append"
    /\ Fault /\ WriteFails
    /\ size' = KnownSize
    /\ UNCHANGED <<path, trail, trimmed>>
-----------------------------------------------------------------------------
(***************************************************************************)
(* rotateIfNeeded. Every generation moves one up, the file becomes         *)
(* generation 1, the oldest is deleted; "stuck" are the renames that fail. *)
(* The file's rename is tried again without a generation 1 in its way. The *)
(* size is taken for zero whether or not the file has moved.               *)
(***************************************************************************)
Moves(i, stuck) == i \notin stuck /\ trail[i] # <<>>

Rotated(stuck) ==
    [i \in 0..Rotations |->
        IF i > 0 /\ Moves(i - 1, stuck) THEN trail[i - 1]
        ELSE IF i \in {1, Rotations} \/ Moves(i, stuck) THEN <<>>
        ELSE trail[i]]

\* compact: the newest EntriesMax entries of the file are kept.
Compacted(file) ==
    IF Len(file) <= EntriesMax THEN file
    ELSE SubSeq(file, Len(file) - EntriesMax + 1, Len(file))

(***************************************************************************)
(* The end of a drain that has written. A compaction that fails leaves the *)
(* file; the failures of either step are only logged.                      *)
(***************************************************************************)
Tidy ==
    /\ drain = "tidy"
    /\ \E stuck \in SUBSET (0..Rotations - 1), compacts \in BOOLEAN :
          LET rotates == size > FileMax
              rotated == IF rotates THEN Rotated(stuck) ELSE trail
              file    == IF compacts THEN Compacted(rotated[0]) ELSE rotated[0]
          IN  /\ trail' = [rotated EXCEPT ![0] = file]
              /\ size' = IF file # rotated[0] THEN Len(file) ELSE IF rotates THEN 0 ELSE size
    /\ trimmed' = trimmed \cup (OnDisk \ UNION {ToSet(trail'[i]) : i \in 0..Rotations})
    /\ drain' = "idle"
    /\ flusher' = Released
    /\ UNCHANGED <<queueVars, failures, flushTimer, retryTimer, writeScheduled, batch, report,
                   path, failed>>
-----------------------------------------------------------------------------
(***************************************************************************)
(* flush: the loop ends when the queue is empty, when a retry is pending   *)
(* or when the deadline has passed.                                        *)
(***************************************************************************)
Loop(f, deadline) ==
    IF queue # <<>> /\ ~retryTimer /\ ~deadline
    THEN /\ writeScheduled' = TRUE
         /\ flusher' = [flusher EXCEPT ![f] = "queued"]
         /\ UNCHANGED report
    ELSE /\ flusher' = [flusher EXCEPT ![f] = "idle"]
         /\ report' = [report EXCEPT ![f].clean = (queue = <<>>)]
         /\ UNCHANGED writeScheduled

\* The call, with the first turn of its loop, which no deadline ends. Bound: a
\* caller asks again only after something was recorded.
Flush(f) ==
    /\ flusher[f] = "idle" /\ report[f].asked < recorded
    /\ flushTimer' = FALSE
    /\ IF queue # <<>> /\ ~retryTimer
       THEN /\ writeScheduled' = TRUE
            /\ flusher' = [flusher EXCEPT ![f] = "queued"]
            /\ report' = [report EXCEPT ![f] = [clean |-> FALSE, asked |-> recorded]]
       ELSE /\ report' = [report EXCEPT ![f] = [clean |-> queue = <<>>, asked |-> recorded]]
            /\ UNCHANGED <<writeScheduled, flusher>>
    /\ UNCHANGED <<queueVars, failures, retryTimer, drain, batch, diskVars, failed>>

FlushLoops(f) ==
    /\ flusher[f] = "looping"
    /\ \E deadline \in BOOLEAN : Loop(f, deadline)
    /\ UNCHANGED <<queueVars, failures, flushTimer, retryTimer, drain, batch, diskVars, failed>>
-----------------------------------------------------------------------------
Drain == \/ DrainStarts \/ PathResolves \/ MkdirFails \/ MigrationFails \/ PathRejected
         \/ AppendSucceeds \/ AppendFails \/ Tidy

Next == \/ Record \/ FlushTimer \/ RetryTimer
        \/ DrainStarts \/ PathResolves \/ MkdirFails \/ MigrationFails \/ PathRejected
        \/ AppendSucceeds \/ AppendFails \/ Tidy
        \/ \E f \in Flushers : Flush(f) \/ FlushLoops(f)

Spec == Init /\ [][Next]_vars

\* Timers fire and pending promises settle; nobody has to call flush or record.
FairSpec == /\ Spec
            /\ WF_vars(FlushTimer) /\ WF_vars(RetryTimer) /\ WF_vars(Drain)
            /\ \A f \in Flushers : WF_vars(FlushLoops(f))
-----------------------------------------------------------------------------
(***************************************************************************)
(* Properties.                                                             *)
(***************************************************************************)

\* Every recorded entry is queued, on disk, deleted by rotation or compaction,
\* or counted as dropped, unless it was recorded while an append was in flight.
Accounted ==
    \A e \in 1..recorded : e \in ToSet(queue) \cup OnDisk \cup trimmed \cup dropped \cup late

\* The same without the exception: a failed write keeps its entries and nothing
\* vanishes silently (the header comment of audit.ts).
NothingLostSilently ==
    \A e \in 1..recorded : e \in ToSet(queue) \cup OnDisk \cup trimmed \cup dropped

\* The trail is in the order of record(), along each file and from the oldest
\* rotation to the file, whatever renames and compactions fail; no entry is
\* written twice, and what is deleted is never the newest of the trail.
Increasing(seq) == \A i, j \in DOMAIN seq : i < j => seq[i] < seq[j]

TrailInOrder ==
    /\ \A i \in 0..Rotations : Increasing(trail[i])
    /\ \A i, j \in 0..Rotations : i < j =>
          \A old \in ToSet(trail[j]), new \in ToSet(trail[i]) : old < new
    /\ Increasing(queue)
    /\ drain # "tidy" => \A e \in ToSet(queue) : e \notin OnDisk
    /\ \A old \in trimmed : \E new \in OnDisk : old < new

\* While entries are queued something is under way that writes them: a timer, a
\* scheduled or running drain, or a flush about to schedule one. A flush that
\* clears the flush timer, a record that relies on the retry timer and a retry
\* that finds the queue empty never strand an entry between them.
NeverStranded ==
    queue # <<>> => \/ flushTimer \/ retryTimer \/ writeScheduled \/ drain # "idle"

\* What record() was given is accounted for, and what is queued is on its way
\* (drainOnce, scheduleFlush, recordWriteFailure).
EntriesKept == Accounted /\ NeverStranded

\* A clean flush report means that what was recorded before the call was
\* written, whichever drain, retry or other flush wrote it: it is on disk, or
\* the limits of the trail or of the queue have deleted it since. Not covered is
\* what an append that was in flight has swept away (NothingLostSilently); an
\* entry that is only in the payload of a running append is not written yet.
CleanFlushIsWritten ==
    \A f \in Flushers : flusher[f] = "idle" /\ report[f].clean =>
        \A e \in 1..report[f].asked :
            /\ e \in OnDisk \cup trimmed \cup dropped \cup late
            /\ e \notin ToSet(queue)

\* Unless the state migration has failed for good, what is queued is written,
\* in spite of failed writes and whoever clears the timers.
EventuallyWritten == queue # <<>> ~> (queue = <<>> \/ path = "rejected")

\* Every flush call returns.
FlushReturns == \A f \in Flushers : flusher[f] # "idle" ~> flusher[f] = "idle"

\* The log never stands still: not with entries in the queue, and not in a
\* flush that waits for a drain (scheduleWrite, flush).
LogProceeds == EventuallyWritten /\ FlushReturns
=============================================================================
