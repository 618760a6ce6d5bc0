------------------------------ MODULE PageStore ------------------------------
(***************************************************************************)
(* The page cache (src/src/paging.ts) in the directories of the temp       *)
(* manager (src/src/temp-manager.ts), shared by several processes that may *)
(* die at any time.  A page is written to a staging directory, whose owner *)
(* shows by a heartbeat file that it lives, renamed to its final name, read*)
(* from there, and removed when it is old or one too many; what dead       *)
(* processes leave behind is removed by the living.                        *)
(*                                                                         *)
(* Publishing, reading and removing take the file lock (LockLease); writing*)
(* to the staging directory, heartbeats and the saving of access times do  *)
(* not.  A step is a file operation that others can see; those of one scan *)
(* are one step.  Ages are counted in ticks of more than a heartbeat lease *)
(* and at most a TTL, up to the first that is too old.                     *)
(***************************************************************************)
EXTENDS Naturals, FiniteSets, PageIndex

CONSTANTS
  Procs, Dirs, Owner,   \* processes, pages, and the process that writes a page
  Nothing,              \* no directory, or no process
  Chunks,               \* bound: output of a page
  Outputs, PageSizes,   \* bounds: what the chunks may hold, and sizes of pages asked for
  MaxCrashes, MaxReads  \* bounds: processes that die, reads of pages

ASSUME PageStoreAssumption ==
  /\ Owner \in [Dirs -> Procs] /\ Nothing \notin Dirs \cup Procs
  /\ IsFiniteSet(Dirs) /\ IsFiniteSet(Procs)
  /\ Outputs \subseteq [1..Chunks -> Seq(Bytes)] /\ PageSizes \subseteq Nat \ {0}
  /\ Chunks \in Nat \ {0} /\ {MaxCrashes, MaxReads} \subseteq Nat

VARIABLES
  \* The file system.
  disk,        \* of each page: "none", "staging", "final", "discarded" or "removed"
  content,     \* the chunks of output in its data file, {} if there is none
  meta,        \* its meta.json: "none", "full", "torn", or "bare" of all but the times
  lease,       \* its heartbeat file: "none", "fresh", "torn" or "old"
  aged,        \* no file was made in the directory for longer than a lease
  lock,        \* the holder of the file lock
  \* The writer of a page.
  phase, queued, written,
  indexed,     \* what the data file held when index and meta.json were made
  beat,        \* a heartbeat: "idle", "asked" (to the file system) or "open"
  \* The processes.
  up,          \* "down", "starting" or "up"
  crashes,
  listed,      \* pages in TempManager.dirs
  unknown,     \* those of them that had no metadata
  touched,     \* those accessed of late, whose access times a timer will save
  saving,      \* saves of meta.json, by the timer and by the publisher
  task,        \* what the process does under the lock
  victims,     \* pages that it removes
  current,     \* the one it is removing
  rest,        \* files of that one that are still to go
  reading, reads,
  \* History.
  raided,      \* staging directories removed under a living owner
  resaved      \* pages whose access time the timer of some process has saved

files   == <<disk, content, meta, lease, aged>>
writer  == <<phase, queued, written, indexed, beat>>
memory  == <<listed, unknown, touched>>
work    == <<task, victims, current, rest, reading, reads>>
procs   == <<up, crashes>>
history == <<raided, resaved>>
vars    == <<files, lock, writer, procs, memory, saving, work, history>>

Savers == {"timer", "publisher"}
Saves  == {"idle", "due", "full", "bare", "open-full", "open-bare"}
Files  == {"data", "meta", "lease"}
Phases == {"new", "creating", "writing", "indexed", "unbeating", "renaming", "saving",
           "checking", "announced", "unannounced", "failed", "discarded", "orphan"}

TypeOK ==
  /\ disk \in [Dirs -> {"none", "staging", "final", "discarded", "removed"}]
  /\ content \in [Dirs -> SUBSET (1..Chunks)] /\ indexed \in [Dirs -> SUBSET (1..Chunks)]
  /\ meta \in [Dirs -> {"none", "full", "torn", "bare"}]
  /\ lease \in [Dirs -> {"none", "fresh", "torn", "old"}]
  /\ aged \in [Dirs -> BOOLEAN]
  /\ lock \in Procs \cup {Nothing}
  /\ phase \in [Dirs -> Phases] /\ beat \in [Dirs -> {"idle", "asked", "open"}]
  /\ queued \in [Dirs -> 0..Chunks] /\ written \in [Dirs -> 0..Chunks]
  /\ up \in [Procs -> {"down", "starting", "up"}] /\ crashes \in 0..MaxCrashes
  /\ listed \in [Procs -> SUBSET Dirs] /\ unknown \in [Procs -> SUBSET Dirs]
  /\ touched \in [Procs -> SUBSET Dirs]
  /\ saving \in [Procs -> [Savers -> [Dirs -> Saves]]]
  /\ task \in [Procs -> {"none", "cleanup", "discard", "restore"}]
  /\ victims \in [Procs -> SUBSET Dirs] /\ rest \in [Procs -> SUBSET Files]
  /\ current \in [Procs -> Dirs \cup {Nothing}] /\ reading \in [Procs -> Dirs \cup {Nothing}]
  /\ raided \subseteq Dirs /\ resaved \subseteq Dirs /\ reads \in 0..MaxReads

Init ==
  /\ disk = [d \in Dirs |-> "none"] /\ content = [d \in Dirs |-> {}]
  /\ meta = [d \in Dirs |-> "none"]
  /\ lease = [d \in Dirs |-> "none"] /\ aged = [d \in Dirs |-> FALSE]
  /\ lock = Nothing
  /\ phase = [d \in Dirs |-> "new"] /\ indexed = [d \in Dirs |-> {}]
  /\ queued = [d \in Dirs |-> 0] /\ written = [d \in Dirs |-> 0]
  /\ beat = [d \in Dirs |-> "idle"]
  /\ up = [p \in Procs |-> "up"] /\ crashes = 0
  /\ listed = [p \in Procs |-> {}] /\ unknown = [p \in Procs |-> {}]
  /\ touched = [p \in Procs |-> {}]
  /\ saving = [p \in Procs |-> [s \in Savers |-> [d \in Dirs |-> "idle"]]]
  /\ task = [p \in Procs |-> "none"] /\ victims = [p \in Procs |-> {}]
  /\ rest = [p \in Procs |-> {}] /\ current = [p \in Procs |-> Nothing] /\ reading = [p \in Procs |-> Nothing]
  /\ raided = {} /\ resaved = {} /\ reads = 0

Up(p)    == up[p] = "up"
Alive(d) == Up(Owner[d])
Free     == lock = Nothing

Phase(d, s) == phase' = [phase EXCEPT ![d] = s]
Lock(p)     == lock' = p
Unlock      == lock' = Nothing

\* The staging directories that the process of their owner has in its table.
Local(d) == phase[d] \in {"creating", "writing", "indexed", "unbeating", "renaming", "failed"}

-------------------------------------------------------------------------------
(* The heartbeat: a file is opened, and emptied, and then written *)

Beating(d) == phase[d] \in {"writing", "indexed", "failed"}

BeatTimer(d) ==
  /\ Alive(d) /\ Beating(d) /\ beat[d] = "idle" /\ d \notin victims[Owner[d]]
  /\ beat' = [beat EXCEPT ![d] = "asked"]
  /\ UNCHANGED <<files, lock, phase, queued, written, indexed, procs, memory, saving, work, history>>

\* By the name of the staging directory, which may be gone by now.
BeatOpens(d) ==
  /\ beat[d] = "asked"
  /\ IF disk[d] = "staging"
     THEN /\ lease' = [lease EXCEPT ![d] = "torn"]
          /\ aged' = [aged EXCEPT ![d] = @ /\ lease[d] # "none"]
          /\ beat' = [beat EXCEPT ![d] = "open"]
     ELSE /\ beat' = [beat EXCEPT ![d] = "idle"]
          /\ UNCHANGED <<lease, aged>>
  /\ UNCHANGED <<disk, content, meta, lock, phase, queued, written, indexed,
                 procs, memory, saving, work, history>>

BeatWrites(d) ==
  /\ beat[d] = "open"
  /\ beat' = [beat EXCEPT ![d] = "idle"]
  /\ lease' = [lease EXCEPT ![d] = IF @ = "none" THEN "none" ELSE "fresh"]
  /\ UNCHANGED <<disk, content, meta, aged, lock, phase, queued, written, indexed,
                 procs, memory, saving, work, history>>

-------------------------------------------------------------------------------
(* The writer *)

Creates(d) ==
  /\ phase[d] = "new" /\ Alive(d) /\ Free
  /\ Lock(Owner[d]) /\ Phase(d, "creating")
  /\ disk' = [disk EXCEPT ![d] = "staging"]
  /\ beat' = [beat EXCEPT ![d] = "asked"]
  /\ UNCHANGED <<content, meta, lease, aged, queued, written, indexed,
                 procs, memory, saving, work, history>>

Created(d) ==
  /\ phase[d] = "creating" /\ beat[d] = "idle"
  /\ Unlock /\ Phase(d, "writing")
  /\ UNCHANGED <<files, queued, written, indexed, beat, procs, memory, saving, work, history>>

\* PageCacheWriter.write puts a chunk at the end of the chain of its stream.
Accepts(d) ==
  /\ phase[d] = "writing" /\ Alive(d) /\ queued[d] < Chunks
  /\ queued' = [queued EXCEPT ![d] = @ + 1]
  /\ UNCHANGED <<files, lock, phase, written, indexed, beat, procs, memory, saving, work, history>>

\* An append makes the data file if it is not there; it fails without the directory.
Appends(d) ==
  /\ phase[d] = "writing" /\ Alive(d) /\ written[d] < queued[d]
  /\ IF disk[d] = "staging"
     THEN /\ written' = [written EXCEPT ![d] = @ + 1]
          /\ content' = [content EXCEPT ![d] = @ \cup {written[d] + 1}]
          /\ aged' = [aged EXCEPT ![d] = @ /\ content[d] # {}]
          /\ UNCHANGED phase
     ELSE Phase(d, "failed") /\ UNCHANGED <<written, content, aged>>
  /\ UNCHANGED <<disk, meta, lease, lock, queued, indexed, beat,
                 procs, memory, saving, work, history>>

\* Mutant of Indexes: the chains of the streams are not awaited.
IndexesUnsettled(d) ==
  /\ phase[d] = "writing" /\ Alive(d) /\ written[d] > 0
  /\ IF disk[d] = "staging"
     THEN /\ Phase(d, "indexed")
          /\ indexed' = [indexed EXCEPT ![d] = content[d]]
          /\ meta' = [meta EXCEPT ![d] = "full"]
          /\ aged' = [aged EXCEPT ![d] = FALSE]
     ELSE Phase(d, "failed") /\ UNCHANGED <<indexed, meta, aged>>
  /\ UNCHANGED <<disk, content, lease, lock, queued, written, beat,
                 procs, memory, saving, work, history>>

\* The chains have ended: encodings, index and meta.json are made of what the
\* data file holds (which may have been made again, empty).
Indexes(d) ==
  /\ phase[d] = "writing" /\ Alive(d) /\ written[d] > 0 /\ written[d] = queued[d]
  /\ IF disk[d] = "staging"
     THEN /\ Phase(d, "indexed")
          /\ indexed' = [indexed EXCEPT ![d] = content[d]]
          /\ meta' = [meta EXCEPT ![d] = "full"]
          /\ aged' = [aged EXCEPT ![d] = FALSE]
     ELSE Phase(d, "failed") /\ UNCHANGED <<indexed, meta, aged>>
  /\ UNCHANGED <<disk, content, lease, lock, queued, written, beat,
                 procs, memory, saving, work, history>>

\* Any failure before the publication, a lock that is not to be had included.
WriterFails(d) ==
  /\ phase[d] \in {"writing", "indexed"} /\ Alive(d)
  /\ Phase(d, "failed")
  /\ UNCHANGED <<files, lock, queued, written, indexed, beat, procs, memory, saving, work, history>>

\* finalizeStaging under the lock: the timer is cleared, ...
FinalizeStarts(d) ==
  /\ phase[d] = "indexed" /\ Alive(d) /\ Free
  /\ Lock(Owner[d]) /\ Phase(d, "unbeating")
  /\ UNCHANGED <<files, queued, written, indexed, beat, procs, memory, saving, work, history>>

\* ... the heartbeat file goes, ...
Unbeats(d) ==
  /\ phase[d] = "unbeating"
  /\ lease' = [lease EXCEPT ![d] = "none"]
  /\ Phase(d, "renaming")
  /\ UNCHANGED <<disk, content, meta, aged, lock, queued, written, indexed, beat,
                 procs, memory, saving, work, history>>

\* ... and the directory is renamed; its metadata is about to be saved.
Renames(d) ==
  /\ phase[d] = "renaming" /\ disk[d] = "staging"
  /\ disk' = [disk EXCEPT ![d] = "final"]
  /\ Phase(d, "saving")
  /\ listed' = [listed EXCEPT ![Owner[d]] = @ \cup {d}]
  /\ touched' = [touched EXCEPT ![Owner[d]] = IF @ = {} THEN {} ELSE @ \cup {d}]
  /\ saving' = [saving EXCEPT ![Owner[d]]["publisher"][d] = "due"]
  /\ UNCHANGED <<content, meta, lease, aged, lock, queued, written, indexed, beat,
                 procs, unknown, work, history>>

\* A rename that fails has the heartbeat start again before the lock is released.
RenameFails(d) ==
  /\ phase[d] = "renaming" /\ task[Owner[d]] = "none"
  /\ Phase(d, "failed")
  /\ task' = [task EXCEPT ![Owner[d]] = "restore"]
  /\ beat' = [beat EXCEPT ![d] = "asked"]
  /\ UNCHANGED <<files, lock, queued, written, indexed, procs, memory, saving, victims, current,
                 rest, reading, reads, history>>

Saved(d) ==
  /\ phase[d] = "saving" /\ saving[Owner[d]]["publisher"][d] = "idle"
  /\ Unlock /\ Phase(d, "checking")
  /\ UNCHANGED <<files, queued, written, indexed, beat, procs, memory, saving, work, history>>

\* assertFourFiles, after the lock is released.
FourFiles(d) == disk[d] = "final" /\ content[d] # {} /\ meta[d] # "none" /\ lease[d] = "none"

\* Mutant of Checks: the files are not looked at.
ChecksNothing(d) ==
  /\ phase[d] = "checking"
  /\ Phase(d, "announced")
  /\ UNCHANGED <<files, lock, queued, written, indexed, beat, procs, memory, saving, work, history>>

\* Only then the id of the page is told to the client.
Checks(d) ==
  /\ phase[d] = "checking"
  /\ Phase(d, IF FourFiles(d) THEN "announced" ELSE "unannounced")
  /\ UNCHANGED <<files, lock, queued, written, indexed, beat, procs, memory, saving, work, history>>

-------------------------------------------------------------------------------
(* Readers, and the saving of access times *)

\* Sizes, index and metadata are compared with each other.
Readable(d) == FourFiles(d) /\ meta[d] = "full" /\ content[d] = indexed[d]

\* Mutant of ReadBegins: the read does not take the lock.
ReadBeginsUnlocked(p, d) ==
  /\ Up(p) /\ phase[d] = "announced" /\ Readable(d) /\ reading[p] = Nothing
  /\ reads < MaxReads /\ reads' = reads + 1
  /\ reading' = [reading EXCEPT ![p] = d]
  /\ UNCHANGED <<lock, files, writer, procs, memory, saving, task, victims, current, rest, history>>

ReadBegins(p, d) ==
  /\ Up(p) /\ Free /\ phase[d] = "announced" /\ Readable(d)
  /\ reads < MaxReads /\ reads' = reads + 1
  /\ Lock(p)
  /\ reading' = [reading EXCEPT ![p] = d]
  /\ UNCHANGED <<files, writer, procs, memory, saving, task, victims, current, rest, history>>

\* touch does nothing for a page that the process has not listed.
ReadEnds(p) ==
  /\ reading[p] # Nothing
  /\ reading' = [reading EXCEPT ![p] = Nothing]
  /\ touched' = [touched EXCEPT ![p] = @ \cup ({reading[p]} \cap listed[p])]
  /\ Unlock
  /\ UNCHANGED <<files, writer, procs, listed, unknown, saving, task, victims, current, rest, reads, history>>

\* saveMeta keeps what it can parse of the file, ...
Kept(d) == IF meta[d] = "full" THEN "full" ELSE "bare"

\* The timer saves all pages that were accessed of late, without the lock.
TouchTimer(p) ==
  /\ Up(p) /\ touched[p] # {}
  /\ touched' = [touched EXCEPT ![p] = {}]
  /\ LET recent == touched[p] \cap listed[p] IN
       /\ saving' = [saving EXCEPT ![p]["timer"] =
                       [d \in Dirs |-> IF d \in recent THEN Kept(d) ELSE @[d]]]
       /\ resaved' = resaved \cup recent
  /\ UNCHANGED <<files, lock, writer, procs, listed, unknown, work, raided>>

Save(p, s, d, to) == saving' = [saving EXCEPT ![p][s][d] = to]

SaveReads(p, s, d) ==
  /\ saving[p][s][d] = "due"
  /\ Save(p, s, d, Kept(d))
  /\ UNCHANGED <<files, lock, writer, procs, memory, work, history>>

\* ... empties it, ...
SaveOpens(p, s, d) ==
  /\ saving[p][s][d] \in {"full", "bare"}
  /\ IF disk[d] = "final"
     THEN /\ meta' = [meta EXCEPT ![d] = "torn"]
          /\ Save(p, s, d, IF saving[p][s][d] = "full" THEN "open-full" ELSE "open-bare")
     ELSE Save(p, s, d, "idle") /\ UNCHANGED meta
  /\ UNCHANGED <<disk, content, lease, aged, lock, writer, procs, memory, work, history>>

\* ... and writes it.  Over a longer text a shorter one leaves a rest behind.
SaveWrites(p, s, d) ==
  /\ saving[p][s][d] \in {"open-full", "open-bare"}
  /\ Save(p, s, d, "idle")
  /\ meta' = [meta EXCEPT ![d] =
                IF @ = "none" THEN "none"
                ELSE IF saving[p][s][d] = "open-full" THEN "full"
                ELSE IF @ = "full" THEN "torn" ELSE "bare"]
  /\ UNCHANGED <<disk, content, lease, aged, lock, writer, procs, memory, work, history>>

-------------------------------------------------------------------------------
(* Cleanup, recovery and discarding: removal under the lock *)

\* scan: what is in memory stays, what is new is taken from the disk.
Scanned(p) == {d \in Dirs : disk[d] = "final"}

Scan(p) ==
  LET fresh == Scanned(p) \ listed[p] IN
    /\ listed'  = [listed EXCEPT ![p] = Scanned(p)]
    /\ unknown' = [unknown EXCEPT ![p] =
                     (@ \cap Scanned(p)) \cup {d \in fresh : meta[d] = "none"}]
    /\ UNCHANGED touched

\* Mutant of Stale: the heartbeat is not read, only the age of the directory.
StaleByAge(d) == aged[d]

\* Mutant of Stale: without a heartbeat that can be parsed nothing is stale.
StaleByLease(d) == lease[d] = "old"

Stale(d) == lease[d] = "old" \/ (lease[d] \in {"none", "torn"} /\ aged[d])

StaleStagings(p) ==
  {d \in Dirs : disk[d] = "staging" /\ Stale(d) /\ ~(Owner[d] = p /\ Local(d))}

\* Of the pages with metadata that are not being read: those that have expired,
\* and the least recently used beyond the number and the size that may stay.
Removable(p) == {d \in listed'[p] \ unknown'[p] : reading[p] # d}

Removes(p, t, doomed) ==
  /\ Lock(p)
  /\ task' = [task EXCEPT ![p] = t]
  /\ victims' = [victims EXCEPT ![p] = doomed]
  /\ UNCHANGED <<files, writer, crashes, saving, current, rest, reading, reads, history>>

CleanupBegins(p) ==
  /\ Up(p) /\ Free /\ Scan(p)
  /\ \E old \in SUBSET Removable(p) : Removes(p, "cleanup", StaleStagings(p) \cup old)
  /\ UNCHANGED up

\* The first call after a start: only what the dead have left.
Recovers(p) ==
  /\ up[p] = "starting" /\ Free /\ Scan(p)
  /\ up' = [up EXCEPT ![p] = "up"]
  /\ Removes(p, "cleanup", StaleStagings(p))

\* The lock is not to be had in a second: the start goes on without.
RecoverySkipped(p) ==
  /\ up[p] = "starting" /\ ~Free /\ Scan(p)
  /\ up' = [up EXCEPT ![p] = "up"]
  /\ UNCHANGED <<files, lock, writer, crashes, saving, work, history>>

DiscardBegins(d) ==
  /\ phase[d] = "failed" /\ Alive(d) /\ Free
  /\ Removes(Owner[d], "discard", {d})
  /\ UNCHANGED <<up, memory>>

Present(d) ==
  (IF content[d] = {} THEN {} ELSE {"data"}) \cup (IF meta[d] = "none" THEN {} ELSE {"meta"})
    \cup (IF lease[d] = "none" THEN {} ELSE {"lease"})

\* rm lists the directory, ...
RemovalBegins(p, d) ==
  /\ current[p] = Nothing /\ d \in victims[p]
  /\ current' = [current EXCEPT ![p] = d]
  /\ rest' = [rest EXCEPT ![p] = Present(d)]
  /\ raided' = IF disk[d] = "staging" /\ Alive(d) /\ Local(d) /\ Owner[d] # p
               THEN raided \cup {d} ELSE raided
  /\ UNCHANGED <<files, lock, writer, procs, memory, saving, task, victims, reading, reads, resaved>>

\* ... unlinks what it has found, in any order, ...
Unlinks(p, f) ==
  /\ f \in rest[p]
  /\ rest' = [rest EXCEPT ![p] = @ \ {f}]
  /\ LET d == current[p] IN
       /\ content' = IF f = "data" THEN [content EXCEPT ![d] = {}] ELSE content
       /\ meta'    = IF f = "meta" THEN [meta EXCEPT ![d] = "none"] ELSE meta
       /\ lease'   = IF f = "lease" THEN [lease EXCEPT ![d] = "none"] ELSE lease
  /\ UNCHANGED <<disk, aged, lock, writer, procs, memory, saving, task, victims, current,
                 reading, reads, history>>

\* ... and removes the directory, unless a new file has been made in it.
RemovalEnds(p) ==
  /\ current[p] # Nothing /\ rest[p] = {}
  /\ current' = [current EXCEPT ![p] = Nothing]
  /\ victims' = [victims EXCEPT ![p] = @ \ {current[p]}]
  /\ LET d == current[p] IN
       IF Present(d) = {}
       THEN /\ disk' = [disk EXCEPT ![d] = CASE @ = "staging" -> "discarded"
                                                      [] @ = "final" -> "removed"
                                                      [] OTHER -> @]
            /\ listed' = [listed EXCEPT ![p] = @ \ {d}]
            /\ unknown' = [unknown EXCEPT ![p] = @ \ {d}]
       ELSE UNCHANGED <<disk, listed, unknown>>
  /\ UNCHANGED <<content, meta, lease, aged, lock, writer, procs, touched, saving,
                 task, rest, reading, reads, history>>

\* A staging directory that could not be renamed or discarded has a heartbeat again.
Restored(d) == disk[d] = "staging" => lease[d] # "none" /\ beat[d] = "idle"

TaskEnds(p) ==
  /\ task[p] # "none" /\ victims[p] = {}
  /\ task[p] # "cleanup" => \A d \in Dirs : Owner[d] = p /\ phase[d] = "failed" => Restored(d)
  /\ Unlock
  /\ task' = [task EXCEPT ![p] = "none"]
  /\ phase' = [d \in Dirs |-> IF task[p] = "discard" /\ Owner[d] = p /\ phase[d] = "failed"
                                 /\ disk[d] # "staging"
                              THEN "discarded" ELSE phase[d]]
  /\ UNCHANGED <<files, queued, written, indexed, beat, procs, memory, saving, victims, current,
                 rest, reading, reads, history>>

-------------------------------------------------------------------------------
(* Time, crashes and restarts *)

\* More than a lease.  Heartbeats, saves and what is done under the lock do not
\* take that long.
Tick ==
  /\ Free
  /\ \A d \in Dirs : beat[d] = "idle" \/ disk[d] = "final"
  /\ \A p \in Procs, s \in Savers, d \in Dirs : saving[p][s][d] = "idle"
  /\ aged' = [d \in Dirs |-> disk[d] = "staging"]
  /\ lease' = [d \in Dirs |-> IF lease[d] = "fresh" /\ ~(Beating(d) /\ Alive(d))
                              THEN "old" ELSE lease[d]]
  /\ UNCHANGED <<disk, content, meta, lock, writer, procs, memory, saving, work, history>>

\* The lock of a dead process is taken over.
Crash(p) ==
  /\ up[p] # "down" /\ crashes < MaxCrashes
  /\ crashes' = crashes + 1
  /\ up' = [up EXCEPT ![p] = "down"]
  /\ lock' = IF lock = p THEN Nothing ELSE lock
  /\ phase' = [d \in Dirs |-> IF Owner[d] = p /\ (Local(d) \/ phase[d] \in {"saving", "checking"})
                              THEN "orphan" ELSE phase[d]]
  /\ beat' = [d \in Dirs |-> IF Owner[d] = p THEN "idle" ELSE beat[d]]
  /\ listed' = [listed EXCEPT ![p] = {}] /\ unknown' = [unknown EXCEPT ![p] = {}]
  /\ touched' = [touched EXCEPT ![p] = {}]
  /\ saving' = [saving EXCEPT ![p] = [s \in Savers |-> [d \in Dirs |-> "idle"]]]
  /\ task' = [task EXCEPT ![p] = "none"] /\ victims' = [victims EXCEPT ![p] = {}]
  /\ current' = [current EXCEPT ![p] = Nothing] /\ rest' = [rest EXCEPT ![p] = {}]
  /\ reading' = [reading EXCEPT ![p] = Nothing]
  /\ UNCHANGED <<files, queued, written, indexed, reads, history>>

Restart(p) ==
  /\ up[p] = "down"
  /\ up' = [up EXCEPT ![p] = "starting"]
  /\ UNCHANGED <<files, lock, writer, crashes, memory, saving, work, history>>

Write(d) ==
  \/ BeatTimer(d) \/ BeatOpens(d) \/ BeatWrites(d)
  \/ Creates(d) \/ Created(d) \/ Accepts(d) \/ Appends(d) \/ Indexes(d) \/ WriterFails(d)
  \/ FinalizeStarts(d) \/ Unbeats(d) \/ Renames(d) \/ RenameFails(d) \/ Saved(d) \/ Checks(d)
  \/ DiscardBegins(d)

Clean(p) ==
  \/ CleanupBegins(p) \/ Recovers(p) \/ RecoverySkipped(p)
  \/ \E d \in Dirs : RemovalBegins(p, d)
  \/ \E f \in Files : Unlinks(p, f)
  \/ RemovalEnds(p) \/ TaskEnds(p)

SaveSteps(p) ==
  \E s \in Savers, d \in Dirs : SaveReads(p, s, d) \/ SaveOpens(p, s, d) \/ SaveWrites(p, s, d)

Next ==
  \/ \E d \in Dirs : Write(d)
  \/ \E p \in Procs : \/ Clean(p) \/ SaveSteps(p) \/ ReadEnds(p) \/ TouchTimer(p)
                      \/ Crash(p) \/ Restart(p)
                      \/ \E d \in Dirs : ReadBegins(p, d)
  \/ Tick

Spec == Init /\ [][Next]_vars

\* What a process has begun under the lock it brings to an end, and file
\* operations come to an end.  Time passes, processes are started again, and
\* the timer of the cleanup fires in one of them, again and again.
UnderLock(d) ==
  Created(d) \/ Unbeats(d) \/ Renames(d) \/ RenameFails(d) \/ Saved(d) \/ BeatOpens(d) \/ BeatWrites(d)
FairSpec ==
  /\ Spec /\ SF_vars(Tick)
  /\ \A d \in Dirs : WF_vars(UnderLock(d)) /\ WF_vars(BeatTimer(d) /\ ~Free)
  /\ \A p \in Procs : /\ WF_vars(Restart(p)) /\ WF_vars(ReadEnds(p)) /\ WF_vars(SaveSteps(p))
                      /\ WF_vars(Recovers(p) \/ RecoverySkipped(p))
                      /\ WF_vars(Clean(p) /\ ~Free)
  /\ WF_vars(\E p \in Procs : CleanupBegins(p))

-------------------------------------------------------------------------------
(* Properties *)

Announced(d) == phase[d] = "announced" /\ disk[d] = "final" /\ content[d] = indexed[d]

FileOf(output, chunks) ==
  FlattenSeq([k \in 1..Chunks |-> IF k \in chunks THEN output[k] ELSE <<>>])

\* Chunks in a file and numbers of chunks accepted that show the same.
Exact ==
  {pair \in {<<held, n>> : held \in SUBSET (1..Chunks), n \in 1..Chunks} : \A output \in Outputs :
     LET file == FileOf(output, pair[1])
         text == FileOf(output, 1..pair[2])
     IN /\ \A windows \in BOOLEAN, size \in PageSizes : ShowsExactly(file, text, windows, size)
        /\ TrimmedExactly(file)}

\* The pages whose id was told show all the output the writer accepted, character
\* by character, although appends are queued, units are split between chunks, and
\* crashes and cleanups of other processes fall between them: exempt are pages
\* whose staging directory was cleaned up under them (src/src/paging.ts:516).
PagesExact == \A d \in Dirs \ raided : Announced(d) => <<content[d], queued[d]>> \in Exact

\* The staging directory of a living process is taken for abandoned only if its
\* heartbeat was met half written and no file was made in it for a lease, or if
\* that has happened before and the removal was not finished
\* (src/src/temp-manager.ts:213-224).
LiveStagingKept ==
  [][\A p \in Procs : \A d \in victims'[p] \ (victims[p] \cup raided) :
       task'[p] = "cleanup" /\ disk[d] = "staging" /\ Alive(d) /\ Local(d)
         => lease[d] = "torn" /\ aged[d]]_vars

\* A page whose id was told can be read by every process, whatever was in
\* flight when it was published, until its removal begins or some process
\* saves its access time, which it does without the lock
\* (src/src/paging.ts:579, src/src/temp-manager.ts:335).
AnnouncedReadable ==
  \A d \in Dirs \ (resaved \cup raided) : Announced(d) /\ meta[d] # "none" => Readable(d)

\* What the page cache promises to its readers, see PageShelf.
Shelf == INSTANCE PageShelf WITH
  Pages <- Dirs, Readers <- Procs,
  shelf <- [d \in Dirs |-> IF phase[d] # "announced" THEN "absent"
                           ELSE IF disk[d] # "final" THEN "removed"
                           ELSE IF Announced(d) THEN "published" ELSE "damaged"]
ImplementsShelf == Shelf!Spec

\* What a process has left behind in a staging directory when it died is removed
\* by one that lives (src/src/temp-manager.ts:208).
OrphansRemoved ==
  \A d \in Dirs : (phase[d] = "orphan" /\ disk[d] = "staging") ~> (disk[d] # "staging")
===============================================================================
