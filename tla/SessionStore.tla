---------------------------- MODULE SessionStore ----------------------------
(***************************************************************************)
(* The persistence of the session state in src/src/session.ts: changes     *)
(* mark the state dirty, a debounce timer saves it, a chain writes one     *)
(* snapshot at a time, a snapshot that was overtaken by a change is        *)
(* followed by another save, and flush waits for all of them.              *)
(*                                                                         *)
(* The state and its snapshots are represented by their revision: the      *)
(* number of changes made. What a snapshot leaves out (values of the       *)
(* environment, the older history) and what a restart restores of it are   *)
(* not modelled. Nor are ties of the two timestamps that health compares.   *)
(***************************************************************************)
EXTENDS Naturals, Sequences

CONSTANTS
    Flushers,      \* callers of flush
    MaxRevision,   \* bound: changes made
    MaxFailures,   \* bound: saves that fail
    MaxFlushes     \* bound: calls of flush

ASSUME ConstantsAssumption ==
    MaxRevision \in Nat /\ MaxFailures \in Nat /\ MaxFlushes \in Nat

VARIABLES
    revision,     \* this.revision
    dirty,        \* this.dirty
    saveTimer,    \* this.saveTimer # null
    resaveTimer,  \* this.resaveTimer # null
    chain,        \* the snapshots on saveChain, oldest first: Head is in flight
    written,      \* the rename of the one in flight is done
    disk,         \* the revision in session.json
    failures,     \* this.persistFailures
    lastSave,     \* the later of lastPersistSuccessAt and lastPersistFailureAt
    stage,        \* where each flush is: its own save, then the whole chain
    behind,       \* how many of the chain's tasks it still waits for
    \* History.
    asked,        \* the revision at each flush's call
    spoiled,      \* the flushes during which a save failed
    promised,     \* the last revision that an unspoiled flush returned for
    flushes       \* calls of flush

timerVars   == <<saveTimer, resaveTimer>>
saveVars    == <<failures, lastSave>>
flushVars   == <<stage, behind, asked, spoiled, promised, flushes>>
vars == <<revision, dirty, timerVars, chain, written, disk, saveVars, flushVars>>

TypeOK ==
    /\ revision \in 0..MaxRevision /\ disk \in 0..MaxRevision /\ promised \in 0..MaxRevision
    /\ {dirty, saveTimer, resaveTimer, written} \subseteq BOOLEAN
    /\ chain \in Seq(0..MaxRevision) /\ (written => chain # <<>>)
    /\ failures \in 0..MaxFailures /\ flushes \in 0..MaxFlushes
    /\ stage \in [Flushers -> {"idle", "saving", "draining"}]
    /\ behind \in [Flushers -> 0..Len(chain)]
    /\ asked \in [Flushers -> 0..MaxRevision]
    /\ spoiled \subseteq Flushers
    /\ lastSave \in {"none", "succeeded", "failed"}

Init ==
    /\ revision = 0 /\ disk = 0 /\ promised = 0
    /\ dirty = FALSE /\ saveTimer = FALSE /\ resaveTimer = FALSE
    /\ chain = <<>> /\ written = FALSE
    /\ failures = 0 /\ lastSave = "none"
    /\ stage = [f \in Flushers |-> "idle"]
    /\ behind = [f \in Flushers |-> 0]
    /\ asked = [f \in Flushers |-> 0]
    /\ spoiled = {} /\ flushes = 0
-----------------------------------------------------------------------------
\* saveToDisk: the snapshot is taken now and put at the end of the chain.
SaveToDisk == chain' = Append(chain, revision)

\* setCwd, setEnv, pushHistory and reset, each followed by markDirty.
Change ==
    /\ revision < MaxRevision
    /\ revision' = revision + 1
    /\ dirty' = TRUE
    /\ saveTimer' = TRUE
    /\ UNCHANGED <<resaveTimer, chain, written, disk, saveVars, flushVars>>

\* markDirty's debounce timer and scheduleImmediateResave's timer.
SaveTimer ==
    /\ saveTimer
    /\ saveTimer' = FALSE
    /\ IF dirty THEN SaveToDisk ELSE UNCHANGED chain
    /\ UNCHANGED <<revision, dirty, resaveTimer, written, disk, saveVars, flushVars>>

ResaveTimer ==
    /\ resaveTimer
    /\ resaveTimer' = FALSE
    /\ IF dirty THEN SaveToDisk ELSE UNCHANGED chain
    /\ UNCHANGED <<revision, dirty, saveTimer, written, disk, saveVars, flushVars>>
-----------------------------------------------------------------------------
\* Mutant of Rename: saves are not chained, any of them may be the next.
RenameUnordered ==
    /\ chain # <<>> /\ ~written
    /\ written' = TRUE
    /\ \E i \in DOMAIN chain : disk' = chain[i]
    /\ UNCHANGED <<revision, dirty, timerVars, chain, saveVars, flushVars>>

\* persistSnapshot's atomicWriteFile has renamed the staged file.
Rename ==
    /\ chain # <<>> /\ ~written
    /\ written' = TRUE
    /\ disk' = Head(chain)
    /\ UNCHANGED <<revision, dirty, timerVars, chain, saveVars, flushVars>>

\* The end of persistSnapshot, one way or the other.
TaskEnds ==
    /\ chain' = Tail(chain)
    /\ written' = FALSE
    /\ behind' = [f \in Flushers |-> IF behind[f] > 0 THEN behind[f] - 1 ELSE 0]

(***************************************************************************)
(* The rest of persistSnapshot, after the rename: a state that has changed *)
(* since the snapshot stays dirty and is saved again soon.                 *)
(***************************************************************************)
Persisted ==
    /\ written
    /\ TaskEnds
    /\ dirty' = (revision # Head(chain))
    /\ resaveTimer' = (resaveTimer \/ revision # Head(chain))
    /\ lastSave' = "succeeded"
    /\ UNCHANGED <<revision, saveTimer, disk, failures,
                   stage, asked, spoiled, promised, flushes>>

\* persistSnapshot's catch: no state directory, no staging file, no rename.
PersistFails ==
    /\ chain # <<>> /\ ~written
    /\ failures < MaxFailures
    /\ TaskEnds
    /\ failures' = failures + 1
    /\ dirty' = TRUE
    /\ lastSave' = "failed"
    /\ spoiled' = {f \in Flushers : stage[f] # "idle"}
    /\ UNCHANGED <<revision, timerVars, disk, stage, asked, promised, flushes>>
-----------------------------------------------------------------------------
\* Mutant of Flush: it clears the timers and waits, but saves nothing itself.
FlushWaits(f) ==
    /\ stage[f] = "idle" /\ flushes < MaxFlushes
    /\ flushes' = flushes + 1
    /\ saveTimer' = FALSE /\ resaveTimer' = FALSE
    /\ stage' = [stage EXCEPT ![f] = "draining"]
    /\ behind' = [behind EXCEPT ![f] = Len(chain)]
    /\ asked' = [asked EXCEPT ![f] = revision]
    /\ spoiled' = spoiled \ {f}
    /\ UNCHANGED <<revision, dirty, chain, written, disk, saveVars, promised>>

\* Mutant of Flush: a save in flight is taken for the flush's own.
FlushJoins(f) ==
    /\ stage[f] = "idle" /\ flushes < MaxFlushes
    /\ flushes' = flushes + 1
    /\ saveTimer' = FALSE /\ resaveTimer' = FALSE
    /\ IF dirty /\ chain = <<>> THEN SaveToDisk ELSE UNCHANGED chain
    /\ stage' = [stage EXCEPT ![f] = "draining"]
    /\ behind' = [behind EXCEPT ![f] = Len(chain')]
    /\ asked' = [asked EXCEPT ![f] = revision]
    /\ spoiled' = spoiled \ {f}
    /\ UNCHANGED <<revision, dirty, written, disk, saveVars, promised>>

(***************************************************************************)
(* flush: the timers are cleared, a dirty state is saved and that save     *)
(* awaited, and then whatever is on the chain by that time.                *)
(***************************************************************************)
Flush(f) ==
    /\ stage[f] = "idle" /\ flushes < MaxFlushes
    /\ flushes' = flushes + 1
    /\ saveTimer' = FALSE /\ resaveTimer' = FALSE
    /\ IF dirty THEN SaveToDisk ELSE UNCHANGED chain
    /\ stage' = [stage EXCEPT ![f] = IF dirty THEN "saving" ELSE "draining"]
    /\ behind' = [behind EXCEPT ![f] = Len(chain')]
    /\ asked' = [asked EXCEPT ![f] = revision]
    /\ spoiled' = spoiled \ {f}
    /\ UNCHANGED <<revision, dirty, written, disk, saveVars, promised>>

\* Its own save is done: it awaits saveChain.
FlushDrains(f) ==
    /\ stage[f] = "saving" /\ behind[f] = 0
    /\ stage' = [stage EXCEPT ![f] = "draining"]
    /\ behind' = [behind EXCEPT ![f] = Len(chain)]
    /\ UNCHANGED <<revision, dirty, timerVars, chain, written, disk, saveVars,
                   asked, spoiled, promised, flushes>>

FlushReturns(f) ==
    /\ stage[f] = "draining" /\ behind[f] = 0
    /\ stage' = [stage EXCEPT ![f] = "idle"]
    /\ promised' = IF f \notin spoiled /\ asked[f] > promised THEN asked[f] ELSE promised
    /\ UNCHANGED <<revision, dirty, timerVars, chain, written, disk, saveVars,
                   behind, asked, spoiled, flushes>>
-----------------------------------------------------------------------------
Next == \/ Change \/ SaveTimer \/ ResaveTimer \/ Rename \/ Persisted \/ PersistFails
        \/ \E f \in Flushers : Flush(f) \/ FlushDrains(f) \/ FlushReturns(f)

Spec == Init /\ [][Next]_vars

\* Timers fire and a save that was begun ends; nobody has to change or flush.
FairSpec == /\ Spec
            /\ WF_vars(SaveTimer) /\ WF_vars(ResaveTimer)
            /\ WF_vars(Rename \/ Persisted \/ PersistFails)
            /\ \A f \in Flushers : WF_vars(FlushDrains(f) \/ FlushReturns(f))
-----------------------------------------------------------------------------
(***************************************************************************)
(* Properties.                                                             *)
(***************************************************************************)

\* A state that is not dirty is on disk as it is: a change made while a save
\* was in flight is never taken for saved.
CleanMeansPersisted == ~dirty => disk = revision

\* What is on disk is never replaced by something older: debounced saves,
\* immediate saves and flushes keep their order whatever fails among them.
DiskNeverGoesBack == [][disk' >= disk]_vars

\* A dirty state has a save ahead of it, a timer or a task of the chain, unless
\* the last save failed (it is then left to the next change or flush).
DirtyIsScheduled ==
    dirty => saveTimer \/ resaveTimer \/ chain # <<>> \/ lastSave = "failed"

\* When flush returns and no save failed meanwhile, what the state was at the
\* call, or something newer, is on disk, and stays there.
FlushIsDurable == disk >= promised

\* Nobody is misled about what is saved: the dirty flag, the timers and the
\* answer of flush agree with the disk (markDirty, flush, persistSnapshot).
SavesTold == CleanMeansPersisted /\ DirtyIsScheduled /\ FlushIsDurable

\* A changed state reaches the disk unless a save fails.
EventuallyPersisted == dirty ~> (~dirty \/ lastSave = "failed")

\* Every flush returns.
FlushTerminates == \A f \in Flushers : stage[f] # "idle" ~> stage[f] = "idle"

\* The store never stands still: not with a change to save, and not in a flush
\* that waits for saves (scheduleImmediateResave, flush).
StoreProceeds == EventuallyPersisted /\ FlushTerminates
=============================================================================
