------------------------ MODULE SessionStoreProofs ------------------------
(***************************************************************************)
(* Proofs of the safety of SessionStore, for every number of changes,      *)
(* failures, flushes and callers.                                          *)
(*                                                                         *)
(* What has to be added to the properties to make them inductive is the    *)
(* order of the chain (older snapshots first, none older than the disk)    *)
(* and, for the promise of flush, that a flush which no failure has        *)
(* spoiled waits for a snapshot that holds what it was asked to save, as   *)
(* long as the disk does not.                                              *)
(***************************************************************************)
EXTENDS SessionStore, SequenceTheorems, TLAPS

Ordered ==
    /\ \A i, j \in 1..Len(chain) : i <= j => chain[i] <= chain[j]
    /\ \A i \in 1..Len(chain) : disk <= chain[i] /\ chain[i] <= revision
    /\ disk <= revision

InFlight == written => disk = chain[1]

Awaited ==
    \A f \in Flushers : stage[f] # "idle" /\ f \notin spoiled =>
        \/ asked[f] <= disk
        \/ behind[f] > 0 /\ asked[f] <= chain[behind[f]]

Inv == TypeOK /\ Ordered /\ InFlight /\ Awaited /\ SavesTold

(* The chain grows by a snapshot of the revision, or loses its head.       *)
LEMMA ChainGrows ==
    ASSUME TypeOK, Ordered, SaveToDisk, UNCHANGED <<revision, disk>>
    PROVE  /\ Ordered'
           /\ chain' \in Seq(0..MaxRevision)
           /\ Len(chain') = Len(chain) + 1
           /\ chain'[Len(chain')] = revision
           /\ \A i \in 1..Len(chain) : chain'[i] = chain[i]
  <1>1. /\ chain \in Seq(0..MaxRevision) /\ revision \in 0..MaxRevision
        /\ disk \in 0..MaxRevision /\ MaxRevision \in Nat /\ chain' = Append(chain, revision)
    BY ConstantsAssumption DEF TypeOK, SaveToDisk
  <1>2. /\ chain' \in Seq(0..MaxRevision) /\ Len(chain') = Len(chain) + 1
        /\ \A i \in 1..Len(chain) : chain'[i] = chain[i]
        /\ chain'[Len(chain) + 1] = revision
    BY <1>1, AppendProperties
  <1>3. Len(chain) \in Nat /\ \A i \in 1..Len(chain) : chain[i] \in 0..MaxRevision
    BY <1>1
  <1>4. Ordered'
    BY <1>1, <1>2, <1>3 DEF Ordered
  <1> QED BY <1>2, <1>3, <1>4

LEMMA ChainShrinks ==
    ASSUME TypeOK, Ordered, chain # <<>>, chain' = Tail(chain), UNCHANGED <<revision, disk>>
    PROVE  /\ Ordered'
           /\ chain' \in Seq(0..MaxRevision)
           /\ Len(chain) \in Nat \ {0} /\ Len(chain') = Len(chain) - 1
           /\ Head(chain) = chain[1]
           /\ \A i \in 1..Len(chain') : chain'[i] = chain[i + 1]
  <1>1. /\ chain \in Seq(0..MaxRevision) /\ revision \in 0..MaxRevision
        /\ disk \in 0..MaxRevision /\ MaxRevision \in Nat
    BY ConstantsAssumption DEF TypeOK
  <1>2. /\ chain' \in Seq(0..MaxRevision) /\ Len(chain') = Len(chain) - 1
        /\ Head(chain) = chain[1] /\ Len(chain) \in Nat \ {0}
        /\ \A i \in 1..Len(chain') : chain'[i] = chain[i + 1]
    BY <1>1, EmptySeq, LenProperties, HeadTailProperties
  <1>3. \A i \in 1..Len(chain) : chain[i] \in 0..MaxRevision
    BY <1>1
  <1>4. Ordered'
    BY <1>1, <1>2, <1>3 DEF Ordered
  <1> QED BY <1>2, <1>4
(* What a change of the chain does to the flushes that wait for it.        *)
LEMMA SavingKeepsAwaited ==
    ASSUME Inv, SaveToDisk, UNCHANGED <<revision, disk>>,
           NEW f \in Flushers,
           stage'[f] = stage[f], behind'[f] = behind[f], asked'[f] = asked[f],
           f \in spoiled <=> f \in spoiled'
    PROVE  stage'[f] # "idle" /\ f \notin spoiled' =>
              \/ asked'[f] <= disk'
              \/ behind'[f] > 0 /\ asked'[f] <= chain'[behind'[f]]
  <1>1. behind[f] \in 0..Len(chain) /\ chain \in Seq(0..MaxRevision)
    BY DEF Inv, TypeOK
  <1>2. \A i \in 1..Len(chain) : chain'[i] = chain[i]
    BY ChainGrows DEF Inv
  <1>3. behind[f] > 0 => chain'[behind[f]] = chain[behind[f]]
    BY <1>1, <1>2
  <1> QED BY <1>3 DEF Inv, Awaited

LEMMA InitInv == Init => Inv
  <1> SUFFICES ASSUME Init PROVE Inv
    OBVIOUS
  <1>1. TypeOK
    <2>1. <<>> \in Seq(0..MaxRevision) /\ Len(<<>>) = 0
      BY EmptySeq
    <2>2. 0 \in 0..MaxRevision /\ 0 \in 0..MaxFailures /\ 0 \in 0..MaxFlushes
      BY ConstantsAssumption
    <2>3. chain \in Seq(0..MaxRevision) /\ behind \in [Flushers -> 0..Len(chain)]
      BY <2>1 DEF Init
    <2>4. /\ stage \in [Flushers -> {"idle", "saving", "draining"}]
          /\ asked \in [Flushers -> 0..MaxRevision] /\ spoiled \subseteq Flushers
          /\ lastSave \in {"none", "succeeded", "failed"}
      BY <2>2 DEF Init
    <2> QED BY <2>2, <2>3, <2>4 DEF Init, TypeOK
  <1>2. Ordered /\ InFlight /\ Awaited
    BY DEF Init, Ordered, InFlight, Awaited
  <1>3. SavesTold
    BY DEF Init, SavesTold, CleanMeansPersisted, DirtyIsScheduled, FlushIsDurable
  <1> QED BY <1>1, <1>2, <1>3 DEF Inv

LEMMA ChangeInv == Inv /\ Change => Inv'
  <1> SUFFICES ASSUME Inv, Change PROVE Inv'
    OBVIOUS
  <1> USE DEF Change, timerVars, saveVars, flushVars
  <1>1. TypeOK'
    BY ConstantsAssumption DEF Inv, TypeOK
  <1>2. Ordered'
    <2>1. /\ \A i \in 1..Len(chain) : chain[i] \in 0..MaxRevision
          /\ revision \in 0..MaxRevision /\ disk \in 0..MaxRevision /\ MaxRevision \in Nat
      BY ConstantsAssumption DEF Inv, TypeOK
    <2> QED BY <2>1 DEF Inv, Ordered
  <1>3. InFlight' /\ Awaited'
    BY DEF Inv, InFlight, Awaited
  <1>4. SavesTold'
    BY DEF Inv, SavesTold, CleanMeansPersisted, DirtyIsScheduled, FlushIsDurable
  <1> QED BY <1>1, <1>2, <1>3, <1>4 DEF Inv

(* Both timers do the same with the chain.                                 *)
LEMMA TimerInv == Inv /\ (SaveTimer \/ ResaveTimer) => Inv'
  <1> SUFFICES ASSUME Inv, SaveTimer \/ ResaveTimer PROVE Inv'
    OBVIOUS
  <1> USE DEF timerVars, saveVars, flushVars
  <1>0. /\ IF dirty THEN SaveToDisk ELSE UNCHANGED chain
        /\ UNCHANGED <<revision, dirty, written, disk, saveVars, flushVars>>
        /\ {saveTimer', resaveTimer'} \subseteq BOOLEAN
    BY DEF SaveTimer, ResaveTimer, Inv, TypeOK
  <1>1. CASE dirty
    <2>1. /\ Ordered' /\ chain' \in Seq(0..MaxRevision) /\ Len(chain') = Len(chain) + 1
          /\ \A i \in 1..Len(chain) : chain'[i] = chain[i]
      BY <1>0, <1>1, ChainGrows DEF Inv
    <2>2. Len(chain) \in Nat /\ (written => Len(chain) > 0) /\ chain' # <<>>
      BY <1>0, <1>1, <2>1, EmptySeq DEF Inv, TypeOK
    <2>3. TypeOK'
      BY <1>0, <2>1, <2>2 DEF Inv, TypeOK
    <2>4. InFlight'
      BY <1>0, <2>1, <2>2 DEF Inv, InFlight
    <2>5. Awaited'
      BY <1>0, <1>1, SavingKeepsAwaited DEF Awaited
    <2>6. SavesTold'
      BY <1>0, <2>2 DEF Inv, SavesTold, CleanMeansPersisted, DirtyIsScheduled, FlushIsDurable
    <2> QED BY <2>1, <2>3, <2>4, <2>5, <2>6 DEF Inv
  <1>2. CASE ~dirty
    <2>1. TypeOK'
      BY <1>0, <1>2 DEF Inv, TypeOK
    <2>2. Ordered' /\ InFlight' /\ Awaited'
      BY <1>0, <1>2 DEF Inv, Ordered, InFlight, Awaited
    <2>3. SavesTold'
      BY <1>0, <1>2 DEF Inv, SavesTold, CleanMeansPersisted, DirtyIsScheduled, FlushIsDurable
    <2> QED BY <2>1, <2>2, <2>3 DEF Inv
  <1> QED BY <1>1, <1>2

LEMMA RenameInv == Inv /\ Rename => Inv' /\ disk <= disk'
  <1> SUFFICES ASSUME Inv, Rename PROVE Inv' /\ disk <= disk'
    OBVIOUS
  <1> USE DEF Rename, timerVars, saveVars, flushVars
  <1>1. /\ chain \in Seq(0..MaxRevision) /\ Len(chain) \in Nat \ {0} /\ disk' = chain[1]
        /\ \A i \in 1..Len(chain) : chain[i] \in 0..MaxRevision
        /\ revision \in 0..MaxRevision /\ disk \in 0..MaxRevision /\ promised \in 0..MaxRevision
        /\ MaxRevision \in Nat
    BY EmptySeq, ConstantsAssumption DEF Inv, TypeOK
  <1>2. disk <= disk' /\ disk' <= revision /\ disk' \in 0..MaxRevision
    BY <1>1 DEF Inv, Ordered
  <1>3. TypeOK'
    BY <1>1, <1>2 DEF Inv, TypeOK
  <1>4. Ordered'
    BY <1>1, <1>2 DEF Inv, Ordered
  <1>5. InFlight'
    BY <1>1 DEF InFlight
  <1>6. Awaited'
    <2> SUFFICES ASSUME NEW f \in Flushers, stage[f] # "idle", f \notin spoiled
                 PROVE  \/ asked[f] <= disk'
                        \/ behind[f] > 0 /\ asked[f] <= chain[behind[f]]
      BY DEF Awaited
    <2>1. asked[f] \in 0..MaxRevision
      BY DEF Inv, TypeOK
    <2> QED BY <2>1, <1>1, <1>2 DEF Inv, Awaited
  <1>7. SavesTold'
    BY <1>1, <1>2 DEF Inv, Ordered, SavesTold, CleanMeansPersisted, DirtyIsScheduled, FlushIsDurable
  <1> QED BY <1>2, <1>3, <1>4, <1>5, <1>6, <1>7 DEF Inv

(* The task in flight ends: those that wait for it have one task less      *)
(* ahead of them, or find on the disk what they wait for.                  *)
LEMMA TaskEndsShrinks ==
    ASSUME Inv, chain # <<>>, TaskEnds, UNCHANGED <<revision, disk>>
    PROVE  /\ Ordered' /\ InFlight'
           /\ chain' \in Seq(0..MaxRevision) /\ written' = FALSE
           /\ behind' \in [Flushers -> 0..Len(chain')]
           /\ \A f \in Flushers : behind[f] > 1 => /\ behind'[f] > 0
                                                   /\ chain'[behind'[f]] = chain[behind[f]]
  <1>1. /\ Ordered' /\ chain' \in Seq(0..MaxRevision)
        /\ Len(chain) \in Nat \ {0} /\ Len(chain') = Len(chain) - 1
        /\ \A i \in 1..Len(chain') : chain'[i] = chain[i + 1]
    BY ChainShrinks DEF Inv, TaskEnds
  <1>2. \A f \in Flushers : behind[f] \in 0..Len(chain)
    BY DEF Inv, TypeOK
  <1>3. behind' \in [Flushers -> 0..Len(chain')]
    BY <1>1, <1>2 DEF TaskEnds
  <1>4. ASSUME NEW f \in Flushers, behind[f] > 1
        PROVE  behind'[f] > 0 /\ chain'[behind'[f]] = chain[behind[f]]
    <2>1. behind'[f] = behind[f] - 1 /\ behind[f] - 1 \in 1..Len(chain')
      BY <1>1, <1>2, <1>4 DEF TaskEnds
    <2> QED BY <1>1, <1>2, <2>1
  <1>5. InFlight' /\ written' = FALSE
    BY DEF TaskEnds, InFlight
  <1> QED BY <1>1, <1>3, <1>4, <1>5

LEMMA PersistedInv == Inv /\ Persisted => Inv'
  <1> SUFFICES ASSUME Inv, Persisted PROVE Inv'
    OBVIOUS
  <1> USE DEF Persisted, timerVars, saveVars, flushVars
  <1>1. chain # <<>> /\ disk = chain[1] /\ Head(chain) = chain[1]
    BY DEF Inv, TypeOK, InFlight
  <1>2. /\ Ordered' /\ InFlight' /\ chain' \in Seq(0..MaxRevision) /\ written' = FALSE
        /\ behind' \in [Flushers -> 0..Len(chain')]
        /\ \A f \in Flushers : behind[f] > 1 => /\ behind'[f] > 0
                                                /\ chain'[behind'[f]] = chain[behind[f]]
    BY <1>1, TaskEndsShrinks
  <1>3. TypeOK'
    BY <1>2 DEF Inv, TypeOK
  <1>4. Awaited'
    <2> SUFFICES ASSUME NEW f \in Flushers, stage[f] # "idle", f \notin spoiled
                 PROVE  \/ asked[f] <= disk
                        \/ behind'[f] > 0 /\ asked[f] <= chain'[behind'[f]]
      BY DEF Awaited
    <2>1. asked[f] <= disk \/ (behind[f] > 0 /\ asked[f] <= chain[behind[f]])
      BY DEF Inv, Awaited
    <2>2. behind[f] \in 0..Len(chain) /\ Len(chain) \in Nat
      BY DEF Inv, TypeOK
    <2>3. CASE behind[f] > 1
      BY <1>2, <2>1, <2>3
    <2>4. CASE behind[f] = 1
      BY <1>1, <2>1, <2>4
    <2> QED BY <2>1, <2>2, <2>3, <2>4
  <1>5. SavesTold'
    BY <1>1 DEF Inv, SavesTold, CleanMeansPersisted, DirtyIsScheduled, FlushIsDurable
  <1> QED BY <1>2, <1>3, <1>4, <1>5 DEF Inv

LEMMA PersistFailsInv == Inv /\ PersistFails => Inv'
  <1> SUFFICES ASSUME Inv, PersistFails PROVE Inv'
    OBVIOUS
  <1> USE DEF PersistFails, timerVars, saveVars, flushVars
  <1>1. /\ Ordered' /\ InFlight' /\ chain' \in Seq(0..MaxRevision) /\ written' = FALSE
        /\ behind' \in [Flushers -> 0..Len(chain')]
    BY TaskEndsShrinks
  <1>2. TypeOK'
    <2>1. failures' \in 0..MaxFailures /\ {dirty', saveTimer', resaveTimer'} \subseteq BOOLEAN
      BY ConstantsAssumption DEF Inv, TypeOK
    <2>2. /\ UNCHANGED <<revision, disk, promised, stage, asked, flushes>>
          /\ spoiled' \subseteq Flushers /\ lastSave' \in {"none", "succeeded", "failed"}
      OBVIOUS
    <2> QED BY <1>1, <2>1, <2>2 DEF Inv, TypeOK
  <1>3. Awaited'
    BY DEF Awaited
  <1>4. SavesTold'
    BY DEF Inv, SavesTold, CleanMeansPersisted, DirtyIsScheduled, FlushIsDurable
  <1> QED BY <1>1, <1>2, <1>3, <1>4 DEF Inv

LEMMA FlushInv == ASSUME NEW g \in Flushers PROVE Inv /\ Flush(g) => Inv'
  <1> SUFFICES ASSUME Inv, Flush(g) PROVE Inv'
    OBVIOUS
  <1> USE DEF Flush, timerVars, saveVars, flushVars
  <1>0. /\ revision \in 0..MaxRevision /\ chain \in Seq(0..MaxRevision) /\ Len(chain) \in Nat
        /\ asked' \in [Flushers -> 0..MaxRevision] /\ asked'[g] = revision
        /\ spoiled' \subseteq Flushers /\ flushes' \in 0..MaxFlushes
        /\ stage' \in [Flushers -> {"idle", "saving", "draining"}]
        /\ \A f \in Flushers \ {g} : /\ stage'[f] = stage[f] /\ behind'[f] = behind[f]
                                     /\ asked'[f] = asked[f] /\ (f \in spoiled <=> f \in spoiled')
    BY ConstantsAssumption DEF Inv, TypeOK
  <1>1. CASE dirty
    <2>1. /\ Ordered' /\ chain' \in Seq(0..MaxRevision) /\ Len(chain') = Len(chain) + 1
          /\ chain'[Len(chain')] = revision
          /\ \A i \in 1..Len(chain) : chain'[i] = chain[i]
      BY <1>1, ChainGrows DEF Inv
    <2>2. (written => Len(chain) > 0) /\ chain' # <<>>
      BY <1>0, <2>1, EmptySeq DEF Inv, TypeOK
    <2>3. behind'[g] = Len(chain') /\ behind' \in [Flushers -> 0..Len(chain')]
      BY <1>0, <2>1 DEF Inv, TypeOK
    <2>4. TypeOK'
      BY <1>0, <2>1, <2>2, <2>3 DEF Inv, TypeOK
    <2>5. InFlight'
      BY <1>0, <2>1, <2>2 DEF Inv, InFlight
    <2>6. ASSUME NEW f \in Flushers, f # g
          PROVE  stage'[f] # "idle" /\ f \notin spoiled' =>
                    \/ asked'[f] <= disk'
                    \/ behind'[f] > 0 /\ asked'[f] <= chain'[behind'[f]]
      BY <1>0, <1>1, <2>6, SavingKeepsAwaited
    <2>7. behind'[g] > 0 /\ asked'[g] <= chain'[behind'[g]]
      BY <1>0, <2>1, <2>3
    <2>8. Awaited'
      BY <2>6, <2>7 DEF Awaited
    <2>9. SavesTold'
      BY <1>1, <2>2 DEF Inv, SavesTold, CleanMeansPersisted, DirtyIsScheduled, FlushIsDurable
    <2> QED BY <2>1, <2>4, <2>5, <2>8, <2>9 DEF Inv
  <1>2. CASE ~dirty
    <2>1. chain' = chain /\ disk' = disk /\ asked'[g] <= disk'
      BY <1>0, <1>2 DEF Inv, SavesTold, CleanMeansPersisted
    <2>2. behind' \in [Flushers -> 0..Len(chain')]
      BY <1>0, <2>1 DEF Inv, TypeOK
    <2>3. TypeOK'
      BY <1>0, <2>1, <2>2 DEF Inv, TypeOK
    <2>4. Ordered' /\ InFlight'
      BY <2>1 DEF Inv, Ordered, InFlight
    <2>5. Awaited'
      BY <1>0, <2>1 DEF Inv, Awaited
    <2>6. SavesTold'
      BY <1>2, <2>1 DEF Inv, SavesTold, CleanMeansPersisted, DirtyIsScheduled, FlushIsDurable
    <2> QED BY <2>3, <2>4, <2>5, <2>6 DEF Inv
  <1> QED BY <1>1, <1>2

(* A flush that no longer waits for its own save has it on the disk.       *)
LEMMA FlushDrainsInv == ASSUME NEW g \in Flushers PROVE Inv /\ FlushDrains(g) => Inv'
  <1> SUFFICES ASSUME Inv, FlushDrains(g) PROVE Inv'
    OBVIOUS
  <1> USE DEF FlushDrains, timerVars, saveVars, flushVars
  <1>1. Len(chain) \in Nat /\ behind' \in [Flushers -> 0..Len(chain')]
    BY DEF Inv, TypeOK
  <1>2. TypeOK'
    BY <1>1 DEF Inv, TypeOK
  <1>3. Ordered' /\ InFlight'
    BY DEF Inv, Ordered, InFlight
  <1>4. Awaited'
    <2> SUFFICES ASSUME NEW f \in Flushers, stage'[f] # "idle", f \notin spoiled
                 PROVE  \/ asked[f] <= disk
                        \/ behind'[f] > 0 /\ asked[f] <= chain[behind'[f]]
      BY DEF Awaited
    <2>1. CASE f = g
      BY <2>1 DEF Inv, Awaited
    <2>2. CASE f # g
      BY <2>2 DEF Inv, TypeOK, Awaited
    <2> QED BY <2>1, <2>2
  <1>5. SavesTold'
    BY DEF Inv, SavesTold, CleanMeansPersisted, DirtyIsScheduled, FlushIsDurable
  <1> QED BY <1>2, <1>3, <1>4, <1>5 DEF Inv

LEMMA FlushReturnsInv == ASSUME NEW g \in Flushers PROVE Inv /\ FlushReturns(g) => Inv'
  <1> SUFFICES ASSUME Inv, FlushReturns(g) PROVE Inv'
    OBVIOUS
  <1> USE DEF FlushReturns, timerVars, saveVars, flushVars
  <1>1. asked[g] \in 0..MaxRevision /\ promised \in 0..MaxRevision
    BY DEF Inv, TypeOK
  <1>2. TypeOK'
    BY <1>1 DEF Inv, TypeOK
  <1>3. Ordered' /\ InFlight'
    BY DEF Inv, Ordered, InFlight
  <1>4. Awaited'
    BY DEF Inv, TypeOK, Awaited
  <1>5. g \notin spoiled => asked[g] <= disk
    BY DEF Inv, Awaited
  <1>6. SavesTold'
    BY <1>5 DEF Inv, SavesTold, CleanMeansPersisted, DirtyIsScheduled, FlushIsDurable
  <1> QED BY <1>2, <1>3, <1>4, <1>6 DEF Inv

LEMMA StutterInv == Inv /\ UNCHANGED vars => Inv'
  BY DEF Inv, TypeOK, Ordered, InFlight, Awaited, SavesTold, CleanMeansPersisted,
         DirtyIsScheduled, FlushIsDurable, vars, timerVars, saveVars, flushVars

LEMMA NextInv == Inv /\ [Next]_vars => Inv'
  BY ChangeInv, TimerInv, RenameInv, PersistedInv, PersistFailsInv,
     FlushInv, FlushDrainsInv, FlushReturnsInv, StutterInv DEF Next

LEMMA InvHolds == Spec => []Inv
  BY InitInv, NextInv, PTL DEF Spec

-----------------------------------------------------------------------------
(* The type invariant of the session store (src/src/session.ts:60).        *)
THEOREM TypeCorrect == Spec => []TypeOK
  <1>1. Inv => TypeOK
    BY DEF Inv
  <1> QED BY <1>1, InvHolds, PTL

(* A clean state is on disk, a dirty one has its save ahead of it or failed*)
(* to be saved, and a flush that returned without a failure has saved what *)
(* it was asked to (src/src/session.ts:152, src/src/session.ts:215).       *)
THEOREM SavesAreTold == Spec => []SavesTold
  <1>1. Inv => SavesTold
    BY DEF Inv
  <1> QED BY <1>1, InvHolds, PTL

(* The file never goes back to an older state (src/src/session.ts:182).    *)
THEOREM DiskGoesForward == Spec => DiskNeverGoesBack
  <1>1. Inv /\ [Next]_vars => [disk' >= disk]_vars
    <2> SUFFICES ASSUME Inv, Next PROVE disk' >= disk
      OBVIOUS
    <2>1. disk \in Nat
      BY DEF Inv, TypeOK
    <2>2. CASE Rename
      BY <2>1, <2>2, RenameInv DEF Inv, TypeOK
    <2>3. CASE ~Rename
      <3>1. disk' = disk
        BY <2>3 DEF Next, Change, SaveTimer, ResaveTimer, Persisted, PersistFails,
                    Flush, FlushDrains, FlushReturns
      <3> QED BY <2>1, <3>1
    <2> QED BY <2>2, <2>3
  <1> QED BY <1>1, InvHolds, PTL DEF Spec, DiskNeverGoesBack
===========================================================================
