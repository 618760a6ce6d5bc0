---------------------------- MODULE PageStoreProofs ----------------------------
(***************************************************************************)
(* Proofs about PageStore, for any number of processes, pages and chunks,  *)
(* crashes and reads: the types; that a page whose id was told is whole    *)
(* and readable, and shows the output character by character; that the     *)
(* staging directory of a living writer is left alone; and that the cache  *)
(* implements PageShelf, whose theorems then hold of it.                   *)
(*                                                                         *)
(* Everything rests on who may touch a page when: OneUser says what the    *)
(* file lock excludes, and PageInv(d) what that makes of one page, from    *)
(* the staging directory to the metadata.  A step of one process is seen   *)
(* from any page d, so PageInv is proved of one page at a time.            *)
(***************************************************************************)
EXTENDS PageStore, WellFoundedInduction, TLAPS

\* The phases in which the writer of a page holds the lock, and those in which
\* it counts on its staging directory.
Holding == {"creating", "unbeating", "renaming", "saving"}
Working == {"creating", "writing", "indexed", "unbeating", "renaming"}

\* The lock has one user, the writer of a page, a reader or a removal.
OneUser ==
  /\ \A p \in Procs : task[p] # "none" \/ reading[p] # Nothing => lock = p
  /\ \A p \in Procs : task[p] # "none" => reading[p] = Nothing
  /\ \A d \in Dirs : phase[d] \in Holding =>
       lock = Owner[d] /\ task[Owner[d]] = "none" /\ reading[Owner[d]] = Nothing
  /\ \A d, e \in Dirs : phase[d] \in Holding /\ phase[e] \in Holding => d = e
  /\ \A p \in Procs : /\ victims[p] # {} => task[p] # "none"
                      /\ current[p] # Nothing => current[p] \in victims[p]
                      /\ rest[p] # {} => current[p] # Nothing

\* Nothing is there before the writer of a page creates it, and what it creates
\* stays until it gives up, unless it is raided.
Begun(d) ==
  /\ Local(d) => Alive(d)
  /\ phase[d] = "new" =>
       disk[d] = "none" /\ lease[d] = "none" /\ content[d] = {} /\ queued[d] = 0 /\ written[d] = 0
  /\ phase[d] \in Working => disk[d] = "staging" \/ d \in raided

\* Only its own process removes the staging directory, of a writer that failed.
Handled(d) ==
  \A p \in Procs :
    /\ Local(d) /\ disk[d] = "staging" /\ d \notin raided
    /\ current[p] = d \/ (d \in victims[p] /\ p = Owner[d])
    => phase[d] = "failed" /\ p = Owner[d] /\ task[p] = "discard"

\* A writer has a heartbeat, which is not old, or holds the lock.
Beats(d) ==
  Local(d) /\ disk[d] = "staging" /\ d \notin raided =>
    /\ lease[d] # "old"
    /\ lease[d] = "none" => \/ phase[d] = "creating" /\ beat[d] = "asked"
                            \/ phase[d] = "renaming"
                            \/ phase[d] = "failed" /\ task[Owner[d]] \in {"discard", "restore"}

\* What is in the data file when the index is made is there until it is
\* removed, and it is all the writer accepted.
Held(d) ==
  /\ phase[d] \in {"indexed", "unbeating", "renaming", "saving", "checking", "announced"} =>
       content[d] \in {indexed[d], {}}
  /\ phase[d] = "announced" => indexed[d] # {}
  /\ d \notin raided =>
       /\ phase[d] \in {"creating", "writing"} => content[d] = 1..written[d]
       /\ phase[d] \in {"indexed", "unbeating", "renaming", "saving", "checking", "announced"} =>
            indexed[d] = 1..queued[d]

\* Only the publisher of a page and a timer save its metadata, and the
\* publisher finds it whole and leaves it whole.
MetaWhole(d) ==
  /\ phase[d] = "announced" /\ disk[d] = "final" => lease[d] = "none"
  /\ \A p \in Procs :
       /\ saving[p]["timer"][d] # "idle" => d \in resaved
       /\ saving[p]["publisher"][d] # "idle" => p = Owner[d] /\ phase[d] = "saving"
  /\ d \notin raided \cup resaved =>
       /\ phase[d] \in {"indexed", "unbeating", "renaming"} => meta[d] = "full"
       /\ phase[d] = "saving" =>
            \/ saving[Owner[d]]["publisher"][d] \in {"idle", "due", "full"} /\ meta[d] = "full"
            \/ saving[Owner[d]]["publisher"][d] = "open-full" /\ meta[d] = "torn"
       /\ phase[d] \in {"checking", "announced"} => meta[d] \in {"none", "full"}

PageInv(d) == Begun(d) /\ Handled(d) /\ Beats(d) /\ Held(d) /\ MetaWhole(d)

Inv == TypeOK /\ OneUser /\ \A d \in Dirs : PageInv(d)

LEMMA SaveType ==
    ASSUME NEW f \in [Procs -> [Savers -> [Dirs -> Saves]]],
           NEW p \in Procs, NEW s \in Savers, NEW d \in Dirs, NEW x \in Saves
    PROVE  [f EXCEPT ![p][s][d] = x] \in [Procs -> [Savers -> [Dirs -> Saves]]]
  <1>1. f[p] \in [Savers -> [Dirs -> Saves]]
    OBVIOUS
  <1>2. [f[p][s] EXCEPT ![d] = x] \in [Dirs -> Saves]
    OBVIOUS
  <1>3. [f[p] EXCEPT ![s] = [f[p][s] EXCEPT ![d] = x]] \in [Savers -> [Dirs -> Saves]]
    OBVIOUS
  <1> QED OBVIOUS

LEMMA SaveAt ==
    ASSUME NEW f \in [Procs -> [Savers -> [Dirs -> Saves]]],
           NEW p \in Procs, NEW s \in Savers, NEW d \in Dirs, NEW x \in Saves, NEW g,
           g = [f EXCEPT ![p][s][d] = x]
    PROVE  /\ g[p][s][d] = x
           /\ \A q \in Procs, t \in Savers, e \in Dirs :
                q # p \/ t # s \/ e # d => g[q][t][e] = f[q][t][e]
  <1>1. f[p] \in [Savers -> [Dirs -> Saves]] /\ f[p][s] \in [Dirs -> Saves]
    OBVIOUS
  <1> QED OBVIOUS

LEMMA InitType == Init => TypeOK
  BY PageStoreAssumption DEF Init, TypeOK, Phases, Saves

LEMMA WriteType == ASSUME TypeOK, NEW d \in Dirs, Write(d) PROVE TypeOK'
  <1> USE PageStoreAssumption DEF files, writer, memory, work, procs, history, Phase, Lock,
  Unlock
  <1>1. CASE BeatTimer(d)
    BY <1>1 DEF BeatTimer, TypeOK
  <1>2. CASE BeatOpens(d)
    <2>1. /\ lease \in [Dirs -> {"none", "fresh", "torn", "old"}] /\ aged \in [Dirs -> BOOLEAN]
          /\ beat \in [Dirs -> {"idle", "asked", "open"}]
      BY DEF TypeOK
    <2>2. /\ lease' \in [Dirs -> {"none", "fresh", "torn", "old"}] /\ aged' \in [Dirs -> BOOLEAN]
          /\ beat' \in [Dirs -> {"idle", "asked", "open"}]
      <3>1. CASE disk[d] = "staging"
        BY <1>2, <2>1 DEF BeatOpens
      <3>2. CASE disk[d] # "staging"
        BY <1>2, <2>1 DEF BeatOpens
      <3> QED BY <3>1, <3>2
    <2> QED BY <1>2, <2>2 DEF BeatOpens, TypeOK
  <1>3. CASE BeatWrites(d)
    BY <1>3 DEF BeatWrites, TypeOK
  <1>4. CASE Creates(d)
    BY <1>4 DEF Creates, TypeOK, Phases
  <1>5. CASE Created(d)
    BY <1>5 DEF Created, TypeOK, Phases
  <1>6. CASE Accepts(d)
    BY <1>6 DEF Accepts, TypeOK
  <1>7. CASE Appends(d)
    <2>1. /\ written[d] < queued[d] /\ written[d] \in 0..Chunks /\ queued[d] \in 0..Chunks
          /\ written \in [Dirs -> 0..Chunks] /\ content \in [Dirs -> SUBSET (1..Chunks)]
          /\ aged \in [Dirs -> BOOLEAN] /\ phase \in [Dirs -> Phases]
      BY <1>7 DEF Appends, TypeOK
    <2>2. /\ written' \in [Dirs -> 0..Chunks] /\ content' \in [Dirs -> SUBSET (1..Chunks)]
          /\ aged' \in [Dirs -> BOOLEAN] /\ phase' \in [Dirs -> Phases]
      <3>1. CASE disk[d] = "staging"
        <4>1. written[d] + 1 \in 0..Chunks /\ content[d] \cup {written[d] + 1} \in SUBSET (1..Chunks)
          BY <2>1
        <4>2. aged' \in [Dirs -> BOOLEAN] /\ phase' \in [Dirs -> Phases]
          BY <1>7, <2>1, <3>1 DEF Appends
        <4>3. /\ written' = [written EXCEPT ![d] = written[d] + 1]
              /\ content' = [content EXCEPT ![d] = content[d] \cup {written[d] + 1}]
          BY <1>7, <3>1 DEF Appends
        <4>4. written' \in [Dirs -> 0..Chunks]
          BY <2>1, <4>3
        <4>5. content' \in [Dirs -> SUBSET (1..Chunks)]
          BY <2>1, <4>3
        <4> QED BY <4>2, <4>4, <4>5
      <3>2. CASE disk[d] # "staging"
        BY <1>7, <2>1, <3>2 DEF Appends, Phases
      <3> QED BY <3>1, <3>2
    <2> QED BY <1>7, <2>2 DEF Appends, TypeOK
  <1>8. CASE Indexes(d)
    <2>1. /\ indexed \in [Dirs -> SUBSET (1..Chunks)] /\ content \in [Dirs -> SUBSET (1..Chunks)]
          /\ meta \in [Dirs -> {"none", "full", "torn", "bare"}]
          /\ aged \in [Dirs -> BOOLEAN] /\ phase \in [Dirs -> Phases]
      BY DEF TypeOK
    <2>2. /\ indexed' \in [Dirs -> SUBSET (1..Chunks)] /\ phase' \in [Dirs -> Phases]
          /\ meta' \in [Dirs -> {"none", "full", "torn", "bare"}] /\ aged' \in [Dirs -> BOOLEAN]
      <3>1. CASE disk[d] = "staging"
        BY <1>8, <2>1, <3>1 DEF Indexes, Phases
      <3>2. CASE disk[d] # "staging"
        BY <1>8, <2>1, <3>2 DEF Indexes, Phases
      <3> QED BY <3>1, <3>2
    <2> QED BY <1>8, <2>2 DEF Indexes, TypeOK
  <1>9. CASE WriterFails(d)
    BY <1>9 DEF WriterFails, TypeOK, Phases
  <1>10. CASE FinalizeStarts(d)
    BY <1>10 DEF FinalizeStarts, TypeOK, Phases
  <1>11. CASE Unbeats(d)
    BY <1>11 DEF Unbeats, TypeOK, Phases
  <1>12. CASE Renames(d)
    BY <1>12 DEF Renames, TypeOK, Phases, Savers, Saves
  <1>13. CASE RenameFails(d)
    BY <1>13 DEF RenameFails, TypeOK, Phases
  <1>14. CASE Saved(d)
    BY <1>14 DEF Saved, TypeOK, Phases
  <1>15. CASE Checks(d)
    BY <1>15 DEF Checks, TypeOK, Phases
  <1>16. CASE DiscardBegins(d)
    BY <1>16 DEF DiscardBegins, Removes, TypeOK
  <1> QED BY <1>1, <1>2, <1>3, <1>4, <1>5, <1>6, <1>7, <1>8, <1>9, <1>10, <1>11, <1>12,
             <1>13, <1>14, <1>15, <1>16 DEF Write

LEMMA CleanType == ASSUME TypeOK, NEW p \in Procs, Clean(p) PROVE TypeOK'
  <1> USE PageStoreAssumption DEF files, writer, memory, work, procs, history, Phase, Lock,
  Unlock
  <1>1. CASE CleanupBegins(p)
    BY <1>1 DEF CleanupBegins, Scan, Scanned, Removes, Removable, StaleStagings, TypeOK
  <1>2. CASE Recovers(p)
    BY <1>2 DEF Recovers, Scan, Scanned, Removes, StaleStagings, TypeOK
  <1>3. CASE RecoverySkipped(p)
    BY <1>3 DEF RecoverySkipped, Scan, Scanned, TypeOK
  <1>4. ASSUME NEW d \in Dirs, RemovalBegins(p, d) PROVE TypeOK'
    BY <1>4 DEF RemovalBegins, TypeOK, Present, Files
  <1>5. ASSUME NEW f \in Files, Unlinks(p, f) PROVE TypeOK'
    BY <1>5 DEF Unlinks, TypeOK
  <1>6. CASE RemovalEnds(p)
    <2>1. /\ disk \in [Dirs -> {"none", "staging", "final", "discarded", "removed"}]
          /\ listed \in [Procs -> SUBSET Dirs] /\ unknown \in [Procs -> SUBSET Dirs]
          /\ current \in [Procs -> Dirs \cup {Nothing}] /\ victims \in [Procs -> SUBSET Dirs]
      BY DEF TypeOK
    <2>2. /\ disk' \in [Dirs -> {"none", "staging", "final", "discarded", "removed"}]
          /\ listed' \in [Procs -> SUBSET Dirs] /\ unknown' \in [Procs -> SUBSET Dirs]
      <3>1. CASE Present(current[p]) = {}
        BY <1>6, <2>1 DEF RemovalEnds
      <3>2. CASE Present(current[p]) # {}
        BY <1>6, <2>1 DEF RemovalEnds
      <3> QED BY <3>1, <3>2
    <2>3. current' \in [Procs -> Dirs \cup {Nothing}] /\ victims' \in [Procs -> SUBSET Dirs]
      BY <1>6, <2>1 DEF RemovalEnds
    <2> QED BY <1>6, <2>2 DEF RemovalEnds, TypeOK
  <1>7. CASE TaskEnds(p)
    BY <1>7 DEF TaskEnds, TypeOK, Phases
  <1> QED BY <1>1, <1>2, <1>3, <1>4, <1>5, <1>6, <1>7 DEF Clean

LEMMA OtherType ==
    ASSUME TypeOK, NEW p \in Procs,
           \/ SaveSteps(p) \/ ReadEnds(p) \/ TouchTimer(p) \/ Crash(p) \/ Restart(p)
           \/ \E d \in Dirs : ReadBegins(p, d)
    PROVE  TypeOK'
  <1> USE PageStoreAssumption DEF files, writer, memory, work, procs, history, Lock, Unlock
  <1>1. ASSUME NEW s \in Savers, NEW d \in Dirs,
               SaveReads(p, s, d) \/ SaveOpens(p, s, d) \/ SaveWrites(p, s, d)
        PROVE  TypeOK'
    <2>1. CASE SaveReads(p, s, d)
      BY <2>1, SaveType DEF SaveReads, Save, Kept, TypeOK, Saves
    <2>2. CASE SaveOpens(p, s, d)
      <3>1. saving' \in [Procs -> [Savers -> [Dirs -> Saves]]]
        <4>1. \E to \in Saves : Save(p, s, d, to)
          BY <2>2 DEF SaveOpens, Saves
        <4> QED BY <4>1 DEF Save, TypeOK
      <3>2. meta' \in [Dirs -> {"none", "full", "torn", "bare"}]
        BY <2>2 DEF SaveOpens, TypeOK
      <3> QED BY <2>2, <3>1, <3>2 DEF SaveOpens, TypeOK
    <2>3. CASE SaveWrites(p, s, d)
      BY <2>3, SaveType DEF SaveWrites, Save, TypeOK, Saves
    <2> QED BY <1>1, <2>1, <2>2, <2>3
  <1>2. CASE ReadEnds(p)
    BY <1>2 DEF ReadEnds, TypeOK
  <1>3. CASE TouchTimer(p)
    <2>1. saving' \in [Procs -> [Savers -> [Dirs -> Saves]]]
      BY <1>3 DEF TouchTimer, TypeOK, Kept, Saves, Savers
    <2> QED BY <1>3, <2>1 DEF TouchTimer, TypeOK
  <1>4. CASE Crash(p)
    BY <1>4 DEF Crash, TypeOK, Phases, Saves
  <1>5. CASE Restart(p)
    BY <1>5 DEF Restart, TypeOK
  <1>6. ASSUME NEW d \in Dirs, ReadBegins(p, d) PROVE TypeOK'
    BY <1>6 DEF ReadBegins, TypeOK
  <1> QED BY <1>1, <1>2, <1>3, <1>4, <1>5, <1>6 DEF SaveSteps

LEMMA TickType == TypeOK /\ Tick => TypeOK'
  BY DEF Tick, TypeOK, writer, memory, work, procs, history
-----------------------------------------------------------------------------
(* The lock.                                                               *)

LEMMA Types ==
    ASSUME TypeOK
    PROVE  /\ Owner \in [Dirs -> Procs] /\ Nothing \notin Dirs \cup Procs
           /\ phase \in [Dirs -> Phases] /\ lock \in Procs \cup {Nothing}
           /\ task \in [Procs -> {"none", "cleanup", "discard", "restore"}]
           /\ victims \in [Procs -> SUBSET Dirs] /\ rest \in [Procs -> SUBSET Files]
           /\ current \in [Procs -> Dirs \cup {Nothing}]
           /\ reading \in [Procs -> Dirs \cup {Nothing}]
  BY PageStoreAssumption DEF TypeOK

(* Nobody is at work while the lock is free.                               *)
LEMMA FreeFacts ==
    ASSUME TypeOK, OneUser, Free
    PROVE  /\ \A p \in Procs : /\ task[p] = "none" /\ reading[p] = Nothing /\ victims[p] = {}
                               /\ current[p] = Nothing /\ rest[p] = {}
           /\ \A d \in Dirs : phase[d] \notin Holding
  BY Types DEF OneUser, Free

LEMMA SameUser ==
    ASSUME TypeOK, OneUser, UNCHANGED <<lock, task, victims, current, rest, reading>>,
           \A d \in Dirs : phase'[d] \in Holding => phase[d] \in Holding
    PROVE  OneUser'
  BY DEF OneUser

LEMMA WriteUser == ASSUME TypeOK, OneUser, NEW d \in Dirs, Write(d) PROVE OneUser'
  <1> USE Types DEF work, Phase, Lock, Unlock
  <1>1. CASE BeatTimer(d) \/ BeatOpens(d) \/ BeatWrites(d) \/ Accepts(d)
    BY <1>1, SameUser DEF BeatTimer, BeatOpens, BeatWrites, Accepts
  <1>2. CASE Appends(d) \/ Indexes(d) \/ WriterFails(d)
    <2>1. phase' = phase \/ \E s \in {"indexed", "failed"} : phase' = [phase EXCEPT ![d] = s]
      BY <1>2 DEF Appends, Indexes, WriterFails
    <2>2. \A e \in Dirs : phase'[e] \in Holding => phase[e] \in Holding
      BY <2>1 DEF Holding
    <2>3. UNCHANGED <<lock, task, victims, current, rest, reading>>
      BY <1>2 DEF Appends, Indexes, WriterFails
    <2> QED BY <2>2, <2>3, SameUser
  <1>3. CASE Unbeats(d) \/ Renames(d) \/ Checks(d)
    <2>1. \/ phase[d] \in Holding
          \/ phase'[d] \notin Holding
      BY <1>3 DEF Unbeats, Renames, Checks, Holding
    <2>2. \A e \in Dirs : e # d => phase'[e] = phase[e]
      BY <1>3 DEF Unbeats, Renames, Checks
    <2>3. UNCHANGED <<lock, task, victims, current, rest, reading>>
      BY <1>3 DEF Unbeats, Renames, Checks
    <2> QED BY <2>1, <2>2, <2>3, SameUser
  <1>4. CASE Creates(d) \/ FinalizeStarts(d)
    <2>1. Free /\ lock' = Owner[d] /\ UNCHANGED work /\ \A e \in Dirs : e # d => phase'[e] = phase[e]
      BY <1>4 DEF Creates, FinalizeStarts
    <2> QED BY <2>1, FreeFacts DEF OneUser
  <1>5. CASE Created(d) \/ Saved(d)
    <2>1. /\ phase[d] \in Holding /\ phase'[d] \notin Holding
          /\ \A e \in Dirs : e # d => phase'[e] = phase[e]
          /\ UNCHANGED work
      BY <1>5 DEF Created, Saved, Holding
    <2>2. \A p \in Procs : task[p] = "none" /\ reading[p] = Nothing
      BY <2>1 DEF OneUser
    <2> QED BY <2>1 DEF OneUser
  <1>6. CASE RenameFails(d)
    <2>1. /\ phase[d] \in Holding /\ phase'[d] \notin Holding
          /\ \A e \in Dirs : e # d => phase'[e] = phase[e]
          /\ lock' = lock /\ task' = [task EXCEPT ![Owner[d]] = "restore"]
          /\ UNCHANGED <<victims, current, rest, reading>>
      BY <1>6 DEF RenameFails, Holding
    <2> QED BY <2>1 DEF OneUser
  <1>7. CASE DiscardBegins(d)
    <2>1. /\ Free /\ lock' = Owner[d] /\ task' = [task EXCEPT ![Owner[d]] = "discard"]
          /\ victims' = [victims EXCEPT ![Owner[d]] = {d}]
          /\ UNCHANGED <<phase, current, rest, reading>>
      BY <1>7 DEF DiscardBegins, Removes, writer
    <2> QED BY <2>1, FreeFacts DEF OneUser
  <1> QED BY <1>1, <1>2, <1>3, <1>4, <1>5, <1>6, <1>7 DEF Write

LEMMA CleanUser == ASSUME TypeOK, OneUser, NEW p \in Procs, Clean(p) PROVE OneUser'
  <1> USE Types DEF work, writer, Phase, Lock, Unlock
  <1>1. CASE CleanupBegins(p) \/ Recovers(p)
    <2>1. /\ Free /\ lock' = p /\ task' = [task EXCEPT ![p] = "cleanup"]
          /\ \E doomed : victims' = [victims EXCEPT ![p] = doomed]
          /\ UNCHANGED <<phase, current, rest, reading>>
      BY <1>1 DEF CleanupBegins, Recovers, Removes
    <2> QED BY <2>1, FreeFacts DEF OneUser
  <1>2. CASE RecoverySkipped(p)
    BY <1>2, SameUser DEF RecoverySkipped
  <1>3. ASSUME NEW d \in Dirs, RemovalBegins(p, d) PROVE OneUser'
    BY <1>3 DEF RemovalBegins, OneUser
  <1>4. ASSUME NEW f \in Files, Unlinks(p, f) PROVE OneUser'
    BY <1>4 DEF Unlinks, OneUser
  <1>5. CASE RemovalEnds(p)
    BY <1>5 DEF RemovalEnds, OneUser
  <1>6. CASE TaskEnds(p)
    <2>1. /\ task[p] # "none" /\ victims[p] = {} /\ lock' = Nothing
          /\ task' = [task EXCEPT ![p] = "none"]
          /\ UNCHANGED <<victims, current, rest, reading>>
          /\ \A d \in Dirs : phase'[d] \in Holding => phase[d] \in Holding
      BY <1>6 DEF TaskEnds, Holding
    <2>2. lock = p /\ \A d \in Dirs : phase[d] \notin Holding
      BY <2>1 DEF OneUser
    <2>3. \A q \in Procs : reading[q] = Nothing /\ (q # p => task[q] = "none")
      BY <2>1 DEF OneUser
    <2> QED BY <2>1 DEF OneUser
  <1> QED BY <1>1, <1>2, <1>3, <1>4, <1>5, <1>6 DEF Clean

LEMMA OtherUser ==
    ASSUME TypeOK, OneUser, NEW p \in Procs,
           \/ SaveSteps(p) \/ ReadEnds(p) \/ TouchTimer(p) \/ Crash(p) \/ Restart(p)
           \/ \E d \in Dirs : ReadBegins(p, d)
    PROVE  OneUser'
  <1> USE Types DEF work, writer, Lock, Unlock
  <1>1. ASSUME SaveSteps(p) \/ TouchTimer(p) \/ Restart(p) PROVE OneUser'
    <2>1. UNCHANGED <<lock, phase, task, victims, current, rest, reading>>
      BY <1>1 DEF SaveSteps, SaveReads, SaveOpens, SaveWrites, TouchTimer, Restart
    <2> QED BY <2>1, SameUser
  <1>2. CASE ReadEnds(p)
    <2>1. /\ reading[p] # Nothing /\ reading' = [reading EXCEPT ![p] = Nothing] /\ lock' = Nothing
          /\ UNCHANGED <<phase, task, victims, current, rest>>
      BY <1>2 DEF ReadEnds
    <2>2. /\ \A d \in Dirs : phase[d] \notin Holding
          /\ \A q \in Procs : task[q] = "none" /\ (q # p => reading[q] = Nothing)
      BY <2>1 DEF OneUser
    <2> QED BY <2>1 DEF OneUser
  <1>3. ASSUME NEW d \in Dirs, ReadBegins(p, d) PROVE OneUser'
    <2>1. /\ Free /\ lock' = p /\ reading' = [reading EXCEPT ![p] = d]
          /\ UNCHANGED <<phase, task, victims, current, rest>>
      BY <1>3 DEF ReadBegins
    <2> QED BY <2>1, FreeFacts DEF OneUser
  <1>4. CASE Crash(p)
    <2>1. /\ lock' = IF lock = p THEN Nothing ELSE lock
          /\ task' = [task EXCEPT ![p] = "none"] /\ victims' = [victims EXCEPT ![p] = {}]
          /\ current' = [current EXCEPT ![p] = Nothing] /\ rest' = [rest EXCEPT ![p] = {}]
          /\ reading' = [reading EXCEPT ![p] = Nothing]
      BY <1>4 DEF Crash
    <2>2. \A d \in Dirs : phase'[d] \in Holding => phase'[d] = phase[d] /\ Owner[d] # p
      BY <1>4 DEF Crash, Holding, Local
    <2> QED BY <2>1, <2>2 DEF OneUser
  <1> QED BY <1>1, <1>2, <1>3, <1>4

LEMMA TickUser == TypeOK /\ OneUser /\ Tick => OneUser'
  BY SameUser DEF Tick, writer, work
-----------------------------------------------------------------------------
(* The pages.                                                              *)

(* What is the same of a page.                                             *)
SameFiles(d)  == UNCHANGED <<disk[d], content[d], meta[d], lease[d]>>
SameWriter(d) == UNCHANGED <<phase[d], queued[d], written[d], indexed[d], beat[d]>>

LEMMA RowTypes ==
    ASSUME TypeOK
    PROVE  /\ disk \in [Dirs -> {"none", "staging", "final", "discarded", "removed"}]
           /\ content \in [Dirs -> SUBSET (1..Chunks)] /\ indexed \in [Dirs -> SUBSET (1..Chunks)]
           /\ meta \in [Dirs -> {"none", "full", "torn", "bare"}]
           /\ lease \in [Dirs -> {"none", "fresh", "torn", "old"}]
           /\ beat \in [Dirs -> {"idle", "asked", "open"}]
           /\ queued \in [Dirs -> 0..Chunks] /\ written \in [Dirs -> 0..Chunks]
           /\ phase \in [Dirs -> Phases]
           /\ saving \in [Procs -> [Savers -> [Dirs -> Saves]]]
           /\ up \in [Procs -> {"down", "starting", "up"}]
  BY DEF TypeOK

(* A step of a writer concerns its own page only.                          *)
LEMMA WriteRows ==
    ASSUME TypeOK, NEW d \in Dirs, Write(d), NEW e \in Dirs, e # d
    PROVE  SameFiles(e) /\ SameWriter(e)
  <1> USE RowTypes DEF SameFiles, SameWriter, files, writer, Phase
  <1>1. CASE BeatTimer(d) \/ BeatOpens(d) \/ BeatWrites(d)
    BY <1>1 DEF BeatTimer, BeatOpens, BeatWrites
  <1>2. CASE Creates(d) \/ Created(d) \/ Accepts(d)
    BY <1>2 DEF Creates, Created, Accepts
  <1>3. CASE Appends(d) \/ Indexes(d) \/ WriterFails(d)
    BY <1>3 DEF Appends, Indexes, WriterFails
  <1>4. CASE FinalizeStarts(d) \/ Unbeats(d) \/ Renames(d) \/ RenameFails(d)
    BY <1>4 DEF FinalizeStarts, Unbeats, Renames, RenameFails
  <1>5. CASE Saved(d) \/ Checks(d) \/ DiscardBegins(d)
    BY <1>5 DEF Saved, Checks, DiscardBegins, Removes
  <1> QED BY <1>1, <1>2, <1>3, <1>4, <1>5 DEF Write

LEMMA WriteOthers ==
    ASSUME Inv, NEW d \in Dirs, Write(d), NEW e \in Dirs, e # d
    PROVE  PageInv(e)'
  <1>0. TypeOK /\ OneUser /\ PageInv(e)
    BY DEF Inv
  <1>1. SameFiles(e) /\ SameWriter(e)
    BY <1>0, WriteRows
  <1>2. UNCHANGED <<up, raided, resaved, current>>
    BY DEF Write, BeatTimer, BeatOpens, BeatWrites, Creates, Created, Accepts, Appends,
       Indexes, WriterFails, FinalizeStarts, Unbeats, Renames, RenameFails, Saved,
       Checks, DiscardBegins, Removes, procs, work, history
  <1>3. \A p \in Procs, s \in Savers : saving'[p][s][e] = saving[p][s][e]
    <2>1. saving' = saving \/ saving' = [saving EXCEPT ![Owner[d]]["publisher"][d] = "due"]
      BY DEF Write, BeatTimer, BeatOpens, BeatWrites, Creates, Created, Accepts,
         Appends, Indexes, WriterFails, FinalizeStarts, Unbeats, Renames, RenameFails,
         Saved, Checks, DiscardBegins, Removes
    <2>2. /\ "timer" \in Savers /\ "publisher" \in Savers /\ "due" \in Saves
          /\ Owner[d] \in Procs
      BY PageStoreAssumption DEF Savers, Saves
    <2>3. saving \in [Procs -> [Savers -> [Dirs -> Saves]]]
      BY <1>0, RowTypes
    <2>4. CASE saving' = [saving EXCEPT ![Owner[d]]["publisher"][d] = "due"]
      BY <2>4
    <2> QED BY <2>1, <2>4
  <1>4. \A p \in Procs : /\ e \in victims'[p] => victims'[p] = victims[p]
                         /\ \/ task'[p] = task[p]
                            \/ task[p] = "none" /\ current[p] = Nothing /\ e \notin victims'[p]
    <2>1. \/ UNCHANGED <<task, victims>>
          \/ RenameFails(d)
          \/ DiscardBegins(d)
      BY DEF Write, BeatTimer, BeatOpens, BeatWrites, Creates, Created, Accepts,
         Appends, Indexes, WriterFails, FinalizeStarts, Unbeats, Renames, Saved, Checks,
         work
    <2>2. CASE RenameFails(d)
      <3>1. /\ task[Owner[d]] = "none" /\ victims[Owner[d]] = {} /\ current[Owner[d]] = Nothing
            /\ victims' = victims /\ task' = [task EXCEPT ![Owner[d]] = "restore"]
        BY <1>0, <2>2, Types DEF RenameFails, OneUser
      <3> QED BY <3>1
    <2>3. CASE DiscardBegins(d)
      BY <1>0, <2>3, FreeFacts DEF DiscardBegins, Removes
    <2>4. CASE UNCHANGED <<task, victims>>
      BY <2>4
    <2> QED BY <2>1, <2>2, <2>3
  <1>6. Begun(e)'
    BY <1>1, <1>2, <1>0 DEF PageInv, Begun, SameFiles, SameWriter, Local, Alive, Up
  <1>7. Handled(e)'
    BY <1>1, <1>2, <1>4, <1>0 DEF PageInv, Handled, SameFiles, SameWriter, Local
  <1>8. Beats(e)'
    BY <1>1, <1>2, <1>4, <1>0, PageStoreAssumption DEF PageInv, Beats, SameFiles,
       SameWriter, Local
  <1>9. Held(e)'
    BY <1>1, <1>2, <1>0 DEF PageInv, Held, SameFiles, SameWriter
  <1>10. MetaWhole(e)'
    <2>1. MetaWhole(e) /\ Owner[e] \in Procs
      BY <1>0, PageStoreAssumption DEF PageInv
    <2>2. \A p \in Procs : /\ saving'[p]["publisher"][e] = saving[p]["publisher"][e]
                           /\ saving'[p]["timer"][e] = saving[p]["timer"][e]
      BY <1>3 DEF Savers
    <2>3. UNCHANGED <<disk[e], meta[e], lease[e], phase[e], resaved, raided>>
      BY <1>1, <1>2 DEF SameFiles, SameWriter
    <2> QED BY <2>1, <2>2, <2>3 DEF MetaWhole
  <1> QED BY <1>6, <1>7, <1>8, <1>9, <1>10 DEF PageInv
LEMMA WriteOwn ==
    ASSUME Inv, NEW d \in Dirs, Write(d)
    PROVE  PageInv(d)'
  <1>0. TypeOK /\ OneUser /\ PageInv(d) /\ Owner \in [Dirs -> Procs]
    BY PageStoreAssumption DEF Inv
  <1> USE RowTypes DEF files, writer, memory, work, procs, history, Phase, Lock, Unlock
  <1>1. CASE BeatTimer(d)
    <2>1. /\ phase[d] \in {"writing", "indexed", "failed"}
          /\ UNCHANGED <<disk[d], content[d], meta[d], lease[d], phase[d], queued[d],
                         written[d], indexed[d]>>
          /\ beat'[d] = "asked"
          /\ UNCHANGED <<up, raided, resaved, current, victims, task, saving>>
      BY <1>0, <1>1 DEF BeatTimer, Beating
    <2> QED BY <1>0, <2>1 DEF PageInv, Begun, Handled, Beats, Held, MetaWhole, Local,
               Alive, Up
  <1>2. CASE BeatOpens(d)
    <2>1. /\ UNCHANGED <<disk[d], content[d], meta[d], phase[d], queued[d], written[d], indexed[d]>>
          /\ \/ lease'[d] = "torn" /\ disk[d] = "staging"
             \/ lease'[d] = lease[d] /\ disk[d] # "staging"
          /\ UNCHANGED <<up, raided, resaved, current, victims, task, saving>>
      BY <1>0, <1>2 DEF BeatOpens
    <2> QED BY <1>0, <2>1 DEF PageInv, Begun, Handled, Beats, Held, MetaWhole, Local,
               Alive, Up
  <1>3. CASE BeatWrites(d)
    <2>1. /\ beat[d] = "open"
          /\ UNCHANGED <<disk[d], content[d], meta[d], phase[d], queued[d], written[d],
                         indexed[d]>>
          /\ beat'[d] = "idle"
          /\ lease'[d] = IF lease[d] = "none" THEN "none" ELSE "fresh"
          /\ UNCHANGED <<up, raided, resaved, current, victims, task, saving>>
      BY <1>0, <1>3 DEF BeatWrites
    <2> QED BY <1>0, <2>1 DEF PageInv, Begun, Handled, Beats, Held, MetaWhole, Local,
               Alive, Up
  <1>4. CASE Creates(d)
    <2>1. /\ phase[d] = "new" /\ Alive(d) /\ Free
          /\ UNCHANGED <<content[d], meta[d], lease[d], queued[d], written[d], indexed[d]>>
          /\ phase'[d] = "creating"
          /\ disk'[d] = "staging"
          /\ beat'[d] = "asked"
          /\ UNCHANGED <<up, raided, resaved, current, victims, task, saving>>
      BY <1>0, <1>4 DEF Creates
    <2>2. /\ \A p \in Procs : current[p] # d /\ victims[p] = {}
          /\ 1..0 = {}
      BY <1>0, <2>1, FreeFacts, PageStoreAssumption
    <2> QED BY <1>0, <2>1, <2>2 DEF PageInv, Begun, Handled, Beats, Held, MetaWhole,
               Alive, Up
  <1>5. CASE Created(d)
    <2>1. /\ phase[d] = "creating" /\ beat[d] = "idle"
          /\ UNCHANGED <<disk[d], content[d], meta[d], lease[d], queued[d], written[d],
                         indexed[d], beat[d]>>
          /\ phase'[d] = "writing"
          /\ UNCHANGED <<up, raided, resaved, current, victims, task, saving>>
      BY <1>0, <1>5 DEF Created
    <2> QED BY <1>0, <2>1 DEF PageInv, Begun, Handled, Beats, Held, MetaWhole, Local,
               Alive, Up, Working
  <1>6. CASE Accepts(d)
    <2>1. /\ phase[d] = "writing"
          /\ UNCHANGED <<disk[d], content[d], meta[d], lease[d], phase[d], written[d],
                         indexed[d], beat[d]>>
          /\ queued'[d] = queued[d] + 1
          /\ UNCHANGED <<up, raided, resaved, current, victims, task, saving>>
      BY <1>0, <1>6 DEF Accepts
    <2> QED BY <1>0, <2>1 DEF PageInv, Begun, Handled, Beats, Held, MetaWhole, Local,
               Alive, Up
  <1>7. CASE Appends(d)
    <2>1. /\ phase[d] = "writing"
          /\ UNCHANGED <<disk[d], meta[d], lease[d], queued[d], indexed[d], beat[d]>>
          /\ UNCHANGED <<up, raided, resaved, current, victims, task, saving>>
      BY <1>7 DEF Appends
    <2>2. CASE disk[d] = "staging"
      <3>1. /\ phase'[d] = phase[d] /\ written'[d] = written[d] + 1 /\ written[d] \in Nat
            /\ content'[d] = content[d] \cup {written[d] + 1}
        BY <1>0, <1>7, <2>2 DEF Appends
      <3>2. d \notin raided => content'[d] = 1..written'[d]
        BY <1>0, <2>1, <3>1 DEF PageInv, Held
      <3> QED BY <1>0, <2>1, <3>1 DEF PageInv, Begun, Handled, Beats, Held, MetaWhole,
                 Local, Alive, Up
    <2>3. CASE disk[d] # "staging"
      <3>1. phase'[d] = "failed" /\ UNCHANGED <<written[d], content[d]>>
        BY <1>0, <1>7, <2>3 DEF Appends
      <3> QED BY <1>0, <2>1, <3>1 DEF PageInv, Begun, Handled, Beats, Held, MetaWhole,
                 Local, Alive, Up, Working
    <2> QED BY <2>2, <2>3
  <1>8. CASE Indexes(d)
    <2>1. /\ phase[d] = "writing" /\ written[d] = queued[d]
          /\ UNCHANGED <<disk[d], content[d], lease[d], queued[d], written[d], beat[d]>>
          /\ UNCHANGED <<up, raided, resaved, current, victims, task, saving>>
      BY <1>8 DEF Indexes
    <2>2. CASE disk[d] = "staging"
      <3>1. phase'[d] = "indexed" /\ indexed'[d] = content[d] /\ meta'[d] = "full"
        BY <1>0, <1>8, <2>2 DEF Indexes
      <3> QED BY <1>0, <2>1, <3>1 DEF PageInv, Begun, Handled, Beats, Held, MetaWhole,
                 Local, Alive, Up, Working
    <2>3. CASE disk[d] # "staging"
      <3>1. phase'[d] = "failed" /\ UNCHANGED <<indexed[d], meta[d]>>
        BY <1>0, <1>8, <2>3 DEF Indexes
      <3> QED BY <1>0, <2>1, <3>1 DEF PageInv, Begun, Handled, Beats, Held, MetaWhole,
                 Local, Alive, Up, Working
    <2> QED BY <2>2, <2>3
  <1>9. CASE WriterFails(d)
    <2>1. /\ phase[d] \in {"writing", "indexed"}
          /\ UNCHANGED <<disk[d], content[d], meta[d], lease[d], queued[d], written[d],
                         indexed[d], beat[d]>>
          /\ phase'[d] = "failed"
          /\ UNCHANGED <<up, raided, resaved, current, victims, task, saving>>
      BY <1>0, <1>9 DEF WriterFails
    <2> QED BY <1>0, <2>1 DEF PageInv, Begun, Handled, Beats, Held, MetaWhole, Local,
               Alive, Up, Working
  <1>10. CASE FinalizeStarts(d)
    <2>1. /\ phase[d] = "indexed"
          /\ UNCHANGED <<disk[d], content[d], meta[d], lease[d], queued[d], written[d],
                         indexed[d], beat[d]>>
          /\ phase'[d] = "unbeating"
          /\ UNCHANGED <<up, raided, resaved, current, victims, task, saving>>
      BY <1>0, <1>10 DEF FinalizeStarts
    <2> QED BY <1>0, <2>1 DEF PageInv, Begun, Handled, Beats, Held, MetaWhole, Local,
               Alive, Up, Working
  <1>11. CASE Unbeats(d)
    <2>1. /\ phase[d] = "unbeating"
          /\ UNCHANGED <<disk[d], content[d], meta[d], queued[d], written[d],
                         indexed[d], beat[d]>>
          /\ phase'[d] = "renaming"
          /\ lease'[d] = "none"
          /\ UNCHANGED <<up, raided, resaved, current, victims, task, saving>>
      BY <1>0, <1>11 DEF Unbeats
    <2> QED BY <1>0, <2>1 DEF PageInv, Begun, Handled, Beats, Held, MetaWhole, Local,
               Alive, Up, Working
  <1>12. CASE Renames(d)
    <2>1. /\ phase[d] = "renaming" /\ phase'[d] = "saving" /\ disk'[d] = "final"
          /\ UNCHANGED <<content[d], meta[d], lease[d], queued[d], written[d],
                         indexed[d], beat[d]>>
          /\ UNCHANGED <<up, raided, resaved, current, victims, task>>
          /\ saving' = [saving EXCEPT ![Owner[d]]["publisher"][d] = "due"]
      BY <1>0, <1>12 DEF Renames
    <2>2. /\ saving'[Owner[d]]["publisher"][d] = "due"
          /\ \A p \in Procs : /\ saving'[p]["timer"][d] = saving[p]["timer"][d]
                              /\ p # Owner[d] =>
                                   saving'[p]["publisher"][d] = saving[p]["publisher"][d]
      <3>1. /\ "timer" \in Savers /\ "publisher" \in Savers /\ "due" \in Saves
            /\ saving \in [Procs -> [Savers -> [Dirs -> Saves]]] /\ Owner[d] \in Procs
        BY <1>0 DEF Savers, Saves
      <3> QED BY <2>1, <3>1
    <2>3. Begun(d)' /\ Handled(d)' /\ Beats(d)' /\ Held(d)'
      BY <1>0, <2>1 DEF PageInv, Begun, Handled, Beats, Held, Local, Working
    <2>4. MetaWhole(d)'
      BY <1>0, <2>1 DEF PageInv, MetaWhole
    <2> QED BY <2>3, <2>4 DEF PageInv
  <1>13. CASE RenameFails(d)
    <2>1. /\ phase[d] = "renaming" /\ phase'[d] = "failed" /\ beat'[d] = "asked"
          /\ UNCHANGED <<disk[d], content[d], meta[d], lease[d], queued[d], written[d],
                         indexed[d]>>
          /\ UNCHANGED <<up, raided, resaved, current, victims, saving>>
          /\ task'[Owner[d]] = "restore"
      BY <1>0, <1>13, Types DEF RenameFails
    <2> QED BY <1>0, <2>1 DEF PageInv, Begun, Handled, Beats, Held, MetaWhole, Local,
               Alive, Up, Working
  <1>14. CASE Saved(d)
    <2>1. /\ phase[d] = "saving" /\ saving[Owner[d]]["publisher"][d] = "idle"
          /\ UNCHANGED <<disk[d], content[d], meta[d], lease[d], queued[d], written[d],
                         indexed[d], beat[d]>>
          /\ phase'[d] = "checking"
          /\ UNCHANGED <<up, raided, resaved, current, victims, task, saving>>
      BY <1>0, <1>14 DEF Saved
    <2> QED BY <1>0, <2>1 DEF PageInv, Begun, Handled, Beats, Held, MetaWhole, Local,
               Working
  <1>15. CASE Checks(d)
    <2>1. /\ phase[d] = "checking" /\ (phase'[d] = "announced" => FourFiles(d))
          /\ UNCHANGED <<disk[d], content[d], meta[d], lease[d], queued[d], written[d],
                         indexed[d], beat[d]>>
          /\ phase'[d] \in {"announced", "unannounced"}
          /\ UNCHANGED <<up, raided, resaved, current, victims, task, saving>>
      BY <1>0, <1>15 DEF Checks
    <2> QED BY <1>0, <2>1 DEF PageInv, Begun, Handled, Beats, Held, MetaWhole, Local,
               Working, FourFiles
  <1>16. CASE DiscardBegins(d)
    <2>1. /\ phase[d] = "failed" /\ SameFiles(d) /\ SameWriter(d)
          /\ UNCHANGED <<up, raided, resaved, current, saving>>
          /\ task'[Owner[d]] = "discard"
          /\ \A p \in Procs : p # Owner[d] => victims'[p] = victims[p] /\ task'[p] = task[p]
          /\ \A p \in Procs : victims[p] = {} /\ current[p] = Nothing /\ task[p] = "none"
      BY <1>0, <1>16, Types, FreeFacts DEF DiscardBegins, Removes, SameFiles, SameWriter
    <2>2. Nothing \notin Dirs
      BY PageStoreAssumption
    <2> QED BY <1>0, <2>1 DEF SameFiles, SameWriter, PageInv, Begun, Handled, Beats,
               Held, MetaWhole, Local, Alive, Up
  <1> QED BY <1>1, <1>2, <1>3, <1>4, <1>5, <1>6, <1>7, <1>8, <1>9, <1>10, <1>11, <1>12,
             <1>13, <1>14, <1>15, <1>16 DEF Write

(* Cleanup and removal, of the process p, seen from any page.              *)
LEMMA CleanPages ==
    ASSUME Inv, NEW p \in Procs, Clean(p), NEW d \in Dirs
    PROVE  PageInv(d)'
  <1>0. TypeOK /\ OneUser /\ PageInv(d) /\ Owner \in [Dirs -> Procs] /\ Nothing \notin Dirs
    BY PageStoreAssumption DEF Inv
  <1> USE DEF SameFiles, SameWriter, files, writer, memory, work, procs, history, Lock,
  Unlock
  <1>1. CASE CleanupBegins(p) \/ Recovers(p)
    <2>1. /\ Free /\ SameFiles(d) /\ SameWriter(d)
          /\ UNCHANGED <<saving, current, raided, resaved>>
          /\ task'[p] = "cleanup"
          /\ \A q \in Procs : q # p => victims'[q] = victims[q] /\ task'[q] = task[q]
          /\ up[Owner[d]] = "up" => up'[Owner[d]] = "up"
      BY <1>0, <1>1, Types, RowTypes DEF CleanupBegins, Recovers, Removes
    <2>2. d \in victims'[p] => d \in StaleStagings(p) \/ disk[d] = "final"
      <3>1. CASE CleanupBegins(p)
        <4>1. PICK old \in SUBSET Removable(p) : victims'[p] = StaleStagings(p) \cup old
          BY <1>0, <3>1, Types DEF CleanupBegins, Removes
        <4>2. listed'[p] = Scanned(p)
          BY <1>0, <3>1 DEF CleanupBegins, Scan, TypeOK
        <4> QED BY <4>1, <4>2 DEF Removable, Scanned
      <3>2. CASE Recovers(p)
        BY <1>0, <3>2, Types DEF Recovers, Removes
      <3> QED BY <1>1, <3>1, <3>2
    <2>3. d \in victims'[p] /\ Local(d) /\ disk[d] = "staging" => Owner[d] # p
      BY <2>2 DEF StaleStagings
    <2>4. \A q \in Procs : victims[q] = {} /\ current[q] = Nothing /\ task[q] = "none"
      BY <1>0, <2>1, FreeFacts
    <2>5. Handled(d)'
      BY <1>0, <2>1, <2>3, <2>4 DEF Handled, Local
    <2> QED BY <1>0, <2>1, <2>4, <2>5 DEF PageInv, Begun, Beats, Held, MetaWhole, Local,
               Alive, Up
  <1>2. CASE RecoverySkipped(p)
    <2>1. /\ SameFiles(d) /\ SameWriter(d)
          /\ UNCHANGED <<saving, current, victims, task, raided, resaved>>
          /\ up[Owner[d]] = "up" => up'[Owner[d]] = "up"
      BY <1>2 DEF RecoverySkipped
    <2> QED BY <1>0, <2>1 DEF PageInv, Begun, Handled, Beats, Held, MetaWhole, Local,
               Alive, Up
  <1>3. ASSUME NEW e \in Dirs, RemovalBegins(p, e) PROVE PageInv(d)'
    <2>1. /\ e \in victims[p] /\ SameFiles(d) /\ SameWriter(d)
          /\ UNCHANGED <<saving, victims, task, up, resaved>>
          /\ current'[p] = e /\ \A q \in Procs : q # p => current'[q] = current[q]
          /\ raided \subseteq raided'
          /\ disk[e] = "staging" /\ Alive(e) /\ Local(e) /\ Owner[e] # p => e \in raided'
      BY <1>0, <1>3, Types DEF RemovalBegins
    <2>2. Handled(d)'
      <3> SUFFICES ASSUME NEW q \in Procs, Local(d), disk[d] = "staging", d \notin raided',
                          current'[q] = d \/ (d \in victims[q] /\ q = Owner[d])
                   PROVE  phase[d] = "failed" /\ q = Owner[d] /\ task[q] = "discard"
        BY <2>1 DEF Handled, Local
      <3>1. d \notin raided
        BY <2>1
      <3>2. CASE d \in victims[q] /\ q = Owner[d]
        BY <1>0, <3>1, <3>2 DEF PageInv, Handled
      <3>3. CASE current[q] = d
        BY <1>0, <3>1, <3>3 DEF PageInv, Handled
      <3>4. CASE current[q] # d /\ current'[q] = d
        <4>1. q = p /\ e = d
          BY <2>1, <3>4
        <4>2. CASE q = Owner[d]
          BY <2>1, <3>2, <4>1, <4>2
        <4>3. CASE q # Owner[d]
          <5>1. ~Alive(d)
            BY <2>1, <3>1, <4>1, <4>3
          <5> QED BY <5>1, <1>0, <3>1 DEF PageInv, Begun, Alive
        <4> QED BY <4>2, <4>3
      <3> QED BY <3>2, <3>3, <3>4
    <2> QED BY <1>0, <2>1, <2>2 DEF PageInv, Begun, Beats, Held, MetaWhole, Local,
               Alive, Up
  <1>4. ASSUME NEW f \in Files, Unlinks(p, f) PROVE PageInv(d)'
    <2>1. /\ rest[p] # {}
          /\ disk'[d] = disk[d] /\ SameWriter(d)
          /\ UNCHANGED <<saving, victims, task, up, current, raided, resaved>>
          /\ current[p] # d => SameFiles(d)
          /\ content'[d] \in {content[d], {}} /\ meta'[d] \in {meta[d], "none"}
          /\ lease'[d] \in {lease[d], "none"}
      BY <1>4 DEF Unlinks
    <2>2. phase[d] = "saving" => current[p] # d
      BY <1>0 DEF OneUser, Holding
    <2>3. phase[d] \in Working /\ d \notin raided => current[p] # d
      BY <1>0 DEF PageInv, Begun, Handled, Working, Local
    <2>4. Begun(d)' /\ Handled(d)'
      BY <1>0, <2>1 DEF PageInv, Begun, Handled, Local, Alive, Up
    <2>5. Beats(d)'
      BY <1>0, <2>1 DEF PageInv, Handled, Beats, Local
    <2>6. Held(d)'
      BY <1>0, <2>1, <2>3 DEF PageInv, Held, Working
    <2>7. MetaWhole(d)'
      BY <1>0, <2>1, <2>2, <2>3 DEF PageInv, MetaWhole, Working
    <2> QED BY <2>4, <2>5, <2>6, <2>7 DEF PageInv
  <1>5. CASE RemovalEnds(p)
    <2>1. /\ current[p] # Nothing /\ UNCHANGED <<content[d], meta[d], lease[d]>> /\ SameWriter(d)
          /\ UNCHANGED <<saving, task, up, raided, resaved>>
          /\ \A q \in Procs : victims'[q] \subseteq victims[q] /\ current'[q] \in {current[q], Nothing}
      BY <1>5 DEF RemovalEnds
    <2>2. \/ disk'[d] = disk[d]
          \/ current[p] = d /\ disk[d] = "staging" /\ disk'[d] = "discarded"
          \/ disk[d] = "final" /\ disk'[d] = "removed"
      BY <1>0, <1>5, RowTypes DEF RemovalEnds
    <2>3. phase[d] \in Working /\ d \notin raided => current[p] # d
      BY <1>0 DEF PageInv, Begun, Handled, Working, Local
    <2>4. Begun(d)'
      BY <1>0, <2>1, <2>2, <2>3 DEF PageInv, Begun, Local, Alive, Up
    <2>5. Handled(d)'
      BY <1>0, <2>1, <2>2 DEF PageInv, Handled, Local
    <2> QED BY <1>0, <2>1, <2>2, <2>4, <2>5 DEF PageInv, Beats, Held, MetaWhole, Local
  <1>6. CASE TaskEnds(p)
    <2>1. /\ task[p] # "none" /\ victims[p] = {} /\ SameFiles(d)
          /\ UNCHANGED <<queued[d], written[d], indexed[d], beat[d]>>
          /\ \/ phase'[d] = phase[d]
             \/ phase[d] = "failed" /\ phase'[d] = "discarded"
          /\ UNCHANGED <<saving, victims, current, up, raided, resaved>>
          /\ task'[p] = "none" /\ \A q \in Procs : q # p => task'[q] = task[q]
          /\ task[p] # "cleanup" /\ Owner[d] = p /\ phase[d] = "failed" => Restored(d)
      BY <1>0, <1>6, Types DEF TaskEnds
    <2>2. current[p] = Nothing
      BY <1>0, <2>1 DEF OneUser
    <2>3. Handled(d)'
      BY <1>0, <2>1, <2>2 DEF PageInv, Handled, Local
    <2>4. Beats(d)'
      BY <1>0, <2>1 DEF PageInv, Beats, Local, Restored
    <2> QED BY <1>0, <2>1, <2>3, <2>4 DEF PageInv, Begun, Held, MetaWhole, Local, Alive,
               Up, Working
  <1> QED BY <1>1, <1>2, <1>3, <1>4, <1>5, <1>6 DEF Clean

(* The steps of a process that are not about its own pages.                *)
LEMMA OtherPages ==
    ASSUME Inv, NEW p \in Procs, NEW d \in Dirs,
           \/ SaveSteps(p) \/ ReadEnds(p) \/ TouchTimer(p) \/ Crash(p) \/ Restart(p)
           \/ \E e \in Dirs : ReadBegins(p, e)
    PROVE  PageInv(d)'
  <1>0. TypeOK /\ OneUser /\ PageInv(d) /\ Owner \in [Dirs -> Procs] /\ Nothing \notin Dirs
    BY PageStoreAssumption DEF Inv
  <1> USE DEF SameFiles, SameWriter, files, writer, memory, work, procs, history, Lock,
  Unlock
  <1>1. ASSUME NEW s \in Savers, NEW e \in Dirs,
               SaveReads(p, s, e) \/ SaveOpens(p, s, e) \/ SaveWrites(p, s, e)
        PROVE  PageInv(d)'
    <2>1. /\ UNCHANGED <<disk, content, lease>> /\ SameWriter(d)
          /\ UNCHANGED <<task, victims, current, up, raided, resaved>>
          /\ e # d => meta'[d] = meta[d]
          /\ saving[p][s][e] # "idle" /\ e \in Dirs
      BY <1>0, <1>1, RowTypes DEF SaveReads, SaveOpens, SaveWrites
    <2>2. PICK to \in Saves :
             /\ saving' = [saving EXCEPT ![p][s][e] = to]
             /\ \/ saving[p][s][e] = "due" /\ to = Kept(e) /\ meta' = meta
                \/ saving[p][s][e] \in {"full", "bare"} /\ to = "idle" /\ meta' = meta /\ disk[e] # "final"
                \/ saving[p][s][e] = "full" /\ to = "open-full" /\ meta'[e] = "torn"
                \/ saving[p][s][e] = "bare" /\ to = "open-bare" /\ meta'[e] = "torn"
                \/ saving[p][s][e] = "open-bare" /\ to = "idle"
                \/ saving[p][s][e] = "open-full" /\ to = "idle"
                   /\ meta'[e] \in (IF meta[e] = "none" THEN {"none"} ELSE {"full"})
      <3>1. CASE SaveReads(p, s, e)
        BY <3>1 DEF SaveReads, Save, Kept, Saves
      <3>2. CASE SaveOpens(p, s, e)
        BY <1>0, <3>2, RowTypes DEF SaveOpens, Save, Saves
      <3>3. CASE SaveWrites(p, s, e)
        <4>1. /\ saving[p][s][e] \in {"open-full", "open-bare"} /\ "idle" \in Saves
              /\ saving' = [saving EXCEPT ![p][s][e] = "idle"]
          BY <3>3 DEF SaveWrites, Save, Saves
        <4>2. saving[p][s][e] = "open-full" =>
                meta'[e] \in (IF meta[e] = "none" THEN {"none"} ELSE {"full"})
          BY <1>0, <3>3, RowTypes DEF SaveWrites
        <4> QED BY <4>1, <4>2
      <3> QED BY <1>1, <3>1, <3>2, <3>3
    <2>3. /\ saving'[p][s][e] = to
          /\ \A q \in Procs, t \in Savers : q # p \/ t # s \/ d # e =>
               saving'[q][t][d] = saving[q][t][d]
      <3>1. saving \in [Procs -> [Savers -> [Dirs -> Saves]]]
        BY <1>0, RowTypes
      <3> QED BY <2>2, <3>1
    <2>4. Begun(d)' /\ Handled(d)' /\ Beats(d)' /\ Held(d)'
      BY <1>0, <2>1 DEF PageInv, Begun, Handled, Beats, Held, Local, Alive, Up
    <2>5. MetaWhole(d)'
      <3>1. CASE e # d
        <4>1. \A q \in Procs, t \in Savers : saving'[q][t][d] = saving[q][t][d]
          BY <2>3, <3>1
        <4> QED BY <1>0, <2>1, <3>1, <4>1 DEF PageInv, MetaWhole, Savers
      <3>2. CASE e = d /\ s = "timer"
        <4>1. d \in resaved
          BY <1>0, <2>1, <3>2 DEF PageInv, MetaWhole
        <4>2. \A q \in Procs : saving'[q]["publisher"][d] = saving[q]["publisher"][d]
          BY <2>3, <3>2 DEF Savers
        <4> QED BY <1>0, <2>1, <4>1, <4>2 DEF PageInv, MetaWhole
      <3>3. CASE e = d /\ s = "publisher"
        <4>1. p = Owner[d] /\ phase[d] = "saving"
          BY <1>0, <2>1, <3>3 DEF PageInv, MetaWhole
        <4>2. \A q \in Procs : /\ saving'[q]["timer"][d] = saving[q]["timer"][d]
                               /\ q # p => saving'[q]["publisher"][d] = saving[q]["publisher"][d]
          BY <2>3, <3>3 DEF Savers
        <4> QED BY <1>0, <2>1, <2>2, <2>3, <3>3, <4>1, <4>2 DEF PageInv, MetaWhole, Kept
      <3> QED BY <3>1, <3>2, <3>3 DEF Savers
    <2> QED BY <2>4, <2>5 DEF PageInv
  <1>2. ASSUME ReadEnds(p) \/ \E e \in Dirs : ReadBegins(p, e) PROVE PageInv(d)'
    <2>1. /\ SameFiles(d) /\ SameWriter(d)
          /\ UNCHANGED <<saving, task, victims, current, up, raided, resaved>>
      BY <1>2 DEF ReadEnds, ReadBegins
    <2> QED BY <1>0, <2>1 DEF PageInv, Begun, Handled, Beats, Held, MetaWhole, Local,
               Alive, Up
  <1>3. CASE TouchTimer(p)
    <2>1. /\ SameFiles(d) /\ SameWriter(d)
          /\ UNCHANGED <<task, victims, current, up, raided>>
          /\ resaved \subseteq resaved'
          /\ \A q \in Procs : /\ saving'[q]["publisher"][d] = saving[q]["publisher"][d]
                              /\ \/ saving'[q]["timer"][d] = saving[q]["timer"][d]
                                 \/ d \in resaved'
      BY <1>3 DEF TouchTimer
    <2> QED BY <1>0, <2>1 DEF PageInv, Begun, Handled, Beats, Held, MetaWhole, Local,
               Alive, Up
  <1>4. CASE Crash(p)
    <2>1. /\ SameFiles(d) /\ UNCHANGED <<queued[d], written[d], indexed[d], raided, resaved>>
          /\ \A q \in Procs : q # p => UNCHANGED <<task[q], victims[q], current[q], up[q]>>
          /\ victims'[p] = {} /\ current'[p] = Nothing
      BY <1>0, <1>4, Types DEF Crash
    <2>2. /\ saving'[p]["timer"][d] = "idle" /\ saving'[p]["publisher"][d] = "idle"
          /\ \A q \in Procs : q # p => saving'[q] = saving[q]
      BY <1>0, <1>4, RowTypes DEF Crash, Savers
    <2>3. CASE Owner[d] # p
      <3>1. phase'[d] = phase[d] /\ beat'[d] = beat[d]
        BY <1>4, <2>3 DEF Crash
      <3> QED BY <1>0, <2>1, <2>2, <2>3, <3>1 DEF PageInv, Begun, Handled, Beats, Held,
                 MetaWhole, Local, Alive, Up
    <2>4. CASE Owner[d] = p
      <3>1. \/ phase'[d] = "orphan"
            \/ phase'[d] = phase[d] /\ ~Local(d) /\ phase[d] \notin {"saving", "checking"}
        BY <1>4, <2>4 DEF Crash
      <3>2. ~Local(d)' /\ phase'[d] \notin Working
        BY <3>1 DEF Local, Working
      <3>3. Begun(d)' /\ Handled(d)' /\ Beats(d)'
        BY <1>0, <2>1, <3>1, <3>2 DEF PageInv, Begun, Handled, Beats
      <3>4. Held(d)'
        BY <1>0, <2>1, <3>1 DEF PageInv, Held
      <3>5. MetaWhole(d)'
        BY <1>0, <2>1, <2>2, <2>4, <3>1 DEF PageInv, MetaWhole
      <3> QED BY <3>3, <3>4, <3>5 DEF PageInv
    <2> QED BY <2>3, <2>4
  <1>5. CASE Restart(p)
    <2>1. /\ SameFiles(d) /\ SameWriter(d)
          /\ UNCHANGED <<saving, task, victims, current, raided, resaved>>
          /\ up[Owner[d]] = "up" => up'[Owner[d]] = "up"
      BY <1>5 DEF Restart
    <2> QED BY <1>0, <2>1 DEF PageInv, Begun, Handled, Beats, Held, MetaWhole, Local,
               Alive, Up
  <1> QED BY <1>1, <1>2, <1>3, <1>4, <1>5 DEF SaveSteps

(* A heartbeat grows old only of a writer that does not live.              *)
LEMMA TickPages ==
    ASSUME Inv, Tick, NEW d \in Dirs
    PROVE  PageInv(d)'
  <1>0. TypeOK /\ OneUser /\ PageInv(d) /\ phase[d] \notin Holding
    BY FreeFacts DEF Inv, Tick
  <1>1. /\ UNCHANGED <<disk[d], content[d], meta[d]>> /\ SameWriter(d)
        /\ UNCHANGED <<saving, task, victims, current, up, raided, resaved>>
        /\ \/ lease'[d] = lease[d]
           \/ lease[d] = "fresh" /\ lease'[d] = "old" /\ ~(Beating(d) /\ Alive(d))
    BY DEF Tick, SameWriter, writer, work, procs, history
  <1>2. Local(d) => Beating(d) /\ Alive(d)
    BY <1>0 DEF PageInv, Begun, Local, Beating, Holding
  <1> QED BY <1>0, <1>1, <1>2 DEF PageInv, Begun, Handled, Beats, Held, MetaWhole,
             Local, Alive, Up, SameWriter
-----------------------------------------------------------------------------
LEMMA InitInv == Init => Inv
  <1> SUFFICES ASSUME Init PROVE Inv
    OBVIOUS
  <1>1. TypeOK
    BY InitType
  <1>2. OneUser
    BY DEF Init, OneUser, Holding
  <1>3. ASSUME NEW d \in Dirs PROVE PageInv(d)
    BY DEF Init, PageInv, Begun, Handled, Beats, Held, MetaWhole, Local, Working, Savers
  <1> QED BY <1>1, <1>2, <1>3 DEF Inv

LEMMA StutterInv == Inv /\ UNCHANGED vars => Inv'
  <1> SUFFICES ASSUME Inv, UNCHANGED vars PROVE Inv'
    OBVIOUS
  <1> USE DEF vars, files, writer, memory, work, procs, history
  <1>1. TypeOK'
    BY DEF Inv, TypeOK
  <1>2. OneUser'
    BY DEF Inv, OneUser
  <1>3. ASSUME NEW d \in Dirs PROVE PageInv(d)'
    BY DEF Inv, PageInv, Begun, Handled, Beats, Held, MetaWhole, Local, Alive, Up
  <1> QED BY <1>1, <1>2, <1>3 DEF Inv

LEMMA NextInv == Inv /\ [Next]_vars => Inv'
  <1> SUFFICES ASSUME Inv, [Next]_vars PROVE Inv'
    OBVIOUS
  <1>0. TypeOK /\ OneUser
    BY DEF Inv
  <1>1. ASSUME NEW d \in Dirs, Write(d) PROVE Inv'
    <2>1. ASSUME NEW e \in Dirs PROVE PageInv(e)'
      BY <1>1, WriteOwn, WriteOthers
    <2> QED BY <1>1, <2>1, WriteType, WriteUser DEF Inv
  <1>2. ASSUME NEW p \in Procs, Clean(p) PROVE Inv'
    <2>1. ASSUME NEW e \in Dirs PROVE PageInv(e)'
      BY <1>2, CleanPages
    <2> QED BY <1>2, <2>1, CleanType, CleanUser DEF Inv
  <1>3. ASSUME NEW p \in Procs,
               \/ SaveSteps(p) \/ ReadEnds(p) \/ TouchTimer(p) \/ Crash(p) \/ Restart(p)
               \/ \E d \in Dirs : ReadBegins(p, d)
        PROVE  Inv'
    <2>1. ASSUME NEW e \in Dirs PROVE PageInv(e)'
      BY <1>3, OtherPages
    <2> QED BY <1>3, <2>1, OtherType, OtherUser DEF Inv
  <1>4. CASE Tick
    <2>1. ASSUME NEW e \in Dirs PROVE PageInv(e)'
      BY <1>4, TickPages
    <2> QED BY <1>4, <2>1, TickType, TickUser DEF Inv
  <1>5. CASE UNCHANGED vars
    BY <1>5, StutterInv
  <1> QED BY <1>1, <1>2, <1>3, <1>4, <1>5 DEF Next

LEMMA InvHolds == Spec => []Inv
  BY InitInv, NextInv, PTL DEF Spec

\* Every part of the cache and of its processes keeps its type (src/src/paging.ts,
\* src/src/temp-manager.ts).
THEOREM TypeCorrect == Spec => []TypeOK
  <1>1. Inv => TypeOK
    BY DEF Inv
  <1> QED BY <1>1, InvHolds, PTL

\* Whatever was in flight when a page was published, and whoever cleans up, a page
\* whose id was told is readable until its removal begins or its access time is
\* saved (assertFourFiles and saveMeta, src/src/paging.ts:579 and
\* src/src/temp-manager.ts:335).
THEOREM AnnouncedAreReadable == Spec => []AnnouncedReadable
  <1>1. Inv => AnnouncedReadable
    <2> SUFFICES ASSUME Inv, NEW d \in Dirs \ (resaved \cup raided), Announced(d), meta[d] # "none"
                 PROVE  Readable(d)
      BY DEF AnnouncedReadable
    <2>1. PageInv(d)
      BY DEF Inv
    <2> QED BY <2>1 DEF PageInv, Held, MetaWhole, Announced, Readable, FourFiles
  <1> QED BY <1>1, InvHolds, PTL

\* A page whose id was told holds every chunk the writer accepted, unless its
\* staging directory was raided; PagesExact adds how the chunks are shown.
PagesWhole == \A d \in Dirs \ raided : Announced(d) => content[d] = 1..queued[d]

\* The id of a page is told only of a data file that holds all chunks the writer
\* accepted, and it holds them while the page is there (PageCacheWriter.finish,
\* src/src/paging.ts:516).
THEOREM PagesAreWhole == Spec => []PagesWhole
  <1>1. Inv => PagesWhole
    BY DEF Inv, PageInv, Held, Announced, PagesWhole
  <1> QED BY <1>1, InvHolds, PTL

\* A cleanup of any process takes the staging directory of a living one for
\* abandoned only when it meets the heartbeat half written and no file was made
\* for a lease (the scan of src/src/temp-manager.ts:213-224).
THEOREM LiveStagingsAreKept == Spec => LiveStagingKept
  <1>1. Inv /\ [Next]_vars =>
          [\A p \in Procs : \A d \in victims'[p] \ (victims[p] \cup raided) :
             task'[p] = "cleanup" /\ disk[d] = "staging" /\ Alive(d) /\ Local(d)
               => lease[d] = "torn" /\ aged[d]]_vars
    <2> SUFFICES ASSUME Inv, Next, NEW p \in Procs,
                        NEW d \in victims'[p] \ (victims[p] \cup raided),
                        task'[p] = "cleanup", disk[d] = "staging", Alive(d), Local(d)
                 PROVE  lease[d] = "torn" /\ aged[d]
      OBVIOUS
    <2>0. TypeOK /\ OneUser /\ d \in Dirs /\ d \notin raided
      <3>1. Inv'
        BY NextInv
      <3> QED BY <3>1 DEF Inv, TypeOK
    <2>1. CleanupBegins(p) \/ Recovers(p)
      <3>1. victims'[p] # victims[p] /\ ~(victims'[p] \subseteq victims[p])
        OBVIOUS
      <3>2. ASSUME NEW e \in Dirs, Write(e) PROVE FALSE
        <4>1. UNCHANGED victims \/ DiscardBegins(e)
          BY <3>2 DEF Write, BeatTimer, BeatOpens, BeatWrites, Creates, Created,
             Accepts, Appends, Indexes, WriterFails, FinalizeStarts, Unbeats, Renames,
             RenameFails, Saved, Checks, work
        <4>2. CASE DiscardBegins(e)
          BY <2>0, <4>2, Types DEF DiscardBegins, Removes
        <4> QED BY <4>1, <4>2
      <3>3. ASSUME NEW q \in Procs, Clean(q) PROVE q = p /\ (CleanupBegins(p) \/ Recovers(p))
        <4>1. \/ UNCHANGED victims
              \/ CleanupBegins(q) \/ Recovers(q) \/ RemovalEnds(q)
          BY <3>3 DEF Clean, RecoverySkipped, RemovalBegins, Unlinks, TaskEnds, work
        <4>2. CASE CleanupBegins(q) \/ Recovers(q)
          BY <2>0, <4>2, Types DEF CleanupBegins, Recovers, Removes
        <4>3. CASE RemovalEnds(q)
          BY <4>3 DEF RemovalEnds
        <4> QED BY <4>1, <4>2, <4>3
      <3>4. ASSUME NEW q \in Procs,
                   \/ SaveSteps(q) \/ ReadEnds(q) \/ TouchTimer(q) \/ Crash(q) \/ Restart(q)
                   \/ \E e \in Dirs : ReadBegins(q, e)
            PROVE  FALSE
        <4>1. UNCHANGED victims \/ victims' = [victims EXCEPT ![q] = {}]
          BY <3>4 DEF SaveSteps, SaveReads, SaveOpens, SaveWrites, ReadEnds, TouchTimer,
             Crash, Restart, ReadBegins, work
        <4> QED BY <2>0, <4>1, Types
      <3>5. ~Tick
        BY DEF Tick, work
      <3> QED BY <3>2, <3>3, <3>4, <3>5 DEF Next
    <2>2. d \in StaleStagings(p)
      <3>1. CASE CleanupBegins(p)
        <4>1. PICK old \in SUBSET Removable(p) : victims'[p] = StaleStagings(p) \cup old
          BY <3>1 DEF CleanupBegins, Removes
        <4>2. listed'[p] = Scanned(p)
          BY <2>0, <3>1 DEF CleanupBegins, Scan, TypeOK
        <4> QED BY <4>1, <4>2 DEF Removable, Scanned
      <3>2. CASE Recovers(p)
        BY <3>2 DEF Recovers, Removes
      <3> QED BY <2>1, <3>1, <3>2
    <2>3. PageInv(d) /\ phase[d] \notin Holding /\ \A q \in Procs : task[q] = "none"
      BY <2>0, <2>1, FreeFacts DEF Inv, CleanupBegins, Recovers
    <2>4. lease[d] \notin {"old", "none"}
      BY <2>0, <2>3, PageStoreAssumption DEF PageInv, Beats, Holding
    <2> QED BY <2>2, <2>4 DEF StaleStagings, Stale
  <1> QED BY <1>1, InvHolds, PTL DEF Spec, LiveStagingKept

-----------------------------------------------------------------------------
(* The shelf.                                                              *)
Place(d) == IF phase[d] # "announced" THEN "absent"
            ELSE IF disk[d] # "final" THEN "removed"
            ELSE IF Announced(d) THEN "published" ELSE "damaged"

ShelfVars == <<[d \in Dirs |-> Place(d)], reading>>

(* A step that moves one page and leaves the readers alone.                *)
LEMMA Moves ==
    ASSUME UNCHANGED reading, NEW d \in Dirs, \A e \in Dirs : e # d => Place(e)' = Place(e),
           \/ Place(d)' = Place(d)
           \/ Place(d) = "absent" /\ Place(d)' = "published"
           \/ /\ ~\E p \in Procs : reading[p] = d
              /\ \/ Place(d) = "published" /\ Place(d)' = "damaged"
                 \/ Place(d) \in {"published", "damaged"} /\ Place(d)' = "removed"
    PROVE  [Shelf!Next]_ShelfVars
  <1> DEFINE S == [e \in Dirs |-> Place(e)]
  <1>1. S' = [S EXCEPT ![d] = Place(d)']
    OBVIOUS
  <1>2. S[d] = Place(d)
    OBVIOUS
  <1>3. CASE Place(d)' = Place(d)
    <2>1. S' = S
      BY <1>3
    <2> QED BY <2>1 DEF ShelfVars
  <1>4. CASE Place(d) = "absent" /\ Place(d)' = "published"
    <2>1. Shelf!Publish(d)
      BY <1>4 DEF Shelf!Publish, Shelf!Move, Place
    <2> QED BY <2>1 DEF Shelf!Next
  <1>5. CASE ~(\E p \in Procs : reading[p] = d) /\ Place(d) = "published" /\ Place(d)' = "damaged"
    <2>1. Shelf!Damage(d)
      BY <1>5 DEF Shelf!Damage, Shelf!Move, Shelf!IsRead, Place
    <2> QED BY <2>1 DEF Shelf!Next
  <1>6. CASE /\ ~(\E p \in Procs : reading[p] = d)
             /\ Place(d) \in {"published", "damaged"} /\ Place(d)' = "removed"
    <2>1. Shelf!Remove(d)
      BY <1>6 DEF Shelf!Remove, Shelf!Move, Shelf!IsRead, Place
    <2> QED BY <2>1 DEF Shelf!Next
  <1> QED BY <1>3, <1>4, <1>5, <1>6

LEMMA NobodyReads ==
    ASSUME Inv, NEW p \in Procs, task[p] # "none", NEW q \in Procs
    PROVE  reading[q] = Nothing
  BY DEF Inv, OneUser

LEMMA WriteShelf ==
    ASSUME Inv, NEW d \in Dirs, Write(d)
    PROVE  [Shelf!Next]_ShelfVars
  <1>0. TypeOK /\ PageInv(d)
    BY DEF Inv
  <1>1. UNCHANGED reading
    BY DEF Write, BeatTimer, BeatOpens, BeatWrites, Creates, Created, Accepts, Appends,
       Indexes, WriterFails, FinalizeStarts, Unbeats, Renames, RenameFails, Saved,
       Checks, DiscardBegins, Removes, work
  <1>2. ASSUME NEW e \in Dirs, e # d PROVE Place(e)' = Place(e)
    <2>1. UNCHANGED <<phase[e], disk[e], content[e], indexed[e]>>
      BY <1>0, <1>2, WriteRows DEF SameFiles, SameWriter
    <2> QED BY <2>1 DEF Place, Announced
  <1>3. CASE Checks(d)
    <2>1. /\ phase[d] = "checking" /\ UNCHANGED <<disk, content, indexed>>
          /\ phase'[d] \in {"announced", "unannounced"}
          /\ phase'[d] = "announced" => FourFiles(d)
      BY <1>0, <1>3, RowTypes DEF Checks, Phase, files
    <2>2. phase'[d] = "announced" => disk[d] = "final" /\ content[d] = indexed[d]
      BY <1>0, <2>1 DEF PageInv, Held, FourFiles
    <2>3. Place(d) = "absent" /\ Place(d)' \in {"absent", "published"}
      BY <2>1, <2>2 DEF Place, Announced
    <2> QED BY <1>1, <1>2, <2>3, Moves
  <1>4. CASE BeatTimer(d) \/ BeatOpens(d) \/ BeatWrites(d) \/ DiscardBegins(d)
    <2>1. UNCHANGED <<phase, disk, content, indexed>>
      BY <1>4 DEF BeatTimer, BeatOpens, BeatWrites, DiscardBegins, Removes, files,
         writer
    <2>2. Place(d)' = Place(d)
      BY <2>1 DEF Place, Announced
    <2> QED BY <1>1, <1>2, <2>2, Moves
  <1>5. CASE ~(\/ Checks(d) \/ BeatTimer(d) \/ BeatOpens(d) \/ BeatWrites(d) \/ DiscardBegins(d))
    <2>1. phase[d] # "announced" /\ phase'[d] # "announced"
      BY <1>0, <1>5, RowTypes DEF Write, Creates, Created, Accepts, Appends, Indexes,
         WriterFails, FinalizeStarts, Unbeats, Renames, RenameFails, Saved, Phase
    <2>2. Place(d)' = Place(d)
      BY <2>1 DEF Place
    <2> QED BY <1>1, <1>2, <2>2, Moves
  <1> QED BY <1>3, <1>4, <1>5

LEMMA CleanShelf ==
    ASSUME Inv, NEW p \in Procs, Clean(p)
    PROVE  [Shelf!Next]_ShelfVars
  <1>0. TypeOK /\ OneUser /\ Nothing \notin Dirs
    BY PageStoreAssumption DEF Inv
  <1>1. UNCHANGED reading
    BY DEF Clean, CleanupBegins, Recovers, Removes, RecoverySkipped, RemovalBegins,
       Unlinks, RemovalEnds, TaskEnds, work
  <1>2. CASE CleanupBegins(p) \/ Recovers(p) \/ RecoverySkipped(p)
                \/ \E d \in Dirs : RemovalBegins(p, d)
    <2>1. UNCHANGED <<phase, disk, content, indexed>>
      BY <1>2 DEF CleanupBegins, Recovers, Removes, RecoverySkipped, RemovalBegins,
         files, writer
    <2> QED BY <1>1, <2>1 DEF ShelfVars, Place, Announced
  <1>3. CASE TaskEnds(p)
    <2>1. \A d \in Dirs : Place(d)' = Place(d)
      BY <1>3 DEF TaskEnds, Place, Announced, files
    <2> QED BY <1>1, <2>1 DEF ShelfVars
  <1>4. CASE (\E f \in Files : Unlinks(p, f)) \/ RemovalEnds(p)
    <2>1. current[p] # Nothing /\ current[p] \in Dirs
      BY <1>0, <1>4, Types DEF Unlinks, RemovalEnds, OneUser
    <2>8. PICK d \in Dirs : d = current[p]
      BY <2>1
    <2>2. \A q \in Procs : reading[q] # d
      BY <1>0, <2>8 DEF OneUser
    <2>3. PageInv(d)
      BY DEF Inv
    <2>4. UNCHANGED <<phase, indexed>> /\ \A e \in Dirs : e # d => UNCHANGED <<disk[e], content[e]>>
      BY <1>0, <1>4, <2>8, RowTypes DEF Unlinks, RemovalEnds, writer
    <2>5. /\ content'[d] \in {content[d], {}}
          /\ \/ disk'[d] = disk[d]
             \/ disk[d] = "final" /\ disk'[d] = "removed"
             \/ disk[d] = "staging" /\ disk'[d] = "discarded"
      BY <1>0, <1>4, RowTypes DEF Unlinks, RemovalEnds
    <2>6. \A e \in Dirs : e # d => Place(e)' = Place(e)
      BY <2>4 DEF Place, Announced
    <2>7. \/ Place(d)' = Place(d)
          \/ Place(d) = "published" /\ Place(d)' = "damaged"
          \/ Place(d) \in {"published", "damaged"} /\ Place(d)' = "removed"
      BY <2>3, <2>4, <2>5 DEF PageInv, Held, Place, Announced
    <2> QED BY <1>1, <2>2, <2>6, <2>7, Moves
  <1> QED BY <1>2, <1>3, <1>4 DEF Clean

LEMMA OtherShelf ==
    ASSUME Inv, NEW p \in Procs,
           \/ SaveSteps(p) \/ ReadEnds(p) \/ TouchTimer(p) \/ Crash(p) \/ Restart(p)
           \/ \E d \in Dirs : ReadBegins(p, d)
    PROVE  [Shelf!Next]_ShelfVars
  <1>0. TypeOK /\ OneUser /\ Nothing \notin Dirs
    BY PageStoreAssumption DEF Inv
  <1>1. [d \in Dirs |-> Place(d)]' = [d \in Dirs |-> Place(d)]
    <2>1. CASE Crash(p)
      <3>1. \A d \in Dirs : phase'[d] # phase[d] => phase[d] # "announced" /\ phase'[d] = "orphan"
        BY <2>1 DEF Crash, Local
      <3>2. UNCHANGED <<disk, content, indexed>>
        BY <2>1 DEF Crash, files
      <3> QED BY <3>1, <3>2 DEF Place, Announced
    <2>2. CASE ~Crash(p)
      <3>1. UNCHANGED <<phase, disk, content, indexed>>
        BY <2>2 DEF SaveSteps, SaveReads, SaveOpens, SaveWrites, ReadEnds, TouchTimer,
           Restart, ReadBegins, files, writer
      <3> QED BY <3>1 DEF Place, Announced
    <2> QED BY <2>1, <2>2
  <1>2. CASE SaveSteps(p) \/ TouchTimer(p) \/ Restart(p)
    <2>1. UNCHANGED reading
      BY <1>2 DEF SaveSteps, SaveReads, SaveOpens, SaveWrites, TouchTimer, Restart, work
    <2> QED BY <1>1, <2>1 DEF ShelfVars
  <1>3. CASE ReadEnds(p) \/ Crash(p)
    <2>1. reading' = [reading EXCEPT ![p] = Nothing]
      BY <1>3 DEF ReadEnds, Crash
    <2>2. CASE reading[p] = Nothing
      <3>1. reading' = reading
        BY <1>0, <2>1, <2>2, Types
      <3> QED BY <1>1, <3>1 DEF ShelfVars
    <2>3. CASE reading[p] # Nothing
      <3>1. Shelf!End(p)
        BY <1>1, <2>1, <2>3 DEF Shelf!End, Place
      <3> QED BY <3>1 DEF Shelf!Next
    <2> QED BY <2>2, <2>3
  <1>4. ASSUME NEW d \in Dirs, ReadBegins(p, d) PROVE [Shelf!Next]_ShelfVars
    <2>0. /\ phase[d] = "announced" /\ Readable(d) /\ reading[p] = Nothing
          /\ reading' = [reading EXCEPT ![p] = d]
      BY <1>0, <1>4, FreeFacts DEF ReadBegins
    <2>1. Place(d) = "published"
      BY <2>0 DEF Readable, FourFiles, Place, Announced
    <2>2. Shelf!Begin(p, d)
      BY <1>1, <2>0, <2>1 DEF Shelf!Begin, Place
    <2> QED BY <2>2 DEF Shelf!Next
  <1> QED BY <1>2, <1>3, <1>4

\* The cache keeps the promises of PageShelf: pages are published once and whole,
\* none is damaged or removed while it is read, and none comes back.
THEOREM Implementation == Spec => ImplementsShelf
  <1>1. Init => Shelf!Init
    BY DEF Init, Shelf!Init
  <1>2. Inv /\ [Next]_vars => [Shelf!Next]_ShelfVars
    <2> SUFFICES ASSUME Inv, [Next]_vars PROVE [Shelf!Next]_ShelfVars
      OBVIOUS
    <2>1. CASE Tick
      BY <2>1 DEF Tick, ShelfVars, Place, Announced, writer, work
    <2>2. CASE UNCHANGED vars
      BY <2>2 DEF vars, ShelfVars, Place, Announced, files, writer, work
    <2> QED BY <2>1, <2>2, WriteShelf, CleanShelf, OtherShelf DEF Next
  <1> QED BY <1>1, <1>2, InvHolds, PTL DEF Spec, ImplementsShelf, Shelf!Spec, ShelfVars,
             Place


-----------------------------------------------------------------------------
(* What the shelf promises, and the cache with it.                         *)

\* A page goes from the shelf, or is damaged, only while nobody reads it; that the
\* type is kept is needed to know what an update did not touch.
ShelfInv == Shelf!TypeOK /\ Shelf!ReadsOnlyPublished

LEMMA ShelfMove ==
    ASSUME ShelfInv, NEW d \in Dirs, NEW from, NEW to \in Shelf!States, ~Shelf!IsRead(d),
           Shelf!Move(d, from, to)
    PROVE  ShelfInv'
  <1>1. Shelf!TypeOK'
    BY DEF ShelfInv, Shelf!TypeOK, Shelf!Move, Place
  <1>2. reading' = reading /\ \A e \in Dirs : e # d => Place(e)' = Place(e)
    BY DEF Shelf!Move, Place
  <1>3. \A r \in Procs : reading[r] \in Dirs \cup {Nothing} /\ reading[r] # d
    BY DEF ShelfInv, Shelf!TypeOK, Shelf!IsRead
  <1>4. Shelf!ReadsOnlyPublished'
    BY <1>2, <1>3 DEF ShelfInv, Shelf!ReadsOnlyPublished, Place
  <1> QED BY <1>1, <1>4 DEF ShelfInv

LEMMA ShelfNext == ShelfInv /\ [Shelf!Next]_ShelfVars => ShelfInv'
  <1> SUFFICES ASSUME ShelfInv, [Shelf!Next]_ShelfVars PROVE ShelfInv'
    OBVIOUS
  <1>1. ASSUME NEW d \in Dirs, Shelf!Publish(d) PROVE ShelfInv'
    <2>1. Place(d) = "absent" /\ Place(d)' = "published" /\ reading' = reading
      BY <1>1 DEF Shelf!Publish, Shelf!Move, ShelfInv, Shelf!TypeOK, Place
    <2>2. \A e \in Dirs : e # d => Place(e)' = Place(e)
      BY <1>1 DEF Shelf!Publish, Shelf!Move, Place
    <2>3. Shelf!TypeOK'
      BY <1>1 DEF Shelf!Publish, Shelf!Move, Shelf!States, ShelfInv, Shelf!TypeOK, Place
    <2>4. \A r \in Procs : reading[r] \in Dirs \cup {Nothing}
      BY DEF ShelfInv, Shelf!TypeOK
    <2>5. \A r \in Procs : reading[r] # Nothing => Place(reading[r]) = "published"
      BY <2>4 DEF ShelfInv, Shelf!ReadsOnlyPublished, Place
    <2>6. \A r \in Procs : reading'[r] # Nothing => Place(reading[r])' = "published"
      BY <2>1, <2>2, <2>4, <2>5
    <2>7. Shelf!ReadsOnlyPublished'
      BY <2>1, <2>4, <2>6 DEF Shelf!ReadsOnlyPublished, Place
    <2> QED BY <2>3, <2>7 DEF ShelfInv
  <1>2. ASSUME NEW d \in Dirs, Shelf!Damage(d) \/ Shelf!Remove(d) PROVE ShelfInv'
    BY <1>2, ShelfMove DEF Shelf!Damage, Shelf!Remove, Shelf!States
  <1>3. ASSUME NEW r \in Procs, NEW d \in Dirs, Shelf!Begin(r, d) PROVE ShelfInv'
    BY <1>3 DEF Shelf!Begin, ShelfInv, Shelf!TypeOK, Shelf!ReadsOnlyPublished, Place
  <1>4. ASSUME NEW r \in Procs, Shelf!End(r) PROVE ShelfInv'
    BY <1>4 DEF Shelf!End, ShelfInv, Shelf!TypeOK, Shelf!ReadsOnlyPublished, Place
  <1>5. CASE UNCHANGED ShelfVars
    BY <1>5 DEF ShelfVars, ShelfInv, Shelf!TypeOK, Shelf!ReadsOnlyPublished, Place
  <1> QED BY <1>1, <1>2, <1>3, <1>4, <1>5 DEF Shelf!Next

LEMMA ShelfInit == Shelf!Init => ShelfInv
  BY DEF Shelf!Init, ShelfInv, Shelf!TypeOK, Shelf!States, Shelf!ReadsOnlyPublished, Place

(* Of PageShelf alone: whoever reads a page reads one that is on the shelf *)
(* and undamaged (src/src/paging.ts:756).                                  *)
THEOREM ReadsPublished == Shelf!Spec => []Shelf!ReadsOnlyPublished
  <1>1. ShelfInv => Shelf!ReadsOnlyPublished
    BY DEF ShelfInv
  <1> QED BY <1>1, ShelfInit, ShelfNext, PTL DEF Shelf!Spec, ShelfVars, Place

Lost == {d \in Dirs : Place(d) \in {"damaged", "removed"}}

(* A page that is damaged or gone never comes back: its name is not given  *)
(* again (src/src/paging.ts:538).                                          *)
StaysLost == [][Lost \subseteq Lost']_ShelfVars

(* Of PageShelf alone: no publication, damage, removal or read brings a    *)
(* lost page back (src/src/paging.ts:579).                                 *)
THEOREM LostForever == Shelf!Spec => StaysLost
  <1>1. ShelfInv /\ [Shelf!Next]_ShelfVars => [Lost \subseteq Lost']_ShelfVars
    <2> SUFFICES ASSUME ShelfInv, Shelf!Next PROVE Lost \subseteq Lost'
      OBVIOUS
    <2>1. ASSUME NEW d \in Dirs, Shelf!Publish(d) \/ Shelf!Damage(d) \/ Shelf!Remove(d)
          PROVE  Lost \subseteq Lost'
      <3>1. ASSUME NEW from, NEW to, Shelf!Move(d, from, to),
                   from \subseteq {"absent", "published"} \/ to = "removed"
            PROVE  Lost \subseteq Lost'
        <4>1. Place(d) \in from /\ \A e \in Dirs : Place(e)' = IF e = d THEN to ELSE Place(e)
          BY <3>1 DEF Shelf!Move, Place
        <4> QED BY <3>1, <4>1 DEF Lost
      <3>2. CASE Shelf!Publish(d)
        BY <3>1, <3>2 DEF Shelf!Publish
      <3>3. CASE Shelf!Damage(d)
        BY <3>1, <3>3 DEF Shelf!Damage
      <3>4. CASE Shelf!Remove(d)
        BY <3>1, <3>4 DEF Shelf!Remove
      <3> QED BY <2>1, <3>2, <3>3, <3>4
    <2>2. ASSUME NEW r \in Procs, Shelf!End(r) \/ \E d \in Dirs : Shelf!Begin(r, d)
          PROVE  Lost \subseteq Lost'
      <3>1. \A e \in Dirs : Place(e)' = Place(e)
        BY <2>2 DEF Shelf!End, Shelf!Begin, Place
      <3> QED BY <3>1 DEF Lost
    <2> QED BY <2>1, <2>2 DEF Shelf!Next
  <1> QED BY <1>1, ShelfInit, ShelfNext, PTL DEF Shelf!Spec, StaysLost, ShelfVars, Place

\* What a process reads is a page whose id was told, whose directory is there and
\* whose data file is that of its index, all the time it reads (PageCache.read,
\* src/src/paging.ts:756).
THEOREM ReadersAreServed == Spec => []Shelf!ReadsOnlyPublished
  BY Implementation, ReadsPublished, PTL DEF ImplementsShelf

\* A page that is damaged or gone is so for good, whatever is written, renamed or
\* saved later under its name (src/src/paging.ts:538).
THEOREM LostPagesStayLost == Spec => StaysLost
  BY Implementation, LostForever, PTL DEF ImplementsShelf

-------------------------------------------------------------------------------
(* What the pages show.  A decoding is told by the ends of its units, where   *)
(* there is one at most, so that of a file that is read in chunks, and of a   *)
(* part of it, is compared with that of the whole, unit by unit.              *)

LEMMA SetInduction ==
    ASSUME NEW T \in SUBSET Nat, 0 \in T, \A n \in T : n + 1 \in T
    PROVE  T = Nat
  <1> DEFINE R == {ss \in Nat \X Nat : ss[1] < ss[2]}
             U == Nat \ T
  <1>1. IsWellFoundedOn(R, Nat)
    BY NatLessThanWellFounded DEF OpToRel
  <1>2. SUFFICES ASSUME U # {} PROVE FALSE
    OBVIOUS
  <1>3. \E x \in U : \A y \in U : ~(<<y, x>> \in R)
    <2> HIDE DEF R
    <2> QED BY <1>1, <1>2, WFMin
  <1>4. PICK x \in U : \A y \in U : ~(y < x)
    BY <1>3
  <1>5. x # 0 /\ x - 1 \in Nat /\ x - 1 < x
    BY <1>4
  <1>6. x - 1 \in T
    BY <1>4, <1>5
  <1>7. (x - 1) + 1 = x
    BY <1>4
  <1> QED BY <1>4, <1>6, <1>7

-------------------------------------------------------------------------------
(* Units.                                                                  *)
Shown   == Seq(Bytes \cup {"replacement"})
UnitSet == [text : Shown, size : 1..3]

LEMMA ExpectedType == ASSUME NEW byte, NEW encoding PROVE Expected(byte, encoding) \in 1..3
  BY DEF Expected

\* A unit is there as a whole, or it is a replacement; it is one byte at least.
LEMMA UnitType ==
    ASSUME NEW data \in Seq(Bytes), NEW encoding, NEW i \in 1..Len(data)
    PROVE  /\ Unit(data, i, encoding) \in UnitSet
           /\ i + Unit(data, i, encoding).size <= Len(data) + 1
           /\ Unit(data, i, encoding).size <= Expected(data[i], encoding)
           /\ \/ Unit(data, i, encoding).text = <<"replacement">>
              \/ Unit(data, i, encoding).size = Expected(data[i], encoding)
  <1>1. PICK n \in 1..3 : n = Expected(data[i], encoding)
    BY ExpectedType
  <1>2. Len(data) \in Nat /\ \A k \in 1..Len(data) : data[k] \in Bytes
    OBVIOUS
  <1>3. CASE Valid(data, i, encoding)
    <2>1. i + n - 1 <= Len(data)
      BY <1>1, <1>2, <1>3 DEF Valid, Expected
    <2>2. PICK text : text = SubSeq(data, i, i + n - 1)
      OBVIOUS
    <2>3. text \in Shown
      <3>1. text \in Seq(Bytes)
        BY <1>2, <2>1, <2>2
      <3> QED BY <3>1 DEF Shown
    <2>4. Unit(data, i, encoding) = [text |-> text, size |-> n]
      BY <1>1, <1>3, <2>2 DEF Unit
    <2>5. Unit(data, i, encoding) \in UnitSet
      BY <2>3, <2>4 DEF UnitSet
    <2>6. i + n <= Len(data) + 1
      BY <1>1, <1>2, <2>1
    <2> QED BY <1>1, <2>4, <2>5, <2>6
  <1>4. CASE ~Valid(data, i, encoding)
    <2>1. Unit(data, i, encoding) = [text |-> <<"replacement">>, size |-> 1]
      BY <1>4 DEF Unit
    <2>2. PICK r \in Shown : r = <<"replacement">>
      <3>1. \A S, x : x \in S => <<x>> \in Seq(S)
        OBVIOUS
      <3> QED BY <3>1, Zenon DEF Shown
    <2>3. Unit(data, i, encoding) \in UnitSet
      BY <2>1, <2>2 DEF UnitSet
    <2> QED BY <1>1, <1>2, <2>1, <2>3
  <1> QED BY <1>3, <1>4

-------------------------------------------------------------------------------
(* The units us of data up to q, and their ends: e[n] bytes are before unit *)
(* n + 1.                                                                   *)
Track(us, e, data, encoding, q, all) ==
    /\ e \in [0..Len(us) -> 0..Len(data)]
    /\ \A n \in 1..Len(us) :
          /\ e[n - 1] < q
          /\ us[n] = Unit(data, e[n - 1] + 1, encoding)
          /\ e[n] = e[n - 1] + us[n].size
          /\ all \/ e[n - 1] + Expected(data[e[n - 1] + 1], encoding) <= q

Halts(data, encoding, x, q, all) ==
    x >= q \/ (~all /\ x + Expected(data[x + 1], encoding) > q)

\* They are all from p on.
Decodes(us, data, encoding, p, q, all) ==
    /\ us \in Seq(UnitSet)
    /\ \E e : /\ Track(us, e, data, encoding, q, all)
              /\ e[0] = p /\ Halts(data, encoding, e[Len(us)], q, all)

LEMMA TrackStep ==
    ASSUME NEW data \in Seq(Bytes), NEW encoding, NEW q \in 0..Len(data), NEW all \in BOOLEAN,
           NEW us \in Seq(UnitSet), NEW e, Track(us, e, data, encoding, q, all), all => q = Len(data),
           NEW n \in 1..Len(us)
    PROVE  /\ us[n] \in UnitSet /\ us[n].size \in 1..3
           /\ us[n] = Unit(data, e[n - 1] + 1, encoding) /\ e[n - 1] + 1 \in 1..Len(data)
           /\ n - 1 \in 0..Len(us) /\ n \in 0..Len(us)
           /\ e[n - 1] \in 0..Len(data) /\ e[n] \in 0..Len(data)
           /\ e[n] = e[n - 1] + us[n].size
  <1>1. Len(us) \in Nat /\ Len(data) \in Nat /\ us[n] \in UnitSet
    OBVIOUS
  <1>2. us[n].size \in 1..3
    BY <1>1 DEF UnitSet
  <1>3. n - 1 \in 0..Len(us) /\ n \in 0..Len(us)
    BY <1>1
  <1>4. /\ e[n - 1] < q /\ us[n] = Unit(data, e[n - 1] + 1, encoding)
        /\ e[n] = e[n - 1] + us[n].size
    BY DEF Track
  <1>5. e[n - 1] \in 0..Len(data) /\ e[n] \in 0..Len(data)
    BY <1>3 DEF Track
  <1> QED BY <1>1, <1>2, <1>3, <1>4, <1>5

LEMMA TrackEnds ==
    ASSUME NEW data \in Seq(Bytes), NEW encoding, NEW q \in 0..Len(data), NEW all \in BOOLEAN,
           NEW us \in Seq(UnitSet), NEW e, Track(us, e, data, encoding, q, all), all => q = Len(data)
    PROVE  /\ Len(us) \in Nat
           /\ \A n \in 0..Len(us) : e[n] \in Nat /\ e[n] <= Len(data)
           /\ \A n \in 1..Len(us) : e[n - 1] < e[n] /\ e[n] <= q
  <1>1. \A n \in 0..Len(us) : e[n] \in 0..Len(data)
    BY DEF Track
  <1>2. ASSUME NEW n \in 1..Len(us) PROVE e[n - 1] < e[n] /\ e[n] <= q
    <2>1. /\ e[n - 1] + 1 \in 1..Len(data) /\ us[n].size \in 1..3
          /\ e[n - 1] \in 0..Len(data) /\ e[n] \in 0..Len(data)
          /\ us[n] = Unit(data, e[n - 1] + 1, encoding)
          /\ e[n] = e[n - 1] + us[n].size
      BY TrackStep
    <2>2. us[n].size <= Expected(data[e[n - 1] + 1], encoding)
      BY <2>1, UnitType
    <2>3. Expected(data[e[n - 1] + 1], encoding) \in 1..3
      BY ExpectedType
    <2>4. all \/ e[n - 1] + Expected(data[e[n - 1] + 1], encoding) <= q
      BY DEF Track
    <2>5. \A before, after, x, size \in Nat :
             /\ after = before + size /\ size <= x /\ after <= Len(data)
             /\ all \/ before + x <= q
             => after <= q
      OBVIOUS
    <2>6. e[n] <= q
      BY <2>1, <2>2, <2>3, <2>4, <2>5
    <2>7. e[n - 1] < e[n]
      BY <2>1
    <2> QED BY <2>6, <2>7
  <1> QED BY <1>1, <1>2

\* The ends go up, one byte at least with each unit.
LEMMA TrackRises ==
    ASSUME NEW data \in Seq(Bytes), NEW encoding, NEW q \in 0..Len(data), NEW all \in BOOLEAN,
           NEW us \in Seq(UnitSet), NEW e, Track(us, e, data, encoding, q, all), all => q = Len(data),
           NEW m \in 0..Len(us), NEW n \in m..Len(us)
    PROVE  e[m] + (n - m) <= e[n]
  <1> DEFINE T == {k \in Nat : m + k <= Len(us) => e[m] + k <= e[m + k]}
  <1>1. /\ Len(us) \in Nat /\ \A k \in 0..Len(us) : e[k] \in Nat
        /\ \A k \in 1..Len(us) : e[k - 1] < e[k]
    <2> HIDE DEF T
    <2> QED BY TrackEnds
  <1>2. 0 \in T
    BY <1>1
  <1>3. ASSUME NEW k \in T PROVE k + 1 \in T
    <2> SUFFICES ASSUME m + (k + 1) <= Len(us) PROVE e[m] + (k + 1) <= e[m + (k + 1)]
      OBVIOUS
    <2>1. e[m] + k <= e[m + k]
      BY <1>1
    <2>2. m + k + 1 \in 1..Len(us) /\ (m + k + 1) - 1 = m + k /\ m + (k + 1) = m + k + 1
          /\ m + k \in 0..Len(us)
      BY <1>1
    <2>3. e[m + k] < e[m + k + 1] /\ e[m + k] \in Nat /\ e[m + k + 1] \in Nat /\ e[m] \in Nat
      BY <1>1, <2>2
    <2> QED BY <2>1, <2>2, <2>3
  <1>4. n - m \in T
    <2>1. T = Nat
      <3> HIDE DEF T
      <3>1. T \in SUBSET Nat
        BY DEF T
      <3> QED BY <1>2, <1>3, <3>1, SetInduction
    <2>2. n - m \in Nat
      BY <1>1
    <2> HIDE DEF T
    <2> QED BY <2>1, <2>2
  <1>5. m + (n - m) = n
    BY <1>1
  <1> QED BY <1>4, <1>5

Common(us, vs) == (0..Len(us)) \cap (0..Len(vs))

\* Two runs from the same place are the same as far as both go.
LEMMA SameTrack ==
    ASSUME NEW data \in Seq(Bytes), NEW encoding, NEW us \in Seq(UnitSet), NEW vs \in Seq(UnitSet),
           NEW e, NEW q \in Nat, NEW all \in BOOLEAN, Track(us, e, data, encoding, q, all),
           NEW f, NEW r \in Nat, NEW some \in BOOLEAN, Track(vs, f, data, encoding, r, some),
           e[0] = f[0], NEW k \in Common(us, vs)
    PROVE  f[k] = e[k] /\ (k # 0 => vs[k] = us[k])
  <1> DEFINE T == {n \in Nat : n <= Len(vs) /\ n <= Len(us) =>
                                 f[n] = e[n] /\ (n > 0 => vs[n] = us[n])}
  <1>1. Len(us) \in Nat /\ Len(vs) \in Nat
    OBVIOUS
  <1>2. 0 \in T
    BY <1>1
  <1>3. ASSUME NEW n \in T PROVE n + 1 \in T
    <2> SUFFICES ASSUME n + 1 <= Len(vs), n + 1 <= Len(us)
                 PROVE  f[n + 1] = e[n + 1] /\ vs[n + 1] = us[n + 1]
      OBVIOUS
    <2>1. f[n] = e[n]
      BY <1>1
    <2>2. PICK m \in Nat : m = n + 1 /\ m - 1 = n /\ m \in 1..Len(us) /\ m \in 1..Len(vs)
      BY <1>1
    <2>4. us[m] = Unit(data, e[m - 1] + 1, encoding) /\ e[m] = e[m - 1] + us[m].size
      BY <2>2 DEF Track
    <2>5. vs[m] = Unit(data, f[m - 1] + 1, encoding) /\ f[m] = f[m - 1] + vs[m].size
      BY <2>2 DEF Track
    <2> QED BY <2>1, <2>2, <2>4, <2>5
  <1>4. T = Nat
    <2> HIDE DEF T
    <2>1. T \in SUBSET Nat
      BY DEF T
    <2> QED BY <1>2, <1>3, <2>1, SetInduction
  <1>5. k \in T /\ k <= Len(vs) /\ k <= Len(us)
    <2> HIDE DEF T
    <2>1. k \in Nat /\ k <= Len(vs) /\ k <= Len(us)
      BY <1>1 DEF Common
    <2> QED BY <1>4, <2>1
  <1>6. f[k] = e[k] /\ (k > 0 => vs[k] = us[k])
    BY <1>5
  <1>7. k > 0 <=> k # 0
    BY <1>1 DEF Common
  <1> HIDE DEF T
  <1> QED BY <1>6, <1>7

\* There is one decoding at most.
LEMMA DecodesOnce ==
    ASSUME NEW data \in Seq(Bytes), NEW encoding, NEW p \in 0..Len(data), NEW q \in 0..Len(data),
           NEW all \in BOOLEAN, NEW us, NEW vs,
           Decodes(us, data, encoding, p, q, all), Decodes(vs, data, encoding, p, q, all)
    PROVE  us = vs
  <1>1. us \in Seq(UnitSet) /\ vs \in Seq(UnitSet) /\ Len(us) \in Nat /\ Len(vs) \in Nat
    BY DEF Decodes
  <1>2. PICK e : /\ Track(us, e, data, encoding, q, all) /\ e[0] = p
                 /\ Halts(data, encoding, e[Len(us)], q, all)
    BY DEF Decodes
  <1>3. PICK f : /\ Track(vs, f, data, encoding, q, all) /\ f[0] = p
                 /\ Halts(data, encoding, f[Len(vs)], q, all)
    BY DEF Decodes
  <1>5. ASSUME NEW n \in 0..Len(vs), n <= Len(us) PROVE f[n] = e[n] /\ (n > 0 => vs[n] = us[n])
    <2>1. /\ us \in Seq(UnitSet) /\ vs \in Seq(UnitSet) /\ q \in Nat
          /\ Track(us, e, data, encoding, q, all) /\ Track(vs, f, data, encoding, q, all)
          /\ e[0] = f[0] /\ n \in Common(us, vs)
      BY <1>1, <1>2, <1>3, <1>5 DEF Common
    <2>2. f[n] = e[n] /\ (n # 0 => vs[n] = us[n])
      BY <2>1, SameTrack
    <2> QED BY <1>1, <2>2
  <1>6. ASSUME NEW ws \in Seq(UnitSet), NEW g, Track(ws, g, data, encoding, q, all),
               NEW n \in 0..Len(ws), n # Len(ws), Halts(data, encoding, g[n], q, all)
        PROVE  FALSE
    <2>1. PICK k \in 1..Len(ws) : k = n + 1 /\ k - 1 = n
      BY <1>6
    <2>2. g[n] < q /\ (all \/ g[n] + Expected(data[g[n] + 1], encoding) <= q)
      <3>1. g[k - 1] < q /\ (all \/ g[k - 1] + Expected(data[g[k - 1] + 1], encoding) <= q)
        BY <1>6, <2>1 DEF Track
      <3> QED BY <2>1, <3>1
    <2>3. n \in 0..Len(ws) /\ g[n] \in Nat /\ q \in Nat
      <3>1. g \in [0..Len(ws) -> 0..Len(data)] /\ Len(data) \in Nat
        BY <1>6 DEF Track
      <3> QED BY <1>6, <3>1
    <2>4. Expected(data[g[n] + 1], encoding) \in 1..3
      BY ExpectedType
    <2> QED BY <1>6, <2>2, <2>3, <2>4 DEF Halts
  <1>7. ~(Len(us) < Len(vs))
    <2> SUFFICES ASSUME Len(us) < Len(vs) PROVE FALSE
      OBVIOUS
    <2>1. Len(us) \in 0..Len(vs) /\ Len(us) # Len(vs) /\ f[Len(us)] = e[Len(us)]
      BY <1>1, <1>5
    <2> QED BY <1>1, <1>2, <1>3, <1>6, <2>1
  <1>8. ~(Len(vs) < Len(us))
    <2> SUFFICES ASSUME Len(vs) < Len(us) PROVE FALSE
      OBVIOUS
    <2>1. Len(vs) \in 0..Len(us) /\ Len(us) # Len(vs) /\ f[Len(vs)] = e[Len(vs)]
      BY <1>1, <1>5
    <2> QED BY <1>1, <1>2, <1>3, <1>6, <2>1
  <1>9. Len(us) = Len(vs) /\ \A n \in 1..Len(us) : us[n] = vs[n]
    BY <1>1, <1>5, <1>7, <1>8
  <1> QED BY <1>1, <1>9

-------------------------------------------------------------------------------
(* Parts.                                                                  *)
LEMMA PartFacts ==
    ASSUME NEW data \in Seq(Bytes), NEW p \in 0..Len(data), NEW q \in p..Len(data)
    PROVE  /\ Part(data, p, q) \in Seq(Bytes) /\ Len(Part(data, p, q)) = q - p /\ q - p \in Nat
           /\ \A i \in 1..(q - p) : Part(data, p, q)[i] = data[p + i] /\ p + i \in 1..Len(data)
           /\ p \in Nat /\ q \in Nat
  <1>1. p \in Nat /\ q \in Nat /\ p <= q /\ q <= Len(data) /\ Len(data) \in Nat
    OBVIOUS
  <1>2. \A i \in (p + 1)..q : data[i] \in Bytes
    BY <1>1
  <1> QED BY <1>1, <1>2 DEF Part

\* In a part that has the whole unit, or goes on to the end, it is the same unit.
LEMMA PartUnit ==
    ASSUME NEW data \in Seq(Bytes), NEW encoding, NEW p \in 0..Len(data), NEW q \in p..Len(data),
           NEW i \in 1..(q - p),
           q = Len(data) \/ i + Expected(data[p + i], encoding) - 1 <= q - p
    PROVE  Unit(Part(data, p, q), i, encoding) = Unit(data, p + i, encoding)
  <1> DEFINE part == Part(data, p, q)
  <1>1. /\ part \in Seq(Bytes) /\ Len(part) = q - p /\ q - p \in Nat /\ p \in Nat /\ q \in Nat
        /\ \A k \in 1..(q - p) : part[k] = data[p + k] /\ p + k \in 1..Len(data)
    BY PartFacts
  <1>2. part = SubSeq(data, p + 1, q)
    BY DEF Part
  <1> HIDE DEF part
  <1>3. PICK n \in 1..3 : n = Expected(data[p + i], encoding)
    BY ExpectedType
  <1>4. part[i] = data[p + i] /\ i \in Nat /\ p + i \in 1..Len(data) /\ Len(data) \in Nat
        /\ q <= Len(data)
    BY <1>1
  <1>5. i + n - 1 <= q - p <=> (p + i) + n - 1 <= Len(data)
    BY <1>1, <1>3, <1>4
  <1>6. i + n - 1 <= q - p =>
           /\ part[i + n - 1] = data[(p + i) + n - 1]
           /\ (\A j \in (i + 1)..(i + n - 1) : part[j] \in Cont) <=>
              (\A j \in (p + i + 1)..((p + i) + n - 1) : data[j] \in Cont)
           /\ SubSeq(part, i, i + n - 1) = SubSeq(data, p + i, (p + i) + n - 1)
    <2> SUFFICES ASSUME i + n - 1 <= q - p
                 PROVE  /\ part[i + n - 1] = data[(p + i) + n - 1]
                        /\ (\A j \in (i + 1)..(i + n - 1) : part[j] \in Cont) <=>
                           (\A j \in (p + i + 1)..((p + i) + n - 1) : data[j] \in Cont)
                        /\ SubSeq(part, i, i + n - 1) = SubSeq(data, p + i, (p + i) + n - 1)
      OBVIOUS
    <2>1. \A j \in i..(i + n - 1) : part[j] = data[p + j]
      BY <1>1, <1>4
    <2>2. part[i + n - 1] = data[(p + i) + n - 1]
      <3>1. i + n - 1 \in i..(i + n - 1) /\ p + (i + n - 1) = (p + i) + n - 1
        BY <1>1, <1>4
      <3> QED BY <2>1, <3>1
    <2>3. \A j \in (p + i + 1)..((p + i) + n - 1) : j - p \in (i + 1)..(i + n - 1) /\ p + (j - p) = j
      BY <1>1, <1>4
    <2>4. \A j \in (i + 1)..(i + n - 1) : p + j \in (p + i + 1)..((p + i) + n - 1) /\ j \in i..(i + n - 1)
      BY <1>1, <1>4
    <2>5. (\A j \in (i + 1)..(i + n - 1) : part[j] \in Cont) =>
          (\A j \in (p + i + 1)..((p + i) + n - 1) : data[j] \in Cont)
      <3> SUFFICES ASSUME \A j \in (i + 1)..(i + n - 1) : part[j] \in Cont,
                          NEW j \in (p + i + 1)..((p + i) + n - 1)
                   PROVE  data[j] \in Cont
        OBVIOUS
      <3>1. PICK k \in (i + 1)..(i + n - 1) : p + k = j /\ k \in i..(i + n - 1)
        BY <1>1, <1>4, <2>3
      <3> QED BY <2>1, <3>1
    <2>6. (\A j \in (p + i + 1)..((p + i) + n - 1) : data[j] \in Cont) =>
          (\A j \in (i + 1)..(i + n - 1) : part[j] \in Cont)
      BY <2>1, <2>4
    <2>7. SubSeq(part, i, i + n - 1) = SubSeq(data, p + i, (p + i) + n - 1)
      <3> DEFINE x == SubSeq(part, i, i + n - 1)
                 y == SubSeq(data, p + i, (p + i) + n - 1)
      <3>1. x \in Seq(Bytes) /\ Len(x) = n /\ \A k \in 1..n : x[k] = part[i + k - 1]
        BY <1>1, <1>4
      <3>2. y \in Seq(Bytes) /\ Len(y) = n /\ \A k \in 1..n : y[k] = data[(p + i) + k - 1]
        BY <1>1, <1>4, <1>5
      <3>3. \A k \in 1..n : x[k] = y[k]
        <4> SUFFICES ASSUME NEW k \in 1..n PROVE part[i + k - 1] = data[(p + i) + k - 1]
          BY <3>1, <3>2
        <4>1. i + k - 1 \in i..(i + n - 1) /\ p + (i + k - 1) = (p + i) + k - 1
          BY <1>1, <1>4
        <4> QED BY <2>1, <4>1
      <3> HIDE DEF x, y
      <3>4. x = y
        BY <3>1, <3>2, <3>3
      <3> QED BY <3>4 DEF x, y
    <2> QED BY <2>2, <2>5, <2>6, <2>7
  <1>7. Valid(part, i, encoding) <=> Valid(data, p + i, encoding)
    BY <1>1, <1>3, <1>4, <1>5, <1>6 DEF Valid
  <1>8. Valid(data, p + i, encoding) => i + n - 1 <= q - p
    BY <1>1, <1>3, <1>4, <1>5 DEF Valid, Expected
  <1>9. Unit(part, i, encoding) = Unit(data, p + i, encoding)
    BY <1>3, <1>4, <1>6, <1>7, <1>8 DEF Unit
  <1> QED BY <1>9 DEF part

\* What is decoded of a part is there in the whole.
LEMMA PartDecodes ==
    ASSUME NEW data \in Seq(Bytes), NEW encoding, NEW p \in 0..Len(data), NEW q \in p..Len(data),
           NEW all \in BOOLEAN, all => q = Len(data), NEW us,
           Decodes(us, Part(data, p, q), encoding, 0, q - p, all)
    PROVE  Decodes(us, data, encoding, p, q, all)
  <1>1. PICK part : part = Part(data, p, q)
    OBVIOUS
  <1>2. /\ part \in Seq(Bytes) /\ Len(part) = q - p /\ q - p \in Nat
        /\ \A i \in 1..(q - p) : part[i] = data[p + i] /\ p + i \in 1..Len(data)
        /\ p \in Nat /\ q \in Nat
    BY <1>1, PartFacts
  <1>3. PICK last \in 0..Len(part) : last = q - p
    BY <1>2
  <1>4. us \in Seq(UnitSet) /\ Len(us) \in Nat
    BY DEF Decodes
  <1>5. PICK e : /\ Track(us, e, part, encoding, last, all) /\ e[0] = 0
                 /\ Halts(part, encoding, e[Len(us)], last, all)
    BY <1>1, <1>3 DEF Decodes
  <1>6. all => last = Len(part)
    BY <1>2, <1>3
  <1>7. e \in [0..Len(us) -> 0..Len(part)]
    BY <1>5 DEF Track
  <1> DEFINE f == [n \in 0..Len(us) |-> p + e[n]]
  <1>8. \A n \in 0..Len(us) : f[n] = p + e[n] /\ f[n] \in 0..Len(data) /\ e[n] \in 0..(q - p)
    BY <1>2, <1>7
  <1>9. f \in [0..Len(us) -> 0..Len(data)]
    BY <1>8
  <1> HIDE DEF f
  <1>10. ASSUME NEW n \in 1..Len(us)
         PROVE  /\ f[n - 1] < q
                /\ us[n] = Unit(data, f[n - 1] + 1, encoding)
                /\ f[n] = f[n - 1] + us[n].size
                /\ all \/ f[n - 1] + Expected(data[f[n - 1] + 1], encoding) <= q
    <2>1. /\ us[n].size \in 1..3 /\ us[n] = Unit(part, e[n - 1] + 1, encoding)
          /\ e[n - 1] + 1 \in 1..Len(part) /\ e[n] = e[n - 1] + us[n].size
          /\ n - 1 \in 0..Len(us) /\ n \in 0..Len(us)
          /\ e[n - 1] \in 0..Len(part) /\ e[n] \in 0..Len(part)
      <3>1. /\ part \in Seq(Bytes) /\ us \in Seq(UnitSet) /\ Track(us, e, part, encoding, last, all)
            /\ all => last = Len(part)
        BY <1>2, <1>4, <1>5, <1>6
      <3> QED BY <3>1, TrackStep
    <2>2. all \/ e[n - 1] + Expected(part[e[n - 1] + 1], encoding) <= last
      BY <1>5 DEF Track
    <2>3. PICK i \in 1..(q - p) : i = e[n - 1] + 1 /\ e[n - 1] = i - 1
      BY <1>2, <2>1
    <2>4. f[n - 1] = p + e[n - 1] /\ f[n] = p + e[n] /\ f[n - 1] + 1 = p + i /\ i \in Nat
      <3>1. PICK k \in 0..Len(us) : k = n - 1
        BY <2>1
      <3>2. PICK x \in 0..(q - p) : x = e[k] /\ f[k] = p + x
        BY <1>8
      <3>3. f[n] = p + e[n]
        BY <1>8, <2>1
      <3>4. i = x + 1 /\ x \in Nat
        BY <1>2, <2>3, <3>1, <3>2
      <3>5. f[n - 1] = p + x /\ e[n - 1] = x
        BY <3>1, <3>2
      <3>6. (p + x) + 1 = p + i /\ i \in Nat
        BY <1>2, <3>4
      <3> QED BY <3>3, <3>5, <3>6
    <2>5. PICK x \in 1..3 : x = Expected(data[p + i], encoding)
      BY ExpectedType
    <2>6. part[i] = data[p + i]
      BY <1>2
    <2>7. all \/ (i - 1) + x <= q - p
      BY <1>3, <2>2, <2>3, <2>5, <2>6
    <2>8. q = Len(data) \/ i + Expected(data[p + i], encoding) - 1 <= q - p
      BY <1>2, <2>4, <2>5, <2>7
    <2>9. Unit(part, i, encoding) = Unit(data, p + i, encoding)
      BY <1>1, <2>8, PartUnit
    <2>10. us[n] = Unit(data, f[n - 1] + 1, encoding)
      BY <2>1, <2>3, <2>4, <2>9
    <2>11. f[n] = f[n - 1] + us[n].size /\ f[n - 1] < q
      <3>1. PICK y \in 1..3, z \in Nat : y = us[n].size /\ z = e[n] /\ z = (i - 1) + y
        <4>1. PICK y \in 1..3 : y = us[n].size
          BY <2>1
        <4>2. PICK z \in 0..Len(part) : z = e[n]
          BY <2>1
        <4>3. z = (i - 1) + y /\ z \in Nat
          <5>1. e[n] = e[n - 1] + us[n].size /\ e[n - 1] = i - 1
            BY <2>1, <2>3
          <5>2. z = (i - 1) + y
            BY <4>1, <4>2, <5>1
          <5>3. z \in Nat
            BY <1>2
          <5> QED BY <5>2, <5>3
        <4> QED BY <4>1, <4>2, <4>3
      <3>2. f[n - 1] = p + (i - 1) /\ f[n] = p + z
        BY <2>3, <2>4, <3>1
      <3>3. p + z = (p + (i - 1)) + y /\ p + (i - 1) < q
        <4>1. p \in Nat /\ q \in Nat /\ i \in Nat /\ i <= q - p
          BY <1>2
        <4>2. y \in Nat /\ z \in Nat /\ z = (i - 1) + y
          BY <3>1
        <4>3. p + z = (p + (i - 1)) + y
          BY <4>1, <4>2
        <4>4. p + (i - 1) < q
          BY <4>1
        <4> QED BY <4>3, <4>4
      <3> QED BY <3>1, <3>2, <3>3
    <2>12. all \/ f[n - 1] + Expected(data[f[n - 1] + 1], encoding) <= q
      <3>1. f[n - 1] = p + (i - 1) /\ data[f[n - 1] + 1] = data[p + i]
        BY <1>2, <2>3, <2>4
      <3>2. all \/ (p + (i - 1)) + x <= q
        <4>1. p \in Nat /\ q \in Nat /\ i \in Nat /\ x \in Nat
          BY <1>2, <2>4, <2>5
        <4> QED BY <2>7, <4>1
      <3> QED BY <2>5, <3>1, <3>2
    <2> QED BY <2>10, <2>11, <2>12
  <1>11. Track(us, f, data, encoding, q, all)
    BY <1>9, <1>10 DEF Track
  <1>12. f[0] = p /\ Halts(data, encoding, f[Len(us)], q, all)
    <2>1. 0 \in 0..Len(us) /\ Len(us) \in 0..Len(us)
      BY <1>4
    <2>2. f[0] = p
      BY <1>2, <1>5, <1>8, <2>1
    <2>3. PICK x \in 0..(q - p) : x = e[Len(us)] /\ f[Len(us)] = p + x
      BY <1>8, <2>1
    <2>4. x >= last \/ (~all /\ x + Expected(part[x + 1], encoding) > last)
      BY <1>5, <2>3 DEF Halts
    <2>5. CASE x >= last
      BY <1>2, <1>3, <2>2, <2>3, <2>5 DEF Halts
    <2>6. CASE x < last
      <3>1. x + 1 \in 1..(q - p) /\ (p + x) + 1 = p + (x + 1)
        BY <1>2, <1>3, <2>6
      <3>2. part[x + 1] = data[(p + x) + 1]
        BY <1>2, <3>1
      <3>3. PICK y \in 1..3 : y = Expected(data[(p + x) + 1], encoding)
        BY ExpectedType
      <3>4. ~all /\ (p + x) + y > q
        BY <1>2, <1>3, <2>4, <2>6, <3>2, <3>3
      <3> QED BY <2>2, <2>3, <3>3, <3>4 DEF Halts
    <2> QED BY <1>2, <1>3, <2>5, <2>6
  <1> QED BY <1>4, <1>11, <1>12 DEF Decodes

\* Where it halts nothing is decoded;
LEMMA DecodesEnd ==
    ASSUME NEW data \in Seq(Bytes), NEW encoding, NEW x \in 0..Len(data), NEW q \in 0..Len(data),
           NEW all \in BOOLEAN, Halts(data, encoding, x, q, all)
    PROVE  Decodes(<<>>, data, encoding, x, q, all)
  <1> DEFINE e == [n \in 0..0 |-> x]
  <1>1. e \in [0..Len(<<>>) -> 0..Len(data)] /\ e[0] = x /\ e[Len(<<>>)] = x
    OBVIOUS
  <1>2. 1..Len(<<>>) = {} /\ <<>> \in Seq(UnitSet)
    OBVIOUS
  <1> HIDE DEF e
  <1>3. Track(<<>>, e, data, encoding, q, all)
    BY <1>1, <1>2 DEF Track
  <1> QED BY <1>1, <1>2, <1>3 DEF Decodes

\* elsewhere one unit, and what follows it.
LEMMA DecodesMore ==
    ASSUME NEW data \in Seq(Bytes), NEW encoding, NEW x \in 0..Len(data), NEW q \in 0..Len(data),
           NEW all \in BOOLEAN, all => q = Len(data), ~Halts(data, encoding, x, q, all),
           NEW us, Decodes(us, data, encoding, x + Unit(data, x + 1, encoding).size, q, all)
    PROVE  Decodes(<<Unit(data, x + 1, encoding)>> \o us, data, encoding, x, q, all)
  <1>1. PICK unit : unit = Unit(data, x + 1, encoding)
    OBVIOUS
  <1>2. us \in Seq(UnitSet) /\ Len(us) \in Nat /\ Len(data) \in Nat /\ x \in Nat /\ q \in Nat
    BY DEF Decodes
  <1>3. PICK f : /\ Track(us, f, data, encoding, q, all) /\ f[0] = x + unit.size
                 /\ Halts(data, encoding, f[Len(us)], q, all)
    BY <1>1 DEF Decodes
  <1>4. x < q /\ x + 1 \in 1..Len(data) /\ (all \/ x + Expected(data[x + 1], encoding) <= q)
    <2>1. PICK w \in 1..3 : w = Expected(data[x + 1], encoding)
      BY ExpectedType
    <2>2. ~(x >= q) /\ (all \/ ~(x + w > q))
      BY <2>1 DEF Halts
    <2> QED BY <1>2, <2>1, <2>2
  <1>5. unit \in UnitSet /\ unit.size \in 1..3
    <2>1. unit \in UnitSet
      BY <1>1, <1>4, UnitType
    <2> QED BY <2>1 DEF UnitSet
  <1> DEFINE vs == <<unit>> \o us
             e  == [n \in 0..(Len(us) + 1) |-> IF n = 0 THEN x ELSE f[n - 1]]
  <1>6. /\ vs \in Seq(UnitSet) /\ Len(vs) = Len(us) + 1 /\ vs[1] = unit
        /\ \A n \in 1..Len(us) : vs[n + 1] = us[n]
    <2>1. <<unit>> \in Seq(UnitSet)
      <3>1. \A S, y : y \in S => <<y>> \in Seq(S)
        OBVIOUS
      <3> QED BY <1>5, <3>1, Zenon
    <2> QED BY <1>2, <2>1
  <1>7. f \in [0..Len(us) -> 0..Len(data)]
    BY <1>3 DEF Track
  <1>8. /\ e \in [0..(Len(us) + 1) -> 0..Len(data)]
        /\ e[0] = x /\ e[1] = f[0] /\ e[Len(us) + 1] = f[Len(us)]
        /\ \A n \in 1..(Len(us) + 1) : e[n] = f[n - 1]
    <2>1. \A n \in 0..(Len(us) + 1) : n # 0 => n - 1 \in 0..Len(us)
      BY <1>2
    <2>2. e \in [0..(Len(us) + 1) -> 0..Len(data)]
      BY <1>7, <2>1
    <2>3. 0 \in 0..(Len(us) + 1) /\ 1 \in 0..(Len(us) + 1) /\ Len(us) + 1 \in 0..(Len(us) + 1)
          /\ (Len(us) + 1) - 1 = Len(us) /\ 1 - 1 = 0 /\ Len(us) + 1 # 0
      BY <1>2
    <2>4. \A n \in 1..(Len(us) + 1) : e[n] = f[n - 1]
      BY <1>2
    <2> QED BY <2>2, <2>3, <2>4
  <1> HIDE DEF vs, e
  <1>9. ASSUME NEW n \in 1..Len(vs)
        PROVE  /\ e[n - 1] < q
               /\ vs[n] = Unit(data, e[n - 1] + 1, encoding)
               /\ e[n] = e[n - 1] + vs[n].size
               /\ all \/ e[n - 1] + Expected(data[e[n - 1] + 1], encoding) <= q
    <2>1. CASE n = 1
      <3>1. n - 1 = 0 /\ e[n - 1] = x /\ vs[n] = unit /\ e[n] = f[0]
        BY <1>6, <1>8, <2>1
      <3> QED BY <1>1, <1>3, <1>4, <3>1
    <2>2. CASE n # 1
      <3>1. PICK m \in 1..Len(us) : m = n - 1 /\ n = m + 1
        BY <1>2, <1>6, <2>2
      <3>2. m \in 1..(Len(us) + 1) /\ n \in 1..(Len(us) + 1)
        BY <1>2, <3>1
      <3>3. e[n - 1] = f[m - 1] /\ e[n] = f[m] /\ vs[n] = us[m]
        <4>1. e[m] = f[m - 1] /\ e[n] = f[n - 1]
          BY <1>8, <3>2
        <4> QED BY <1>6, <3>1, <4>1
      <3>4. /\ f[m - 1] < q
            /\ us[m] = Unit(data, f[m - 1] + 1, encoding)
            /\ f[m] = f[m - 1] + us[m].size
            /\ all \/ f[m - 1] + Expected(data[f[m - 1] + 1], encoding) <= q
        BY <1>3 DEF Track
      <3> QED BY <3>3, <3>4
    <2> QED BY <2>1, <2>2
  <1>10. Track(vs, e, data, encoding, q, all)
    BY <1>6, <1>8, <1>9 DEF Track
  <1>11. Halts(data, encoding, e[Len(vs)], q, all)
    BY <1>3, <1>6, <1>8
  <1>12. Decodes(vs, data, encoding, x, q, all)
    BY <1>6, <1>8, <1>10, <1>11 DEF Decodes
  <1> QED BY <1>1, <1>12 DEF vs

\* From every place on there is a decoding.
LEMMA DecodesSome ==
    ASSUME NEW data \in Seq(Bytes), NEW encoding, NEW q \in 0..Len(data),
           NEW all \in BOOLEAN, all => q = Len(data)
    PROVE  \A x \in 0..Len(data) : \E us : Decodes(us, data, encoding, x, q, all)
  <1> DEFINE T == {n \in Nat : \A x \in 0..Len(data) : x + n >= Len(data) =>
                                 \E us : Decodes(us, data, encoding, x, q, all)}
  <1>1. Len(data) \in Nat /\ q \in Nat /\ q <= Len(data)
    OBVIOUS
  <1>2. 0 \in T
    <2> SUFFICES ASSUME NEW x \in 0..Len(data), x + 0 >= Len(data)
                 PROVE  \E us : Decodes(us, data, encoding, x, q, all)
      OBVIOUS
    <2>1. Halts(data, encoding, x, q, all)
      BY <1>1 DEF Halts
    <2> QED BY <2>1, DecodesEnd
  <1>3. ASSUME NEW n \in T PROVE n + 1 \in T
    <2> SUFFICES ASSUME NEW x \in 0..Len(data), x + (n + 1) >= Len(data)
                 PROVE  \E us : Decodes(us, data, encoding, x, q, all)
      OBVIOUS
    <2>1. n \in Nat /\ \A y \in 0..Len(data) : y + n >= Len(data) =>
                          \E us : Decodes(us, data, encoding, y, q, all)
      OBVIOUS
    <2> HIDE DEF T
    <2>2. CASE Halts(data, encoding, x, q, all)
      BY <2>2, DecodesEnd
    <2>3. CASE ~Halts(data, encoding, x, q, all)
      <3>1. x < q
        BY <1>1, <2>3 DEF Halts
      <3>2. x + 1 \in 1..Len(data)
        BY <1>1, <3>1
      <3>3. PICK y : y = x + Unit(data, x + 1, encoding).size
        OBVIOUS
      <3>4. y \in 0..Len(data) /\ y + n >= Len(data)
        <4>1. PICK unit : unit = Unit(data, x + 1, encoding)
          OBVIOUS
        <4>2. unit \in UnitSet /\ (x + 1) + unit.size <= Len(data) + 1
          BY <3>2, <4>1, UnitType
        <4>3. PICK s \in 1..3 : s = unit.size
          BY <4>2 DEF UnitSet
        <4>4. y = x + s /\ (x + 1) + s <= Len(data) + 1
          BY <3>3, <4>1, <4>2, <4>3
        <4> QED BY <1>1, <2>1, <4>4
      <3>5. PICK us : Decodes(us, data, encoding, y, q, all)
        BY <2>1, <3>4
      <3>6. Decodes(<<Unit(data, x + 1, encoding)>> \o us, data, encoding, x, q, all)
        BY <2>3, <3>3, <3>5, DecodesMore
      <3> QED BY <3>6
    <2> QED BY <2>2, <2>3
  <1>4. T = Nat
    <2> HIDE DEF T
    <2>1. T \in SUBSET Nat
      BY DEF T
    <2> QED BY <1>2, <1>3, <2>1, SetInduction
  <1>5. Len(data) \in T
    BY <1>1, <1>4
  <1> QED BY <1>1, <1>5

\* That is what Units does.
LEMMA UnitsDecode ==
    ASSUME NEW data \in Seq(Bytes), NEW encoding, NEW all \in BOOLEAN
    PROVE  Decodes(Units(data, encoding, all), data, encoding, 0, Len(data), all)
  <1> DEFINE Stops(i) == i > Len(data) \/ (~all /\ i + Expected(data[i], encoding) - 1 > Len(data))
             More(u, i) == LET unit == Unit(data, i, encoding) IN <<unit>> \o u[i + unit.size]
             Eq(u) == u = [i \in 1..(Len(data) + 1) |-> IF Stops(i) THEN <<>> ELSE More(u, i)]
             from == CHOOSE u : Eq(u)
             g == [i \in 1..(Len(data) + 1) |->
                     CHOOSE us : Decodes(us, data, encoding, i - 1, Len(data), all)]
  <1>1. Units(data, encoding, all) = from[1]
    BY DEF Units
  <1>2. Len(data) \in Nat /\ Len(data) \in 0..Len(data)
    OBVIOUS
  <1>3. \A i \in 1..(Len(data) + 1) : i - 1 \in 0..Len(data) /\ (i - 1) + 1 = i
    BY <1>2
  <1>4. \A i \in 1..(Len(data) + 1) : Decodes(g[i], data, encoding, i - 1, Len(data), all)
    <2> SUFFICES ASSUME NEW i \in 1..(Len(data) + 1)
                 PROVE  Decodes(g[i], data, encoding, i - 1, Len(data), all)
      OBVIOUS
    <2>1. \E us : Decodes(us, data, encoding, i - 1, Len(data), all)
      <3> HIDE DEF g, from
      <3> QED BY <1>2, <1>3, DecodesSome
    <2>2. g[i] = CHOOSE us : Decodes(us, data, encoding, i - 1, Len(data), all)
      OBVIOUS
    <2> HIDE DEF g, from
    <2> QED BY <2>1, <2>2
  <1>5. g = [i \in 1..(Len(data) + 1) |-> g[i]]
    OBVIOUS
  <1> HIDE DEF from, g
  <1>6. ASSUME NEW i \in 1..(Len(data) + 1)
        PROVE  Stops(i) <=> Halts(data, encoding, i - 1, Len(data), all)
    <2>1. PICK w \in 1..3 : w = Expected(data[i], encoding)
      BY ExpectedType
    <2>2. PICK x \in 0..Len(data) : x = i - 1 /\ x + 1 = i
      BY <1>3
    <2>3. (i > Len(data) <=> x >= Len(data)) /\ (i + w - 1 > Len(data) <=> x + w > Len(data))
      BY <1>2, <2>2
    <2> QED BY <2>1, <2>2, <2>3 DEF Halts
  <1>7. ASSUME NEW i \in 1..(Len(data) + 1), ~Stops(i)
        PROVE  /\ i + Unit(data, i, encoding).size \in 1..(Len(data) + 1)
               /\ i + Unit(data, i, encoding).size > i
               /\ (i + Unit(data, i, encoding).size) - 1 = (i - 1) + Unit(data, i, encoding).size
    <2>1. i \in 1..Len(data)
      BY <1>2, <1>7
    <2>2. PICK unit : unit = Unit(data, i, encoding)
      OBVIOUS
    <2>3. unit \in UnitSet /\ i + unit.size <= Len(data) + 1
      BY <2>1, <2>2, UnitType
    <2>4. PICK s \in 1..3 : s = unit.size
      BY <2>3 DEF UnitSet
    <2>5. i + s \in 1..(Len(data) + 1) /\ i + s > i /\ (i + s) - 1 = (i - 1) + s
      BY <1>2, <2>1, <2>3, <2>4
    <2> QED BY <2>2, <2>4, <2>5
  <1>8. ASSUME NEW u, NEW i \in 1..(Len(data) + 1), ~Stops(i),
               Decodes(u[i + Unit(data, i, encoding).size], data, encoding,
                       (i + Unit(data, i, encoding).size) - 1, Len(data), all)
        PROVE  Decodes(More(u, i), data, encoding, i - 1, Len(data), all)
    <2>1. PICK x \in 0..Len(data) : x = i - 1 /\ x + 1 = i
      BY <1>3
    <2>2. ~Halts(data, encoding, x, Len(data), all)
      <3> HIDE DEF Stops
      <3> QED BY <1>6, <1>8, <2>1
    <2>3. PICK us : us = u[i + Unit(data, i, encoding).size]
      OBVIOUS
    <2>4. Decodes(us, data, encoding, x + Unit(data, x + 1, encoding).size, Len(data), all)
      <3> HIDE DEF Stops
      <3> QED BY <1>7, <1>8, <2>1, <2>3
    <2>5. Decodes(<<Unit(data, x + 1, encoding)>> \o us, data, encoding, x, Len(data), all)
      BY <1>2, <2>2, <2>4, DecodesMore
    <2> QED BY <2>1, <2>3, <2>5
  <1> HIDE DEF Stops, More
  <1>9. \A i \in 1..(Len(data) + 1) : g[i] = IF Stops(i) THEN <<>> ELSE More(g, i)
    <2> SUFFICES ASSUME NEW i \in 1..(Len(data) + 1)
                 PROVE  g[i] = IF Stops(i) THEN <<>> ELSE More(g, i)
      OBVIOUS
    <2>1. Decodes(g[i], data, encoding, i - 1, Len(data), all) /\ i - 1 \in 0..Len(data)
      BY <1>3, <1>4
    <2>2. CASE Stops(i)
      <3>1. Halts(data, encoding, i - 1, Len(data), all)
        BY <1>6, <2>2
      <3>2. Decodes(<<>>, data, encoding, i - 1, Len(data), all)
        BY <1>2, <2>1, <3>1, DecodesEnd
      <3> QED BY <1>2, <2>1, <2>2, <3>2, DecodesOnce
    <2>3. CASE ~Stops(i)
      <3>1. Decodes(More(g, i), data, encoding, i - 1, Len(data), all)
        BY <1>4, <1>7, <1>8, <2>3
      <3> QED BY <1>2, <2>1, <2>3, <3>1, DecodesOnce
    <2> QED BY <2>2, <2>3
  <1>10. Eq(g)
    BY <1>5, <1>9, Zenon
  <1>11. Eq(from)
    BY <1>10 DEF from
  <1>12. \A i \in 1..(Len(data) + 1) : from[i] = IF Stops(i) THEN <<>> ELSE More(from, i)
    BY <1>11, Zenon
  <1> DEFINE T == {n \in Nat : \A i \in 1..(Len(data) + 1) : i + n >= Len(data) + 1 =>
                                 Decodes(from[i], data, encoding, i - 1, Len(data), all)}
  <1>13. ASSUME NEW i \in 1..(Len(data) + 1), Stops(i)
         PROVE  Decodes(from[i], data, encoding, i - 1, Len(data), all)
    <2>1. Halts(data, encoding, i - 1, Len(data), all) /\ i - 1 \in 0..Len(data)
      BY <1>3, <1>6, <1>13
    <2>2. Decodes(<<>>, data, encoding, i - 1, Len(data), all)
      BY <1>2, <2>1, DecodesEnd
    <2> QED BY <1>12, <1>13, <2>2
  <1>14. 0 \in T
    <2> SUFFICES ASSUME NEW i \in 1..(Len(data) + 1), i + 0 >= Len(data) + 1
                 PROVE  Decodes(from[i], data, encoding, i - 1, Len(data), all)
      OBVIOUS
    <2>1. Stops(i)
      BY <1>2 DEF Stops
    <2> QED BY <1>13, <2>1
  <1>15. ASSUME NEW n \in T PROVE n + 1 \in T
    <2> SUFFICES ASSUME NEW i \in 1..(Len(data) + 1), i + (n + 1) >= Len(data) + 1
                 PROVE  Decodes(from[i], data, encoding, i - 1, Len(data), all)
      OBVIOUS
    <2>1. n \in Nat /\ \A j \in 1..(Len(data) + 1) : j + n >= Len(data) + 1 =>
                         Decodes(from[j], data, encoding, j - 1, Len(data), all)
      OBVIOUS
    <2> HIDE DEF T
    <2>2. CASE ~Stops(i)
      <3>1. PICK j : j = i + Unit(data, i, encoding).size
        OBVIOUS
      <3>2. j \in 1..(Len(data) + 1) /\ j > i
        BY <1>7, <2>2, <3>1
      <3>3. j + n >= Len(data) + 1
        BY <1>2, <2>1, <3>2
      <3>4. Decodes(from[j], data, encoding, j - 1, Len(data), all)
        BY <2>1, <3>2, <3>3
      <3>5. Decodes(More(from, i), data, encoding, i - 1, Len(data), all)
        BY <1>8, <2>2, <3>1, <3>4
      <3> QED BY <1>12, <2>2, <3>5
    <2> QED BY <1>13, <2>2
  <1>16. T = Nat
    <2> HIDE DEF T
    <2>1. T \in SUBSET Nat
      BY DEF T
    <2> QED BY <1>14, <1>15, <2>1, SetInduction
  <1>17. Decodes(from[1], data, encoding, 1 - 1, Len(data), all)
    <2>1. Len(data) \in T
      BY <1>2, <1>16
    <2>2. 1 \in 1..(Len(data) + 1) /\ 1 + Len(data) >= Len(data) + 1
      BY <1>2
    <2> QED BY <2>1, <2>2
  <1> QED BY <1>1, <1>17

\* The units of a part are what is decoded there.
LEMMA PartUnits ==
    ASSUME NEW data \in Seq(Bytes), NEW encoding, NEW p \in 0..Len(data), NEW q \in p..Len(data),
           NEW all \in BOOLEAN, all => q = Len(data)
    PROVE  Decodes(Units(Part(data, p, q), encoding, all), data, encoding, p, q, all)
  <1>1. PICK part : part = Part(data, p, q)
    OBVIOUS
  <1>2. part \in Seq(Bytes) /\ Len(part) = q - p
    BY <1>1, PartFacts
  <1>3. PICK us : us = Units(part, encoding, all)
    OBVIOUS
  <1>4. Decodes(us, part, encoding, 0, Len(part), all)
    BY <1>2, <1>3, UnitsDecode
  <1>5. Decodes(us, data, encoding, p, q, all)
    BY <1>1, <1>2, <1>4, PartDecodes
  <1> QED BY <1>1, <1>3, <1>5

LEMMA PartUnitsOnly ==
    ASSUME NEW data \in Seq(Bytes), NEW encoding, NEW p \in 0..Len(data), NEW q \in p..Len(data),
           NEW all \in BOOLEAN, all => q = Len(data), NEW us, Decodes(us, data, encoding, p, q, all)
    PROVE  us = Units(Part(data, p, q), encoding, all)
  <1>1. q \in 0..Len(data)
    OBVIOUS
  <1>2. PICK vs : vs = Units(Part(data, p, q), encoding, all)
    OBVIOUS
  <1>3. Decodes(vs, data, encoding, p, q, all)
    BY <1>2, PartUnits
  <1>4. us = vs
    BY <1>1, <1>3, DecodesOnce
  <1> QED BY <1>2, <1>4

-------------------------------------------------------------------------------
(* Sizes.                                                                  *)
Ends(us, e) ==
    e \in [0..Len(us) -> Nat] /\ \A n \in 1..Len(us) : e[n] = e[n - 1] + us[n].size

LEMMA SizeIs ==
    ASSUME NEW us \in Seq(UnitSet), NEW e, Ends(us, e)
    PROVE  Size(us) \in Nat /\ e[Len(us)] = e[0] + Size(us)
  <1> DEFINE Eq(u) == u = [n \in 0..Len(us) |-> IF n = 0 THEN 0 ELSE u[n - 1] + us[n].size]
             sum == CHOOSE u : Eq(u)
             g == [n \in 0..Len(us) |-> e[n] - e[0]]
             T == {n \in Nat : n <= Len(us) => sum[n] \in Nat /\ e[n] = e[0] + sum[n]}
  <1>1. Size(us) = sum[Len(us)]
    BY DEF Size
  <1>2. Len(us) \in Nat /\ \A n \in 0..Len(us) : e[n] \in Nat
    BY DEF Ends
  <1>3. \A n \in 1..Len(us) : us[n].size \in Nat
    <2>1. \A n \in 1..Len(us) : us[n] \in UnitSet
      OBVIOUS
    <2>2. \A unit \in UnitSet : unit.size \in Nat
      BY DEF UnitSet
    <2> QED BY <2>1, <2>2
  <1>4. \A n \in 0..Len(us) : n # 0 => n \in 1..Len(us) /\ n - 1 \in 0..Len(us)
    BY <1>2
  <1>5. \A n \in 0..Len(us) : g[n] = IF n = 0 THEN 0 ELSE g[n - 1] + us[n].size
    <2> SUFFICES ASSUME NEW n \in 0..Len(us)
                 PROVE  g[n] = IF n = 0 THEN 0 ELSE g[n - 1] + us[n].size
      OBVIOUS
    <2>1. CASE n = 0
      BY <1>2, <2>1
    <2>2. CASE n # 0
      <3>1. n \in 1..Len(us) /\ n - 1 \in 0..Len(us) /\ 0 \in 0..Len(us)
        BY <1>2, <1>4, <2>2
      <3>2. PICK k \in 0..Len(us) : k = n - 1
        BY <3>1
      <3>3. PICK a \in Nat, b \in Nat, c \in Nat, s \in Nat :
               a = e[n] /\ b = e[k] /\ c = e[0] /\ s = us[n].size
        BY <1>2, <1>3, <3>1
      <3>4. e[n] = e[n - 1] + us[n].size
        BY <3>1 DEF Ends
      <3>5. a = b + s
        BY <3>2, <3>3, <3>4
      <3>6. a - c = (b - c) + s
        BY <3>5
      <3>7. g[n] = a - c /\ g[k] = b - c
        BY <3>3
      <3> HIDE DEF g
      <3> QED BY <2>2, <3>2, <3>3, <3>6, <3>7
    <2> QED BY <2>1, <2>2
  <1>6. g = [n \in 0..Len(us) |-> g[n]]
    OBVIOUS
  <1> HIDE DEF g
  <1>7. Eq(g)
    BY <1>5, <1>6, Zenon
  <1>8. Eq(sum)
    BY <1>7
  <1> HIDE DEF sum
  <1>9. \A n \in 0..Len(us) : sum[n] = IF n = 0 THEN 0 ELSE sum[n - 1] + us[n].size
    BY <1>8, Zenon
  <1>10. 0 \in T
    <2>1. 0 \in 0..Len(us)
      BY <1>2
    <2> QED BY <1>2, <1>9, <2>1
  <1>11. ASSUME NEW n \in T PROVE n + 1 \in T
    <2> SUFFICES ASSUME n + 1 <= Len(us)
                 PROVE  sum[n + 1] \in Nat /\ e[n + 1] = e[0] + sum[n + 1]
      OBVIOUS
    <2>1. n \in Nat /\ sum[n] \in Nat /\ e[n] = e[0] + sum[n]
      BY <1>2
    <2> HIDE DEF T
    <2>2. PICK m \in 1..Len(us) : m = n + 1 /\ m - 1 = n /\ m \in 0..Len(us) /\ m # 0
      BY <1>2, <2>1
    <2>3. sum[m] = sum[n] + us[m].size
      <3>1. sum[m] = sum[m - 1] + us[m].size
        BY <1>9, <2>2, Zenon
      <3> QED BY <2>2, <3>1
    <2>4. e[m] = e[n] + us[m].size
      <3>1. e[m] = e[m - 1] + us[m].size
        BY DEF Ends
      <3> QED BY <2>2, <3>1
    <2>5. us[m].size \in Nat /\ e[0] \in Nat
      BY <1>2, <1>3
    <2> QED BY <2>1, <2>2, <2>3, <2>4, <2>5
  <1>12. T = Nat
    <2> HIDE DEF T
    <2>1. T \in SUBSET Nat
      BY DEF T
    <2> QED BY <1>10, <1>11, <2>1, SetInduction
  <1>13. Len(us) \in T
    BY <1>2, <1>12
  <1>14. sum[Len(us)] \in Nat /\ e[Len(us)] = e[0] + sum[Len(us)]
    BY <1>2, <1>13
  <1> HIDE DEF T
  <1> QED BY <1>1, <1>14

LEMMA TrackSizes ==
    ASSUME NEW data \in Seq(Bytes), NEW encoding, NEW q \in Nat, NEW all \in BOOLEAN,
           NEW us \in Seq(UnitSet), NEW e, Track(us, e, data, encoding, q, all),
           NEW n \in 0..Len(us)
    PROVE  /\ Size(SubSeq(us, 1, n)) \in Nat /\ e[n] = e[0] + Size(SubSeq(us, 1, n))
           /\ Size(us) \in Nat /\ e[Len(us)] = e[0] + Size(us)
  <1>1. Ends(us, e)
    <2>1. Len(data) \in Nat
      OBVIOUS
    <2> QED BY <2>1 DEF Track, Ends
  <1>2. PICK vs : vs = SubSeq(us, 1, n)
    OBVIOUS
  <1> DEFINE f == [k \in 0..n |-> e[k]]
  <1>3. Len(us) \in Nat /\ vs \in Seq(UnitSet) /\ Len(vs) = n /\ \A k \in 1..n : vs[k] = us[k]
    BY <1>2
  <1>4. \A k \in 1..n : k \in 1..Len(us) /\ k - 1 \in 0..n /\ k \in 0..n
    BY <1>3
  <1>5. \A k \in 0..n : k \in 0..Len(us) /\ f[k] = e[k]
    BY <1>3
  <1>6. f \in [0..n -> Nat]
    BY <1>1, <1>5 DEF Ends
  <1> HIDE DEF f
  <1>7. \A k \in 1..n : f[k] = f[k - 1] + vs[k].size
    BY <1>1, <1>3, <1>4, <1>5 DEF Ends
  <1>8. Ends(vs, f)
    BY <1>3, <1>6, <1>7 DEF Ends
  <1>9. Size(vs) \in Nat /\ f[Len(vs)] = f[0] + Size(vs)
    BY <1>3, <1>8, SizeIs
  <1>10. f[n] = e[n] /\ f[0] = e[0]
    BY <1>3, <1>5
  <1>11. Size(us) \in Nat /\ e[Len(us)] = e[0] + Size(us)
    BY <1>1, SizeIs
  <1> QED BY <1>2, <1>3, <1>9, <1>10, <1>11

\* Where a decoding ends.
LEMMA DecodesSize ==
    ASSUME NEW data \in Seq(Bytes), NEW encoding, NEW p \in 0..Len(data), NEW q \in p..Len(data),
           NEW all \in BOOLEAN, all => q = Len(data), NEW us,
           Decodes(us, data, encoding, p, q, all)
    PROVE  /\ us \in Seq(UnitSet) /\ Len(us) \in Nat
           /\ Size(us) \in Nat /\ p + Size(us) \in p..q
           /\ \E e : /\ Track(us, e, data, encoding, q, all) /\ e[0] = p
                     /\ e[Len(us)] = p + Size(us)
                     /\ Halts(data, encoding, p + Size(us), q, all)
  <1>1. us \in Seq(UnitSet) /\ Len(us) \in Nat /\ Len(data) \in Nat /\ q \in 0..Len(data)
        /\ p \in Nat /\ q \in Nat /\ p <= q
    BY DEF Decodes
  <1>2. PICK e : /\ Track(us, e, data, encoding, q, all) /\ e[0] = p
                 /\ Halts(data, encoding, e[Len(us)], q, all)
    BY DEF Decodes
  <1>3. Len(us) \in 0..Len(us) /\ 0 \in 0..Len(us)
    BY <1>1
  <1>4. Size(us) \in Nat /\ e[Len(us)] = p + Size(us)
    <2>1. PICK n \in 0..Len(us) : n = Len(us)
      BY <1>3
    <2>2. us \in Seq(UnitSet) /\ q \in Nat /\ Track(us, e, data, encoding, q, all)
      BY <1>1, <1>2
    <2>3. Size(us) \in Nat /\ e[Len(us)] = e[0] + Size(us)
      BY <2>1, <2>2, TrackSizes
    <2> QED BY <1>2, <2>3
  <1>5. \A n \in 1..Len(us) : e[n] <= q
    BY <1>1, <1>2, TrackEnds
  <1>6. p + Size(us) <= q
    <2>1. CASE Len(us) = 0
      BY <1>1, <1>2, <1>4, <2>1
    <2>2. CASE Len(us) # 0
      <3>1. Len(us) \in 1..Len(us)
        BY <1>1, <2>2
      <3> QED BY <1>4, <1>5, <3>1
    <2> QED BY <2>1, <2>2
  <1>7. p + Size(us) \in p..q
    BY <1>1, <1>4, <1>6
  <1> QED BY <1>1, <1>2, <1>4, <1>7

\* Where one decoding ends the next may begin.
LEMMA DecodesJoin ==
    ASSUME NEW data \in Seq(Bytes), NEW encoding, NEW q \in 0..Len(data),
           NEW r \in q..Len(data), NEW all \in BOOLEAN, all => r = Len(data), NEW us, NEW vs,
           Decodes(us, data, encoding, 0, q, FALSE),
           Decodes(vs, data, encoding, Size(us), r, all)
    PROVE  Decodes(us \o vs, data, encoding, 0, r, all)
  <1>1. Len(data) \in Nat /\ q \in Nat /\ r \in Nat /\ q <= r /\ r <= Len(data)
        /\ 0 \in 0..Len(data) /\ q \in 0..Len(data) /\ r \in 0..Len(data)
    OBVIOUS
  <1>2. /\ us \in Seq(UnitSet) /\ Len(us) \in Nat /\ Size(us) \in Nat /\ Size(us) <= q
        /\ \E e : /\ Track(us, e, data, encoding, q, FALSE) /\ e[0] = 0 /\ e[Len(us)] = Size(us)
    <2>1. /\ us \in Seq(UnitSet) /\ Len(us) \in Nat /\ Size(us) \in Nat /\ 0 + Size(us) \in 0..q
          /\ \E e : /\ Track(us, e, data, encoding, q, FALSE) /\ e[0] = 0
                    /\ e[Len(us)] = 0 + Size(us)
                    /\ Halts(data, encoding, 0 + Size(us), q, FALSE)
      BY <1>1, DecodesSize
    <2>2. 0 + Size(us) = Size(us) /\ Size(us) <= q
      BY <1>1, <2>1
    <2> QED BY <2>1, <2>2
  <1>3. PICK e : Track(us, e, data, encoding, q, FALSE) /\ e[0] = 0 /\ e[Len(us)] = Size(us)
    BY <1>2
  <1>4. vs \in Seq(UnitSet) /\ Len(vs) \in Nat
    BY DEF Decodes
  <1>5. PICK f : /\ Track(vs, f, data, encoding, r, all) /\ f[0] = Size(us)
                 /\ Halts(data, encoding, f[Len(vs)], r, all)
    BY DEF Decodes
  <1> DEFINE l  == Len(us)
             m  == Len(vs)
             ws == us \o vs
             g  == [n \in 0..(l + m) |-> IF n <= l THEN e[n] ELSE f[n - l]]
  <1>6. /\ ws \in Seq(UnitSet) /\ Len(ws) = l + m
        /\ \A n \in 1..l : ws[n] = us[n]
        /\ \A n \in 1..m : ws[l + n] = vs[n]
    BY <1>2, <1>4
  <1>7. /\ \A n \in 0..l : e[n] \in 0..Len(data)
        /\ \A n \in 0..m : f[n] \in 0..Len(data)
    BY <1>3, <1>5 DEF Track
  <1>8. \A n \in 0..l : n \in 0..(l + m) /\ g[n] = e[n]
    BY <1>2, <1>4
  <1>9. \A n \in 0..m : l + n \in 0..(l + m) /\ g[l + n] = f[n]
    <2> SUFFICES ASSUME NEW n \in 0..m PROVE l + n \in 0..(l + m) /\ g[l + n] = f[n]
      OBVIOUS
    <2>1. l + n \in 0..(l + m) /\ (l + n) - l = n /\ l \in Nat /\ n \in Nat
      BY <1>2, <1>4
    <2>2. CASE n = 0
      BY <1>3, <1>5, <2>1, <2>2
    <2>3. CASE n # 0
      <3>1. ~(l + n <= l)
        BY <2>1, <2>3
      <3> QED BY <2>1, <3>1
    <2> QED BY <2>1, <2>2, <2>3
  <1>10. g \in [0..(l + m) -> 0..Len(data)]
    <2>1. ASSUME NEW n \in 0..(l + m) PROVE g[n] \in 0..Len(data)
      <3>1. CASE n <= l
        <4>1. n \in 0..l
          BY <1>2, <3>1
        <4> QED BY <1>7, <1>8, <4>1
      <3>2. CASE ~(n <= l)
        <4>1. PICK k \in 0..m : l + k = n
          <5>1. n - l \in 0..m /\ l + (n - l) = n
            BY <1>2, <1>4, <3>2
          <5> QED BY <5>1
        <4> QED BY <1>7, <1>9, <4>1
      <3> QED BY <3>1, <3>2
    <2> QED BY <2>1
  <1> HIDE DEF g, ws
  <1>11. ASSUME NEW n \in 1..(l + m)
         PROVE  /\ g[n - 1] < r
                /\ ws[n] = Unit(data, g[n - 1] + 1, encoding)
                /\ g[n] = g[n - 1] + ws[n].size
                /\ all \/ g[n - 1] + Expected(data[g[n - 1] + 1], encoding) <= r
    <2>1. CASE n <= l
      <3>1. PICK k \in 0..l : k = n - 1 /\ n \in 1..l /\ n \in 0..l
        BY <1>2, <1>4, <2>1
      <3>2. /\ e[n - 1] < q
            /\ us[n] = Unit(data, e[n - 1] + 1, encoding)
            /\ e[n] = e[n - 1] + us[n].size
            /\ e[n - 1] + Expected(data[e[n - 1] + 1], encoding) <= q
        BY <1>3, <3>1 DEF Track
      <3>3. g[n - 1] = e[n - 1] /\ g[n] = e[n] /\ ws[n] = us[n]
        BY <1>6, <1>8, <3>1
      <3>4. e[n - 1] \in Nat
        BY <1>7, <3>1
      <3>5. PICK w \in 1..3 : w = Expected(data[e[n - 1] + 1], encoding)
        BY ExpectedType
      <3>6. e[n - 1] < r /\ e[n - 1] + w <= r
        BY <1>1, <3>2, <3>4, <3>5
      <3> QED BY <3>2, <3>3, <3>5, <3>6
    <2>2. CASE ~(n <= l)
      <3>1. PICK k \in 1..m : n = l + k
        <4>1. n - l \in 1..m /\ l + (n - l) = n
          BY <1>2, <1>4, <2>2
        <4> QED BY <4>1
      <3>2. PICK j \in 0..m : j = k - 1 /\ n - 1 = l + j
        BY <1>2, <1>4, <3>1
      <3>3. k \in 0..m
        BY <1>4
      <3>4. g[n - 1] = f[k - 1] /\ g[n] = f[k] /\ ws[n] = vs[k]
        BY <1>6, <1>9, <3>1, <3>2, <3>3
      <3>5. /\ f[k - 1] < r
            /\ vs[k] = Unit(data, f[k - 1] + 1, encoding)
            /\ f[k] = f[k - 1] + vs[k].size
            /\ all \/ f[k - 1] + Expected(data[f[k - 1] + 1], encoding) <= r
        BY <1>5 DEF Track
      <3> QED BY <3>4, <3>5
    <2> QED BY <2>1, <2>2
  <1>12. Track(ws, g, data, encoding, r, all)
    BY <1>6, <1>10, <1>11 DEF Track
  <1>13. g[0] = 0 /\ g[Len(ws)] = f[Len(vs)]
    <2>1. 0 \in 0..l /\ m \in 0..m
      BY <1>2, <1>4
    <2> QED BY <1>3, <1>6, <1>8, <1>9, <2>1
  <1>14. Decodes(ws, data, encoding, 0, r, all)
    BY <1>5, <1>6, <1>12, <1>13 DEF Decodes
  <1> QED BY <1>14 DEF ws

LEMMA Multiples ==
    ASSUME NEW n \in Nat, NEW k \in Nat PROVE (k + 1) * n = k * n + n /\ k * n \in Nat
  OBVIOUS

\* A file that is read in chunks of any length, the start of a unit kept for the
\* next one, has the units of the whole text, at the end of the file and at that
\* of a page (forEachFileUnit and readStdoutRange, src/src/paging.ts:350, 180).
THEOREM ChunksAreSeamless ==
    ASSUME NEW data \in Seq(Bytes), NEW encoding, NEW all \in BOOLEAN
    PROVE  InChunks(data, encoding, all) = Units(data, encoding, all)
  <1> DEFINE steps == (Len(data) + IoChunkBytes - 1) \div IoChunkBytes
             c == [k \in Nat |-> Least(k * IoChunkBytes, Len(data))]
             Eq(u) == u = [k \in 0..steps |-> IF k = 0 THEN <<>>
                             ELSE u[k - 1] \o
                                  Units(Part(data, Size(u[k - 1]), Least(k * IoChunkBytes, Len(data))),
                                        encoding, FALSE)]
             after == CHOOSE u : Eq(u)
             g == [k \in 0..steps |-> Units(Part(data, 0, c[k]), encoding, FALSE)]
             Good(k) == Decodes(after[k], data, encoding, 0, c[k], FALSE)
             T == {k \in Nat : k <= steps => Good(k)}
  <1>1. InChunks(data, encoding, all)
          = after[steps] \o Units(Part(data, Size(after[steps]), Len(data)), encoding, all)
    BY DEF InChunks
  <1>2. IoChunkBytes \in Nat \ {0} /\ Len(data) \in Nat
    BY PageIndexAssumption
  <1>3. steps \in Nat
    BY <1>2
  <1> HIDE DEF steps
  <1>4. ASSUME NEW k \in Nat
        PROVE  /\ c[k] \in 0..Len(data) /\ c[k + 1] \in c[k]..Len(data) /\ c[0] = 0
               /\ c[k] \in Nat
    <2>1. (k + 1) * IoChunkBytes = k * IoChunkBytes + IoChunkBytes /\ k * IoChunkBytes \in Nat
      BY <1>2, Multiples
    <2>2. 0 * IoChunkBytes = 0
      BY <1>2
    <2>3. /\ c[k] = Least(k * IoChunkBytes, Len(data)) /\ c[0] = Least(0 * IoChunkBytes, Len(data))
          /\ c[k + 1] = Least((k + 1) * IoChunkBytes, Len(data))
      OBVIOUS
    <2> HIDE DEF c
    <2> QED BY <1>2, <2>1, <2>2, <2>3 DEF Least
  <1>50. \A k \in 0..steps : k \in Nat /\ c[k] = Least(k * IoChunkBytes, Len(data))
    BY <1>3
  <1> HIDE DEF c
  <1>5. \A k \in Nat : k # 0 => k - 1 \in Nat /\ (k - 1) + 1 = k
    OBVIOUS
  <1>6. Decodes(<<>>, data, encoding, 0, c[0], FALSE)
    <2>1. c[0] = 0 /\ 0 \in 0..Len(data)
      BY <1>2, <1>4
    <2>2. Halts(data, encoding, 0, 0, FALSE)
      BY DEF Halts
    <2> QED BY <2>1, <2>2, DecodesEnd
  <1>7. ASSUME NEW k \in Nat, NEW us, Decodes(us, data, encoding, 0, c[k], FALSE)
        PROVE  Decodes(us \o Units(Part(data, Size(us), c[k + 1]), encoding, FALSE),
                       data, encoding, 0, c[k + 1], FALSE)
    <2>1. PICK q \in 0..Len(data) : q = c[k]
      BY <1>4
    <2>2. PICK r \in q..Len(data) : r = c[k + 1]
      BY <1>4, <2>1
    <2>3. PICK x \in 0..q : x = Size(us)
      <3>1. 0 \in 0..Len(data) /\ q \in 0..Len(data)
        BY <1>2
      <3>2. Size(us) \in Nat /\ 0 + Size(us) \in 0..q
        BY <1>7, <2>1, <3>1, DecodesSize
      <3>3. Size(us) \in 0..q
        BY <3>2
      <3> QED BY <3>3
    <2>4. x \in 0..Len(data) /\ r \in x..Len(data)
      BY <1>2
    <2>5. PICK vs : vs = Units(Part(data, x, r), encoding, FALSE)
      OBVIOUS
    <2>6. Decodes(vs, data, encoding, x, r, FALSE)
      BY <2>4, <2>5, PartUnits
    <2>7. Decodes(us \o vs, data, encoding, 0, r, FALSE)
      <3>1. Decodes(us, data, encoding, 0, q, FALSE) /\ Decodes(vs, data, encoding, Size(us), r, FALSE)
        BY <1>7, <2>1, <2>3, <2>6
      <3> QED BY <3>1, DecodesJoin
    <2> QED BY <2>2, <2>3, <2>5, <2>7
  <1>8. \A k \in 0..steps : g[k] = Units(Part(data, 0, c[k]), encoding, FALSE)
    OBVIOUS
  <1>9. g = [k \in 0..steps |-> g[k]]
    OBVIOUS
  <1> HIDE DEF g, after
  <1>10. ASSUME NEW k \in Nat
         PROVE  /\ Decodes(Units(Part(data, 0, c[k]), encoding, FALSE), data, encoding, 0, c[k], FALSE)
                /\ \A us : Decodes(us, data, encoding, 0, c[k], FALSE) =>
                              us = Units(Part(data, 0, c[k]), encoding, FALSE)
    <2>1. PICK q \in 0..Len(data) : q = c[k]
      BY <1>4
    <2>2. 0 \in 0..Len(data) /\ q \in 0..Len(data)
      BY <1>2
    <2>3. Decodes(Units(Part(data, 0, q), encoding, FALSE), data, encoding, 0, q, FALSE)
      BY <2>2, PartUnits
    <2>4. ASSUME NEW us, Decodes(us, data, encoding, 0, q, FALSE)
          PROVE  us = Units(Part(data, 0, q), encoding, FALSE)
      BY <2>2, <2>4, PartUnitsOnly
    <2> QED BY <2>1, <2>3, <2>4
  <1>11. \A k \in 0..steps : g[k] = IF k = 0 THEN <<>>
           ELSE g[k - 1] \o Units(Part(data, Size(g[k - 1]), Least(k * IoChunkBytes, Len(data))),
                                  encoding, FALSE)
    <2> SUFFICES ASSUME NEW k \in 0..steps
                 PROVE  g[k] = IF k = 0 THEN <<>>
                          ELSE g[k - 1] \o Units(Part(data, Size(g[k - 1]), c[k]), encoding, FALSE)
      BY <1>50
    <2>1. CASE k = 0
      <3>1. Decodes(<<>>, data, encoding, 0, c[k], FALSE) /\ k \in Nat
        BY <1>6, <2>1
      <3>2. <<>> = Units(Part(data, 0, c[k]), encoding, FALSE)
        BY <1>10, <3>1
      <3> QED BY <1>8, <2>1, <3>2
    <2>2. CASE k # 0
      <3>1. PICK j \in Nat : j = k - 1 /\ j + 1 = k /\ j \in 0..steps /\ k \in Nat
        BY <1>3, <1>5, <2>2
      <3>2. PICK us : us = g[j]
        OBVIOUS
      <3>3. Decodes(us, data, encoding, 0, c[j], FALSE)
        BY <1>8, <1>10, <3>1, <3>2
      <3>4. Decodes(us \o Units(Part(data, Size(us), c[k]), encoding, FALSE),
                    data, encoding, 0, c[k], FALSE)
        BY <1>7, <3>1, <3>3
      <3>5. us \o Units(Part(data, Size(us), c[k]), encoding, FALSE)
              = Units(Part(data, 0, c[k]), encoding, FALSE)
        BY <1>10, <3>1, <3>4
      <3> QED BY <1>8, <2>2, <3>1, <3>2, <3>5
    <2> QED BY <2>1, <2>2
  <1>12. Eq(g)
    BY <1>9, <1>11, Zenon
  <1>13. Eq(after)
    BY <1>12 DEF after
  <1>14. \A k \in 0..steps : after[k] = IF k = 0 THEN <<>>
           ELSE after[k - 1] \o Units(Part(data, Size(after[k - 1]), c[k]), encoding, FALSE)
    <2>1. \A k \in 0..steps : after[k] = IF k = 0 THEN <<>>
           ELSE after[k - 1] \o Units(Part(data, Size(after[k - 1]),
                                           Least(k * IoChunkBytes, Len(data))), encoding, FALSE)
      BY <1>13, Zenon
    <2> QED BY <1>50, <2>1
  <1>15. 0 \in T
    <2>1. after[0] = <<>>
      <3>1. 0 \in 0..steps
        BY <1>3
      <3> QED BY <1>14, <3>1, Zenon
    <2>2. Good(0)
      BY <1>6, <2>1
    <2> HIDE DEF Good
    <2> QED BY <2>2
  <1>16. ASSUME NEW k \in T PROVE k + 1 \in T
    <2> HIDE DEF Good
    <2> SUFFICES ASSUME k + 1 <= steps PROVE Good(k + 1)
      BY <1>3
    <2>1. k \in Nat /\ Good(k)
      BY <1>3
    <2> HIDE DEF T
    <2>2. PICK n \in 0..steps : n = k + 1 /\ n # 0 /\ n - 1 = k
      BY <1>3, <2>1
    <2>3. after[n] = after[k] \o Units(Part(data, Size(after[k]), c[n]), encoding, FALSE)
      <3>1. after[n] = after[n - 1] \o Units(Part(data, Size(after[n - 1]), c[n]), encoding, FALSE)
        BY <1>14, <2>2, Zenon
      <3> QED BY <2>2, <3>1
    <2>4. PICK us : us = after[k]
      OBVIOUS
    <2>5. Decodes(us \o Units(Part(data, Size(us), c[k + 1]), encoding, FALSE),
                  data, encoding, 0, c[k + 1], FALSE)
      BY <1>7, <2>1, <2>4 DEF Good
    <2> QED BY <2>2, <2>3, <2>4, <2>5 DEF Good
  <1>17. T = Nat
    <2> HIDE DEF T
    <2>1. T \in SUBSET Nat
      BY DEF T
    <2> QED BY <1>15, <1>16, <2>1, SetInduction
  <1>18. Decodes(after[steps], data, encoding, 0, c[steps], FALSE)
    <2>1. steps \in T
      <3> HIDE DEF T
      <3> QED BY <1>3, <1>17
    <2> HIDE DEF Good
    <2>2. Good(steps)
      BY <1>3, <2>1
    <2> QED BY <2>2 DEF Good
  <1> HIDE DEF T
  <1>19. PICK us : us = after[steps]
    OBVIOUS
  <1>20. PICK q \in 0..Len(data) : q = c[steps]
    BY <1>3, <1>4
  <1>21. PICK x \in 0..q : x = Size(us)
    <2>1. 0 \in 0..Len(data) /\ q \in 0..Len(data)
      BY <1>2
    <2>2. Size(us) \in Nat /\ 0 + Size(us) \in 0..q
      BY <1>18, <1>19, <1>20, <2>1, DecodesSize
    <2>3. Size(us) \in 0..q
      BY <2>2
    <2> QED BY <2>3
  <1>22. /\ x \in 0..Len(data) /\ Len(data) \in x..Len(data) /\ Len(data) \in q..Len(data)
         /\ 0 \in 0..Len(data) /\ Len(data) \in 0..Len(data)
    BY <1>2
  <1>23. PICK vs : vs = Units(Part(data, x, Len(data)), encoding, all)
    OBVIOUS
  <1>24. Decodes(vs, data, encoding, x, Len(data), all)
    BY <1>22, <1>23, PartUnits
  <1>25. Decodes(us \o vs, data, encoding, 0, Len(data), all)
    <2>1. Decodes(us, data, encoding, 0, q, FALSE) /\ Decodes(vs, data, encoding, Size(us), Len(data), all)
      BY <1>18, <1>19, <1>20, <1>21, <1>24
    <2> QED BY <1>22, <2>1, DecodesJoin
  <1>26. us \o vs = Units(data, encoding, all)
    <2>1. PICK ws : ws = us \o vs
      OBVIOUS
    <2>2. PICK xs : xs = Units(data, encoding, all)
      OBVIOUS
    <2>3. Decodes(ws, data, encoding, 0, Len(data), all) /\ Decodes(xs, data, encoding, 0, Len(data), all)
      BY <1>25, <2>1, <2>2, UnitsDecode
    <2>4. ws = xs
      BY <1>22, <2>3, DecodesOnce
    <2> QED BY <2>1, <2>2, <2>4
  <1> QED BY <1>1, <1>19, <1>21, <1>23, <1>26

-------------------------------------------------------------------------------
(* The index.                                                              *)
Record == [char : Nat, byte : Nat]

\* Its records are in order, each at the end of as many units as it has
\* characters, from none to all of them.
Records(index, e, total) ==
    /\ index \in Seq(Record) /\ Len(index) \in Nat \ {0}
    /\ \A i \in 1..Len(index) : index[i].char \in 0..total /\ index[i].byte = e[index[i].char]
    /\ \A i, j \in 1..Len(index) : j = i + 1 => index[i].char < index[j].char
    /\ index[1].char = 0 /\ index[Len(index)].char = total

LEMMA Quotient ==
    ASSUME NEW a \in Nat, NEW b \in Nat \ {0}
    PROVE  /\ a \div b \in Nat /\ a % b \in Nat /\ (a \div b) * b \in Nat
           /\ a = (a \div b) * b + (a % b) /\ a % b < b
  OBVIOUS

LEMMA Product ==
    ASSUME NEW a \in Nat, NEW b \in Nat, a <= b, NEW c \in Nat
    PROVE  a * c <= b * c /\ a * c \in Nat /\ b * c \in Nat
  <1>1. PICK d \in Nat : d = b - a /\ a + d = b
    OBVIOUS
  <1>2. (a + d) * c = a * c + d * c /\ d * c \in Nat /\ a * c \in Nat
    BY <1>1
  <1> QED BY <1>1, <1>2

Joined(a, b, c) ==
    /\ c \in Seq(Record) /\ Len(c) = Len(a) + Len(b)
    /\ \A k \in 1..Len(a) : c[k] = a[k]
    /\ \A k \in 1..Len(b) : c[Len(a) + k] = b[k]

LEMMA RecordsJoin ==
    ASSUME NEW a \in Seq(Record), NEW b \in Seq(Record)
    PROVE  Joined(a, b, a \o b)
  <1> DEFINE c == a \o b
  <1>1. c \in Seq(Record)
    OBVIOUS
  <1>2. Len(c) = Len(a) + Len(b)
    OBVIOUS
  <1>3. \A k \in 1..Len(a) : c[k] = a[k]
    OBVIOUS
  <1>4. \A k \in 1..Len(b) : c[Len(a) + k] = b[k]
    OBVIOUS
  <1> HIDE DEF c
  <1>5. Joined(a, b, c)
    BY <1>1, <1>2, <1>3, <1>4 DEF Joined
  <1> QED BY <1>5 DEF c

LEMMA IndexIs ==
    ASSUME NEW data \in Seq(Bytes), NEW encoding, NEW us \in Seq(UnitSet), NEW e,
           Track(us, e, data, encoding, Len(data), TRUE), e[Len(us)] = Len(data)
    PROVE  /\ Records(Index(us, e[0], Len(data)), e, Len(us))
           /\ Index(us, e[0], Len(data))[1] = [char |-> 0, byte |-> e[0]]
           /\ Last(Index(us, e[0], Len(data))) = [char |-> Len(us), byte |-> Len(data)]
  <1> DEFINE total == Len(us)
             start == e[0]
             Byte(n) == start + Size(SubSeq(us, 1, n))
             K == total \div IndexStride
             first == <<[char |-> 0, byte |-> start]>>
             strides == [k \in 1..K |-> [char |-> k * IndexStride, byte |-> Byte(k * IndexStride)]]
             sentinel == IF total % IndexStride = 0 THEN <<>> ELSE <<[char |-> total, byte |-> Len(data)]>>
             index == first \o strides \o sentinel
  <1>1. Index(us, e[0], Len(data)) = index
    BY DEF Index
  <1>2. IndexStride \in Nat \ {0} /\ total \in Nat /\ Len(data) \in Nat
    BY PageIndexAssumption
  <1>3. \A n \in 0..total : e[n] \in Nat /\ e[n] \in 0..Len(data)
    <2>1. e \in [0..Len(us) -> 0..Len(data)]
      BY DEF Track
    <2> QED BY <1>2, <2>1
  <1>4. \A n \in 0..total : Byte(n) = e[n]
    <2> SUFFICES ASSUME NEW n \in 0..total PROVE Byte(n) = e[n]
      OBVIOUS
    <2>1. e[n] = e[0] + Size(SubSeq(us, 1, n))
      <3>1. PICK q \in Nat, all \in BOOLEAN : q = Len(data) /\ all = TRUE
        BY <1>2
      <3>2. Track(us, e, data, encoding, q, all)
        BY <3>1
      <3>3. n \in 0..Len(us)
        OBVIOUS
      <3> QED BY <3>2, <3>3, TrackSizes
    <2> QED BY <2>1
  <1>5. /\ K \in Nat /\ total % IndexStride \in Nat /\ K * IndexStride \in Nat
        /\ total = K * IndexStride + (total % IndexStride)
        /\ total % IndexStride < IndexStride
    BY <1>2, Quotient
  <1>11. PICK rem : rem = total % IndexStride
    OBVIOUS
  <1>12. /\ rem \in Nat /\ K * IndexStride \in Nat /\ total = K * IndexStride + rem
         /\ K \in Nat
    BY <1>5, <1>11
  <1>6. \A k \in 1..K : k * IndexStride \in 0..total
    <2> SUFFICES ASSUME NEW k \in 1..K PROVE k * IndexStride \in 0..total
      OBVIOUS
    <2>1. k * IndexStride <= K * IndexStride /\ k * IndexStride \in Nat
      BY <1>2, <1>5, Product
    <2> QED BY <1>2, <1>5, <2>1
  <1>7. /\ strides \in Seq(Record) /\ Len(strides) = K
        /\ \A k \in 1..K : strides[k].char = k * IndexStride /\ strides[k].byte = e[k * IndexStride]
    <2>1. \A k \in 1..K : strides[k] = [char |-> k * IndexStride, byte |-> e[k * IndexStride]]
      BY <1>4, <1>6
    <2>2. strides = [k \in 1..K |-> strides[k]]
      OBVIOUS
    <2> HIDE DEF strides, K
    <2>3. \A k \in 1..K : strides[k] \in Record
      <3> SUFFICES ASSUME NEW k \in 1..K PROVE strides[k] \in Record
        OBVIOUS
      <3>1. PICK c \in Nat, b \in Nat : c = k * IndexStride /\ b = e[c]
        BY <1>3, <1>6
      <3>2. strides[k] = [char |-> c, byte |-> b]
        BY <2>1, <3>1
      <3> QED BY <3>2 DEF Record
    <2>4. strides \in [1..K -> Record]
      BY <2>2, <2>3
    <2>5. strides \in Seq(Record) /\ Len(strides) = K
      BY <1>5, <2>4
    <2> QED BY <2>1, <2>5
  <1>8. first \in Seq(Record) /\ Len(first) = 1 /\ first[1].char = 0 /\ first[1].byte = e[0]
        /\ first[1] = [char |-> 0, byte |-> e[0]]
    <2>1. PICK r : r = [char |-> 0, byte |-> e[0]]
      OBVIOUS
    <2>2. r \in Record /\ r.char = 0 /\ r.byte = e[0]
      <3>1. e[0] \in Nat
        BY <1>2, <1>3
      <3> QED BY <2>1, <3>1 DEF Record
    <2>3. first = <<r>>
      BY <2>1
    <2>4. first \in Seq(Record)
      <3>1. \A S, y : y \in S => <<y>> \in Seq(S)
        OBVIOUS
      <3> QED BY <2>2, <2>3, <3>1, Zenon
    <2> QED BY <2>1, <2>2, <2>3, <2>4
  <1>9. CASE total % IndexStride = 0
    <2>1. index = first \o strides
      <3>1. sentinel = <<>>
        BY <1>9
      <3> HIDE DEF first, strides, sentinel, K
      <3>2. PICK a \in Seq(Record), b \in Seq(Record) : a = first /\ b = strides
        BY <1>7, <1>8
      <3>3. (a \o b) \o <<>> = a \o b
        OBVIOUS
      <3> QED BY <3>1, <3>2, <3>3
    <2> HIDE DEF first, strides, sentinel, index, K
    <2>2. /\ index \in Seq(Record) /\ Len(index) = K + 1 /\ index[1] = first[1]
          /\ \A k \in 1..K : index[k + 1] = strides[k]
      <3>1. first \in Seq(Record) /\ strides \in Seq(Record) /\ Len(first) = 1 /\ Len(strides) = K
        BY <1>7, <1>8
      <3>2. /\ index \in Seq(Record) /\ Len(index) = 1 + K /\ \A k \in 1..1 : index[k] = first[k]
            /\ \A k \in 1..K : index[1 + k] = strides[k]
        <4>1. /\ index \in Seq(Record) /\ Len(index) = Len(first) + Len(strides)
              /\ \A k \in 1..Len(first) : index[k] = first[k]
              /\ \A k \in 1..Len(strides) : index[Len(first) + k] = strides[k]
          <5>1. Joined(first, strides, index)
            BY <2>1, <3>1, RecordsJoin
          <5> QED BY <5>1 DEF Joined
        <4> QED BY <3>1, <4>1
      <3>3. 1 + K = K + 1 /\ \A k \in 1..K : 1 + k = k + 1
        BY <1>5
      <3> QED BY <3>2, <3>3
    <2>3. \A i \in 1..Len(index) : index[i].char = (i - 1) * IndexStride /\ (i - 1) * IndexStride \in 0..total
                                   /\ index[i].byte = e[(i - 1) * IndexStride]
      <3> SUFFICES ASSUME NEW i \in 1..Len(index)
                   PROVE  /\ index[i].char = (i - 1) * IndexStride /\ (i - 1) * IndexStride \in 0..total
                          /\ index[i].byte = e[(i - 1) * IndexStride]
        OBVIOUS
      <3>1. CASE i = 1
        <4>1. (i - 1) * IndexStride = 0
          BY <1>2, <3>1
        <4> QED BY <1>2, <1>8, <2>2, <3>1, <4>1
      <3>2. CASE i # 1
        <4>1. PICK k \in 1..K : k = i - 1 /\ i = k + 1
          BY <1>5, <2>2, <3>2
        <4> QED BY <1>6, <1>7, <2>2, <4>1
      <3> QED BY <3>1, <3>2
    <2>4. ASSUME NEW i \in 1..Len(index), NEW j \in 1..Len(index), j = i + 1
          PROVE  index[i].char < index[j].char
      <3>1. PICK h \in Nat : h = i - 1 /\ h + 1 = j - 1
        BY <1>5, <2>2, <2>4
      <3>2. (h + 1) * IndexStride = h * IndexStride + IndexStride /\ h * IndexStride \in Nat
        BY <1>2, <3>1, Multiples
      <3>3. h * IndexStride < (h + 1) * IndexStride
        BY <1>2, <3>2
      <3> QED BY <2>3, <3>1, <3>3
    <2>5. index[Len(index)].char = total /\ index[Len(index)].byte = e[total]
      <3>1. Len(index) \in 1..Len(index) /\ Len(index) - 1 = K /\ K * IndexStride = total
        <4>1. Len(index) \in 1..Len(index) /\ Len(index) - 1 = K
          BY <1>5, <2>2
        <4>2. PICK x \in Nat : x = K * IndexStride
          BY <1>5
        <4>3. total = x + 0
          BY <1>9, <1>11, <1>12, <4>2
        <4> QED BY <4>1, <4>2, <4>3
      <3> QED BY <2>3, <3>1
    <2>6. Len(index) \in Nat \ {0} /\ 1 \in 1..Len(index)
      BY <1>5, <2>2
    <2>7. index[1].char = 0
      BY <1>8, <2>2
    <2>8. Records(index, e, total)
      BY <2>2, <2>3, <2>4, <2>5, <2>6, <2>7 DEF Records
    <2>9. index[Len(index)] = [char |-> total, byte |-> Len(data)]
      <3>1. PICK r \in Record : r = index[Len(index)]
        BY <2>2, <2>6
      <3>2. r.char = total /\ r.byte = Len(data)
        BY <2>5, <3>1
      <3>3. r = [char |-> total, byte |-> Len(data)]
        BY <3>2 DEF Record
      <3> QED BY <3>1, <3>3
    <2> QED BY <1>1, <1>8, <2>2, <2>8, <2>9 DEF Last
  <1>10. CASE total % IndexStride # 0
    <2>1. /\ sentinel \in Seq(Record) /\ Len(sentinel) = 1
          /\ sentinel[1] = [char |-> total, byte |-> Len(data)]
          /\ sentinel[1].char = total /\ sentinel[1].byte = Len(data)
      <3>1. PICK r : r = [char |-> total, byte |-> Len(data)]
        OBVIOUS
      <3>2. r \in Record /\ r.char = total /\ r.byte = Len(data)
        BY <1>2, <3>1 DEF Record
      <3>3. sentinel = <<r>>
        BY <1>10, <3>1
      <3>4. sentinel \in Seq(Record)
        <4>1. \A S, y : y \in S => <<y>> \in Seq(S)
          OBVIOUS
        <4> HIDE DEF sentinel
        <4> QED BY <3>2, <3>3, <4>1, Zenon
      <3> HIDE DEF sentinel
      <3> QED BY <3>1, <3>2, <3>3, <3>4
    <2> HIDE DEF first, strides, sentinel, K
    <2>2. /\ index \in Seq(Record) /\ Len(index) = K + 2 /\ index[1] = first[1]
          /\ \A k \in 1..K : index[k + 1] = strides[k]
          /\ index[K + 2] = sentinel[1]
      <3>1. first \in Seq(Record) /\ strides \in Seq(Record) /\ Len(first) = 1 /\ Len(strides) = K
        BY <1>7, <1>8
      <3>2. PICK f : f = first \o strides
        OBVIOUS
      <3>3. /\ f \in Seq(Record) /\ Len(f) = 1 + K /\ \A k \in 1..1 : f[k] = first[k]
            /\ \A k \in 1..K : f[1 + k] = strides[k]
        <4>1. /\ f \in Seq(Record) /\ Len(f) = Len(first) + Len(strides)
              /\ \A k \in 1..Len(first) : f[k] = first[k]
              /\ \A k \in 1..Len(strides) : f[Len(first) + k] = strides[k]
          <5>1. Joined(first, strides, f)
            BY <3>1, <3>2, RecordsJoin
          <5> QED BY <5>1 DEF Joined
        <4> QED BY <3>1, <4>1
      <3>4. index = f \o sentinel
        BY <3>2 DEF index
      <3>5. /\ index \in Seq(Record) /\ Len(index) = (1 + K) + 1
            /\ \A k \in 1..(1 + K) : index[k] = f[k]
            /\ \A k \in 1..1 : index[(1 + K) + k] = sentinel[k]
        <4>1. /\ index \in Seq(Record) /\ Len(index) = Len(f) + Len(sentinel)
              /\ \A k \in 1..Len(f) : index[k] = f[k]
              /\ \A k \in 1..Len(sentinel) : index[Len(f) + k] = sentinel[k]
          <5>1. Joined(f, sentinel, index)
            BY <2>1, <3>3, <3>4, RecordsJoin
          <5> QED BY <5>1 DEF Joined
        <4> QED BY <2>1, <3>3, <4>1
      <3>6. (1 + K) + 1 = K + 2 /\ \A k \in 1..K : 1 + k = k + 1 /\ 1 + k \in 1..(1 + K)
        BY <1>5
      <3>7. 1 \in 1..(1 + K)
        BY <1>5
      <3>8. index[1] = first[1] /\ \A k \in 1..K : index[k + 1] = strides[k]
        <4>1. 1 \in 1..1
          OBVIOUS
        <4>2. index[1] = first[1]
          <5>1. f[1] = first[1]
            BY <3>3, <4>1
          <5>2. index[1] = f[1]
            BY <3>5, <3>7
          <5> QED BY <5>1, <5>2
        <4>3. ASSUME NEW k \in 1..K PROVE index[k + 1] = strides[k]
          <5>1. 1 + k = k + 1 /\ 1 + k \in 1..(1 + K) /\ f[1 + k] = strides[k]
            BY <3>3, <3>6
          <5>2. index[1 + k] = f[1 + k]
            BY <3>5, <5>1
          <5> QED BY <5>1, <5>2
        <4> QED BY <4>2, <4>3
      <3>9. index[K + 2] = sentinel[1]
        <4>1. 1 \in 1..1
          OBVIOUS
        <4>2. index[(1 + K) + 1] = sentinel[1]
          BY <3>5, <4>1
        <4> QED BY <3>6, <4>2
      <3> QED BY <3>5, <3>6, <3>8, <3>9
    <2> HIDE DEF index
    <2>3. \A i \in 1..(K + 1) : index[i].char = (i - 1) * IndexStride /\ (i - 1) * IndexStride \in 0..total
                                /\ index[i].byte = e[(i - 1) * IndexStride]
      <3> SUFFICES ASSUME NEW i \in 1..(K + 1)
                   PROVE  /\ index[i].char = (i - 1) * IndexStride /\ (i - 1) * IndexStride \in 0..total
                          /\ index[i].byte = e[(i - 1) * IndexStride]
        OBVIOUS
      <3>1. CASE i = 1
        <4>1. (i - 1) * IndexStride = 0
          BY <1>2, <3>1
        <4> QED BY <1>2, <1>8, <2>2, <3>1, <4>1
      <3>2. CASE i # 1
        <4>1. PICK k \in 1..K : k = i - 1 /\ i = k + 1
          BY <1>5, <2>2, <3>2
        <4> QED BY <1>6, <1>7, <2>2, <4>1
      <3> QED BY <3>1, <3>2
    <2>4. ASSUME NEW i \in 1..Len(index), NEW j \in 1..Len(index), j = i + 1
          PROVE  index[i].char < index[j].char
      <3>1. PICK h \in Nat : h = i - 1 /\ i \in 1..(K + 1) /\ h + 1 = j - 1 /\ h <= K
        BY <1>5, <2>2, <2>4
      <3>2. (h + 1) * IndexStride = h * IndexStride + IndexStride /\ h * IndexStride \in Nat
        BY <1>2, <3>1, Multiples
      <3>3. h * IndexStride < (h + 1) * IndexStride
        BY <1>2, <3>2
      <3>4. index[i].char = h * IndexStride
        BY <2>3, <3>1
      <3>5. CASE j \in 1..(K + 1)
        BY <2>3, <3>1, <3>3, <3>4, <3>5
      <3>6. CASE j \notin 1..(K + 1)
        <4>1. h = K /\ j = K + 2
          BY <1>5, <2>2, <3>1, <3>6
        <4>2. h * IndexStride < total
          <5>1. PICK x \in Nat : x = K * IndexStride
            BY <1>5
          <5>2. total = x + rem /\ rem # 0
            BY <1>10, <1>11, <1>12, <5>1
          <5>3. x < total
            BY <1>12, <5>1, <5>2
          <5> QED BY <4>1, <5>1, <5>3
        <4>3. index[j].char = total
          BY <2>1, <2>2, <4>1
        <4> QED BY <3>4, <4>2, <4>3
      <3> QED BY <3>5, <3>6
    <2>5. index[Len(index)].char = total /\ index[Len(index)].byte = e[total]
      BY <2>1, <2>2
    <2>6. Len(index) \in Nat \ {0} /\ 1 \in 1..Len(index) /\ total \in 0..total
      BY <1>2, <1>5, <2>2
    <2>7. index[1].char = 0
      BY <1>8, <2>2
    <2>8. ASSUME NEW i \in 1..Len(index)
          PROVE  index[i].char \in 0..total /\ index[i].byte = e[index[i].char]
      <3>1. CASE i \in 1..(K + 1)
        BY <2>3, <3>1
      <3>2. CASE i \notin 1..(K + 1)
        <4>1. i = Len(index)
          BY <1>5, <2>2, <3>2
        <4> QED BY <2>5, <2>6, <4>1
      <3> QED BY <3>1, <3>2
    <2>9. Records(index, e, total)
      BY <2>2, <2>4, <2>5, <2>6, <2>7, <2>8 DEF Records
    <2>10. index[Len(index)] = [char |-> total, byte |-> Len(data)]
      BY <2>1, <2>2
    <2> QED BY <1>1, <1>8, <2>2, <2>9, <2>10 DEF Last
  <1> QED BY <1>9, <1>10

LEMMA CheckpointIs ==
    ASSUME NEW index, NEW e, NEW total \in Nat, Records(index, e, total), NEW char \in 0..total
    PROVE  \E c \in 0..char : /\ FindCheckpoint(index, char).char = c
                              /\ FindCheckpoint(index, char).byte = e[c]
  <1> DEFINE Fits(i) == index[i].char <= char /\ (i < Len(index) => index[i + 1].char > char)
             T == {n \in Nat : n + 1 <= Len(index) => index[n + 1].char <= char}
  <1>1. /\ index \in Seq(Record) /\ Len(index) \in Nat \ {0} /\ DOMAIN index = 1..Len(index)
        /\ \A i \in 1..Len(index) : /\ index[i].char \in Nat /\ index[i].char <= total
                                    /\ index[i].byte = e[index[i].char]
        /\ index[1].char = 0 /\ index[Len(index)].char = total
        /\ char \in Nat
    BY DEF Records
  <1>2. \E i \in DOMAIN index : Fits(i)
    <2> SUFFICES ASSUME \A i \in DOMAIN index : ~Fits(i) PROVE FALSE
      OBVIOUS
    <2>1. 0 \in T
      BY <1>1
    <2>2. ASSUME NEW n \in T PROVE n + 1 \in T
      <3> SUFFICES ASSUME (n + 1) + 1 <= Len(index) PROVE index[(n + 1) + 1].char <= char
        OBVIOUS
      <3>1. n \in Nat /\ index[n + 1].char <= char /\ n + 1 \in 1..Len(index) /\ n + 1 < Len(index)
            /\ (n + 1) + 1 \in 1..Len(index)
        BY <1>1
      <3>2. PICK m \in 1..Len(index) : m = n + 1
        BY <3>1
      <3>3. ~Fits(m)
        BY <1>1
      <3>4. index[m].char <= char /\ m < Len(index)
        BY <3>1, <3>2
      <3>5. ~(index[m + 1].char > char)
        BY <3>3, <3>4
      <3>6. index[m + 1].char \in Nat
        BY <1>1, <3>1, <3>2
      <3> QED BY <1>1, <3>2, <3>5, <3>6
    <2>3. T = Nat
      <3> HIDE DEF T, Fits
      <3>1. T \in SUBSET Nat
        BY DEF T
      <3> QED BY <2>1, <2>2, <3>1, SetInduction
    <2>4. PICK n \in Nat : n + 1 = Len(index)
      <3>1. Len(index) - 1 \in Nat /\ (Len(index) - 1) + 1 = Len(index)
        BY <1>1
      <3> QED BY <3>1
    <2>5. index[Len(index)].char <= char
      <3>1. n \in T /\ n + 1 <= Len(index)
        <4> HIDE DEF T
        <4> QED BY <1>1, <2>3, <2>4
      <3>2. index[n + 1].char <= char
        BY <3>1
      <3> QED BY <2>4, <3>2
    <2>6. Fits(Len(index)) /\ Len(index) \in 1..Len(index)
      BY <1>1, <2>5
    <2> QED BY <1>1, <2>6
  <1>3. PICK i : i = CHOOSE k \in DOMAIN index : Fits(k)
    OBVIOUS
  <1>4. i \in 1..Len(index) /\ index[i].char <= char
    BY <1>1, <1>2, <1>3
  <1>5. FindCheckpoint(index, char) = index[i]
    BY <1>3 DEF FindCheckpoint
  <1>6. index[i].char \in 0..char
    BY <1>1, <1>4
  <1> QED BY <1>1, <1>4, <1>5, <1>6

LEMMA EndByteIs ==
    ASSUME NEW index, NEW e, NEW total \in Nat, Records(index, e, total), NEW char \in 0..total
    PROVE  \E k \in char..total : FindEndByte(index, char) = e[k]
  <1> DEFINE Fits(i) == index[i].char >= char /\ (i > 1 => index[i - 1].char < char)
             T == {n \in Nat : n < Len(index) => index[Len(index) - n].char >= char}
  <1>1. /\ index \in Seq(Record) /\ Len(index) \in Nat \ {0} /\ DOMAIN index = 1..Len(index)
        /\ \A i \in 1..Len(index) : /\ index[i].char \in Nat /\ index[i].char <= total
                                    /\ index[i].byte = e[index[i].char]
        /\ index[1].char = 0 /\ index[Len(index)].char = total
        /\ char \in Nat /\ char <= total
    BY DEF Records
  <1>2. \E i \in DOMAIN index : Fits(i)
    <2> SUFFICES ASSUME \A i \in DOMAIN index : ~Fits(i) PROVE FALSE
      OBVIOUS
    <2>1. 0 \in T
      <3>1. Len(index) - 0 = Len(index)
        BY <1>1
      <3> QED BY <1>1, <3>1
    <2>2. ASSUME NEW n \in T PROVE n + 1 \in T
      <3> SUFFICES ASSUME n + 1 < Len(index) PROVE index[Len(index) - (n + 1)].char >= char
        OBVIOUS
      <3>1. n \in Nat /\ index[Len(index) - n].char >= char
        BY <1>1
      <3>2. PICK m \in 1..Len(index) : m = Len(index) - n /\ m > 1 /\ m - 1 = Len(index) - (n + 1)
                                       /\ m - 1 \in 1..Len(index)
        <4>1. /\ Len(index) - n \in 1..Len(index) /\ Len(index) - n > 1
              /\ (Len(index) - n) - 1 = Len(index) - (n + 1)
              /\ (Len(index) - n) - 1 \in 1..Len(index)
          BY <1>1, <3>1
        <4> QED BY <4>1
      <3>3. ~Fits(m)
        BY <1>1
      <3>4. index[m].char >= char
        BY <3>1, <3>2
      <3>5. ~(index[m - 1].char < char)
        BY <3>2, <3>3, <3>4
      <3>6. index[m - 1].char \in Nat
        BY <1>1, <3>2
      <3> QED BY <1>1, <3>2, <3>5, <3>6
    <2>3. T = Nat
      <3> HIDE DEF T, Fits
      <3>1. T \in SUBSET Nat
        BY DEF T
      <3> QED BY <2>1, <2>2, <3>1, SetInduction
    <2>4. PICK n \in Nat : n = Len(index) - 1 /\ n < Len(index) /\ Len(index) - n = 1
      <3>1. /\ Len(index) - 1 \in Nat /\ Len(index) - 1 < Len(index)
            /\ Len(index) - (Len(index) - 1) = 1
        BY <1>1
      <3> QED BY <3>1
    <2>5. index[1].char >= char
      <3>1. n \in T /\ n < Len(index)
        <4> HIDE DEF T
        <4> QED BY <1>1, <2>3, <2>4
      <3>2. index[Len(index) - n].char >= char
        BY <3>1
      <3> QED BY <2>4, <3>2
    <2>6. Fits(1) /\ 1 \in 1..Len(index)
      BY <1>1, <2>5
    <2> QED BY <1>1, <2>6
  <1>3. PICK i : i = CHOOSE k \in DOMAIN index : Fits(k)
    OBVIOUS
  <1>4. i \in 1..Len(index) /\ index[i].char >= char
    BY <1>1, <1>2, <1>3
  <1>5. FindEndByte(index, char) = index[i].byte
    BY <1>3 DEF FindEndByte
  <1>6. index[i].char \in char..total
    BY <1>1, <1>4
  <1> QED BY <1>1, <1>4, <1>5, <1>6

-------------------------------------------------------------------------------
(* A range of bytes shows the units from one record of the index to another *)
(* but for the last two at most, if the first of them is a broken one.      *)
LEMMA RangeUnits ==
    ASSUME NEW data \in Seq(Bytes), NEW encoding, NEW us \in Seq(UnitSet), NEW e,
           Track(us, e, data, encoding, Len(data), TRUE),
           NEW c \in 0..Len(us), NEW k \in c..Len(us),
           NEW vs, Decodes(vs, data, encoding, e[c], e[k], FALSE)
    PROVE  /\ vs \in Seq(UnitSet) /\ Len(vs) \in 0..(k - c)
           /\ \A n \in 1..Len(vs) : vs[n] = us[c + n]
           /\ Len(vs) # k - c => /\ us[c + Len(vs) + 1].text = <<"replacement">>
                                 /\ k <= c + Len(vs) + 2
  <1>1. /\ Len(us) \in Nat /\ Len(data) \in Nat /\ c \in Nat /\ k \in Nat /\ c <= k /\ k <= Len(us)
        /\ Len(data) \in 0..Len(data) /\ k \in 0..Len(us) /\ k - c \in Nat
    OBVIOUS
  <1>2. /\ \A n \in 0..Len(us) : e[n] \in Nat /\ e[n] <= Len(data)
        /\ \A n \in 1..Len(us) : e[n - 1] < e[n]
    BY <1>1, TrackEnds
  <1>3. e[c] + (k - c) <= e[k]
    BY <1>1, TrackRises
  <1>4. PICK p \in 0..Len(data) : p = e[c]
    BY <1>1, <1>2
  <1>5. PICK q \in p..Len(data) : q = e[k]
    BY <1>1, <1>2, <1>3, <1>4
  <1>6. Decodes(vs, data, encoding, p, q, FALSE)
    BY <1>4, <1>5
  <1>7. vs \in Seq(UnitSet) /\ Len(vs) \in Nat
    <2>1. vs \in Seq(UnitSet)
      BY <1>6 DEF Decodes
    <2> QED BY <2>1
  <1>8. PICK f : /\ Track(vs, f, data, encoding, q, FALSE) /\ f[0] = p
                 /\ Halts(data, encoding, f[Len(vs)], q, FALSE)
    BY <1>6 DEF Decodes
  <1> DEFINE xs == SubSeq(us, c + 1, k)
             h  == [n \in 0..(k - c) |-> e[c + n]]
  <1>9. xs \in Seq(UnitSet) /\ Len(xs) = k - c /\ \A n \in 1..(k - c) : xs[n] = us[c + n]
    BY <1>1
  <1>10. \A n \in 0..(k - c) : h[n] = e[c + n] /\ c + n \in 0..Len(us)
    BY <1>1
  <1>11. h \in [0..(k - c) -> 0..Len(data)]
    BY <1>2, <1>10
  <1> HIDE DEF xs, h
  <1>12. PICK all \in BOOLEAN : all = TRUE
    OBVIOUS
  <1>13. Track(us, e, data, encoding, Len(data), all)
    BY <1>12
  <1>14. Track(xs, h, data, encoding, Len(data), all)
    <2> SUFFICES ASSUME NEW n \in 1..(k - c)
                 PROVE  /\ h[n - 1] < Len(data)
                        /\ xs[n] = Unit(data, h[n - 1] + 1, encoding)
                        /\ h[n] = h[n - 1] + xs[n].size
                        /\ all \/ h[n - 1] + Expected(data[h[n - 1] + 1], encoding) <= Len(data)
      BY <1>9, <1>11 DEF Track
    <2>1. PICK m \in 1..Len(us) : m = c + n
      BY <1>1
    <2>2. PICK j \in 0..(k - c) : j = n - 1 /\ c + j = m - 1 /\ n \in 0..(k - c)
      BY <1>1, <2>1
    <2>3. /\ e[m - 1] < Len(data) /\ us[m] = Unit(data, e[m - 1] + 1, encoding)
          /\ e[m] = e[m - 1] + us[m].size
      BY DEF Track
    <2>4. h[n - 1] = e[m - 1] /\ h[n] = e[m] /\ xs[n] = us[m]
      BY <1>9, <1>10, <2>1, <2>2
    <2> QED BY <1>12, <2>3, <2>4
  <1>15. ASSUME NEW n \in Common(xs, vs)
         PROVE  f[n] = h[n] /\ (n # 0 => vs[n] = xs[n])
    <2>1. q \in Nat /\ Len(data) \in Nat
      BY <1>1
    <2>2. h[0] = f[0]
      <3>1. 0 \in 0..(k - c) /\ c + 0 = c
        BY <1>1
      <3> QED BY <1>4, <1>8, <1>10, <3>1
    <2>3. PICK no \in BOOLEAN : no = FALSE /\ Track(vs, f, data, encoding, q, no)
      BY <1>8
    <2> QED BY <1>7, <1>9, <1>14, <1>15, <2>1, <2>2, <2>3, SameTrack
  <1>16. ASSUME NEW n \in 0..Len(vs), n <= k - c
         PROVE  n \in 0..(k - c) /\ f[n] = e[c + n] /\ (n # 0 => vs[n] = us[c + n])
    <2>1. n \in Common(xs, vs) /\ n \in 0..(k - c)
      BY <1>1, <1>7, <1>9, <1>16 DEF Common
    <2>2. f[n] = h[n] /\ (n # 0 => vs[n] = xs[n])
      BY <1>15, <2>1
    <2>3. n # 0 => n \in 1..(k - c)
      BY <1>1, <2>1
    <2> QED BY <1>9, <1>10, <2>1, <2>2, <2>3
  <1>17. Len(vs) <= k - c
    <2> SUFFICES ASSUME ~(Len(vs) <= k - c) PROVE FALSE
      OBVIOUS
    <2>1. PICK n \in 1..Len(vs) : n - 1 = k - c /\ n - 1 \in 0..Len(vs) /\ n - 1 <= k - c
      <3>1. (k - c) + 1 \in 1..Len(vs) /\ ((k - c) + 1) - 1 = k - c /\ k - c \in 0..Len(vs) /\ k - c <= k - c
        BY <1>1, <1>7
      <3> QED BY <3>1
    <2>2. f[n - 1] < q
      BY <1>8 DEF Track
    <2>3. f[n - 1] = e[c + (n - 1)]
      BY <1>16, <2>1
    <2>4. c + (n - 1) = k
      BY <1>1, <2>1
    <2> QED BY <1>1, <1>5, <2>2, <2>3, <2>4
  <1>18. \A n \in 1..Len(vs) : vs[n] = us[c + n]
    <2> SUFFICES ASSUME NEW n \in 1..Len(vs) PROVE vs[n] = us[c + n]
      OBVIOUS
    <2>1. n \in 0..Len(vs) /\ n <= k - c /\ n # 0
      BY <1>1, <1>7, <1>17
    <2> QED BY <1>16, <2>1
  <1>19. ASSUME Len(vs) # k - c
         PROVE  us[c + Len(vs) + 1].text = <<"replacement">> /\ k <= c + Len(vs) + 2
    <2>1. PICK m \in 1..Len(us) : m = c + Len(vs) + 1 /\ m - 1 = c + Len(vs) /\ m <= k
      BY <1>1, <1>7, <1>17, <1>19
    <2>2. PICK x \in 0..Len(data) : x = e[m - 1] /\ x = f[Len(vs)] /\ x + 1 \in 1..Len(data) /\ x < e[m]
      <3>1. Len(vs) \in 0..Len(vs)
        BY <1>7
      <3>2. f[Len(vs)] = e[c + Len(vs)]
        BY <1>16, <1>17, <3>1
      <3>3. m - 1 \in 0..Len(us) /\ m \in 0..Len(us)
        BY <1>1
      <3>4. e[m - 1] < e[m] /\ e[m - 1] \in Nat /\ e[m] \in Nat /\ e[m] <= Len(data)
        BY <1>2, <3>3
      <3>5. e[m - 1] = f[Len(vs)]
        BY <2>1, <3>2
      <3>6. e[m - 1] \in 0..Len(data) /\ e[m - 1] + 1 \in 1..Len(data)
        BY <1>1, <3>4
      <3> QED BY <3>4, <3>5, <3>6
    <2>3. PICK z \in Nat : z = e[m] /\ z + (k - m) <= q /\ q \in Nat
      <3>1. m \in 0..Len(us) /\ k \in m..Len(us)
        BY <1>1, <2>1
      <3>2. e[m] + (k - m) <= e[k] /\ e[m] \in Nat
        <4>1. all => Len(data) = Len(data)
          OBVIOUS
        <4> QED BY <1>1, <1>2, <1>13, <3>1, TrackRises
      <3> QED BY <1>5, <3>2
    <2>4. PICK w \in 1..3 : w = Expected(data[x + 1], encoding)
      BY ExpectedType
    <2>10. m \in Nat /\ x \in Nat /\ x < z /\ z <= q
      <3>1. m \in Nat /\ x \in Nat /\ k - m \in Nat
        BY <1>1, <2>1
      <3> QED BY <2>2, <2>3, <3>1
    <2>5. x + w > q
      <3>1. x < q
        BY <2>3, <2>10
      <3>2. x >= q \/ x + w > q
        BY <1>8, <2>2, <2>4 DEF Halts
      <3> QED BY <2>3, <3>1, <3>2
    <2>6. us[m] = Unit(data, x + 1, encoding) /\ z = x + us[m].size
      BY <2>2, <2>3 DEF Track
    <2>7. us[m].text = <<"replacement">> \/ us[m].size = w
      BY <2>2, <2>4, <2>6, UnitType
    <2>8. us[m].size # w
      <3> SUFFICES ASSUME us[m].size = w PROVE FALSE
        OBVIOUS
      <3>1. z = x + w
        BY <2>6
      <3> QED BY <2>3, <2>5, <2>10, <3>1
    <2>9. k <= c + Len(vs) + 2
      <3>1. k - m < 2
        <4>1. PICK d \in Nat : d = k - m
          <5>1. k - m \in Nat
            BY <1>1, <2>1
          <5> QED BY <5>1
        <4>2. z + d <= q /\ q < x + w /\ w <= 3
          <5>1. z + d <= q
            BY <2>3, <4>1
          <5>2. q < x + w /\ w <= 3
            BY <2>3, <2>4, <2>5, <2>10
          <5> QED BY <5>1, <5>2
        <4>3. d < 2
          BY <2>3, <2>4, <2>10, <4>1, <4>2
        <4> QED BY <4>1, <4>3
      <3> QED BY <1>1, <1>7, <2>1, <2>10, <3>1
    <2> QED BY <2>1, <2>7, <2>8, <2>9
  <1>20. Len(vs) \in 0..(k - c)
    BY <1>1, <1>7, <1>17
  <1> QED BY <1>7, <1>18, <1>19, <1>20

LEMMA TextIs ==
    ASSUME NEW us \in Seq(UnitSet)
    PROVE  /\ Text(us) \in Seq(Shown) /\ Len(Text(us)) = Len(us)
           /\ \A i \in 1..Len(us) : Text(us)[i] = us[i].text
  <1>1. Len(us) \in Nat /\ DOMAIN us = 1..Len(us)
    OBVIOUS
  <1>2. \A i \in 1..Len(us) : us[i].text \in Shown
    <2>1. \A i \in 1..Len(us) : us[i] \in UnitSet
      OBVIOUS
    <2>2. \A unit \in UnitSet : unit.text \in Shown
      BY DEF UnitSet
    <2> QED BY <2>1, <2>2
  <1>3. Text(us) = [i \in 1..Len(us) |-> us[i].text]
    BY <1>1 DEF Text
  <1>4. Text(us) \in [1..Len(us) -> Shown]
    BY <1>2, <1>3
  <1>5. Text(us) \in Seq(Shown) /\ Len(Text(us)) = Len(us)
    BY <1>1, <1>4
  <1> QED BY <1>3, <1>5

\* Where a page begins there is a character, or none at all.
LEMMA PageBegins ==
    ASSUME NEW total \in Nat, NEW size \in Nat \ {0}, NEW page \in 1..TotalPages(total, size)
    PROVE  (page - 1) * size \in 0..total
  <1>1. CASE total = 0
    <2>1. TotalPages(total, size) = 1
      BY <1>1 DEF TotalPages
    <2>2. page = 1
      BY <2>1
    <2>3. 0 * size = 0
      OBVIOUS
    <2> QED BY <1>1, <2>2, <2>3
  <1>2. CASE total # 0
    <2>1. PICK n \in Nat : n = total + size - 1
      OBVIOUS
    <2>2. PICK t \in Nat : t = n \div size /\ t * size \in Nat /\ t * size <= n
      <3>1. /\ n \div size \in Nat /\ n % size \in Nat /\ (n \div size) * size \in Nat
            /\ n = (n \div size) * size + (n % size)
        BY <2>1, Quotient
      <3>2. PICK t \in Nat, r \in Nat, s \in Nat :
              t = n \div size /\ r = n % size /\ s = (n \div size) * size
        BY <3>1
      <3>3. n = s + r
        BY <3>1, <3>2
      <3>4. s <= n
        BY <2>1, <3>2, <3>3
      <3> QED BY <3>2, <3>4
    <2>3. TotalPages(total, size) = t
      BY <1>2, <2>1, <2>2 DEF TotalPages
    <2>4. PICK j \in Nat : j = page - 1 /\ j + 1 <= t
      <3>1. page - 1 \in Nat /\ (page - 1) + 1 <= t
        BY <2>2, <2>3
      <3> QED BY <3>1
    <2>5. (j + 1) * size <= t * size /\ (j + 1) * size = j * size + size /\ j * size \in Nat
      <3>1. j + 1 \in Nat
        BY <2>4
      <3> QED BY <2>2, <2>4, <3>1, Product, Multiples
    <2>6. j * size + size <= total + size - 1
      BY <2>1, <2>2, <2>5
    <2>7. j * size <= total
      BY <2>5, <2>6
    <2> QED BY <2>4, <2>5, <2>7
  <1> QED BY <1>1, <1>2

\* A page shows what it should, but for one broken unit at its end, and what
\* is after it.
ShowsPage(us, shown, before, size) ==
    LET wanted  == SubSeq(Text(us), before + 1, Least(before + size, Len(us)))
        missing == before + Len(shown) + 1
    IN /\ IsPrefix(shown, wanted)
       /\ shown # wanted => \E i \in {missing - 1, missing} \cap DOMAIN us :
                              us[i].text = <<"replacement">>

LEMMA PageIs ==
    ASSUME NEW data \in Seq(Bytes), NEW encoding, NEW us \in Seq(UnitSet), NEW e,
           Track(us, e, data, encoding, Len(data), TRUE),
           NEW index, Records(index, e, Len(us)), NEW size \in Nat \ {0},
           NEW page \in 1..TotalPages(Len(us), size)
    PROVE  ShowsPage(us, Page(data, encoding, index, Len(us), size, page), (page - 1) * size, size)
  <1> DEFINE shown  == Page(data, encoding, index, Len(us), size, page)
             before == (page - 1) * size
             wanted == SubSeq(Text(us), before + 1, Least(before + size, Len(us)))
             Short(n) == \E i \in {before + n, before + n + 1} \cap DOMAIN us :
                           us[i].text = <<"replacement">>
  <1> SUFFICES ShowsPage(us, shown, before, size)
    OBVIOUS
  <1>1. Len(us) \in Nat /\ DOMAIN us = 1..Len(us)
    OBVIOUS
  <1>2. PICK start \in 0..Len(us) : start = before
    BY <1>1, PageBegins
  <1>3. PICK end \in start..Len(us) : end = Least(Len(us), start + size) /\ end = Least(start + size, Len(us))
    <2>1. /\ Least(Len(us), start + size) \in start..Len(us)
          /\ Least(Len(us), start + size) = Least(start + size, Len(us))
      BY <1>1 DEF Least
    <2> QED BY <2>1
  <1>4. start \in Nat /\ end \in Nat /\ start <= end /\ end <= Len(us) /\ end \in 0..Len(us)
    BY <1>1
  <1>5. PICK c \in 0..start : /\ FindCheckpoint(index, start).char = c
                              /\ FindCheckpoint(index, start).byte = e[c]
    <2>1. start \in 0..Len(us)
      BY <1>2
    <2> HIDE DEF shown, before, wanted, Short
    <2> QED BY <1>1, <2>1, CheckpointIs
  <1>6. PICK k \in end..Len(us) : FindEndByte(index, end) = e[k]
    BY <1>1, <1>4, EndByteIs
  <1>7. c \in Nat /\ k \in Nat /\ c <= start /\ end <= k /\ c \in 0..Len(us) /\ k \in c..Len(us)
        /\ k \in 0..Len(us)
    BY <1>1, <1>4
  <1> HIDE DEF before
  <1>8. PICK vs : vs = InChunks(Part(data, e[c], e[k]), encoding, FALSE)
    OBVIOUS
  <1>9. Decodes(vs, data, encoding, e[c], e[k], FALSE)
    <2>1. Len(data) \in Nat /\ Len(data) \in 0..Len(data)
      OBVIOUS
    <2>2. \A n \in 0..Len(us) : e[n] \in Nat /\ e[n] <= Len(data)
      BY <2>1, TrackEnds
    <2>3. e[c] + (k - c) <= e[k]
      BY <1>7, <2>1, TrackRises
    <2>4. PICK p \in 0..Len(data) : p = e[c]
      BY <1>7, <2>1, <2>2
    <2>5. PICK q \in p..Len(data) : q = e[k]
      <3>1. e[k] \in Nat /\ e[k] <= Len(data) /\ k - c \in Nat /\ p \in Nat
        BY <1>7, <2>1, <2>2
      <3>2. e[k] \in p..Len(data)
        BY <2>1, <2>3, <2>4, <3>1
      <3> QED BY <3>2
    <2>6. PICK part \in Seq(Bytes) : part = Part(data, p, q)
      BY PartFacts
    <2>7. vs = Units(part, encoding, FALSE)
      BY <1>8, <2>4, <2>5, <2>6, ChunksAreSeamless
    <2>8. Decodes(vs, data, encoding, p, q, FALSE)
      BY <2>6, <2>7, PartUnits
    <2> QED BY <2>4, <2>5, <2>8
  <1>10. /\ vs \in Seq(UnitSet) /\ Len(vs) \in 0..(k - c)
         /\ \A n \in 1..Len(vs) : vs[n] = us[c + n]
         /\ Len(vs) # k - c => /\ us[c + Len(vs) + 1].text = <<"replacement">>
                               /\ k <= c + Len(vs) + 2
    BY <1>7, <1>9, RangeUnits
  <1>11. PICK m \in 0..(k - c) : m = Len(vs)
    BY <1>10
  <1>12. PICK tv : tv = Text(vs)
    OBVIOUS
  <1>13. tv \in Seq(Shown) /\ Len(tv) = m /\ \A i \in 1..m : tv[i] = us[c + i].text
    BY <1>10, <1>11, <1>12, TextIs
  <1>14. PICK tu : tu = Text(us)
    OBVIOUS
  <1>15. tu \in Seq(Shown) /\ Len(tu) = Len(us) /\ \A i \in 1..Len(us) : tu[i] = us[i].text
    BY <1>14, TextIs
  <1>16. PICK a \in Nat : a = start - c
    <2>1. start - c \in Nat
      BY <1>4, <1>7
    <2> QED BY <2>1
  <1>17. PICK b \in Nat : b = a + (end - start) /\ b = end - c /\ a <= b /\ b <= k - c
    <2>1. a + (end - start) \in Nat /\ a + (end - start) = end - c /\ a <= a + (end - start) /\ end - c <= k - c
      BY <1>4, <1>7, <1>16
    <2> QED BY <2>1
  <1>18. PICK z \in Nat : z = Least(b, m) /\ (z = b \/ z = m) /\ z <= b /\ z <= m
    <2>1. m \in Nat
      BY <1>10, <1>11
    <2> QED BY <2>1 DEF Least
  <1>19. shown = SubSeq(tv, a + 1, z)
    <2>1. shown = ReadRange(data, encoding, e[c], e[k], start - c, end - start)
      BY <1>2, <1>3, <1>5, <1>6 DEF Page, before
    <2>2. shown = SubSeq(tv, (start - c) + 1, Least((start - c) + (end - start), Len(tv)))
      BY <1>8, <1>12, <2>1 DEF ReadRange
    <2> QED BY <1>13, <1>16, <1>17, <1>18, <2>2
  <1>20. /\ wanted = SubSeq(tu, start + 1, end) /\ wanted \in Seq(Shown) /\ Len(wanted) = end - start
         /\ \A i \in 1..(end - start) : wanted[i] = us[start + i].text
    <2>1. wanted = SubSeq(tu, start + 1, end)
      BY <1>2, <1>3, <1>14
    <2>2. SubSeq(tu, start + 1, end) \in Seq(Shown) /\ Len(SubSeq(tu, start + 1, end)) = end - start
      BY <1>4, <1>15
    <2>3. \A i \in 1..(end - start) : SubSeq(tu, start + 1, end)[i] = tu[start + i]
      BY <1>4, <1>15
    <2>4. \A i \in 1..(end - start) : start + i \in 1..Len(us)
      BY <1>4
    <2> QED BY <1>15, <2>1, <2>2, <2>3, <2>4
  <1>23. ASSUME Len(shown) \in Nat, IsPrefix(shown, wanted), shown # wanted => Short(Len(shown))
         PROVE  ShowsPage(us, shown, before, size)
    <2>1. before \in Nat
      BY <1>2, <1>4
    <2>2. PICK n \in Nat : n = Len(shown)
      BY <1>23
    <2>3. (before + n + 1) - 1 = before + n
      BY <2>1
    <2> HIDE DEF shown
    <2> QED BY <1>23, <2>2, <2>3 DEF ShowsPage, wanted
  <1> HIDE DEF shown, wanted, Short
  <1>21. CASE a <= z
    <2>1. /\ shown \in Seq(Shown) /\ Len(shown) = z - a
          /\ \A i \in 1..(z - a) : shown[i] = tv[a + i]
      <3>1. 1 <= a + 1 /\ a + 1 <= z + 1 /\ z <= Len(tv) /\ z - a = z - (a + 1) + 1 /\ a \in Nat /\ z \in Nat
        <4>1. a \in Nat /\ z \in Nat /\ a <= z
          BY <1>16, <1>18, <1>21
        <4>2. 1 <= a + 1 /\ a + 1 <= z + 1 /\ z - a = z - (a + 1) + 1
          BY <4>1
        <4>3. z <= Len(tv)
          BY <1>13, <1>18
        <4> QED BY <4>1, <4>2, <4>3
      <3>2. /\ SubSeq(tv, a + 1, z) \in Seq(Shown) /\ Len(SubSeq(tv, a + 1, z)) = z - a
        BY <1>13, <3>1
      <3>3. \A i \in 1..(z - a) : SubSeq(tv, a + 1, z)[i] = tv[a + i]
        BY <1>13, <3>1
      <3> QED BY <1>19, <3>2, <3>3
    <2>2. \A i \in 1..(z - a) : i \in 1..(end - start) /\ shown[i] = wanted[i]
      <3> SUFFICES ASSUME NEW i \in 1..(z - a)
                   PROVE  i \in 1..(end - start) /\ shown[i] = wanted[i]
        OBVIOUS
      <3>1. i \in 1..(end - start)
        BY <1>4, <1>17, <1>18, <1>21
      <3>2. a + i \in 1..m /\ c + (a + i) = start + i
        <4>1. PICK j \in Nat : j = i /\ 1 <= j /\ j <= z - a
          BY <1>16, <1>18
        <4>2. a + j \in 1..m
          BY <1>16, <1>18, <4>1
        <4>3. c + (a + j) = start + j
          BY <1>4, <1>7, <1>16, <4>1
        <4> QED BY <4>1, <4>2, <4>3
      <3> QED BY <1>13, <1>20, <2>1, <3>1, <3>2
    <2>3. z - a <= end - start /\ z - a \in Nat /\ end - start \in Nat
      BY <1>4, <1>17, <1>18, <1>21
    <2>4. SubSeq(shown, 1, Len(shown)) = SubSeq(wanted, 1, Len(shown))
      <3>1. PICK n \in Nat : n = z - a /\ n <= end - start
        BY <2>3
      <3>2. /\ SubSeq(shown, 1, n) \in Seq(Shown) /\ Len(SubSeq(shown, 1, n)) = n
            /\ \A i \in 1..n : SubSeq(shown, 1, n)[i] = shown[i]
        BY <2>1, <3>1
      <3>3. /\ SubSeq(wanted, 1, n) \in Seq(Shown) /\ Len(SubSeq(wanted, 1, n)) = n
            /\ \A i \in 1..n : SubSeq(wanted, 1, n)[i] = wanted[i]
        <4>1. n \in Nat /\ n <= Len(wanted)
          BY <1>20, <3>1
        <4>4. wanted \in Seq(Shown)
          BY <1>20
        <4>2. SubSeq(wanted, 1, n) \in Seq(Shown) /\ Len(SubSeq(wanted, 1, n)) = n
          BY <4>1, <4>4
        <4>3. \A i \in 1..n : SubSeq(wanted, 1, n)[i] = wanted[i]
          BY <4>1, <4>4
        <4> QED BY <4>2, <4>3
      <3>4. PICK x, y : x = SubSeq(shown, 1, n) /\ y = SubSeq(wanted, 1, n)
        OBVIOUS
      <3>5. x \in Seq(Shown) /\ y \in Seq(Shown) /\ Len(x) = n /\ Len(y) = n /\ \A i \in 1..n : x[i] = y[i]
        BY <2>2, <3>1, <3>2, <3>3, <3>4
      <3>6. x = y
        BY <3>5
      <3> QED BY <2>1, <3>1, <3>4, <3>6
    <2>5. IsPrefix(shown, wanted)
      BY <1>20, <2>1, <2>3, <2>4 DEF IsPrefix
    <2>6. ASSUME shown # wanted
          PROVE  Short(Len(shown))
      <3>1. z # b
        <4> SUFFICES ASSUME z = b PROVE FALSE
          OBVIOUS
        <4>1. z - a = end - start
          BY <1>4, <1>17
        <4>2. PICK n \in Nat : n = z - a /\ n = end - start
          BY <2>3, <4>1
        <4>4. /\ shown \in Seq(Shown) /\ wanted \in Seq(Shown) /\ Len(shown) = n /\ Len(wanted) = n
              /\ \A i \in 1..n : shown[i] = wanted[i]
          BY <1>20, <2>1, <2>2, <4>2
        <4>3. shown = wanted
          <5>1. \A x, y \in Seq(Shown) : Len(x) = n /\ Len(y) = n /\ (\A i \in 1..n : x[i] = y[i]) => x = y
            BY <4>2
          <5> QED BY <4>4, <5>1
        <4> QED BY <2>6, <4>3
      <3>2. z = m /\ m # k - c
        BY <1>4, <1>7, <1>16, <1>17, <1>18, <3>1
      <3>3. us[c + m + 1].text = <<"replacement">>
        BY <1>10, <1>11, <3>2
      <3>4. before + Len(shown) + 1 = c + m + 1 /\ c + m + 1 \in 1..Len(us)
        <4>1. PICK l \in Nat : l = Len(shown) /\ l = m - a
          BY <1>16, <1>18, <1>21, <2>1, <3>2
        <4>2. m < k - c /\ m \in Nat
          <5>1. m \in Nat /\ k - c \in Nat /\ m <= k - c
            BY <1>7, <1>11
          <5> QED BY <3>2, <5>1
        <4>3. start + l + 1 = c + m + 1 /\ c + m + 1 \in 1..Len(us)
          BY <1>1, <1>4, <1>7, <1>16, <4>1, <4>2
        <4> QED BY <1>2, <4>1, <4>3
      <3> QED BY <1>1, <3>3, <3>4 DEF Short
    <2>7. Len(shown) \in Nat
      BY <2>1, <2>3
    <2> QED BY <1>23, <2>5, <2>6, <2>7
  <1>22. CASE ~(a <= z)
    <2>1. shown = <<>> /\ Len(shown) = 0
      <3>1. a + 1 > z
        BY <1>22
      <3>2. a \in Nat /\ z \in Nat
        BY <1>16, <1>18
      <3>3. SubSeq(tv, a + 1, z) = <<>>
        BY <1>13, <3>1, <3>2
      <3>4. Len(<<>>) = 0
        OBVIOUS
      <3> QED BY <1>19, <3>3, <3>4, Zenon
    <2>2. IsPrefix(shown, wanted)
      <3>1. SubSeq(wanted, 1, 0) = <<>> /\ SubSeq(shown, 1, 0) = <<>>
        BY <1>20, <2>1
      <3>2. Len(shown) <= Len(wanted)
        BY <1>4, <1>20, <2>1
      <3> QED BY <2>1, <3>1, <3>2 DEF IsPrefix
    <2>3. ASSUME shown # wanted
          PROVE  Short(Len(shown))
      <3>1. end > start
        <4> SUFFICES ASSUME ~(end > start) PROVE FALSE
          OBVIOUS
        <4>1. Len(wanted) = 0
          BY <1>4, <1>20
        <4>2. wanted = <<>>
          BY <1>20, <4>1
        <4> QED BY <2>1, <2>3, <4>2
      <3>2. z = m /\ m < a /\ m # k - c
        BY <1>4, <1>7, <1>17, <1>18, <1>22
      <3>3. us[c + m + 1].text = <<"replacement">> /\ k <= c + m + 2
        BY <1>10, <1>11, <3>2
      <3>4. m \in Nat
        BY <1>18, <3>2
      <3>5. c + m + 1 = start
        BY <1>4, <1>7, <1>16, <3>1, <3>2, <3>3, <3>4
      <3>6. before + Len(shown) = start /\ start \in 1..Len(us)
        BY <1>1, <1>2, <1>4, <1>7, <2>1, <3>4, <3>5
      <3> QED BY <1>1, <3>3, <3>5, <3>6 DEF Short
    <2>4. Len(shown) \in Nat
      BY <2>1
    <2> QED BY <1>23, <2>2, <2>3, <2>4
  <1> QED BY <1>21, <1>22

LEMMA Start ==
    ASSUME NEW data \in Seq(Bytes)
    PROVE  DataStart(data) \in 0..Len(data) /\ Len(data) \in Nat
  BY DEF DataStart

\* Pages of any size show a text, whatever its encoding is taken for and however
\* far apart the checkpoints of its index are, but for a broken unit at the end of
\* a page; the index is accepted when it is read (readStdoutRange, src/src/paging.ts:180).
THEOREM PagesShow ==
    ASSUME NEW data \in Seq(Bytes), NEW windows \in BOOLEAN, NEW size \in Nat \ {0}
    PROVE  ShowsExactly(data, data, windows, size)
  <1>1. PICK encoding : encoding = Encoding(data, windows)
    OBVIOUS
  <1>2. PICK start \in 0..Len(data) : start = DataStart(data)
    BY Start
  <1>3. PICK last \in start..Len(data) : last = Len(data)
    <2>1. Len(data) \in start..Len(data)
      BY <1>2
    <2> QED BY <2>1
  <1>4. PICK part \in Seq(Bytes) : part = Part(data, start, last)
    BY <1>2, <1>3, PartFacts
  <1>5. PICK us : us = Units(part, encoding, TRUE)
    OBVIOUS
  <1>6. ForEachFileUnit(data, encoding, start) = us
    BY <1>3, <1>4, <1>5, ChunksAreSeamless DEF ForEachFileUnit
  <1>7. Whole(data, windows) = us
    BY <1>1, <1>2, <1>3, <1>4, <1>5 DEF Whole
  <1>8. Decodes(us, data, encoding, start, Len(data), TRUE)
    BY <1>2, <1>3, <1>4, <1>5, PartUnits
  <1>9. us \in Seq(UnitSet) /\ Len(us) \in Nat
    BY <1>8 DEF Decodes
  <1>10. PICK e : Track(us, e, data, encoding, Len(data), TRUE) /\ e[0] = start /\ e[Len(us)] = Len(data)
    <2>1. Len(data) \in start..Len(data) /\ Len(data) \in 0..Len(data) /\ Len(data) \in Nat /\ start \in Nat
      BY <1>2
    <2>2. /\ start + Size(us) \in start..Len(data)
          /\ \E f : /\ Track(us, f, data, encoding, Len(data), TRUE) /\ f[0] = start
                    /\ f[Len(us)] = start + Size(us)
                    /\ Halts(data, encoding, start + Size(us), Len(data), TRUE)
      <3>1. start \in 0..Len(data)
        BY <1>2
      <3> QED BY <1>8, <2>1, <3>1, DecodesSize
    <2>3. PICK f : /\ Track(us, f, data, encoding, Len(data), TRUE) /\ f[0] = start
                   /\ f[Len(us)] = start + Size(us)
                   /\ Halts(data, encoding, start + Size(us), Len(data), TRUE)
      BY <2>2
    <2>4. start + Size(us) = Len(data)
      BY <2>1, <2>2, <2>3 DEF Halts
    <2> QED BY <2>3, <2>4
  <1>11. PICK index : index = Index(us, start, Len(data)) /\ index = Index(us, e[0], Len(data))
    BY <1>10
  <1>12. /\ Records(index, e, Len(us))
         /\ index[1] = [char |-> 0, byte |-> start]
         /\ Last(index) = [char |-> Len(us), byte |-> Len(data)]
    <2>1. /\ Records(Index(us, e[0], Len(data)), e, Len(us))
          /\ Index(us, e[0], Len(data))[1] = [char |-> 0, byte |-> e[0]]
          /\ Last(Index(us, e[0], Len(data))) = [char |-> Len(us), byte |-> Len(data)]
      BY <1>9, <1>10, IndexIs, Zenon
    <2> QED BY <1>10, <1>11, <2>1
  <1>13. FileIndex(data, encoding, start) = index
    BY <1>6, <1>11 DEF FileIndex
  <1>14. \A page \in 1..TotalPages(Len(us), size) :
           ShowsPage(us, Page(data, encoding, index, Len(us), size, page), (page - 1) * size, size)
    BY <1>9, <1>10, <1>12, PageIs
  <1>15. Accepted(index, start, Len(data), Len(us))
    <2>1. /\ index \in Seq(Record) /\ Len(index) \in Nat
          /\ \A i \in 1..Len(index) : index[i].char \in 0..Len(us) /\ index[i].byte = e[index[i].char]
          /\ \A i, j \in 1..Len(index) : j = i + 1 => index[i].char < index[j].char
      BY <1>12 DEF Records
    <2>2. ASSUME NEW i \in 2..Len(index)
          PROVE  index[i].char >= index[i - 1].char /\ index[i].byte >= index[i - 1].byte
      <3>1. PICK j \in 1..Len(index) : j = i - 1 /\ i = j + 1 /\ i \in 1..Len(index)
        <4>1. i - 1 \in 1..Len(index) /\ i = (i - 1) + 1 /\ i \in 1..Len(index)
          BY <2>1
        <4> QED BY <4>1
      <3>2. index[j].char < index[i].char
        BY <2>1, <3>1
      <3>3. PICK m \in 0..Len(us), n \in 0..Len(us) :
               /\ m = index[j].char /\ index[j].byte = e[m]
               /\ n = index[i].char /\ index[i].byte = e[n]
        BY <2>1, <3>1
      <3>4. m < n /\ m \in Nat /\ n \in Nat /\ n - m \in Nat /\ n \in m..Len(us)
        BY <1>9, <3>2, <3>3
      <3>5. Len(data) \in 0..Len(data)
        OBVIOUS
      <3>6. e[m] + (n - m) <= e[n]
        BY <1>9, <1>10, <3>3, <3>4, <3>5, TrackRises
      <3>7. e[m] \in Nat /\ e[n] \in Nat
        BY <1>9, <1>10, <3>3, <3>5, TrackEnds
      <3>8. e[n] >= e[m] /\ n >= m
        BY <3>4, <3>6, <3>7
      <3>9. index[i].char >= index[j].char /\ index[i].byte >= index[j].byte
        BY <3>3, <3>8
      <3> QED BY <3>1, <3>9
    <2> QED BY <1>12, <2>2 DEF Accepted
  <1> QED BY <1>1, <1>2, <1>6, <1>7, <1>11, <1>13, <1>14, <1>15 DEF ShowsExactly, ShowsPage

-------------------------------------------------------------------------------
(* A text that was cut.                                                    *)

\* The bytes that continue the last unit are counted.
LEMMA Continued ==
    ASSUME NEW tail \in Seq(Bytes), NEW n \in Nat, n = Len(tail), NEW d \in 1..n,
           tail[n - d + 1] \notin Cont, \A j \in (n - d + 2)..n : tail[j] \in Cont
    PROVE  (CHOOSE k \in 0..n : /\ \A j \in (n - k + 1)..n : tail[j] \in Cont
                                /\ k < n => tail[n - k] \notin Cont) = d - 1
  <1> DEFINE Fits(k) == /\ \A j \in (n - k + 1)..n : tail[j] \in Cont
                        /\ k < n => tail[n - k] \notin Cont
  <1>1. d - 1 \in 0..n /\ n - (d - 1) = n - d + 1 /\ n - (d - 1) + 1 = n - d + 2
    OBVIOUS
  <1>2. Fits(d - 1)
    BY <1>1
  <1>3. ASSUME NEW k \in 0..n, Fits(k) PROVE k = d - 1
    <2>1. ~(k >= d)
      <3> SUFFICES ASSUME k >= d PROVE FALSE
        OBVIOUS
      <3>1. n - d + 1 \in (n - k + 1)..n
        OBVIOUS
      <3> QED BY <1>3, <3>1
    <2>2. ~(k < d - 1)
      <3> SUFFICES ASSUME k < d - 1 PROVE FALSE
        OBVIOUS
      <3>1. n - k \in (n - d + 2)..n /\ k < n
        OBVIOUS
      <3> QED BY <1>3, <3>1
    <2> QED BY <2>1, <2>2
  <1>4. (CHOOSE k \in 0..n : Fits(k)) = d - 1
    <2> HIDE DEF Fits
    <2> QED BY <1>1, <1>2, <1>3
  <1> QED BY <1>4

\* What is cut off is the last unit, if it is not there as a whole.
LEMMA TrimIs ==
    ASSUME NEW data \in Seq(Bytes), NEW start \in 0..Len(data), NEW y \in start..Len(data),
           y < Len(data), Len(data) - y <= 3,
           data[y + 1] \notin Cont, \A j \in (y + 2)..Len(data) : data[j] \in Cont
    PROVE  Trimmed(data, "utf8", start)
             = Part(data, 0, IF Expected(data[y + 1], "utf8") = Len(data) - y THEN Len(data) ELSE y)
  <1>1. PICK size \in Nat : size = Len(data)
    OBVIOUS
  <1>2. start \in Nat /\ y \in Nat /\ start <= y /\ y < size /\ size - y <= 3
    BY <1>1
  <1>3. PICK n \in Nat : n = Least(4, size - start)
    <2>1. size - start \in Nat
      BY <1>1, <1>2
    <2>2. Least(4, size - start) \in Nat
      BY <2>1 DEF Least
    <2> QED BY <2>2
  <1>4. PICK d \in 1..n : d = size - y
    <2>1. size - y \in 1..n
      BY <1>2, <1>3 DEF Least
    <2> QED BY <2>1
  <1>5. PICK from \in 0..Len(data) : from = size - n
    <2>1. size - n \in 0..size
      BY <1>2, <1>3 DEF Least
    <2> QED BY <1>1, <2>1
  <1>6. Len(data) \in from..Len(data) /\ Len(data) - from = n
    BY <1>1, <1>3, <1>5
  <1>7. PICK tail \in Seq(Bytes) : /\ tail = Part(data, from, Len(data)) /\ Len(tail) = n
                                   /\ \A i \in 1..n : tail[i] = data[from + i]
    <2>1. PICK to \in from..Len(data) : to = Len(data)
      BY <1>6
    <2>2. from \in 0..Len(data)
      BY <1>5
    <2>3. Part(data, from, to) \in Seq(Bytes)
      BY <2>1, <2>2, PartFacts
    <2>4. Len(Part(data, from, to)) = to - from
      BY <2>1, <2>2, PartFacts
    <2>5. \A i \in 1..(to - from) : Part(data, from, to)[i] = data[from + i]
      BY <2>1, <2>2, PartFacts
    <2> QED BY <1>6, <2>1, <2>3, <2>4, <2>5
  <1>8. tail[n - d + 1] = data[y + 1]
    <2>1. n - d + 1 \in 1..n /\ from + (n - d + 1) = y + 1
      BY <1>2, <1>4, <1>5
    <2> QED BY <1>7, <2>1
  <1>9. \A j \in (n - d + 2)..n : tail[j] \in Cont
    <2> SUFFICES ASSUME NEW j \in (n - d + 2)..n PROVE tail[j] \in Cont
      OBVIOUS
    <2>1. j \in 1..n /\ from + j \in (y + 2)..Len(data)
      BY <1>1, <1>2, <1>4, <1>5
    <2> QED BY <1>7, <2>1
  <1>10. PICK conts \in Nat : conts = d - 1 /\ n - conts = n - d + 1 /\ conts < n /\ n > 0 /\ conts + 1 = d
    <2>1. d - 1 \in Nat /\ n - (d - 1) = n - d + 1 /\ d - 1 < n /\ n > 0 /\ (d - 1) + 1 = d
      BY <1>3, <1>4
    <2> QED BY <2>1
  <1>11. (CHOOSE k \in 0..n : /\ \A j \in (n - k + 1)..n : tail[j] \in Cont
                              /\ k < n => tail[n - k] \notin Cont) = conts
    BY <1>3, <1>4, <1>7, <1>8, <1>9, <1>10, Continued
  <1>12. PICK cut \in Nat : cut = IF Expected(tail[n - conts], "utf8") = conts + 1 THEN 0 ELSE conts + 1
    BY <1>10
  <1>13. Trimmed(data, "utf8", start) = Part(data, 0, size - cut)
    <2>1. tail = Part(data, size - Least(4, size - start), size)
      BY <1>1, <1>3, <1>5, <1>7
    <2>2. "gbk" # "utf8" /\ n # 0
      BY <1>10
    <2> QED BY <1>1, <1>7, <1>10, <1>11, <1>12, <2>1, <2>2 DEF Trimmed
  <1>14. size - cut = IF Expected(data[y + 1], "utf8") = Len(data) - y THEN Len(data) ELSE y
    <2>1. PICK w \in 1..3 : w = Expected(data[y + 1], "utf8") /\ w = Expected(tail[n - conts], "utf8")
      BY <1>8, <1>10, ExpectedType
    <2>2. cut = IF w = d THEN 0 ELSE d
      BY <1>10, <1>12, <2>1
    <2>3. size - cut = IF w = size - y THEN size ELSE y
      BY <1>1, <1>2, <1>4, <2>2
    <2> QED BY <1>1, <2>1, <2>3
  <1> QED BY <1>13, <1>14

\* A unit that is not replaced is a whole character.
LEMMA WholeCharacter ==
    ASSUME NEW data \in Seq(Bytes), NEW i \in 1..Len(data),
           Unit(data, i, "utf8").text # <<"replacement">>
    PROVE  /\ Unit(data, i, "utf8").size = Expected(data[i], "utf8") /\ data[i] \notin Cont
           /\ \A j \in (i + 1)..(i + Expected(data[i], "utf8") - 1) : data[j] \in Cont
  <1>1. Valid(data, i, "utf8")
    BY DEF Unit
  <1>2. PICK w \in 1..3 : w = Expected(data[i], "utf8")
    BY ExpectedType
  <1>3. Unit(data, i, "utf8").size = w
    BY <1>1, <1>2 DEF Unit
  <1>4. CASE data[i] \in Ascii
    <2>1. w = 1 /\ data[i] \notin Cont
      BY <1>2, <1>4 DEF Expected, Ascii, Cont
    <2>2. (i + 1)..(i + w - 1) = {}
      BY <2>1
    <2> QED BY <1>2, <1>3, <2>1, <2>2
  <1>5. CASE data[i] \notin Ascii
    BY <1>1, <1>2, <1>3, <1>5 DEF Valid
  <1> QED BY <1>4, <1>5

\* Of any UTF-8 text that was cut in a character the trimmed file has all whole
\* characters and nothing else (trimIncompleteTail, src/src/paging.ts:438).
THEOREM Trims ==
    ASSUME NEW data \in Seq(Bytes)
    PROVE  TrimmedExactly(data)
  <1>1. PICK start \in 0..Len(data) : start = DataStart(data)
    BY Start
  <1>2. PICK last \in start..Len(data) : last = Len(data)
    <2>1. Len(data) \in start..Len(data)
      BY <1>1
    <2> QED BY <2>1
  <1>3. PICK us : us = Units(Part(data, start, last), "utf8", FALSE)
    OBVIOUS
  <1>4. Decodes(us, data, "utf8", start, last, FALSE)
    BY <1>3, PartUnits
  <1>5. /\ us \in Seq(UnitSet) /\ Len(us) \in Nat /\ Size(us) \in Nat /\ start + Size(us) \in start..last
        /\ \E e : /\ Track(us, e, data, "utf8", last, FALSE) /\ e[0] = start
                  /\ e[Len(us)] = start + Size(us)
                  /\ Halts(data, "utf8", start + Size(us), last, FALSE)
    BY <1>4, DecodesSize
  <1>6. PICK x \in start..Len(data) : x = start + Size(us) /\ x \in 0..Len(data)
    BY <1>2, <1>5
  <1>7. PICK e : /\ Track(us, e, data, "utf8", last, FALSE) /\ e[0] = start
                 /\ e[Len(us)] = x /\ Halts(data, "utf8", x, last, FALSE)
    BY <1>5, <1>6
  <1>8. PICK size \in Nat : size = Len(data) /\ size = last
    BY <1>2
  <1>9. start \in Nat /\ x \in Nat /\ start <= x /\ x <= size
    BY <1>1, <1>6, <1>8
  <1>10. PICK cut : cut = Part(data, x, Len(data))
    OBVIOUS
  <1>11. /\ cut \in Seq(Bytes) /\ Len(cut) = size - x
         /\ \A i \in 1..(size - x) : cut[i] = data[x + i]
    <2>1. Len(data) \in x..Len(data)
      BY <1>8, <1>9
    <2> QED BY <1>6, <1>8, <1>10, <2>1, PartFacts
  <1> SUFFICES ASSUME \A unit \in ToSet(us) : unit.text # <<"replacement">>,
                      cut # <<>> => \A i \in 2..Len(cut) : cut[i] \in Cont
               PROVE  Trimmed(data, "utf8", start) = Part(data, 0, x)
    BY <1>1, <1>2, <1>3, <1>6, <1>10 DEF TrimmedExactly
  <1>12. \A n \in 1..Len(us) : us[n].text # <<"replacement">>
    <2>1. \A n \in 1..Len(us) : us[n] \in ToSet(us)
      BY <1>5 DEF ToSet
    <2> QED BY <2>1
  <1>13. CASE x < size
    <2>1. PICK w \in 1..3 : w = Expected(data[x + 1], "utf8")
      BY ExpectedType
    <2>2. x + w > size
      BY <1>7, <1>8, <1>9, <1>13, <2>1 DEF Halts
    <2>3. data[x + 1] \notin Cont
      BY <1>9, <1>13, <2>1, <2>2 DEF Expected, Cont, Ascii, Lead3
    <2>4. \A j \in (x + 2)..Len(data) : data[j] \in Cont
      <3>1. cut # <<>>
        BY <1>9, <1>11, <1>13
      <3> SUFFICES ASSUME NEW j \in (x + 2)..Len(data) PROVE data[j] \in Cont
        OBVIOUS
      <3>2. j - x \in 2..(size - x) /\ j - x \in 1..(size - x) /\ x + (j - x) = j
        BY <1>8, <1>9
      <3> QED BY <1>11, <3>1, <3>2
    <2>5. x < Len(data) /\ Len(data) - x <= 3 /\ w # Len(data) - x
      BY <1>8, <1>9, <1>13, <2>1, <2>2
    <2> QED BY <1>1, <1>6, <2>1, <2>3, <2>4, <2>5, TrimIs
  <1>14. CASE x = size /\ Len(us) = 0
    <2>1. x = start /\ size - start = 0 /\ size - 0 = size
      BY <1>7, <1>9, <1>14
    <2>2. Least(4, size - start) = 0
      BY <2>1 DEF Least
    <2>3. Len(Part(data, size - 0, size)) = 0
      BY <1>8 DEF Part
    <2>4. Trimmed(data, "utf8", start) = Part(data, 0, size - 0)
      BY <1>8, <2>1, <2>2, <2>3 DEF Trimmed
    <2> QED BY <1>14, <2>1, <2>4
  <1>15. CASE x = size /\ Len(us) # 0
    <2>1. PICK n \in 1..Len(us) : n = Len(us)
      BY <1>5, <1>15
    <2>2. PICK no \in BOOLEAN : no = FALSE /\ Track(us, e, data, "utf8", last, no)
      BY <1>7
    <2>3. last \in 0..Len(data)
      BY <1>2
    <2>4. /\ us[n].size \in 1..3 /\ us[n] = Unit(data, e[n - 1] + 1, "utf8")
          /\ e[n - 1] + 1 \in 1..Len(data) /\ e[n - 1] \in 0..Len(data)
          /\ e[n] = e[n - 1] + us[n].size
      BY <1>5, <2>2, <2>3, TrackStep
    <2>5. PICK y \in 0..Len(data), w \in 1..3 : y = e[n - 1] /\ w = us[n].size
      BY <2>4
    <2>6. x = y + w /\ y + 1 \in 1..Len(data) /\ us[n] = Unit(data, y + 1, "utf8")
      BY <1>7, <2>1, <2>4, <2>5
    <2>7. /\ w = Expected(data[y + 1], "utf8") /\ data[y + 1] \notin Cont
          /\ \A j \in ((y + 1) + 1)..((y + 1) + w - 1) : data[j] \in Cont
      <3>1. us[n].text # <<"replacement">>
        BY <1>12
      <3>2. Unit(data, y + 1, "utf8").text # <<"replacement">> /\ Unit(data, y + 1, "utf8").size = w
        BY <2>5, <2>6, <3>1
      <3>3. PICK i \in 1..Len(data) : i = y + 1
        BY <2>6
      <3>4. /\ Unit(data, i, "utf8").size = Expected(data[i], "utf8") /\ data[i] \notin Cont
            /\ \A j \in (i + 1)..(i + Expected(data[i], "utf8") - 1) : data[j] \in Cont
        BY <3>2, <3>3, WholeCharacter
      <3> QED BY <3>2, <3>3, <3>4
    <2>8. y \in start..Len(data)
      <3>1. \A k \in 0..Len(us) : e[k] \in Nat
        BY <1>5, <2>2, <2>3, TrackEnds
      <3>2. 0 \in 0..Len(us) /\ n - 1 \in 0..Len(us) /\ n - 1 \in Nat
        BY <1>5, <2>1
      <3>3. e[0] + ((n - 1) - 0) <= e[n - 1]
        BY <1>5, <2>2, <2>3, <3>2, TrackRises
      <3>4. start <= y
        BY <1>7, <1>9, <2>5, <3>2, <3>3
      <3> QED BY <1>9, <2>5, <3>4
    <2>9. y < Len(data) /\ Len(data) - y <= 3 /\ w = Len(data) - y
          /\ (y + 1) + 1 = y + 2 /\ (y + 1) + w - 1 = Len(data)
      <3>1. PICK v \in 1..3, z \in Nat : v = w /\ z = y
        BY <2>5
      <3>2. size = z + v /\ size = Len(data)
        BY <1>8, <1>15, <2>6, <3>1
      <3>3. z < size /\ size - z <= 3 /\ v = size - z /\ (z + 1) + 1 = z + 2 /\ (z + 1) + v - 1 = size
        BY <3>1, <3>2
      <3> QED BY <3>1, <3>2, <3>3
    <2>10. \A j \in (y + 2)..Len(data) : data[j] \in Cont
      BY <2>7, <2>9
    <2> QED BY <1>1, <1>8, <1>15, <2>7, <2>8, <2>9, <2>10, TrimIs
  <1> QED BY <1>9, <1>13, <1>14, <1>15

\* The first n of some files, one after the other.
Joins(ss, n) ==
    {g \in [1..n -> Seq(Bytes)] : \A i \in 1..n : g[i] = IF i = 1 THEN ss[i] ELSE g[i - 1] \o ss[i]}

LEMMA JoinsExist ==
    ASSUME NEW ss \in Seq(Seq(Bytes)), Len(ss) > 0
    PROVE  Joins(ss, Len(ss)) # {}
  <1> DEFINE T == {n \in Nat : n > 0 /\ n <= Len(ss) => Joins(ss, n) # {}}
  <1>1. \A n \in 1..Len(ss) : ss[n] \in Seq(Bytes)
    OBVIOUS
  <1>2. ASSUME NEW n \in Nat, n > 0 => n \in T PROVE n + 1 \in T
    <2> SUFFICES ASSUME n + 1 <= Len(ss) PROVE Joins(ss, n + 1) # {}
      OBVIOUS
    <2>1. CASE n = 0
      <3>1. [i \in 1..1 |-> ss[1]] \in Joins(ss, 1)
        <4>1. ss[1] \in Seq(Bytes)
          OBVIOUS
        <4> QED BY <4>1 DEF Joins
      <3> HIDE DEF T
      <3>2. n + 1 = 1
        BY <2>1
      <3> QED BY <3>1, <3>2
    <2>2. CASE n > 0
      <3>1. n + 1 \in 1..Len(ss) /\ n \in 1..Len(ss)
        BY <2>2
      <3>2. PICK g : g \in Joins(ss, n)
        BY <1>2, <2>2, <3>1
      <3> HIDE DEF T
      <3> DEFINE last == g[n] \o ss[n + 1]
                 h    == [i \in 1..(n + 1) |-> IF i = n + 1 THEN last ELSE g[i]]
      <3>3. g \in [1..n -> Seq(Bytes)] /\ \A i \in 1..n : g[i] = IF i = 1 THEN ss[i] ELSE g[i - 1] \o ss[i]
        BY <3>2 DEF Joins
      <3>4. last \in Seq(Bytes)
        <4>1. g[n] \in Seq(Bytes) /\ ss[n + 1] \in Seq(Bytes)
          BY <2>2, <3>1, <3>3
        <4> QED BY <4>1
      <3>5. h \in [1..(n + 1) -> Seq(Bytes)]
        <4> HIDE DEF last
        <4> QED BY <3>3, <3>4
      <3>6. ASSUME NEW i \in 1..(n + 1)
            PROVE  h[i] = IF i = 1 THEN ss[i] ELSE h[i - 1] \o ss[i]
        <4>1. CASE i = n + 1
          <5>1. i # 1 /\ i - 1 = n /\ n \in 1..(n + 1) /\ n # n + 1
            BY <2>2, <4>1
          <5>2. h[i] = last /\ h[i - 1] = g[n]
            BY <4>1, <5>1
          <5> HIDE DEF h
          <5> QED BY <4>1, <5>1, <5>2
        <4>2. CASE i # n + 1
          <5>1. i \in 1..n /\ h[i] = g[i] /\ (i # 1 => h[i - 1] = g[i - 1])
            BY <4>2
          <5> HIDE DEF h
          <5> QED BY <3>3, <5>1
        <4> QED BY <4>1, <4>2
      <3>7. h \in Joins(ss, n + 1)
        <4> HIDE DEF h
        <4> QED BY <3>5, <3>6 DEF Joins
      <3> QED BY <3>7
    <2> QED BY <2>1, <2>2
  <1>3. T = Nat
    <2>1. 0 \in T
      OBVIOUS
    <2>2. \A n \in T : n + 1 \in T
      <3> HIDE DEF T
      <3>1. \A n \in T : n \in Nat
        BY DEF T
      <3> QED BY <1>2, <3>1
    <2>3. T \in SUBSET Nat
      OBVIOUS
    <2> HIDE DEF T
    <2> QED BY <2>1, <2>2, <2>3, SetInduction
  <1>4. Len(ss) \in Nat
    OBVIOUS
  <1> QED BY <1>3, <1>4

LEMMA FlattenType ==
    ASSUME NEW ss \in Seq(Seq(Bytes)), Len(ss) > 0
    PROVE  FlattenSeq(ss) \in Seq(Bytes)
  <1> DEFINE Eq(u) == u = [i \in 1..Len(ss) |-> IF i = 1 THEN ss[i] ELSE u[i - 1] \o ss[i]]
             flatten == CHOOSE u : Eq(u)
             T == {n \in Nat : n > 0 /\ n <= Len(ss) => flatten[n] \in Seq(Bytes)}
  <1>1. PICK g : g \in Joins(ss, Len(ss))
    BY JoinsExist
  <1>2. Eq(g)
    <2>1. g = [i \in 1..Len(ss) |-> g[i]]
      BY <1>1 DEF Joins
    <2>2. \A i \in 1..Len(ss) : g[i] = IF i = 1 THEN ss[i] ELSE g[i - 1] \o ss[i]
      BY <1>1 DEF Joins
    <2> QED BY <2>1, <2>2, Zenon
  <1>3. Eq(flatten)
    BY <1>2
  <1>4. FlattenSeq(ss) = flatten[Len(ss)]
    BY DEF FlattenSeq
  <1> HIDE DEF flatten
  <1>6. \A i \in 1..Len(ss) : flatten[i] = IF i = 1 THEN ss[i] ELSE flatten[i - 1] \o ss[i]
    BY <1>3, Zenon
  <1>7. ASSUME NEW n \in Nat, n > 0 => n \in T PROVE n + 1 \in T
    <2> SUFFICES ASSUME n + 1 <= Len(ss) PROVE flatten[n + 1] \in Seq(Bytes)
      OBVIOUS
    <2>1. n + 1 \in 1..Len(ss) /\ (n + 1) - 1 = n
      OBVIOUS
    <2>2. ss[n + 1] \in Seq(Bytes)
      BY <2>1
    <2>3. CASE n = 0
      <3> HIDE DEF T
      <3> QED BY <1>6, <2>1, <2>2, <2>3
    <2>4. CASE n > 0
      <3>1. flatten[n] \in Seq(Bytes)
        BY <1>7, <2>1, <2>4
      <3> HIDE DEF T
      <3>2. n + 1 # 1
        BY <2>4
      <3>3. flatten[n + 1] = flatten[(n + 1) - 1] \o ss[n + 1]
        BY <1>6, <2>1, <3>2, Zenon
      <3>4. flatten[n] \o ss[n + 1] \in Seq(Bytes)
        BY <2>2, <3>1
      <3> QED BY <2>1, <3>3, <3>4
    <2> QED BY <2>3, <2>4
  <1>8. T = Nat
    <2>1. 0 \in T
      OBVIOUS
    <2>2. \A n \in T : n + 1 \in T
      <3> HIDE DEF T
      <3>1. \A n \in T : n \in Nat
        BY DEF T
      <3> QED BY <1>7, <3>1
    <2>3. T \in SUBSET Nat
      OBVIOUS
    <2> HIDE DEF T
    <2> QED BY <2>1, <2>2, <2>3, SetInduction
  <1>9. Len(ss) \in Nat
    OBVIOUS
  <1> QED BY <1>4, <1>8, <1>9

LEMMA FileType ==
    ASSUME NEW output \in [1..Chunks -> Seq(Bytes)], NEW held
    PROVE  FileOf(output, held) \in Seq(Bytes)
  <1> DEFINE ss == [k \in 1..Chunks |-> IF k \in held THEN output[k] ELSE <<>>]
  <1>1. Chunks \in Nat /\ Chunks > 0
    BY PageStoreAssumption
  <1>2. ss \in [1..Chunks -> Seq(Bytes)]
    <2>1. <<>> \in Seq(Bytes)
      OBVIOUS
    <2> QED BY <2>1
  <1>3. ss \in Seq(Seq(Bytes)) /\ Len(ss) > 0
    <2> HIDE DEF ss
    <2> QED BY <1>1, <1>2
  <1>4. FlattenSeq(ss) \in Seq(Bytes)
    <2> HIDE DEF ss
    <2> QED BY <1>3, FlattenType
  <1> QED BY <1>4 DEF FileOf

\* As many chunks as were accepted show what was accepted.
LEMMA WholeIsExact ==
    ASSUME NEW n \in 1..Chunks
    PROVE  <<1..n, n>> \in Exact
  <1>1. Chunks \in Nat /\ Outputs \subseteq [1..Chunks -> Seq(Bytes)] /\ PageSizes \subseteq Nat \ {0}
    BY PageStoreAssumption
  <1>2. 1..n \in SUBSET (1..Chunks)
    BY <1>1
  <1>3. PICK pair : pair = <<1..n, n>>
    OBVIOUS
  <1>4. pair[1] = 1..n /\ pair[2] = n
    BY <1>3
  <1>5. pair \in {<<held, k>> : held \in SUBSET (1..Chunks), k \in 1..Chunks}
    BY <1>2, <1>3
  <1>6. ASSUME NEW output \in Outputs
        PROVE  LET file == FileOf(output, pair[1])
                   text == FileOf(output, 1..pair[2])
               IN /\ \A windows \in BOOLEAN, size \in PageSizes : ShowsExactly(file, text, windows, size)
                  /\ TrimmedExactly(file)
    <2>1. PICK file \in Seq(Bytes) : file = FileOf(output, 1..n)
      BY <1>1, FileType
    <2>2. \A windows \in BOOLEAN, size \in PageSizes : ShowsExactly(file, file, windows, size)
      BY <1>1, <2>1, PagesShow
    <2>3. TrimmedExactly(file)
      BY <2>1, Trims
    <2> QED BY <1>4, <2>1, <2>2, <2>3
  <1> QED BY <1>3, <1>5, <1>6 DEF Exact

\* The pages whose id was told show all the output the writer accepted, character
\* by character, but for pages whose staging directory was cleaned up under them:
\* for every output, every page size, and every length of chunk and stride
\* (PagesExact, src/src/paging.ts:516).
THEOREM PagesShowExactly == Spec => []PagesExact
  <1>1. Inv => PagesExact
    <2> SUFFICES ASSUME Inv, NEW d \in Dirs \ raided, Announced(d)
                 PROVE  <<content[d], queued[d]>> \in Exact
      BY DEF PagesExact
    <2>1. content[d] = indexed[d] /\ indexed[d] # {} /\ indexed[d] = 1..queued[d]
      BY DEF Inv, PageInv, Held, Announced
    <2>2. queued[d] \in 0..Chunks /\ Chunks \in Nat
      BY PageStoreAssumption DEF Inv, TypeOK
    <2>3. queued[d] \in 1..Chunks
      BY <2>1, <2>2
    <2> QED BY <2>1, <2>3, WholeIsExact
  <1> QED BY <1>1, InvHolds, PTL
===============================================================================
