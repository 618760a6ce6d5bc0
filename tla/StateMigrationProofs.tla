------------------------ MODULE StateMigrationProofs ------------------------
(***************************************************************************)
(* Proofs about StateMigration, for every number of starts, of lines and   *)
(* of faults.                                                              *)
(*                                                                         *)
(* The lock is that of LockLease, and every step of a start that waits for *)
(* it, gets it or gives it up is a step there: its invariant holds here as *)
(* it stands. While nobody but one has taken a lock over, one start alone  *)
(* is inside, so what it has seen still holds when it acts on it: for the  *)
(* session, because the servers that may write the new one have started    *)
(* only after the old one was gone or the new one there; for the trails,   *)
(* because the lines that are appended meanwhile are in what it will read  *)
(* or compare, or are counted as unguarded.                                *)
(***************************************************************************)
EXTENDS StateMigration, WellFoundedInduction, TLAPS

LP == INSTANCE LockLeaseProofs

-----------------------------------------------------------------------------
(* The lock and the sessions.                                              *)

\* The steps of the lock that a start takes: there are no heartbeats.
LockStep(c) ==
  \/ LP!Start(c) \/ LP!Read(c) \/ LP!Create(c) \/ LP!Fill(c) \/ LP!Replace(c)
  \/ LP!Retry(c) \/ LP!Verify(c) \/ LP!Remove(c) \/ LP!Finish(c) \/ LP!TimesOut(c)
  \/ LP!Crash(c) \/ LP!FillFails(c) \/ LP!RenameFails(c) \/ LP!RemoveFails(c)

Outside == {"idle", "read", "create", "fill", "replace", "wait"}

Typed ==
  /\ {oldSession, session} \subseteq Sessions /\ taken \in [Callers -> Sessions]
  /\ step \in [Callers -> Steps] /\ outcome \in [Callers -> {"none", "migrated", "failed"}]
  /\ {inherited, overwritten, recreated} \subseteq BOOLEAN

\* Before a start has the lock it has done nothing.
Fresh(c) == pc[c] \in Outside => step[c] = "session" /\ outcome[c] = "none"

Settled == oldSession = None \/ session # None

\* Callers that are about to write the old session where they have found no other.
Moving(c) == Running(c) /\ step[c] \in {"session-read", "session-checked"}

\* Where a start is tells what it has found or made of the sessions.
Progress(c) ==
  /\ SeenSessions(c) => (Settled \/ recreated) /\ (inherited => session # None)
  /\ Moving(c) \/ (Running(c) /\ step[c] = "session-renamed") => taken[c] # None
  /\ Moving(c) /\ OneTakeover /\ ~recreated =>
       session = None /\ \A d \in Callers : outcome[d] # "migrated"

Inv ==
  /\ LP!Inv /\ Typed
  /\ \A c \in Callers : Fresh(c) /\ Progress(c)
  /\ NewSessionKept
  /\ inherited => oldSession # None \/ session # None

(* The options of the migration lock are some that LockLease allows.       *)
LEMMA Assumed == LP!ConstantsAssumption
  BY MigrationAssumption

(* While at most one lock has been taken over, one start alone is inside.  *)
LEMMA OneInside ==
  ASSUME Inv, OneTakeover, NEW c \in Callers, NEW d \in Callers, Running(c), Running(d)
  PROVE  c = d
  BY LP!OwnerIsOne, MigrationAssumption DEF Inv, LP!Inv, LP!OneTaker, LP!Owning,
     LP!Locked, OneTakeover, Running

\* What such a step does to the start: nothing, or it dies.
Lives(c) ==
  \/ UNCHANGED <<step, taken, read>>
  \/ Goto(c, "end") /\ Forgets(c) /\ pc'[c] = "dead"

(* Each step of the lock is one of LockLease.                              *)
LEMMA LockSteps ==
  ASSUME Inv, NEW c \in Callers, Locks(c) \/ LockFails(c) \/ Crashes(c) \/ Ends(c)
  PROVE  LockStep(c) /\ Lives(c) /\ UNCHANGED <<files, outcome, history>>
  <1> USE DEF Lease!Goto, LP!Goto, Lease!Acquired, LP!Acquired, Lease!Fault, LP!Fault,
          Lease!history, LP!history, Lease!leaseVars, LP!leaseVars, Lease!Ended, LP!Ended,
          Lease!Waiting, LP!Waiting, Lease!Lock, LP!Lock, Lease!Mine, LP!Mine
  <1>1. Lease!Start(c) => LP!Start(c)
    BY DEF Lease!Start, LP!Start
  <1>2. Lease!Read(c) => LP!Read(c)
    BY DEF Lease!Read, LP!Read, Lease!Stale, LP!Stale, Lease!Empty, LP!Empty
  <1>3. Lease!Create(c) => LP!Create(c)
    BY DEF Lease!Create, LP!Create
  <1>4. Lease!Fill(c) => LP!Fill(c)
    BY DEF Lease!Fill, LP!Fill
  <1>5. Lease!Replace(c) => LP!Replace(c)
    BY DEF Lease!Replace, LP!Replace
  <1>6. Lease!Retry(c) => LP!Retry(c)
    BY DEF Lease!Retry, LP!Retry
  <1>7. Lease!Verify(c) => LP!Verify(c)
    BY DEF Lease!Verify, LP!Verify
  <1>8. Lease!Remove(c) => LP!Remove(c)
    BY DEF Lease!Remove, LP!Remove
  <1>9. Lease!TimesOut(c) => LP!TimesOut(c)
    BY DEF Lease!TimesOut, LP!TimesOut
  <1>10. Lease!Crash(c) => LP!Crash(c)
    BY DEF Lease!Crash, LP!Crash
  <1>11. Lease!FillFails(c) => LP!FillFails(c)
    BY DEF Lease!FillFails, LP!FillFails
  <1>12. Lease!RenameFails(c) => LP!RenameFails(c)
    BY DEF Lease!RenameFails, LP!RenameFails
  <1>13. Lease!RemoveFails(c) => LP!RemoveFails(c)
    BY DEF Lease!RemoveFails, LP!RemoveFails
  <1>14. Lease!Finish(c) => LP!Finish(c)
    BY DEF Lease!Finish, LP!Finish
  <1>15. LockStep(c) /\ UNCHANGED <<files, outcome, history>>
    BY <1>1, <1>2, <1>3, <1>4, <1>5, <1>6, <1>7, <1>8, <1>9, <1>10, <1>11, <1>12,
       <1>13, <1>14 DEF LockStep, Locks, LockFails, Crashes, Ends
  <1>16. Crashes(c) => pc'[c] = "dead"
    BY DEF Crashes, Lease!Crash, Inv, LP!Inv, LP!TypeOK
  <1>17. Lives(c)
    BY <1>16 DEF Lives, Locks, LockFails, Crashes, Ends
  <1> QED BY <1>15, <1>17

(* What a step of the lock does to the starts.                             *)
LEMMA LockMoves ==
  ASSUME Inv, NEW c \in Callers, LockStep(c)
  PROVE  /\ \A d \in Callers : pc'[d] \in Outside => pc[d] \in Outside
         /\ \A d \in Callers : pc'[d] = "held" => pc[d] \in Outside \cup {"held"}
         /\ takers \subseteq takers'
  <1>1. pc \in [Callers -> LP!PCs]
    BY DEF Inv, LP!Inv, LP!TypeOK
  <1>2. pc[c] \in LP!PCs
    BY <1>1
  <1> QED BY <1>1 DEF LockStep, Outside, LP!Start, LP!Read, LP!Create, LP!Fill,
             LP!Replace, LP!Retry, LP!Verify, LP!Remove, LP!TimesOut, LP!Crash,
             LP!FillFails, LP!RenameFails, LP!RemoveFails, LP!Finish, LP!Goto,
             LP!Acquired, LP!Fault, LP!history

(* A step of the lock preserves the invariant of the lock.                 *)
LEMMA LockKept == ASSUME Inv, NEW c \in Callers, LockStep(c) PROVE LP!Inv'
  BY Assumed, LP!WaitsInv, LP!ReadInv, LP!CreateInv, LP!FillInv, LP!ReplaceInv,
     LP!FinishInv, LP!VerifyInv, LP!RemoveInv, LP!CrashInv, LP!FillFailsInv,
     LP!RenameFailsInv, LP!RemoveFailsInv DEF Inv, LockStep

LEMMA InitInv == Init => Inv
  <1> SUFFICES ASSUME Init PROVE Inv
    OBVIOUS
  <1>1. LP!Init
    BY DEF Init, Lease!Init, LP!Init
  <1>2. LP!Inv
    BY <1>1, Assumed, LP!InitInv
  <1>3. Typed
    BY DEF Init, Typed, Sessions, Steps
  <1>4. \A c \in Callers : Fresh(c) /\ Progress(c)
    BY DEF Init, Fresh, Progress, SeenSessions, Moving, Running
  <1>5. NewSessionKept /\ (inherited => oldSession # None \/ session # None)
    BY MigrationAssumption DEF Init, NewSessionKept
  <1> QED BY <1>2, <1>3, <1>4, <1>5 DEF Inv

LEMMA LockInv ==
  ASSUME Inv, NEW c \in Callers, Locks(c) \/ LockFails(c) \/ Crashes(c) \/ Ends(c)
  PROVE  Inv'
  <1>1. LockStep(c) /\ Lives(c) /\ UNCHANGED <<files, outcome, history>>
    BY LockSteps
  <1>2. LP!Inv'
    BY <1>1, LockKept
  <1>3. /\ \A d \in Callers : pc'[d] \in Outside => pc[d] \in Outside
        /\ \A d \in Callers : pc'[d] = "held" => pc[d] \in Outside \cup {"held"}
        /\ OneTakeover' => OneTakeover
    BY <1>1, LockMoves DEF OneTakeover
  <1> HIDE DEF Outside
  <1>5. Typed' /\ NewSessionKept' /\ (inherited => oldSession # None \/ session # None)'
    BY <1>1, <1>3 DEF Inv, Typed, Sessions, NewSessionKept, Lives, Goto, Forgets, Takes,
       Steps, files, history
  <1>6. ASSUME NEW d \in Callers, pc'[d] # "dead" PROVE step'[d] = step[d] /\ taken'[d] = taken[d]
    BY <1>1, <1>6 DEF Inv, Typed, Lives, Goto, Forgets, Takes
  <1>4. ASSUME NEW d \in Callers PROVE Fresh(d)' /\ Progress(d)'
    <2>1. pc'[d] \in Outside \/ pc'[d] = "held" => step'[d] = step[d] /\ taken'[d] = taken[d]
      BY <1>6 DEF Outside
    <2> QED BY <1>1, <1>3, <2>1 DEF Inv, Fresh, Progress, Running, SeenSessions, Moving,
               Settled, files, history
  <1> QED BY <1>2, <1>4, <1>5 DEF Inv

\* The steps of a start that is inside.
Inside(c) ==
  \/ LookAtSession(c) \/ CheckSession(c) \/ RenameSession(c) \/ UnlinkSession(c)
  \/ ReadTrail(c) \/ CheckTrail(c) \/ RenameTrail(c) \/ UnlinkTrail(c) \/ StepFails(c)

(* Nothing but the number of faults changes of the lock.                   *)
LEMMA LockStays ==
  ASSUME LP!Inv, faults' = faults \/ (faults < MaxFaults /\ faults' = faults + 1),
         UNCHANGED <<file, pc, prevFence, fence, beat, beatFence, judged, takers, abandoned>>
  PROVE  LP!Inv'
  BY Assumed DEF LP!Inv, LP!TypeOK, LP!Owned, LP!OneTaker, LP!Owns, LP!TakersHadIt,
     LP!Unclaimed, LP!NoTaker, LP!LeftBehind, LP!Authored, LP!Empty, LP!TakeoverOnlyOfAbandoned

LEMMA InsideInv == ASSUME Inv, NEW c \in Callers, Inside(c) PROVE Inv'
  <1>1. /\ Running(c) /\ Typed
        /\ UNCHANGED <<file, pc, prevFence, fence, beat, beatFence, judged, takers, abandoned>>
        /\ faults' = faults \/ (faults < MaxFaults /\ faults' = faults + 1)
    <2>1. CASE StepFails(c)
      BY <2>1 DEF Inv, StepFails
    <2>2. CASE ~StepFails(c)
      <3>1. Running(c) /\ UNCHANGED leaseVars
        BY <2>2 DEF Inside, LookAtSession, CheckSession, RenameSession, UnlinkSession,
           ReadTrail, CheckTrail, RenameTrail, UnlinkTrail
      <3> QED BY <3>1 DEF Inv, leaseVars
    <2> QED BY <2>1, <2>2
  <1>2. LP!Inv'
    BY <1>1, LockStays DEF Inv
  <1>3. \A d \in Callers : OneTakeover /\ Running(d) => d = c
    BY <1>1, OneInside
  <1>4. Typed'
    BY <1>1 DEF Typed, Sessions, Steps, Inside, Throws, Forgets, Takes, Goto, files, history, LookAtSession,
       CheckSession, RenameSession, UnlinkSession, ReadTrail, CheckTrail, RenameTrail,
       UnlinkTrail, StepFails
  <1>5. \A d \in Callers \ {c} : step'[d] = step[d] /\ outcome'[d] = outcome[d] /\ taken'[d] = taken[d]
    BY <1>1 DEF Typed, Inside, Throws, Forgets, Takes, Goto, LookAtSession, CheckSession, RenameSession,
       UnlinkSession, ReadTrail, CheckTrail, RenameTrail, UnlinkTrail, StepFails
  <1>6. /\ (Settled \/ recreated) => (Settled \/ recreated)'
        /\ session # None => session' # None
        /\ inherited' = inherited
        /\ ~recreated' => ~recreated
    <2>1. RenameSession(c) => taken[c] # None
      BY <1>1 DEF Inv, Progress, Moving, RenameSession
    <2> QED BY <2>1, MigrationAssumption DEF Settled, Inside, Throws, files, history,
               LookAtSession, CheckSession, RenameSession, UnlinkSession, ReadTrail, CheckTrail,
               RenameTrail, UnlinkTrail, StepFails
  <1>7. \A d \in Callers : Fresh(d)'
    BY <1>1, <1>5 DEF Inv, Fresh, Running, Outside
  <1>8. ASSUME NEW d \in Callers, d # c PROVE Progress(d)'
    <2>1. SeenSessions(d)' => SeenSessions(d)
      BY <1>1, <1>5, <1>8 DEF SeenSessions, Running
    <2>2. Running(d)' => Running(d) /\ step'[d] = step[d] /\ taken'[d] = taken[d]
      BY <1>1, <1>5, <1>8 DEF Running
    <2>3. OneTakeover' => OneTakeover /\ ~Running(d)'
      BY <1>1, <1>3, <1>8, <2>2 DEF OneTakeover
    <2>4. Progress(d)
      BY DEF Inv
    <2>5. SeenSessions(d)' => (Settled \/ recreated)' /\ (inherited' => session' # None)
      BY <1>6, <2>1, <2>4 DEF Progress
    <2>6. (Moving(d) \/ (Running(d) /\ step[d] = "session-renamed") => taken[d] # None)'
      BY <2>2, <2>4 DEF Progress, Moving
    <2> QED BY <2>3, <2>5, <2>6 DEF Progress, Moving
  <1>9. Progress(c)' /\ NewSessionKept' /\ (inherited => oldSession # None \/ session # None)'
    <2>1. /\ Fresh(c) /\ Progress(c) /\ NewSessionKept
          /\ (inherited => oldSession # None \/ session # None)
      BY DEF Inv
    <2> USE <1>1, <2>1, MigrationAssumption DEF Typed, Sessions, Steps, Progress, Running,
            SeenSessions, Moving, Settled, NewSessionKept, OneTakeover, Throws, Forgets,
            Takes, Goto, files, history
    <2>2. CASE LookAtSession(c)
      BY <2>2 DEF LookAtSession, Inv
    <2>3. CASE CheckSession(c)
      BY <2>3 DEF CheckSession
    <2>4. CASE RenameSession(c)
      BY <2>4 DEF RenameSession
    <2>5. CASE UnlinkSession(c)
      BY <2>5 DEF UnlinkSession
    <2>6. CASE ReadTrail(c) \/ CheckTrail(c) \/ RenameTrail(c) \/ UnlinkTrail(c)
      BY <2>6 DEF ReadTrail, CheckTrail, RenameTrail, UnlinkTrail
    <2>7. CASE StepFails(c)
      BY <2>7 DEF StepFails
    <2> QED BY <2>2, <2>3, <2>4, <2>5, <2>6, <2>7 DEF Inside
  <1> QED BY <1>2, <1>4, <1>7, <1>8, <1>9 DEF Inv

\* The servers that run, and the older version.
Outsider ==
  \/ \E c \in Callers : ServerSaves(c) \/ \E l \in NewLines : ServerAppends(c, l)
  \/ \E l \in OldLines : OlderAppends(l)
  \/ OlderSaves

LEMMA OutsiderInv == ASSUME Inv, Outsider PROVE Inv'
  <1> USE DEF Outsider, ServerSaves, ServerAppends, OlderAppends, OlderSaves
  <1>0. UNCHANGED <<leaseVars, step, taken, outcome, inherited, overwritten>>
    BY DEF history
  <1>1. LP!Inv'
    BY <1>0, LockStays DEF Inv, leaseVars
  <1>2. Typed'
    BY <1>0 DEF Inv, Typed, Sessions, history
  <1>3. /\ \A c \in Callers : (Running(c)' <=> Running(c)) /\ (SeenSessions(c)' <=> SeenSessions(c))
        /\ OneTakeover' <=> OneTakeover
        /\ session' = session \/ (session' = "new" /\ \E c \in Callers : outcome[c] = "migrated")
        /\ recreated => recreated'
        /\ oldSession' = oldSession \/ oldSession' = "resaved"
    <2>1. \A c \in Callers : (Running(c)' <=> Running(c)) /\ (SeenSessions(c)' <=> SeenSessions(c))
      BY <1>0 DEF Running, SeenSessions, leaseVars
    <2>2. OneTakeover' <=> OneTakeover
      BY <1>0 DEF OneTakeover, leaseVars
    <2>3. session' = session \/ (session' = "new" /\ \E c \in Callers : outcome[c] = "migrated")
      BY DEF Serves, history
    <2>4. recreated => recreated'
      BY DEF history
    <2>5. oldSession' = oldSession \/ oldSession' = "resaved"
      BY DEF history
    <2> QED BY <2>1, <2>2, <2>3, <2>4, <2>5
  <1>4. NewSessionKept' /\ (inherited => oldSession # None \/ session # None)'
    BY <1>0, <1>3, MigrationAssumption DEF Inv, NewSessionKept
  <1>5. ASSUME NEW c \in Callers PROVE Fresh(c)' /\ Progress(c)'
    <2>1. Fresh(c)'
      BY <1>0 DEF Inv, Fresh, leaseVars
    <2>2. Progress(c)
      BY DEF Inv
    <2>3. SeenSessions(c) => (Settled \/ recreated)'
      <3>1. CASE OlderSaves
        BY <2>2, <3>1 DEF Progress, Settled
      <3>2. CASE ~OlderSaves
        BY <1>3, <2>2, <3>2, MigrationAssumption DEF Progress, Settled, history
      <3> QED BY <3>1, <3>2
    <2>4. Moving(c)' <=> Moving(c)
      BY <1>0, <1>3 DEF Moving
    <2> QED BY <1>0, <1>3, <2>1, <2>2, <2>3, <2>4, MigrationAssumption DEF Progress
  <1> QED BY <1>1, <1>2, <1>4, <1>5 DEF Inv

LEMMA NextInv == Inv /\ [Next]_vars => Inv'
  <1> SUFFICES ASSUME Inv, [Next]_vars PROVE Inv'
    OBVIOUS
  <1>1. CASE Next
    BY <1>1, LockInv, InsideInv, OutsiderInv DEF Next, Inside, Outsider
  <1>2. CASE UNCHANGED vars
    <2>0. UNCHANGED leaseVars
      BY <1>2 DEF vars
    <2>1. LP!Inv'
      BY <2>0, LockStays DEF Inv, leaseVars
    <2> QED BY <1>2, <2>1 DEF Inv, Typed, Fresh, Progress, SeenSessions, Moving, Settled,
               Running, OneTakeover, NewSessionKept, vars, leaseVars, files, history
  <1> QED BY <1>1, <1>2

LEMMA InvHolds == Spec => []Inv
  BY InitInv, NextInv, PTL DEF Spec

-----------------------------------------------------------------------------
(* A session that the new version has saved is not replaced by the old     *)
(* one, while at most one lock has been taken over and no older server has *)
(* saved its session anew where a start had found none                     *)
(* (src/src/state-dir.ts:304).                                             *)
THEOREM NewSessionStays == Spec => []NewSessionKept
  <1>1. Inv => NewSessionKept
    BY DEF Inv
  <1> QED BY <1>1, InvHolds, PTL

(* While at most one lock has been taken over, one start alone is inside   *)
(* its transaction (withMigrationLock, src/src/state-dir.ts:232).          *)
OneMigrates == OneTakeover => \A c, d \in Callers : Running(c) /\ Running(d) => c = d

THEOREM StartsTakeTurns == Spec => []OneMigrates
  <1>1. Inv => OneMigrates
    BY OneInside DEF OneMigrates
  <1> QED BY <1>1, InvHolds, PTL
-----------------------------------------------------------------------------
(* Lines that are left out of a trail.                                     *)

LEMMA SetInduction ==
  ASSUME NEW T \in SUBSET Nat, 0 \in T, \A n \in T : n + 1 \in T
  PROVE  T = Nat
  <1> DEFINE R == {ss \in Nat \X Nat : ss[1] < ss[2]}
             U == Nat \ T
  <1>1. IsWellFoundedOn(R, Nat)
    BY NatLessThanWellFounded DEF OpToRel
  <1>2. SUFFICES ASSUME U # {} PROVE FALSE
    OBVIOUS
  <1>3. \E x \in U : \A y \in U : ~(<<y, x>> \in R)
    <2> HIDE DEF R
    <2> QED BY <1>1, <1>2, WFMin
  <1>4. PICK x \in U : \A y \in U : ~(y < x)
    BY <1>3
  <1>5. x # 0 /\ x - 1 \in Nat /\ x - 1 < x
    OBVIOUS
  <1>6. x - 1 \in T
    BY <1>4
  <1>7. (x - 1) + 1 \in T
    BY <1>6
  <1> QED BY <1>7

\* No line is twice in a trail, and old lines come before new ones.
Ordered(t) ==
  /\ \A i, j \in 1..Len(t) : i # j => t[i] # t[j]
  /\ \A i, j \in 1..Len(t) : (i < j /\ t[i] \in NewLines) => t[j] \in NewLines

\* What Without makes of t, line after line.
Sifts(t, others, S, n) ==
  {g \in [0..n -> Seq(S)] :
     /\ g[0] = <<>>
     /\ \A i \in 1..n : g[i] = IF t[i] \in others THEN g[i - 1] ELSE Append(g[i - 1], t[i])}

LEMMA SiftsExist ==
  ASSUME NEW S, NEW t \in Seq(S), NEW others
  PROVE  Sifts(t, others, S, Len(t)) # {}
  <1> DEFINE T == {n \in Nat : n <= Len(t) => Sifts(t, others, S, n) # {}}
  <1>1. 0 \in T
    <2>1. [i \in 0..0 |-> <<>>] \in Sifts(t, others, S, 0)
      OBVIOUS
    <2> QED BY <2>1
  <1>2. ASSUME NEW n \in T PROVE n + 1 \in T
    <2> SUFFICES ASSUME n + 1 <= Len(t) PROVE Sifts(t, others, S, n + 1) # {}
      OBVIOUS
    <2>1. PICK g : g \in Sifts(t, others, S, n)
      OBVIOUS
    <2> DEFINE last == IF t[n + 1] \in others THEN g[n] ELSE Append(g[n], t[n + 1])
               h    == [i \in 0..(n + 1) |-> IF i = n + 1 THEN last ELSE g[i]]
    <2>2. n + 1 \in 1..Len(t) /\ t[n + 1] \in S /\ g[n] \in Seq(S)
      BY <2>1 DEF Sifts
    <2>3. last \in Seq(S)
      BY <2>2
    <2>4. h \in [0..(n + 1) -> Seq(S)] /\ h[0] = <<>>
      <3> HIDE DEF last
      <3> QED BY <2>1, <2>3 DEF Sifts
    <2>5. ASSUME NEW i \in 1..(n + 1)
          PROVE  h[i] = IF t[i] \in others THEN h[i - 1] ELSE Append(h[i - 1], t[i])
      <3>1. CASE i = n + 1
        <4>1. h[i] = last /\ i - 1 = n /\ h[i - 1] = g[n]
          BY <3>1
        <4> QED OBVIOUS
      <3>2. CASE i # n + 1
        <4>1. i \in 1..n /\ h[i] = g[i] /\ h[i - 1] = g[i - 1]
          BY <3>2
        <4> HIDE DEF h
        <4> QED BY <2>1, <4>1 DEF Sifts
      <3> QED BY <3>1, <3>2
    <2>6. h \in Sifts(t, others, S, n + 1)
      <3> HIDE DEF h
      <3> QED BY <2>4, <2>5 DEF Sifts
    <2> QED BY <2>6
  <1>3. T = Nat
    <2> HIDE DEF T
    <2>1. T \in SUBSET Nat
      BY DEF T
    <2> QED BY <1>1, <1>2, <2>1, SetInduction
  <1> QED BY <1>3

LEMMA WithoutIsSifted ==
  ASSUME NEW S, NEW t \in Seq(S), NEW others
  PROVE  \E g \in Sifts(t, others, S, Len(t)) : Without(t, others) = g[Len(t)]
  <1> DEFINE Sift(i, before) == IF t[i] \in others THEN before ELSE Append(before, t[i])
             Eq(u) == u = [i \in 0..Len(t) |-> IF i = 0 THEN <<>>
                             ELSE IF t[i] \in others THEN u[i - 1] ELSE Append(u[i - 1], t[i])]
             upTo  == CHOOSE u : Eq(u)
             T     == {n \in Nat : n <= Len(t) => upTo[n] \in Seq(S)}
  <1>1. PICK g : g \in Sifts(t, others, S, Len(t))
    BY SiftsExist
  <1>2. Eq(g)
    <2>1. /\ g = [i \in 0..Len(t) |-> g[i]]
          /\ g[0] = <<>> /\ \A i \in 1..Len(t) : g[i] = Sift(i, g[i - 1])
      BY <1>1 DEF Sifts
    <2>2. \A i \in 0..Len(t) : i # 0 => i \in 1..Len(t)
      OBVIOUS
    <2> QED BY <2>1, <2>2, Zenon
  <1>3. Eq(upTo)
    BY <1>2
  <1>4. Without(t, others) = upTo[Len(t)]
    BY DEF Without
  <1> HIDE DEF upTo
  <1>5. upTo = [i \in 0..Len(t) |-> upTo[i]]
    BY <1>3, Zenon
  <1>6. upTo[0] = <<>> /\ \A i \in 1..Len(t) : upTo[i] = Sift(i, upTo[i - 1])
    <2>1. 0 \in 0..Len(t) /\ \A i \in 1..Len(t) : i \in 0..Len(t) /\ i # 0
      OBVIOUS
    <2> QED BY <1>3, <2>1, Zenon
  <1>7. 0 \in T
    <2>1. upTo[0] \in Seq(S)
      BY <1>6
    <2> HIDE DEF Sift
    <2> QED BY <2>1
  <1>8. ASSUME NEW n \in T PROVE n + 1 \in T
    <2> SUFFICES ASSUME n + 1 <= Len(t) PROVE upTo[n + 1] \in Seq(S)
      OBVIOUS
    <2>1. n + 1 \in 1..Len(t) /\ (n + 1) - 1 = n /\ t[n + 1] \in S /\ upTo[n] \in Seq(S)
      OBVIOUS
    <2>2. upTo[n + 1] = Sift(n + 1, upTo[n])
      BY <1>6
    <2> QED BY <2>2
  <1>9. T = Nat
    <2> HIDE DEF T
    <2>1. T \in SUBSET Nat
      BY DEF T
    <2> QED BY <1>7, <1>8, <2>1, SetInduction
  <1>10. \A i \in 0..Len(t) : upTo[i] \in Seq(S)
    BY <1>9
  <1>11. upTo \in Sifts(t, others, S, Len(t))
    BY <1>5, <1>6, <1>10
  <1> QED BY <1>4, <1>11

(* What is left of a trail is in it and in its order, and misses only what *)
(* was to be left out.                                                     *)
LEMMA WithoutIs ==
  ASSUME NEW S, NEW t \in Seq(S), NEW others, Ordered(t)
  PROVE  /\ Without(t, others) \in Seq(S)
         /\ Ordered(Without(t, others))
         /\ ToSet(Without(t, others)) = ToSet(t) \ others
  <1>1. PICK g \in Sifts(t, others, S, Len(t)) : Without(t, others) = g[Len(t)]
    BY WithoutIsSifted
  <1> DEFINE From(u, n) == \A i \in 1..Len(u) : \E j \in 1..n : u[i] = t[j] /\ t[j] \notin others
             All(u, n)  == \A j \in 1..n : t[j] \notin others => \E i \in 1..Len(u) : u[i] = t[j]
             T == {n \in Nat : n <= Len(t) => From(g[n], n) /\ All(g[n], n) /\ Ordered(g[n])}
  <1>2. 0 \in T
    BY DEF Sifts, Ordered
  <1>3. ASSUME NEW n \in T PROVE n + 1 \in T
    <2> SUFFICES ASSUME n + 1 <= Len(t)
                 PROVE  From(g[n + 1], n + 1) /\ All(g[n + 1], n + 1) /\ Ordered(g[n + 1])
      OBVIOUS
    <2>1. From(g[n], n) /\ All(g[n], n) /\ Ordered(g[n])
      <3> HIDE DEF From, All
      <3> QED OBVIOUS
    <2>2. /\ n + 1 \in 1..Len(t) /\ t[n + 1] \in S /\ g[n] \in Seq(S)
          /\ g[n + 1] = IF t[n + 1] \in others THEN g[n] ELSE Append(g[n], t[n + 1])
      <3>1. n + 1 \in 1..Len(t) /\ (n + 1) - 1 = n /\ n \in 0..Len(t)
        OBVIOUS
      <3> QED BY <1>1, <3>1 DEF Sifts
    <2>3. CASE t[n + 1] \in others
      BY <2>2, <2>3
    <2>4. CASE t[n + 1] \notin others
      <3> DEFINE u == g[n]
                 v == g[n + 1]
      <3>1. v = Append(u, t[n + 1]) /\ u \in Seq(S)
        BY <2>2, <2>4
      <3>2. PICK m \in Nat : m = Len(u)
        OBVIOUS
      <3> HIDE DEF u, v
      <3>3. Len(v) = m + 1 /\ v[m + 1] = t[n + 1] /\ \A i \in 1..m : v[i] = u[i]
        BY <3>1, <3>2
      <3>4. From(u, n) /\ All(u, n) /\ Ordered(u)
        BY DEF u
      <3>5. From(v, n + 1)
        <4> SUFFICES ASSUME NEW i \in 1..(m + 1)
                     PROVE  \E j \in 1..(n + 1) : v[i] = t[j] /\ t[j] \notin others
          <5>1. Len(v) = m + 1
            BY <3>3
          <5> QED BY <5>1
        <4>1. CASE i = m + 1
          <5>1. n + 1 \in 1..(n + 1)
            OBVIOUS
          <5> QED BY <2>4, <3>3, <4>1, <5>1
        <4>2. CASE i \in 1..m
          <5>1. PICK j \in 1..n : u[i] = t[j] /\ t[j] \notin others
            BY <3>2, <3>4, <4>2
          <5> QED BY <3>3, <4>2, <5>1
        <4> QED BY <4>1, <4>2
      <3>6. All(v, n + 1)
        <4> SUFFICES ASSUME NEW j \in 1..(n + 1), t[j] \notin others
                     PROVE  \E i \in 1..(m + 1) : v[i] = t[j]
          <5>1. Len(v) = m + 1
            BY <3>3
          <5> QED BY <5>1
        <4>1. CASE j = n + 1
          BY <3>3, <4>1
        <4>2. CASE j \in 1..n
          <5>1. PICK i \in 1..m : u[i] = t[j]
            BY <3>2, <3>4, <4>2
          <5> QED BY <3>3, <5>1
        <4> QED BY <4>1, <4>2
      <3>7. ASSUME NEW i \in 1..m PROVE v[i] # t[n + 1] /\ (v[i] \in NewLines => t[n + 1] \in NewLines)
        <4>1. PICK j \in 1..n : u[i] = t[j]
          BY <3>2, <3>4
        <4>2. j \in 1..Len(t) /\ j < n + 1 /\ v[i] = t[j]
          BY <3>3, <4>1
        <4> QED BY <4>2 DEF Ordered
      <3>8. Ordered(v)
        <4>1. \A i, j \in 1..m : /\ i # j => v[i] # v[j]
                                 /\ (i < j /\ v[i] \in NewLines) => v[j] \in NewLines
          BY <3>2, <3>3, <3>4 DEF Ordered
        <4>2. \A i \in 1..(m + 1) : i # m + 1 => i \in 1..m
          OBVIOUS
        <4> QED BY <3>3, <3>7, <4>1 DEF Ordered
      <3> QED BY <3>5, <3>6, <3>8 DEF v
    <2> QED BY <2>3, <2>4
  <1>4. T = Nat
    <2> HIDE DEF T
    <2>1. T \in SUBSET Nat
      BY DEF T
    <2> QED BY <1>2, <1>3, <2>1, SetInduction
  <1>5. Len(t) \in T
    <2> HIDE DEF T
    <2> QED BY <1>4
  <1> DEFINE w == g[Len(t)]
  <1>6. From(w, Len(t)) /\ All(w, Len(t)) /\ Ordered(w) /\ w \in Seq(S)
    <2>1. w \in Seq(S)
      BY DEF Sifts
    <2> HIDE DEF From, All
    <2> QED BY <1>5, <2>1
  <1> HIDE DEF w
  <1>7. ToSet(w) = ToSet(t) \ others
    <2>1. ASSUME NEW l \in ToSet(w) PROVE l \in ToSet(t) \ others
      <3>1. PICK i \in 1..Len(w) : l = w[i]
        BY <2>1 DEF ToSet
      <3>2. PICK j \in 1..Len(t) : l = t[j] /\ l \notin others
        BY <1>6, <3>1
      <3> QED BY <3>2 DEF ToSet
    <2>2. ASSUME NEW l \in ToSet(t) \ others PROVE l \in ToSet(w)
      <3>1. PICK j \in 1..Len(t) : l = t[j]
        BY DEF ToSet
      <3>2. PICK i \in 1..Len(w) : l = w[i]
        BY <1>6, <3>1
      <3> QED BY <3>2 DEF ToSet
    <2> QED BY <2>1, <2>2
  <1> QED BY <1>1, <1>6, <1>7 DEF w

-----------------------------------------------------------------------------
(* The trails.                                                             *)

\* One trail, and one of the older version alone.
InOrder(t) == t # None => t \in Seq(written) /\ Ordered(t)
OldOnly(t) == LinesOf(t) \cap NewLines = {}

\* The two trails, and what each start has read of them.
Trails ==
  /\ written \subseteq Lines /\ unguarded \subseteq written
  /\ InOrder(oldTrail) /\ OldOnly(oldTrail) /\ InOrder(trail)
  /\ read = [c \in Callers |-> [old |-> read[c].old, new |-> read[c].new]]
  /\ \A c \in Callers :
       InOrder(read[c].old) /\ OldOnly(read[c].old) /\ InOrder(read[c].new)

Merging == {"trail-read", "trail-checked", "trail-renamed"}

\* A start that is inside has read what it is going to replace or to remove.
Guarded(c) ==
  /\ (step[c] = "trail-read" /\ read[c].new = None) => LinesOf(trail) \subseteq unguarded
  /\ step[c] = "trail-checked" =>
       /\ LinesOf(oldTrail) \ unguarded \subseteq LinesOf(read[c].old)
       /\ LinesOf(trail) \ unguarded \subseteq LinesOf(read[c].new)
  /\ step[c] = "trail-renamed" => LinesOf(oldTrail) \ unguarded \subseteq LinesOf(trail)

Kept ==
  /\ Trails
  /\ \A c \in Callers : Running(c) /\ step[c] \in Merging => read[c].old # None
  /\ OneTakeover => \A c \in Callers : Running(c) => Guarded(c)
  /\ NoLineLost

LEMMA NoneIsNoTrail == ASSUME NEW S \in SUBSET Lines, NEW t \in Seq(S) PROVE t # None
  <1>1. t \in Seq(Lines)
    OBVIOUS
  <1> QED BY MigrationAssumption

LEMMA MergedIs ==
  ASSUME NEW S \in SUBSET Lines, NEW old \in Seq(S), Ordered(old), OldOnly(old),
         NEW new, new # None => new \in Seq(S) /\ Ordered(new)
  PROVE  /\ Merged(old, new) \in Seq(S) /\ Merged(old, new) # None
         /\ Ordered(Merged(old, new))
         /\ LinesOf(Merged(old, new)) = LinesOf(old) \cup LinesOf(new)
  <1>1. old # None /\ LinesOf(old) = ToSet(old)
    BY NoneIsNoTrail DEF LinesOf
  <1>2. CASE new = None
    BY <1>1, <1>2 DEF Merged, LinesOf
  <1>3. CASE new # None
    <2> DEFINE w == Without(new, ToSet(old))
               m == old \o w
    <2>1. w \in Seq(S) /\ Ordered(w) /\ ToSet(w) = ToSet(new) \ ToSet(old)
      BY <1>3, WithoutIs
    <2>2. Merged(old, new) = m
      BY <1>3 DEF Merged
    <2> HIDE DEF w
    <2>3. m \in Seq(S)
      BY <2>1
    <2>4. PICK k \in Nat, n \in Nat : k = Len(old) /\ n = Len(w)
      OBVIOUS
    <2>5. /\ Len(m) = k + n
          /\ \A i \in 1..k : m[i] = old[i] /\ m[i] \in ToSet(old) /\ m[i] \notin NewLines
          /\ \A i \in (k + 1)..(k + n) : m[i] = w[i - k] /\ i - k \in 1..n /\ m[i] \in ToSet(w)
      <3>1. Len(m) = k + n
        BY <2>4
      <3>2. ASSUME NEW i \in 1..k PROVE m[i] = old[i] /\ m[i] \in ToSet(old) /\ m[i] \notin NewLines
        <4>1. i \in DOMAIN old /\ m[i] = old[i]
          BY <2>4
        <4> QED BY <1>1, <4>1 DEF ToSet, OldOnly
      <3>3. ASSUME NEW i \in (k + 1)..(k + n) PROVE m[i] = w[i - k] /\ i - k \in 1..n /\ m[i] \in ToSet(w)
        <4>1. i - k \in 1..n /\ i - k \in DOMAIN w /\ m[i] = w[i - k]
          BY <2>4
        <4> QED BY <4>1 DEF ToSet
      <3> QED BY <3>1, <3>2, <3>3
    <2>10. DOMAIN m = 1..(k + n)
      BY <2>5
    <2> HIDE DEF m
    <2>6. \A i \in 1..(k + n) : i \in 1..k \/ i \in (k + 1)..(k + n)
      OBVIOUS
    <2>7. Ordered(m)
      <3>1. ASSUME NEW i \in 1..(k + n), NEW j \in 1..(k + n), i # j PROVE m[i] # m[j]
        <4>1. CASE i \in 1..k /\ j \in 1..k
          BY <2>4, <2>5, <3>1, <4>1 DEF Ordered
        <4>2. CASE i \in (k + 1)..(k + n) /\ j \in (k + 1)..(k + n)
          <5>1. i - k # j - k /\ i - k \in 1..n /\ j - k \in 1..n
            BY <3>1, <4>2
          <5>2. w[i - k] # w[j - k]
            BY <2>1, <2>4, <5>1 DEF Ordered
          <5> QED BY <2>5, <4>2, <5>2
        <4>3. CASE (i \in 1..k /\ j \in (k + 1)..(k + n)) \/ (j \in 1..k /\ i \in (k + 1)..(k + n))
          <5>1. ToSet(old) \cap ToSet(w) = {}
            BY <2>1
          <5> QED BY <2>5, <4>3, <5>1
        <4> QED BY <2>6, <4>1, <4>2, <4>3
      <3>2. ASSUME NEW i \in 1..(k + n), NEW j \in 1..(k + n), i < j, m[i] \in NewLines
            PROVE  m[j] \in NewLines
        <4>1. i \in (k + 1)..(k + n) /\ j \in (k + 1)..(k + n)
          BY <2>5, <3>2
        <4>2. i - k < j - k /\ i - k \in 1..n /\ j - k \in 1..n
          BY <3>2, <4>1
        <4>3. w[i - k] \in NewLines
          BY <2>5, <3>2, <4>1
        <4>4. w[j - k] \in NewLines
          BY <2>1, <2>4, <4>2, <4>3 DEF Ordered
        <4> QED BY <2>5, <4>1, <4>4
      <3> QED BY <2>5, <3>1, <3>2 DEF Ordered
    <2>8. ToSet(m) = ToSet(old) \cup ToSet(new)
      <3>1. ASSUME NEW l \in ToSet(m) PROVE l \in ToSet(old) \cup ToSet(w)
        <4>1. PICK i \in 1..(k + n) : l = m[i]
          BY <2>5 DEF ToSet
        <4> QED BY <2>5, <4>1
      <3>2. ASSUME NEW l \in ToSet(old) PROVE l \in ToSet(m)
        <4>1. PICK i \in 1..k : l = old[i]
          BY <2>4 DEF ToSet
        <4>2. i \in 1..(k + n) /\ l = m[i]
          BY <2>5, <4>1
        <4> QED BY <2>10, <4>2 DEF ToSet
      <3>3. ASSUME NEW l \in ToSet(w) PROVE l \in ToSet(m)
        <4>1. PICK i \in 1..n : l = w[i]
          BY <2>4 DEF ToSet
        <4>2. k + i \in (k + 1)..(k + n) /\ (k + i) - k = i
          OBVIOUS
        <4>3. k + i \in 1..(k + n) /\ l = m[k + i]
          BY <2>5, <4>1
        <4> QED BY <2>10, <4>3 DEF ToSet
      <3> QED BY <2>1, <3>1, <3>2, <3>3
    <2>9. m # None
      BY <2>3, NoneIsNoTrail
    <2> QED BY <1>1, <1>3, <2>2, <2>3, <2>7, <2>8, <2>9 DEF LinesOf
  <1> QED BY <1>2, <1>3

LEMMA ExtendedIs ==
  ASSUME NEW S \in SUBSET Lines, NEW l \in Lines \ S,
         NEW t, t # None => t \in Seq(S) /\ Ordered(t), l \in NewLines \/ OldOnly(t)
  PROVE  /\ Extended(t, l) \in Seq(S \cup {l}) /\ Extended(t, l) # None
         /\ Ordered(Extended(t, l))
         /\ LinesOf(Extended(t, l)) = LinesOf(t) \cup {l}
  <1> DEFINE e == Extended(t, l)
  <1>1. CASE t = None
    <2>1. e = <<l>>
      BY <1>1 DEF Extended
    <2>2. e \in Seq(S \cup {l}) /\ Len(e) = 1 /\ e[1] = l /\ DOMAIN e = {1}
      BY <2>1
    <2>3. e # None
      BY <2>2, NoneIsNoTrail
    <2> HIDE DEF e
    <2>4. Ordered(e) /\ ToSet(e) = {l}
      BY <2>2 DEF Ordered, ToSet
    <2> QED BY <1>1, <2>2, <2>3, <2>4 DEF LinesOf, e
  <1>2. CASE t # None
    <2>1. e = Append(t, l) /\ t \in Seq(S) /\ Ordered(t)
      BY <1>2 DEF Extended
    <2>2. e \in Seq(S \cup {l})
      BY <2>1
    <2>3. e # None
      BY <2>2, NoneIsNoTrail
    <2>4. PICK n \in Nat : n = Len(t)
      BY <2>1
    <2>5. /\ Len(e) = n + 1 /\ e[n + 1] = l
          /\ \A i \in 1..n : e[i] = t[i] /\ e[i] \in ToSet(t) /\ e[i] # l
      BY <2>1, <2>4 DEF ToSet
    <2>6. DOMAIN e = 1..(n + 1) /\ DOMAIN t = 1..n
      BY <2>5, <2>1
    <2> HIDE DEF e
    <2>7. \A i \in 1..(n + 1) : i # n + 1 => i \in 1..n
      OBVIOUS
    <2>8. l \in NewLines \/ \A i \in 1..n : e[i] \notin NewLines
      BY <1>2, <2>5 DEF OldOnly, LinesOf
    <2>9. \A i, j \in 1..n : /\ i # j => e[i] # e[j]
                             /\ (i < j /\ e[i] \in NewLines) => e[j] \in NewLines
      BY <2>1, <2>5 DEF Ordered
    <2>10. Ordered(e)
      BY <2>5, <2>8, <2>9 DEF Ordered
    <2>11. ToSet(e) = ToSet(t) \cup {l}
      <3>1. ASSUME NEW x \in ToSet(e) PROVE x \in ToSet(t) \cup {l}
        BY <2>5 DEF ToSet
      <3>2. ASSUME NEW x \in ToSet(t) PROVE x \in ToSet(e)
        <4>1. PICK i \in 1..n : x = t[i]
          BY <2>6 DEF ToSet
        <4>2. i \in 1..(n + 1) /\ x = e[i]
          BY <2>5, <4>1
        <4> QED BY <2>6, <4>2 DEF ToSet
      <3>3. l \in ToSet(e)
        BY <2>5 DEF ToSet
      <3> QED BY <3>1, <3>2, <3>3
    <2> QED BY <1>2, <2>2, <2>3, <2>10, <2>11 DEF LinesOf, e
  <1> QED BY <1>1, <1>2

-----------------------------------------------------------------------------
(* The steps that the trails do not notice.                                *)
Reread == UNCHANGED read \/ \E c \in Callers : Reads(c, None, None)

LEMMA TrailsStand ==
  ASSUME Kept, UNCHANGED <<oldTrail, trail, written, unguarded>>, Reread,
         OneTakeover' => OneTakeover,
         \A c \in Callers : (Running(c)' /\ step'[c] \in Merging) =>
           (Running(c) /\ step'[c] = step[c] /\ read'[c] = read[c])
  PROVE  Kept'
  <1>1. Trails'
    <2>1. CASE UNCHANGED read
      BY <2>1 DEF Kept, Trails, InOrder
    <2>2. ASSUME NEW c \in Callers, Reads(c, None, None) PROVE Trails'
      <3>1. /\ read'[c] = [old |-> None, new |-> None]
            /\ \A d \in Callers \ {c} : read'[d] = read[d]
            /\ read' = [d \in Callers |-> [old |-> read'[d].old, new |-> read'[d].new]]
        BY <2>2 DEF Kept, Trails, Reads
      <3> QED BY <3>1 DEF Kept, Trails, InOrder, OldOnly, LinesOf
    <2> QED BY <2>1, <2>2 DEF Reread
  <1>2. \A c \in Callers : (Running(c)' /\ step'[c] \in Merging) => read'[c].old # None
    BY DEF Kept
  <1>3. OneTakeover' => \A c \in Callers : Running(c)' => Guarded(c)'
    BY DEF Kept, Guarded, Merging
  <1>4. NoLineLost'
    BY DEF Kept, NoLineLost, Present
  <1> QED BY <1>1, <1>3, <1>4 DEF Kept

LEMMA LockKeeps ==
  ASSUME Inv, Kept, NEW c \in Callers, Locks(c) \/ LockFails(c) \/ Crashes(c) \/ Ends(c)
  PROVE  Kept'
  <1>1. LockStep(c) /\ Lives(c) /\ UNCHANGED <<files, outcome, history>>
    BY LockSteps
  <1>2. /\ \A d \in Callers : pc'[d] = "held" => pc[d] \in Outside \cup {"held"}
        /\ OneTakeover' => OneTakeover
    BY <1>1, LockMoves DEF OneTakeover
  <1> HIDE DEF Outside
  <1>3. ASSUME NEW d \in Callers, Running(d)', step'[d] \in Merging
        PROVE  Running(d) /\ step'[d] = step[d] /\ read'[d] = read[d]
    <2>1. step'[d] = step[d] /\ read'[d] = read[d]
      BY <1>1, <1>3 DEF Inv, Typed, Kept, Trails, Lives, Goto, Forgets, Reads, Running
    <2> QED BY <1>1, <1>2, <1>3, <2>1 DEF Inv, Fresh, Running, Merging
  <1>4. Reread
    BY <1>1 DEF Reread, Lives, Forgets
  <1> QED BY <1>1, <1>2, <1>3, <1>4, TrailsStand DEF files, history

\* What a start that is inside does to its place and nothing else.
OnlyItsPlace(c) ==
  /\ UNCHANGED <<takers, pc>>
  /\ \A d \in Callers \ {c} : step'[d] = step[d] /\ outcome'[d] = outcome[d]

LEMMA InsideMoves == ASSUME Inv, NEW c \in Callers, Inside(c) PROVE Running(c) /\ OnlyItsPlace(c)
  <1>1. Typed
    BY DEF Inv
  <1> QED BY <1>1 DEF Typed, OnlyItsPlace, Inside, leaseVars, Throws, Goto,
             LookAtSession, CheckSession, RenameSession, UnlinkSession, ReadTrail,
             CheckTrail, RenameTrail, UnlinkTrail, StepFails

\* The steps of a start that leave the trails alone.
Aside(c) ==
  /\ UNCHANGED <<oldTrail, trail, written, unguarded>>
  /\ UNCHANGED read \/ Reads(c, None, None)
  /\ step'[c] \notin Merging

LEMMA AsideKeeps == ASSUME Inv, Kept, NEW c \in Callers, Inside(c), Aside(c) PROVE Kept'
  <1>1. Running(c) /\ OnlyItsPlace(c) /\ Reread
    BY InsideMoves DEF Aside, Reread
  <1>2. ASSUME NEW d \in Callers, Running(d)', step'[d] \in Merging
        PROVE  Running(d) /\ step'[d] = step[d] /\ read'[d] = read[d]
    <2>1. d # c
      BY <1>2 DEF Aside
    <2>2. read'[d] = read[d]
      BY <2>1 DEF Aside, Reads, Kept, Trails
    <2> QED BY <1>1, <1>2, <2>1, <2>2 DEF OnlyItsPlace, Running
  <1> QED BY <1>1, <1>2, TrailsStand DEF OnlyItsPlace, Aside, OneTakeover

LEMMA InsideKeeps == ASSUME Inv, Kept, NEW c \in Callers, Inside(c) PROVE Kept'
  <1>1. Running(c) /\ OnlyItsPlace(c) /\ Typed
    BY InsideMoves DEF Inv
  <1>2. SUFFICES ASSUME ~Aside(c) PROVE Kept'
    BY AsideKeeps
  <1>3. \A d \in Callers \ {c} : OneTakeover' => ~Running(d)'
    BY <1>1, OneInside DEF OnlyItsPlace, OneTakeover, Running
  <1>4. OneTakeover' <=> OneTakeover
    BY <1>1 DEF OnlyItsPlace, OneTakeover
  <1>5. Trails
    BY DEF Kept
  <1>6. /\ InOrder(oldTrail) /\ OldOnly(oldTrail) /\ InOrder(trail)
        /\ InOrder(read[c].old) /\ OldOnly(read[c].old) /\ InOrder(read[c].new)
    BY <1>5 DEF Trails
  <1>7. \A d \in Callers \ {c} : (Running(d)' /\ step'[d] \in Merging) => read[d].old # None
    BY <1>1 DEF Kept, OnlyItsPlace, Running
  <1>8. OneTakeover => Guarded(c) /\ written \ unguarded \subseteq Present
    BY <1>1 DEF Kept, NoLineLost
  <1>9. CASE ReadTrail(c)
    <2>1. /\ step[c] = "trail" /\ step'[c] = "trail-read" /\ oldTrail # None
          /\ read' = [read EXCEPT ![c] = [old |-> oldTrail, new |-> trail]]
          /\ UNCHANGED <<files, outcome, history>>
      BY <1>2, <1>9, <1>1 DEF ReadTrail, Reads, Aside, Merging, Throws, Forgets, Goto, files, history,
         Typed
    <2>2. /\ read'[c] = [old |-> oldTrail, new |-> trail]
          /\ read' = [d \in Callers |-> [old |-> read'[d].old, new |-> read'[d].new]]
          /\ \A d \in Callers \ {c} : read'[d] = read[d]
      BY <1>5, <2>1 DEF Trails
    <2>3. UNCHANGED <<oldTrail, trail, written, unguarded>>
      BY <2>1 DEF files, history
    <2>4. Trails'
      BY <1>5, <2>2, <2>3 DEF Trails, InOrder
    <2>5. \A d \in Callers : (Running(d)' /\ step'[d] \in Merging) => read'[d].old # None
      BY <1>7, <2>1, <2>2
    <2>6. Guarded(c)'
      BY <2>1, <2>2, <2>3 DEF Guarded, LinesOf
    <2>7. NoLineLost'
      BY <1>4, <1>8, <2>3 DEF NoLineLost, Present
    <2> QED BY <1>3, <2>4, <2>5, <2>6, <2>7 DEF Kept
  <1>10. CASE CheckTrail(c)
    <2>1. /\ step[c] = "trail-read" /\ step'[c] = "trail-checked"
          /\ oldTrail = read[c].old /\ (read[c].new # None => trail = read[c].new)
          /\ UNCHANGED <<files, read, outcome, history>>
      BY <1>2, <1>10, <1>1 DEF CheckTrail, Aside, Merging, Throws, Forgets, Goto, files, history,
         Typed
    <2>2. UNCHANGED <<oldTrail, trail, read, written, unguarded>>
      BY <2>1 DEF files, history
    <2>3. Trails'
      BY <1>5, <2>2 DEF Trails, InOrder
    <2>4. \A d \in Callers : (Running(d)' /\ step'[d] \in Merging) => read'[d].old # None
      BY <1>1, <1>7, <2>1 DEF Kept, Merging
    <2>5. OneTakeover => Guarded(c)'
      BY <1>8, <2>1, <2>2 DEF Guarded
    <2>6. NoLineLost'
      BY <1>4, <1>8, <2>2 DEF NoLineLost, Present
    <2> QED BY <1>3, <1>4, <2>3, <2>4, <2>5, <2>6 DEF Kept
  <1>11. CASE RenameTrail(c)
    <2> DEFINE m == Merged(read[c].old, read[c].new)
    <2>1. /\ step[c] = "trail-checked" /\ step'[c] = "trail-renamed" /\ trail' = m
          /\ UNCHANGED <<oldTrail, read, written, unguarded>>
      BY <1>11, <1>1 DEF RenameTrail, Goto, history, Typed
    <2>2. read[c].old # None
      BY <1>1, <2>1 DEF Kept, Merging
    <2>3. /\ m \in Seq(written) /\ m # None /\ Ordered(m)
          /\ LinesOf(m) = LinesOf(read[c].old) \cup LinesOf(read[c].new)
      <3>1. read[c].old \in Seq(written) /\ Ordered(read[c].old)
        BY <1>6, <2>2 DEF InOrder
      <3>2. read[c].new # None => read[c].new \in Seq(written) /\ Ordered(read[c].new)
        BY <1>6 DEF InOrder
      <3>3. written \in SUBSET Lines
        BY <1>5 DEF Trails
      <3> QED BY <1>6, <3>1, <3>2, <3>3, MergedIs
    <2> HIDE DEF m
    <2>4. Trails'
      <3>1. InOrder(trail)'
        BY <2>1, <2>3 DEF InOrder
      <3> QED BY <1>5, <2>1, <3>1 DEF Trails, InOrder
    <2>5. \A d \in Callers : (Running(d)' /\ step'[d] \in Merging) => read'[d].old # None
      BY <1>7, <2>1, <2>2
    <2>6. LinesOf(oldTrail)' = LinesOf(oldTrail) /\ LinesOf(trail)' = LinesOf(m)
      BY <2>1
    <2>7. OneTakeover => Guarded(c)'
      BY <1>8, <2>1, <2>3 DEF Guarded
    <2>8. NoLineLost'
      BY <1>4, <1>8, <2>1, <2>3 DEF NoLineLost, Present, Guarded
    <2> QED BY <1>3, <1>4, <2>4, <2>5, <2>7, <2>8 DEF Kept
  <1>12. CASE UnlinkTrail(c)
    <2>1. step[c] = "trail-renamed" /\ step'[c] = "end"
      BY <1>1, <1>12 DEF UnlinkTrail, Throws, Goto, Typed
    <2>2. oldTrail' = None /\ UNCHANGED <<trail, written, unguarded>> /\ Reads(c, None, None)
      BY <1>2, <1>12, <2>1 DEF UnlinkTrail, Aside, Merging, Throws, Forgets, files, history
    <2>8. /\ read'[c] = [old |-> None, new |-> None]
          /\ \A d \in Callers \ {c} : read'[d] = read[d]
          /\ read' = [d \in Callers |-> [old |-> read'[d].old, new |-> read'[d].new]]
      BY <1>5, <2>2 DEF Trails, Reads
    <2>3. Trails'
      BY <1>5, <2>2, <2>8 DEF Trails, InOrder, OldOnly, LinesOf
    <2>4. \A d \in Callers : (Running(d)' /\ step'[d] \in Merging) => read'[d].old # None
      BY <1>7, <2>1, <2>8 DEF Merging
    <2>5. Guarded(c)'
      BY <2>1 DEF Guarded
    <2>6. LinesOf(oldTrail)' = {} /\ LinesOf(trail)' = LinesOf(trail)
      BY <2>2 DEF LinesOf
    <2>7. NoLineLost'
      BY <1>4, <1>8, <2>1, <2>2 DEF NoLineLost, Present, Guarded
    <2> QED BY <1>3, <2>3, <2>4, <2>5, <2>7 DEF Kept
  <1>13. ~(LookAtSession(c) \/ CheckSession(c) \/ RenameSession(c) \/ UnlinkSession(c) \/ StepFails(c))
    BY <1>1, <1>2 DEF Aside, Merging, Throws, Forgets, Goto, Typed, files, history,
       LookAtSession, CheckSession, RenameSession, UnlinkSession, StepFails
  <1> QED BY <1>9, <1>10, <1>11, <1>12, <1>13 DEF Inside

\* What appending l leaves as it is.
Appends(l) ==
  /\ UNCHANGED <<pc, takers, step, read, outcome>>
  /\ l \notin written /\ written' = written \cup {l}
  /\ unguarded \subseteq unguarded' /\ unguarded' \subseteq unguarded \cup {l}

LEMMA AppendsKeepOrder ==
  ASSUME Kept, NEW l \in OldLines \cup NewLines, Appends(l),
         oldTrail' = oldTrail \/ (oldTrail' = Extended(oldTrail, l) /\ l \in OldLines),
         trail' = trail \/ (trail' = Extended(trail, l) /\ l \in NewLines)
  PROVE  /\ Trails'
         /\ oldTrail' # oldTrail => LinesOf(oldTrail)' = LinesOf(oldTrail) \cup {l}
         /\ trail' # trail => LinesOf(trail)' = LinesOf(trail) \cup {l}
  <1>1. Trails
    BY DEF Kept
  <1>2. written \in SUBSET Lines /\ l \in Lines \ written
    BY <1>1 DEF Trails, Lines, Appends
  <1>3. \A t : InOrder(t) /\ t # None => t \in Seq(written \cup {l}) /\ Ordered(t)
    BY DEF InOrder
  <1>4. /\ oldTrail' # None => oldTrail' \in Seq(written \cup {l}) /\ Ordered(oldTrail')
        /\ LinesOf(oldTrail') \cap NewLines = {}
        /\ oldTrail' # oldTrail => LinesOf(oldTrail') = LinesOf(oldTrail) \cup {l}
    <2>1. InOrder(oldTrail) /\ OldOnly(oldTrail)
      BY <1>1 DEF Trails
    <2>2. CASE oldTrail' = oldTrail
      BY <1>3, <2>1, <2>2 DEF OldOnly
    <2>3. CASE oldTrail' # oldTrail
      <3>1. oldTrail # None => oldTrail \in Seq(written) /\ Ordered(oldTrail)
        BY <2>1 DEF InOrder
      <3>2. l \notin NewLines
        BY <2>3, MigrationAssumption
      <3>3. /\ Extended(oldTrail, l) \in Seq(written \cup {l}) /\ Ordered(Extended(oldTrail, l))
            /\ LinesOf(Extended(oldTrail, l)) = LinesOf(oldTrail) \cup {l}
        BY <1>2, <2>1, <3>1, ExtendedIs
      <3>4. oldTrail' = Extended(oldTrail, l)
        BY <2>3
      <3> HIDE DEF Extended
      <3>5. LinesOf(oldTrail) \cap NewLines = {}
        BY <2>1 DEF OldOnly
      <3> QED BY <3>2, <3>3, <3>4, <3>5
    <2> QED BY <2>2, <2>3
  <1>5. /\ trail' # None => trail' \in Seq(written \cup {l}) /\ Ordered(trail')
        /\ trail' # trail => LinesOf(trail') = LinesOf(trail) \cup {l}
    <2>1. InOrder(trail)
      BY <1>1 DEF Trails
    <2>2. CASE trail' = trail
      BY <1>3, <2>1, <2>2
    <2>3. CASE trail' # trail
      <3>1. trail # None => trail \in Seq(written) /\ Ordered(trail)
        BY <2>1 DEF InOrder
      <3> QED BY <1>2, <2>1, <3>1, ExtendedIs
    <2> QED BY <2>2, <2>3
  <1>6. /\ LinesOf(oldTrail)' = LinesOf(oldTrail') /\ LinesOf(trail)' = LinesOf(trail')
        /\ Ordered(oldTrail)' = Ordered(oldTrail')
        /\ Ordered(trail)' = Ordered(trail')
    OBVIOUS
  <1>7. InOrder(oldTrail)' /\ OldOnly(oldTrail)' /\ InOrder(trail)'
    BY <1>4, <1>5 DEF InOrder, OldOnly, Appends
  <1>8. /\ written' \subseteq Lines /\ unguarded' \subseteq written'
        /\ read' = [c \in Callers |-> [old |-> read'[c].old, new |-> read'[c].new]]
    BY <1>1, <1>2 DEF Trails, Appends
  <1>9. ASSUME NEW c \in Callers
        PROVE  InOrder(read[c].old)' /\ OldOnly(read[c].old)' /\ InOrder(read[c].new)'
    <2>1. read'[c].old = read[c].old /\ read'[c].new = read[c].new
      BY DEF Appends
    <2>2. InOrder(read[c].old) /\ OldOnly(read[c].old) /\ InOrder(read[c].new)
      BY <1>1 DEF Trails
    <2> QED BY <2>2 DEF InOrder, Appends
  <1>10. Trails'
    BY <1>7, <1>8, <1>9 DEF Trails
  <1> QED BY <1>4, <1>5, <1>10

LEMMA ServerAppendsKeeps ==
  ASSUME Kept, NEW c \in Callers, NEW l \in NewLines, ServerAppends(c, l) PROVE Kept'
  <1>1. Appends(l) /\ oldTrail' = oldTrail /\ trail' = Extended(trail, l)
    BY DEF ServerAppends, Writes, Appends, leaseVars
  <1>2. Trails' /\ (trail' # trail => LinesOf(trail)' = LinesOf(trail) \cup {l})
    BY <1>1, AppendsKeepOrder
  <1>3. /\ LinesOf(oldTrail)' = LinesOf(oldTrail)
        /\ trail' = trail => LinesOf(trail)' = LinesOf(trail)
    BY <1>1
  <1>4. LinesOf(trail) \subseteq LinesOf(trail)' /\ LinesOf(trail)' \subseteq LinesOf(trail) \cup {l}
    BY <1>2
  <1>5. l \in LinesOf(trail)'
    <2>1. trail # None => trail \in Seq(written) /\ Ordered(trail)
      BY DEF Kept, Trails, InOrder
    <2>2. written \in SUBSET Lines /\ l \in Lines \ written
      BY <1>1 DEF Kept, Trails, Lines, Appends
    <2>3. LinesOf(Extended(trail, l)) = LinesOf(trail) \cup {l}
      BY <2>1, <2>2, ExtendedIs
    <2> QED BY <1>1, <2>3
  <1>6. ASSUME NEW d \in Callers, Running(d), OneTakeover PROVE Guarded(d)'
    <2>1. Guarded(d) /\ (ReplacesTrail(d) => l \in unguarded')
      BY <1>6 DEF Kept, ServerAppends, Writes
    <2> QED BY <1>1, <1>4, <1>6, <2>1 DEF Guarded, Appends, ReplacesTrail
  <1>7. OneTakeover' => \A d \in Callers : Running(d)' => Guarded(d)'
    BY <1>1, <1>6 DEF Appends, Running, OneTakeover
  <1>8. NoLineLost'
    BY <1>1, <1>4, <1>5 DEF Kept, NoLineLost, Present, Appends, OneTakeover
  <1>9. \A d \in Callers : Running(d)' /\ step'[d] \in Merging => read'[d].old # None
    BY <1>1 DEF Kept, Appends, Running
  <1> QED BY <1>2, <1>7, <1>8, <1>9 DEF Kept

LEMMA OlderAppendsKeeps == ASSUME Kept, NEW l \in OldLines, OlderAppends(l) PROVE Kept'
  <1>1. Appends(l) /\ oldTrail' = Extended(oldTrail, l) /\ trail' = trail
    BY DEF OlderAppends, Writes, Appends, leaseVars
  <1>2. Trails' /\ (oldTrail' # oldTrail => LinesOf(oldTrail)' = LinesOf(oldTrail) \cup {l})
    BY <1>1, AppendsKeepOrder
  <1>3. LinesOf(trail)' = LinesOf(trail) /\ (oldTrail' = oldTrail => LinesOf(oldTrail)' = LinesOf(oldTrail))
    BY <1>1
  <1>4. LinesOf(oldTrail) \subseteq LinesOf(oldTrail)' /\ LinesOf(oldTrail)' \subseteq LinesOf(oldTrail) \cup {l}
    BY <1>2
  <1>5. l \in LinesOf(oldTrail)'
    <2>1. (oldTrail # None => oldTrail \in Seq(written) /\ Ordered(oldTrail)) /\ OldOnly(oldTrail)
      BY DEF Kept, Trails, InOrder
    <2>2. written \in SUBSET Lines /\ l \in Lines \ written
      BY <1>1 DEF Kept, Trails, Lines, Appends
    <2>3. LinesOf(Extended(oldTrail, l)) = LinesOf(oldTrail) \cup {l}
      BY <2>1, <2>2, ExtendedIs
    <2> QED BY <1>1, <2>3
  <1>6. ASSUME NEW d \in Callers, Running(d), OneTakeover PROVE Guarded(d)'
    <2>1. Guarded(d) /\ (RemovesTrail(d) => l \in unguarded')
      BY <1>6 DEF Kept, OlderAppends, Writes
    <2> QED BY <1>1, <1>4, <1>6, <2>1 DEF Guarded, Appends, RemovesTrail
  <1>7. OneTakeover' => \A d \in Callers : Running(d)' => Guarded(d)'
    BY <1>1, <1>6 DEF Appends, Running, OneTakeover
  <1>8. NoLineLost'
    BY <1>1, <1>4, <1>5 DEF Kept, NoLineLost, Present, Appends, OneTakeover
  <1>9. \A d \in Callers : Running(d)' /\ step'[d] \in Merging => read'[d].old # None
    BY <1>1 DEF Kept, Appends, Running
  <1> QED BY <1>2, <1>7, <1>8, <1>9 DEF Kept

LEMMA NextKeeps == Inv /\ Kept /\ [Next]_vars => Kept'
  <1> SUFFICES ASSUME Inv, Kept, [Next]_vars PROVE Kept'
    OBVIOUS
  <1>1. ASSUME NEW c \in Callers, ServerSaves(c) PROVE Kept'
    BY <1>1, TrailsStand DEF ServerSaves, leaseVars, history, Running, OneTakeover, Reread
  <1>3. ASSUME OlderSaves PROVE Kept'
    BY <1>3, TrailsStand DEF OlderSaves, leaseVars, Running, OneTakeover, Reread
  <1>2. CASE UNCHANGED vars
    BY <1>2, TrailsStand DEF vars, leaseVars, files, history, Running, OneTakeover, Reread
  <1> QED BY <1>1, <1>2, <1>3, LockKeeps, InsideKeeps, ServerAppendsKeeps, OlderAppendsKeeps
             DEF Next, Inside

LEMMA InitKept == Init => Kept
  <1> SUFFICES ASSUME Init PROVE Kept
    OBVIOUS
  <1>1. PICK o \in OldLines : oldTrail \in {None, <<o>>, <<o, Torn>>}
    BY DEF Init
  <1>2. PICK n \in NewLines : trail \in {None, <<n>>}
    BY DEF Init
  <1>3. o \notin NewLines /\ Torn \notin NewLines /\ o # Torn
    BY MigrationAssumption
  <1>4. /\ oldTrail # None => Ordered(oldTrail) /\ oldTrail \in Seq(LinesOf(oldTrail))
        /\ LinesOf(oldTrail) \subseteq {o, Torn}
    BY <1>1, <1>3 DEF Ordered, LinesOf, ToSet
  <1>5. /\ trail # None => Ordered(trail) /\ trail \in Seq(LinesOf(trail))
        /\ LinesOf(trail) \subseteq {n}
    BY <1>2 DEF Ordered, LinesOf, ToSet
  <1>6. written = LinesOf(oldTrail) \cup LinesOf(trail) /\ unguarded = {} /\ written \subseteq Lines
    BY <1>4, <1>5 DEF Init, Present, Lines
  <1>7. read = [c \in Callers |-> [old |-> None, new |-> None]]
    BY DEF Init
  <1>8. InOrder(oldTrail) /\ OldOnly(oldTrail) /\ InOrder(trail)
    BY <1>3, <1>4, <1>5, <1>6 DEF InOrder, OldOnly
  <1>9. Trails
    BY <1>6, <1>7, <1>8 DEF Trails, InOrder, OldOnly, LinesOf
  <1>10. \A c \in Callers : step[c] = "session"
    BY DEF Init
  <1> QED BY <1>6, <1>9, <1>10 DEF Kept, Merging, Guarded, NoLineLost, Present

(* A line is in one of the two trails, whatever crashes or fails, while at *)
(* most one lock has been taken over, unless it was written after the last *)
(* look at its trail; and a merged trail holds no line twice and the old   *)
(* ones first, however many starts are inside (mergeAuditJsonl,            *)
(* src/src/state-dir.ts:362).                                              *)
THEOREM TrailsAreKept == Spec => []TrailKept
  <1>1. Inv /\ Kept => TrailKept
    BY DEF Kept, Trails, InOrder, Ordered, TrailKept, TrailMerged
  <1> QED BY <1>1, InvHolds, InitKept, NextKeeps, PTL DEF Spec

-----------------------------------------------------------------------------
(* What the older version had written when the first start began.          *)

\* Every start has read all lines of the old trail, and has them in the new
\* one when it removes the old.
Inherits ==
  /\ inheritedLines \subseteq Present
  /\ \A c \in Callers :
       /\ Running(c) /\ step[c] \in Merging =>
            inheritedLines \subseteq LinesOf(read[c].old) \cup LinesOf(read[c].new)
       /\ Running(c) /\ step[c] = "trail-renamed" => inheritedLines \subseteq LinesOf(trail)
       /\ outcome[c] = "migrated" => inheritedLines \subseteq LinesOf(trail)

(* Steps that leave the trails alone, or only add to them.                 *)
LEMMA InheritsStands ==
  ASSUME Inherits, inheritedLines' = inheritedLines,
         LinesOf(oldTrail) \subseteq LinesOf(oldTrail)', LinesOf(trail) \subseteq LinesOf(trail)',
         \A c \in Callers : (Running(c)' /\ step'[c] \in Merging) =>
           (Running(c) /\ step'[c] = step[c] /\ read'[c] = read[c]),
         \A c \in Callers : outcome'[c] = "migrated" =>
           outcome[c] = "migrated" \/ inheritedLines \subseteq LinesOf(trail)
  PROVE  Inherits'
  <1>1. (inheritedLines \subseteq Present)'
    BY DEF Inherits, Present
  <1>2. ASSUME NEW c \in Callers, Running(c)', step'[c] \in Merging
        PROVE  /\ inheritedLines' \subseteq LinesOf(read'[c].old) \cup LinesOf(read'[c].new)
               /\ step'[c] = "trail-renamed" => inheritedLines' \subseteq LinesOf(trail)'
    BY <1>2 DEF Inherits
  <1>3. ASSUME NEW c \in Callers, outcome'[c] = "migrated"
        PROVE  inheritedLines' \subseteq LinesOf(trail)'
    BY <1>3 DEF Inherits
  <1> QED BY <1>1, <1>2, <1>3 DEF Inherits, Merging, LinesOf

LEMMA LockInherits ==
  ASSUME Inv, Kept, Inherits, NEW c \in Callers,
         Locks(c) \/ LockFails(c) \/ Crashes(c) \/ Ends(c)
  PROVE  Inherits'
  <1>1. LockStep(c) /\ Lives(c) /\ UNCHANGED <<files, outcome, history>>
    BY LockSteps
  <1>2. \A d \in Callers : pc'[d] = "held" => pc[d] \in Outside \cup {"held"}
    BY <1>1, LockMoves
  <1> HIDE DEF Outside
  <1>3. ASSUME NEW d \in Callers, Running(d)', step'[d] \in Merging
        PROVE  Running(d) /\ step'[d] = step[d] /\ read'[d] = read[d]
    <2>1. step'[d] = step[d] /\ read'[d] = read[d]
      BY <1>1, <1>3 DEF Inv, Typed, Kept, Trails, Lives, Goto, Forgets, Reads, Running
    <2> QED BY <1>1, <1>2, <1>3, <2>1 DEF Inv, Fresh, Running, Merging
  <1>4. /\ inheritedLines' = inheritedLines /\ outcome' = outcome
        /\ LinesOf(oldTrail)' = LinesOf(oldTrail) /\ LinesOf(trail)' = LinesOf(trail)
    BY <1>1 DEF files, history, LinesOf
  <1> QED BY <1>3, <1>4, InheritsStands

LEMMA InsideInherits ==
  ASSUME Inv, Kept, Inherits, NEW c \in Callers, Inside(c) PROVE Inherits'
  <1>1. Running(c) /\ OnlyItsPlace(c) /\ Typed
    BY InsideMoves DEF Inv
  <1>2. Trails
    BY DEF Kept
  <1>3. inheritedLines' = inheritedLines
    BY DEF Inside, Throws, history, LookAtSession, CheckSession, RenameSession,
       UnlinkSession, ReadTrail, CheckTrail, RenameTrail, UnlinkTrail, StepFails
  <1>4. \A d \in Callers \ {c} : read'[d] = read[d]
    BY <1>2 DEF Trails, Inside, Throws, Forgets, Reads, LookAtSession, CheckSession,
       RenameSession, UnlinkSession, ReadTrail, CheckTrail, RenameTrail, UnlinkTrail, StepFails
  <1>5. ASSUME NEW d \in Callers \ {c}, Running(d)', step'[d] \in Merging
        PROVE  Running(d) /\ step'[d] = step[d] /\ read'[d] = read[d]
    BY <1>1, <1>4, <1>5 DEF OnlyItsPlace, Running
  <1>6. ASSUME UNCHANGED <<oldTrail, trail>>, step'[c] \notin Merging,
               outcome'[c] = "migrated" => outcome[c] = "migrated" \/ inheritedLines \subseteq LinesOf(trail)
        PROVE  Inherits'
    <2>1. LinesOf(oldTrail)' = LinesOf(oldTrail) /\ LinesOf(trail)' = LinesOf(trail)
      BY <1>6 DEF LinesOf
    <2>2. \A d \in Callers : outcome'[d] = "migrated" =>
            outcome[d] = "migrated" \/ inheritedLines \subseteq LinesOf(trail)
      BY <1>1, <1>6 DEF OnlyItsPlace
    <2> QED BY <1>3, <1>5, <1>6, <2>1, <2>2, InheritsStands
  <1>7. CASE ReadTrail(c)
    <2>1. CASE oldTrail = None
      <3>1. inheritedLines \subseteq LinesOf(trail)
        BY <2>1 DEF Inherits, Present, LinesOf
      <3> QED BY <1>1, <1>6, <1>7, <2>1, <3>1 DEF ReadTrail, Goto, Typed, Merging, files
    <2>2. CASE oldTrail # None /\ (~Parses(oldTrail) \/ ~Parses(trail))
      BY <1>1, <1>6, <1>7, <2>2 DEF ReadTrail, Throws, Goto, Typed, Merging, files
    <2>3. CASE oldTrail # None /\ ~(~Parses(oldTrail) \/ ~Parses(trail))
      <3>1. /\ step'[c] = "trail-read" /\ read'[c] = [old |-> oldTrail, new |-> trail]
            /\ UNCHANGED <<oldTrail, trail, outcome>>
        BY <1>1, <1>2, <1>7, <2>3 DEF ReadTrail, Reads, Goto, Typed, Trails, files
      <3>2. inheritedLines \subseteq LinesOf(read'[c].old) \cup LinesOf(read'[c].new)
        BY <3>1 DEF Inherits, Present
      <3>3. LinesOf(oldTrail)' = LinesOf(oldTrail) /\ LinesOf(trail)' = LinesOf(trail)
        BY <3>1 DEF LinesOf
      <3> QED BY <1>3, <1>5, <3>1, <3>2, <3>3 DEF Inherits, Present, Merging, LinesOf
    <2> QED BY <2>1, <2>2, <2>3
  <1>8. CASE CheckTrail(c)
    <2>1. /\ UNCHANGED <<oldTrail, trail>>
          /\ \/ step'[c] = "end" /\ outcome'[c] = "failed"
             \/ step[c] = "trail-read" /\ step'[c] = "trail-checked" /\ UNCHANGED <<read, outcome>>
      BY <1>1, <1>8 DEF CheckTrail, Throws, Goto, Typed, files
    <2>2. CASE step'[c] = "end" /\ outcome'[c] = "failed"
      BY <1>6, <2>1, <2>2 DEF Merging
    <2>3. CASE step[c] = "trail-read" /\ step'[c] = "trail-checked" /\ UNCHANGED <<read, outcome>>
      <3>1. inheritedLines \subseteq LinesOf(read[c].old) \cup LinesOf(read[c].new)
        BY <1>1, <2>3 DEF Inherits, Merging
      <3>2. LinesOf(oldTrail)' = LinesOf(oldTrail) /\ LinesOf(trail)' = LinesOf(trail)
        BY <2>1 DEF LinesOf
      <3> QED BY <1>3, <1>5, <2>3, <3>1, <3>2 DEF Inherits, Present, Merging, LinesOf
    <2> QED BY <2>1, <2>2, <2>3
  <1>9. CASE RenameTrail(c)
    <2> DEFINE m == Merged(read[c].old, read[c].new)
    <2>1. /\ step[c] = "trail-checked" /\ step'[c] = "trail-renamed" /\ trail' = m
          /\ UNCHANGED <<oldTrail, read, outcome>>
      BY <1>1, <1>9 DEF RenameTrail, Goto, Typed
    <2>2. LinesOf(m) = LinesOf(read[c].old) \cup LinesOf(read[c].new)
      <3>1. read[c].old # None /\ InOrder(read[c].old) /\ OldOnly(read[c].old) /\ InOrder(read[c].new)
        BY <1>1, <1>2, <2>1 DEF Kept, Merging, Trails
      <3>2. written \in SUBSET Lines
        BY <1>2 DEF Trails
      <3>3. read[c].old \in Seq(written) /\ Ordered(read[c].old)
        BY <3>1 DEF InOrder
      <3>4. read[c].new # None => read[c].new \in Seq(written) /\ Ordered(read[c].new)
        BY <3>1 DEF InOrder
      <3> QED BY <3>1, <3>2, <3>3, <3>4, MergedIs
    <2> HIDE DEF m
    <2>3. inheritedLines \subseteq LinesOf(m)
      BY <1>1, <2>1, <2>2 DEF Inherits, Merging
    <2>4. inheritedLines' \subseteq LinesOf(trail)'
      BY <1>3, <2>1, <2>3 DEF LinesOf
    <2>5. (inheritedLines \subseteq Present)'
      BY <2>4 DEF Present
    <2>6. ASSUME NEW d \in Callers, Running(d)', step'[d] \in Merging
          PROVE  inheritedLines' \subseteq LinesOf(read'[d].old) \cup LinesOf(read'[d].new)
      <3>1. Running(d) /\ step[d] \in Merging
        BY <1>1, <2>1, <2>6 DEF OnlyItsPlace, Running, Merging
      <3> QED BY <1>3, <2>1, <3>1 DEF Inherits
    <2> QED BY <2>4, <2>5, <2>6 DEF Inherits, LinesOf
  <1>10. CASE UnlinkTrail(c)
    <2>1. CASE UNCHANGED oldTrail
      <3>1. UNCHANGED trail /\ step'[c] = "end"
        BY <1>1, <1>10 DEF UnlinkTrail, Throws, Goto, Typed, files
      <3>2. inheritedLines \subseteq LinesOf(trail)
        BY <1>1, <1>10 DEF UnlinkTrail, Inherits
      <3> QED BY <1>6, <2>1, <3>1, <3>2 DEF Merging
    <2>2. CASE oldTrail' # oldTrail
      <3>1. UNCHANGED trail /\ step'[c] = "end"
        BY <1>1, <1>10 DEF UnlinkTrail, Throws, Goto, Typed, files
      <3>2. inheritedLines \subseteq LinesOf(trail)
        BY <1>1, <1>10 DEF UnlinkTrail, Inherits
      <3>3. inheritedLines' \subseteq LinesOf(trail)'
        BY <1>3, <3>1, <3>2 DEF LinesOf
      <3>4. ASSUME NEW d \in Callers, Running(d)', step'[d] \in Merging
            PROVE  inheritedLines' \subseteq LinesOf(read'[d].old) \cup LinesOf(read'[d].new)
        <4>1. d # c
          BY <3>1, <3>4 DEF Merging
        <4>2. Running(d) /\ step'[d] = step[d] /\ read'[d] = read[d]
          BY <1>5, <3>4, <4>1
        <4> QED BY <1>3, <3>4, <4>2 DEF Inherits
      <3>5. (inheritedLines \subseteq Present)'
        BY <3>3 DEF Present
      <3> QED BY <3>3, <3>4, <3>5 DEF Inherits, LinesOf
    <2> QED BY <2>1, <2>2
  <1>11. CASE LookAtSession(c) \/ CheckSession(c) \/ RenameSession(c) \/ UnlinkSession(c) \/ StepFails(c)
    <2>1. UNCHANGED <<oldTrail, trail>> /\ step'[c] \notin Merging /\ outcome'[c] # "migrated"
      BY <1>1, <1>11 DEF LookAtSession, CheckSession, RenameSession, UnlinkSession,
         StepFails, Throws, Goto, Typed, Merging, Running, files
    <2> QED BY <1>6, <2>1
  <1> QED BY <1>7, <1>8, <1>9, <1>10, <1>11 DEF Inside

LEMMA OutsiderInherits == ASSUME Kept, Inherits, Outsider PROVE Inherits'
  <1>1. UNCHANGED <<pc, step, read, outcome, inheritedLines>>
    BY DEF Outsider, ServerSaves, ServerAppends, OlderAppends, OlderSaves, leaseVars, history
  <1>2. \A c \in Callers : Running(c)' => Running(c)
    BY <1>1 DEF Running
  <1>3. LinesOf(oldTrail) \subseteq LinesOf(oldTrail)' /\ LinesOf(trail) \subseteq LinesOf(trail)'
    <2>1. ASSUME NEW c \in Callers, NEW l \in NewLines, ServerAppends(c, l)
          PROVE  LinesOf(oldTrail) \subseteq LinesOf(oldTrail)' /\ LinesOf(trail) \subseteq LinesOf(trail)'
      <3>1. Appends(l) /\ oldTrail' = oldTrail /\ trail' = Extended(trail, l)
        BY <2>1 DEF ServerAppends, Writes, Appends, leaseVars
      <3>2. trail' # trail => LinesOf(trail)' = LinesOf(trail) \cup {l}
        BY <3>1, AppendsKeepOrder
      <3>3. trail' = trail => LinesOf(trail)' = LinesOf(trail)
        OBVIOUS
      <3>4. LinesOf(oldTrail)' = LinesOf(oldTrail)
        BY <3>1
      <3> QED BY <3>2, <3>3, <3>4
    <2>2. ASSUME NEW l \in OldLines, OlderAppends(l)
          PROVE  LinesOf(oldTrail) \subseteq LinesOf(oldTrail)' /\ LinesOf(trail) \subseteq LinesOf(trail)'
      <3>1. Appends(l) /\ oldTrail' = Extended(oldTrail, l) /\ trail' = trail
        BY <2>2 DEF OlderAppends, Writes, Appends, leaseVars
      <3>2. oldTrail' # oldTrail => LinesOf(oldTrail)' = LinesOf(oldTrail) \cup {l}
        BY <3>1, AppendsKeepOrder
      <3>3. oldTrail' = oldTrail => LinesOf(oldTrail)' = LinesOf(oldTrail)
        OBVIOUS
      <3>4. LinesOf(trail)' = LinesOf(trail)
        BY <3>1
      <3> QED BY <3>2, <3>3, <3>4
    <2>3. CASE UNCHANGED <<oldTrail, trail>>
      BY <2>3 DEF LinesOf
    <2> QED BY <2>1, <2>2, <2>3 DEF Outsider, ServerSaves, OlderSaves
  <1> QED BY <1>1, <1>2, <1>3, InheritsStands

LEMMA InitInherits == Init => Inherits
  BY DEF Init, Inherits, Present, Merging

LEMMA NextInherits == Inv /\ Kept /\ Inherits /\ [Next]_vars => Inherits'
  <1> SUFFICES ASSUME Inv, Kept, Inherits, [Next]_vars PROVE Inherits'
    OBVIOUS
  <1>1. CASE UNCHANGED vars
    BY <1>1 DEF Inherits, Present, Running, LinesOf, vars, leaseVars, files, history
  <1> QED BY <1>1, LockInherits, InsideInherits, OutsiderInherits DEF Next, Inside, Outsider

(* A server that serves has a session if the older version had one, and    *)
(* has every line of its trail, however many starts it took, wherever they *)
(* crashed and however many locks were taken over                          *)
(* (src/src/state-dir.ts:120).                                             *)
THEOREM ServedAfterMigration == Spec => []ServesOnMigratedState
  <1>1. Inv /\ Inherits => ServesOnMigratedState
    BY DEF Inv, Progress, SeenSessions, Inherits, Serves, ServesOnMigratedState
  <1> QED BY <1>1, InvHolds, InitKept, NextKeeps, InitInherits, NextInherits, PTL DEF Spec
=============================================================================
