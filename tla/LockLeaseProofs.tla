--------------------------- MODULE LockLeaseProofs ---------------------------
(***************************************************************************)
(* Proofs of the safety of LockLease, for every number of callers and      *)
(* faults and every combination of its options.                            *)
(*                                                                         *)
(* While nobody has taken a lock over, the file belongs to the caller that *)
(* is between its creation and its removal, or to one that has left it     *)
(* behind, and whoever is about to take it over has seen the latter. The   *)
(* first takeover therefore finds no owner at work; the second one is      *)
(* another caller's, and nothing is claimed from there on.                 *)
(***************************************************************************)
EXTENDS LockLease, TLAPS

OneTaker == ~TakeoverOnCorrupt /\ \A c, d \in takers : c = d
NoTaker  == ~TakeoverOnCorrupt /\ takers = {}

Locked == {"held", "verify", "remove"}
Owning == Locked \cup {"fill"}

\* What a caller that has created or acquired the lock finds in the file.
Owns(c) ==
    /\ pc[c] = "fill" => file = Lock(c, 0)
    /\ pc[c] \in Locked => file = Lock(c, fence[c]) /\ fence[c] # 0
    /\ pc[c] = "held" /\ beat[c] = "renewing" => beatFence[c] = fence[c]

Owned == OneTaker => \A c \in Callers : Owns(c)

\* A caller takes over once.
TakersHadIt == \A c \in takers : pc[c] \in Locked \cup Ended

\* The owner of the file has left it behind.
LeftBehind == file # NoFile /\ pc[file.token] \in Ended

Unclaimed == NoTaker => \A c \in Callers : pc[c] = "replace" => LeftBehind

\* Whoever wrote the file last is at work on it, or has left it behind; a fresh
\* file is empty until its creator has filled it. It holds however many callers
\* have taken the lock over.
Authored ==
    /\ file # NoFile => pc[file.token] \in Owning \cup Ended
    /\ LeftBehind => file.token \in abandoned
    /\ Empty => pc[file.token] = "fill" \/ file.token \in abandoned
    /\ file # NoFile /\ pc[file.token] = "fill" => Empty
    /\ \A c \in Callers : pc[c] = "held" /\ beat[c] = "renewing" => beatFence[c] # 0

Inv == TypeOK /\ Owned /\ TakersHadIt /\ Unclaimed /\ Authored /\ TakeoverOnlyOfAbandoned

(* A lock is not the missing file, and says who wrote it.                  *)
LEMMA LockFields ==
    ASSUME NEW c \in Callers, NEW n \in Nat
    PROVE  Lock(c, n) \in Locks /\ Lock(c, n) # NoFile /\ Lock(c, n).token = c /\ Lock(c, n).fence = n
  BY ConstantsAssumption DEF Lock, Locks

(* A caller that is where it owns the file excludes every other from there.*)
LEMMA OwnerIsOne ==
    ASSUME TypeOK, Owned, OneTaker,
           NEW c \in Callers, NEW d \in Callers, pc[c] \in Owning, pc[d] \in Owning
    PROVE  c = d
  <1>1. file = Lock(c, 0) \/ file = Lock(c, fence[c])
    BY DEF Owned, Owns, Owning
  <1>2. file = Lock(d, 0) \/ file = Lock(d, fence[d])
    BY DEF Owned, Owns, Owning
  <1>3. fence[c] \in Nat /\ fence[d] \in Nat
    BY DEF TypeOK
  <1>4. file.token = c /\ file.token = d
    BY <1>1, <1>2, <1>3, LockFields
  <1> QED BY <1>4

LEMMA InitInv == Init => Inv
  <1> SUFFICES ASSUME Init PROVE Inv
    OBVIOUS
  <1>1. TypeOK
    BY ConstantsAssumption DEF Init, TypeOK, PCs
  <1>2. Owned /\ TakersHadIt /\ Unclaimed /\ Authored /\ TakeoverOnlyOfAbandoned
    BY DEF Init, Owned, Owns, Locked, TakersHadIt, Unclaimed, Authored, LeftBehind, Empty,
       TakeoverOnlyOfAbandoned
  <1> QED BY <1>1, <1>2 DEF Inv

(* A caller begins, tries again or gives up.                               *)
LEMMA WaitsInv == ASSUME NEW c \in Callers, Inv, Start(c) \/ Retry(c) \/ TimesOut(c) PROVE Inv'
  <1> USE DEF Start, Retry, TimesOut, Goto, leaseVars, history
  <1>1. TypeOK'
    BY DEF Inv, TypeOK, PCs, Waiting, Ended
  <1>2. Owned'
    BY DEF Inv, TypeOK, Owned, OneTaker, Owns, Locked
  <1>3. TakersHadIt'
    BY DEF Inv, TypeOK, TakersHadIt, Locked, Ended
  <1>4. Unclaimed'
    BY DEF Inv, TypeOK, Unclaimed, LeftBehind, NoTaker, Ended, Owning, Locked, Locks
  <1>5. TakeoverOnlyOfAbandoned'
    BY DEF Inv, TypeOK, TakeoverOnlyOfAbandoned
  <1>6. Authored'
    BY LockFields DEF Inv, TypeOK, Authored, LeftBehind, Empty, Ended, Owning, Locked, Locks
  <1> QED BY <1>1, <1>2, <1>3, <1>4, <1>5, <1>6 DEF Inv

(* Only a lock whose owner has ended is found stale.                       *)
LEMMA ReadInv == ASSUME NEW c \in Callers, Inv, Read(c) PROVE Inv'
  <1> USE DEF Read, Goto, history
  <1>1. TypeOK'
    BY DEF Inv, TypeOK, PCs, Waiting, Locks
  <1>2. Owned'
    BY DEF Inv, TypeOK, Owned, OneTaker, Owns, Locked
  <1>3. TakersHadIt'
    BY DEF Inv, TypeOK, TakersHadIt, Locked, Ended
  <1>4. Unclaimed'
    <2>1. ASSUME ~TakeoverOnCorrupt, pc'[c] = "replace" PROVE LeftBehind
      BY <2>1 DEF Inv, TypeOK, Stale, LeftBehind, Ended
    <2>2. \A d \in Callers : pc[d] \in Owning \cup Ended => pc'[d] = pc[d]
      BY DEF Inv, TypeOK, Owning, Locked, Ended
    <2>3. file # NoFile => file.token \in Callers
      BY DEF Inv, TypeOK, Locks
    <2> QED BY <2>1, <2>2, <2>3 DEF Inv, TypeOK, Unclaimed, LeftBehind, NoTaker
  <1>5. TakeoverOnlyOfAbandoned'
    <2> SUFFICES ASSUME ~TakeoverOnCorrupt, NEW d \in Callers,
                        pc'[d] = "replace" \/ d \in takers
                 PROVE  judged'[d] \in abandoned
      BY DEF TakeoverOnlyOfAbandoned
    <2>1. CASE d # c
      BY <2>1 DEF Inv, TypeOK, TakeoverOnlyOfAbandoned
    <2>2. CASE d = c
      <3>1. c \notin takers
        BY DEF Inv, TakersHadIt, Locked, Ended
      <3>2. pc'[c] = "replace" => LeftBehind /\ judged'[c] = file.token
        BY DEF Inv, TypeOK, Stale, LeftBehind, Ended
      <3> QED BY <2>2, <3>1, <3>2 DEF Inv, Authored
    <2> QED BY <2>1, <2>2
  <1>6. Authored'
    BY LockFields DEF Inv, TypeOK, Authored, LeftBehind, Empty, Ended, Owning, Locked, Locks
  <1> QED BY <1>1, <1>2, <1>3, <1>4, <1>5, <1>6 DEF Inv

LEMMA CreateInv == ASSUME NEW c \in Callers, Inv, Create(c) PROVE Inv'
  <1> USE DEF Create, Goto, leaseVars, history
  <1>1. TypeOK'
    BY DEF Inv, TypeOK, PCs, Waiting, Locks, Lock
  <1>2. Owned'
    <2> SUFFICES ASSUME OneTaker, NEW d \in Callers PROVE Owns(d)'
      BY DEF Owned, OneTaker
    <2>1. CASE file # NoFile
      BY <2>1 DEF Inv, TypeOK, Owned, Owns, Locked
    <2>2. CASE file = NoFile
      <3>1. pc[d] \notin Owning
        BY <2>2, LockFields DEF Inv, TypeOK, Owned, Owns, Owning
      <3>2. d # c => pc'[d] = pc[d]
        BY <2>2 DEF Inv, TypeOK
      <3>3. pc'[c] = "fill" /\ file' = Lock(c, 0)
        BY <2>2 DEF Inv, TypeOK
      <3> QED BY <3>1, <3>2, <3>3 DEF Owns, Owning, Locked
    <2> QED BY <2>1, <2>2
  <1>3. TakersHadIt'
    BY DEF Inv, TypeOK, TakersHadIt, Locked, Ended
  <1>4. Unclaimed'
    BY LockFields DEF Inv, TypeOK, Unclaimed, LeftBehind, NoTaker, Ended, Owning,
       Locked, Locks
  <1>5. TakeoverOnlyOfAbandoned'
    BY DEF Inv, TypeOK, TakeoverOnlyOfAbandoned
  <1>6. Authored'
    BY LockFields DEF Inv, TypeOK, Authored, LeftBehind, Empty, Ended, Owning, Locked, Locks
  <1> QED BY <1>1, <1>2, <1>3, <1>4, <1>5, <1>6 DEF Inv

LEMMA FillInv == ASSUME NEW c \in Callers, Inv, Fill(c) PROVE Inv'
  <1> USE DEF Fill, Goto, Acquired
  <1>1. TypeOK'
    BY DEF Inv, TypeOK, PCs, Locks, Lock
  <1>2. Owned'
    BY OwnerIsOne DEF Inv, TypeOK, Owned, OneTaker, Owns, Owning
  <1>3. TakersHadIt'
    BY DEF Inv, TakersHadIt, Locked
  <1>4. Unclaimed'
    BY LockFields DEF Inv, Unclaimed, LeftBehind, NoTaker, Ended, Owning, Locked
  <1>5. TakeoverOnlyOfAbandoned'
    BY DEF Inv, TypeOK, TakeoverOnlyOfAbandoned
  <1>6. Authored'
    <2>1. file' # NoFile => file'.token \in Callers
      BY LockFields DEF Inv, TypeOK, Locks
    <2>2. CASE file = Lock(c, 0)
      <3>1. file' = Lock(c, 1) /\ pc'[c] = "held"
        BY <2>2 DEF Inv, TypeOK
      <3>2. file'.token = c /\ file'.fence = 1
        BY <3>1, LockFields
      <3> QED BY <3>1, <3>2 DEF Inv, TypeOK, Authored, LeftBehind, Empty, Ended, Owning, Locked
    <2>3. CASE file # Lock(c, 0)
      <3>1. file' = file
        BY <2>3
      <3>2. file # NoFile => file.token # c
        BY <2>3 DEF Inv, TypeOK, Authored, Empty, Locks, Lock
      <3> QED BY <2>1, <3>1, <3>2 DEF Inv, TypeOK, Authored, LeftBehind, Empty, Ended, Owning, Locked
    <2> QED BY <2>2, <2>3
  <1> QED BY <1>1, <1>2, <1>3, <1>4, <1>5, <1>6 DEF Inv

(* The first takeover finds nobody who owns the file.                      *)
LEMMA ReplaceInv == ASSUME NEW c \in Callers, Inv, Replace(c) PROVE Inv'
  <1> USE DEF Replace, Goto, Acquired
  <1>1. TypeOK'
    BY DEF Inv, TypeOK, PCs, Locks, Lock
  <1>2. Owned'
    <2> SUFFICES ASSUME OneTaker' PROVE \A d \in Callers : Owns(d)'
      BY DEF Owned
    <2>1. NoTaker
      BY DEF OneTaker, NoTaker, Inv, TakersHadIt, Locked, Ended
    <2>2. LeftBehind
      BY <2>1 DEF Inv, Unclaimed
    <2>3. ASSUME NEW d \in Callers PROVE pc[d] \notin Owning
      <3>1. pc[d] \in Owning => file = Lock(d, 0) \/ file = Lock(d, fence[d])
        BY DEF OneTaker, Inv, Owned, Owns, Owning
      <3>2. pc[d] \in Owning => file.token = d
        <4>1. fence[d] \in Nat
          BY DEF Inv, TypeOK
        <4> QED BY <3>1, <4>1, LockFields
      <3> QED BY <3>2, <2>2 DEF LeftBehind, Owning, Locked, Ended
    <2>4. Owns(c)'
      BY DEF Inv, TypeOK, Owns
    <2>5. ASSUME NEW d \in Callers, d # c PROVE Owns(d)'
      BY <2>3 DEF Inv, TypeOK, Owns, Owning, Locked
    <2> QED BY <2>4, <2>5
  <1>3. TakersHadIt'
    BY DEF Inv, TypeOK, TakersHadIt, Locked
  <1>4. Unclaimed'
    BY DEF Unclaimed, NoTaker
  <1>5. TakeoverOnlyOfAbandoned'
    BY DEF Inv, TypeOK, TakeoverOnlyOfAbandoned
  <1>6. Authored'
    BY LockFields DEF Inv, TypeOK, Authored, LeftBehind, Empty, Ended, Owning, Locked, Locks
  <1> QED BY <1>1, <1>2, <1>3, <1>4, <1>5, <1>6 DEF Inv

LEMMA BeatReadsInv == ASSUME NEW c \in Callers, Inv, BeatReads(c) PROVE Inv'
  <1> USE DEF BeatReads, history
  <1>1. TypeOK'
    BY DEF Inv, TypeOK, Locks, Mine
  <1>2. Owned'
    BY LockFields DEF Inv, TypeOK, Owned, OneTaker, Owns, Locked
  <1>3. TakersHadIt'
    BY DEF Inv, TakersHadIt
  <1>4. Unclaimed'
    BY DEF Inv, Unclaimed, LeftBehind, NoTaker
  <1>5. TakeoverOnlyOfAbandoned'
    BY DEF Inv, TypeOK, TakeoverOnlyOfAbandoned
  <1>6. Authored'
    <2>1. \A d \in Callers : pc[d] = "held" /\ beat'[d] = "renewing" => beatFence'[d] # 0
      BY DEF Inv, TypeOK, Authored, Mine, Locks
    <2> QED BY <2>1 DEF Inv, Authored, LeftBehind, Empty
  <1> QED BY <1>1, <1>2, <1>3, <1>4, <1>5, <1>6 DEF Inv

LEMMA BeatRenewsInv == ASSUME NEW c \in Callers, Inv, BeatRenews(c) PROVE Inv'
  <1> USE DEF BeatRenews, history
  <1>1. TypeOK'
    BY DEF Inv, TypeOK, Locks, Lock
  <1>2. Owned'
    BY DEF Inv, Owned, OneTaker, Owns, Locked
  <1>3. TakersHadIt'
    BY DEF Inv, TakersHadIt
  <1>4. Unclaimed'
    BY DEF Inv, Unclaimed, LeftBehind, NoTaker, Locked, Owned, Owns, OneTaker
  <1>5. TakeoverOnlyOfAbandoned'
    BY DEF Inv, TypeOK, TakeoverOnlyOfAbandoned
  <1>6. Authored'
    BY LockFields DEF Inv, TypeOK, Authored, LeftBehind, Empty, Ended, Owning, Locked, Locks
  <1> QED BY <1>1, <1>2, <1>3, <1>4, <1>5, <1>6 DEF Inv

LEMMA FinishInv == ASSUME NEW c \in Callers, Inv, Finish(c) PROVE Inv'
  <1> USE DEF Finish, Goto, history
  <1>1. TypeOK'
    BY DEF Inv, TypeOK, PCs
  <1>2. Owned'
    BY DEF Inv, Owned, OneTaker, Owns, Locked
  <1>3. TakersHadIt'
    BY DEF Inv, TakersHadIt, Locked
  <1>4. Unclaimed'
    BY DEF Inv, Unclaimed, LeftBehind, NoTaker, Ended, Owning, Locked
  <1>5. TakeoverOnlyOfAbandoned'
    BY DEF Inv, TypeOK, TakeoverOnlyOfAbandoned
  <1>6. Authored'
    BY LockFields DEF Inv, TypeOK, Authored, LeftBehind, Empty, Ended, Owning, Locked, Locks
  <1> QED BY <1>1, <1>2, <1>3, <1>4, <1>5, <1>6 DEF Inv

(* The owner finds its own lock.                                           *)
LEMMA VerifyInv == ASSUME NEW c \in Callers, Inv, Verify(c) PROVE Inv'
  <1> USE DEF Verify, Goto, leaseVars, history
  <1>1. TypeOK'
    BY DEF Inv, TypeOK, PCs, Ended
  <1>2. Owned'
    BY DEF Inv, Owned, OneTaker, Owns, Locked
  <1>3. TakersHadIt'
    BY DEF Inv, TakersHadIt, Locked, Ended
  <1>4. Unclaimed'
    <2>1. NoTaker => Mine(c)
      BY LockFields DEF NoTaker, OneTaker, Inv, TypeOK, Owned, Owns, Locked, Mine
    <2>2. NoTaker => /\ pc'[c] = "remove"
                     /\ \A d \in Callers : d # c => pc'[d] = pc[d]
      BY <2>1 DEF Inv, TypeOK
    <2>3. file # NoFile => file.token \in Callers
      BY DEF Inv, TypeOK, Locks
    <2> QED BY <2>2 DEF Inv, Unclaimed, LeftBehind, NoTaker, Ended, Owning, Locked
  <1>5. TakeoverOnlyOfAbandoned'
    BY DEF Inv, TypeOK, TakeoverOnlyOfAbandoned
  <1>6. Authored'
    <2>1. file # NoFile => file.token \in Callers /\ file.fence \in Nat
      BY DEF Inv, TypeOK, Locks
    <2>2. file # NoFile /\ file.token = c => pc'[c] = "remove" \/ c \in abandoned
      BY <2>1 DEF Inv, TypeOK, Authored, Empty, Mine
    <2>3. \A d \in Callers : d # c => pc'[d] = pc[d]
      BY DEF Inv, TypeOK
    <2>4. pc'[c] \in {"remove", "done"}
      BY DEF Inv, TypeOK
    <2> QED
      BY <2>1, <2>2, <2>3, <2>4 DEF Inv, Authored, LeftBehind, Empty, Ended, Owning, Locked
  <1> QED BY <1>1, <1>2, <1>3, <1>4, <1>5, <1>6 DEF Inv

LEMMA RemoveInv == ASSUME NEW c \in Callers, Inv, Remove(c) PROVE Inv'
  <1> USE DEF Remove, Goto, leaseVars, history
  <1>1. TypeOK'
    BY DEF Inv, TypeOK, PCs, Ended
  <1>2. Owned'
    BY OwnerIsOne DEF Inv, TypeOK, Owned, OneTaker, Owns, Locked, Owning
  <1>3. TakersHadIt'
    BY DEF Inv, TakersHadIt, Ended
  <1>4. Unclaimed'
    <2> SUFFICES ASSUME NoTaker, NEW d \in Callers, pc[d] = "replace" PROVE FALSE
      BY DEF Inv, TypeOK, Unclaimed, NoTaker
    <2>1. file = Lock(c, fence[c]) /\ fence[c] \in Nat
      BY DEF Inv, TypeOK, Owned, OneTaker, NoTaker, Owns, Locked
    <2>2. file.token = c
      BY <2>1, LockFields
    <2> QED BY <2>2 DEF Inv, Unclaimed, LeftBehind, Ended
  <1>5. TakeoverOnlyOfAbandoned'
    BY DEF Inv, TypeOK, TakeoverOnlyOfAbandoned
  <1>6. Authored'
    BY LockFields DEF Inv, TypeOK, Authored, LeftBehind, Empty, Ended, Owning, Locked, Locks
  <1> QED BY <1>1, <1>2, <1>3, <1>4, <1>5, <1>6 DEF Inv

LEMMA CrashInv == ASSUME NEW c \in Callers, Inv, Crash(c) PROVE Inv'
  <1> USE DEF Crash, Goto, Fault, leaseVars
  <1>1. TypeOK'
    BY ConstantsAssumption DEF Inv, TypeOK, PCs, Ended
  <1>2. Owned'
    BY DEF Inv, Owned, OneTaker, Owns, Locked
  <1>3. TakersHadIt'
    BY DEF Inv, TakersHadIt, Ended
  <1>4. Unclaimed'
    BY DEF Inv, Unclaimed, LeftBehind, NoTaker, Ended
  <1>5. TakeoverOnlyOfAbandoned'
    BY DEF Inv, TypeOK, TakeoverOnlyOfAbandoned
  <1>6. Authored'
    BY LockFields DEF Inv, TypeOK, Authored, LeftBehind, Empty, Ended, Owning, Locked, Locks
  <1> QED BY <1>1, <1>2, <1>3, <1>4, <1>5, <1>6 DEF Inv

LEMMA FillFailsInv == ASSUME NEW c \in Callers, Inv, FillFails(c) PROVE Inv'
  <1> USE DEF FillFails, Goto, Fault, leaseVars
  <1>1. TypeOK'
    BY ConstantsAssumption DEF Inv, TypeOK, PCs, Ended
  <1>2. Owned'
    BY DEF Inv, Owned, OneTaker, Owns, Locked
  <1>3. TakersHadIt'
    BY DEF Inv, TakersHadIt, Ended
  <1>4. Unclaimed'
    BY DEF Inv, Unclaimed, LeftBehind, NoTaker, Ended
  <1>5. TakeoverOnlyOfAbandoned'
    BY DEF Inv, TypeOK, TakeoverOnlyOfAbandoned
  <1>6. Authored'
    BY LockFields DEF Inv, TypeOK, Authored, LeftBehind, Empty, Ended, Owning, Locked, Locks
  <1> QED BY <1>1, <1>2, <1>3, <1>4, <1>5, <1>6 DEF Inv

LEMMA RenameFailsInv == ASSUME NEW c \in Callers, Inv, RenameFails(c) PROVE Inv'
  <1> USE DEF RenameFails, Goto, Fault
  <1>1. TypeOK'
    BY ConstantsAssumption DEF Inv, TypeOK, PCs, Waiting
  <1>2. Owned'
    BY DEF Inv, TypeOK, Owned, OneTaker, Owns, Locked
  <1>3. TakersHadIt'
    BY DEF Inv, TypeOK, TakersHadIt, Locked, Ended
  <1>4. Unclaimed'
    <2> SUFFICES ASSUME NoTaker, NEW d \in Callers, pc'[d] = "replace" PROVE LeftBehind'
      BY DEF Unclaimed, NoTaker
    <2>1. pc[d] = "replace" /\ file' = file
      BY DEF Inv, TypeOK
    <2>2. LeftBehind
      BY <2>1 DEF Inv, Unclaimed
    <2>3. pc'[file.token] = pc[file.token]
      <3>1. file.token \in Callers /\ file.token # c
        BY <2>2 DEF Inv, TypeOK, LeftBehind, Ended, Locks
      <3> QED BY <3>1 DEF Inv, TypeOK
    <2> QED BY <2>1, <2>2, <2>3 DEF LeftBehind
  <1>5. TakeoverOnlyOfAbandoned'
    BY DEF Inv, TypeOK, TakeoverOnlyOfAbandoned
  <1>6. Authored'
    BY LockFields DEF Inv, TypeOK, Authored, LeftBehind, Empty, Ended, Owning, Locked, Locks
  <1> QED BY <1>1, <1>2, <1>3, <1>4, <1>5, <1>6 DEF Inv

LEMMA RemoveFailsInv == ASSUME NEW c \in Callers, Inv, RemoveFails(c) PROVE Inv'
  <1> USE DEF RemoveFails, Goto, Fault, leaseVars
  <1>1. TypeOK'
    BY ConstantsAssumption DEF Inv, TypeOK, PCs, Ended
  <1>2. Owned'
    BY DEF Inv, Owned, OneTaker, Owns, Locked
  <1>3. TakersHadIt'
    BY DEF Inv, TakersHadIt, Ended
  <1>4. Unclaimed'
    BY DEF Inv, Unclaimed, LeftBehind, NoTaker, Ended
  <1>5. TakeoverOnlyOfAbandoned'
    BY DEF Inv, TypeOK, TakeoverOnlyOfAbandoned
  <1>6. Authored'
    BY LockFields DEF Inv, TypeOK, Authored, LeftBehind, Empty, Ended, Owning, Locked, Locks
  <1> QED BY <1>1, <1>2, <1>3, <1>4, <1>5, <1>6 DEF Inv

LEMMA BeatThrowsInv == ASSUME NEW c \in Callers, Inv, BeatThrows(c) PROVE Inv'
  <1> USE DEF BeatThrows, Goto, Fault
  <1>1. TypeOK'
    BY ConstantsAssumption DEF Inv, TypeOK, PCs, Ended
  <1>2. Owned'
    BY DEF Inv, Owned, OneTaker, Owns, Locked
  <1>3. TakersHadIt'
    BY DEF Inv, TakersHadIt, Ended
  <1>4. Unclaimed'
    BY DEF Inv, Unclaimed, LeftBehind, NoTaker, Ended
  <1>5. TakeoverOnlyOfAbandoned'
    BY DEF Inv, TypeOK, TakeoverOnlyOfAbandoned
  <1>6. Authored'
    BY LockFields DEF Inv, TypeOK, Authored, LeftBehind, Empty, Ended, Owning, Locked, Locks
  <1> QED BY <1>1, <1>2, <1>3, <1>4, <1>5, <1>6 DEF Inv

LEMMA NextInv == Inv /\ [Next]_vars => Inv'
  <1> SUFFICES ASSUME Inv, [Next]_vars PROVE Inv'
    OBVIOUS
  <1>1. CASE Next
    BY <1>1, WaitsInv, ReadInv, CreateInv, FillInv, ReplaceInv, BeatReadsInv,
       BeatRenewsInv, FinishInv, VerifyInv, RemoveInv, CrashInv, FillFailsInv,
       RenameFailsInv, RemoveFailsInv, BeatThrowsInv DEF Next
  <1>2. CASE UNCHANGED vars
    BY <1>2 DEF vars, leaseVars, history, Inv, TypeOK, Owned, OneTaker, Owns,
       TakersHadIt, Unclaimed, NoTaker, Authored, LeftBehind, Empty,
       TakeoverOnlyOfAbandoned
  <1> QED BY <1>1, <1>2

LEMMA InvHolds == Spec => []Inv
  BY InitInv, NextInv, PTL DEF Spec

-----------------------------------------------------------------------------
(* The type invariant of the lock (src/src/lock-lease.ts:131).             *)
THEOREM TypeCorrect == Spec => []TypeOK
  <1>1. Inv => TypeOK
    BY DEF Inv
  <1> QED BY <1>1, InvHolds, PTL

(* As long as at most one caller has taken a lock over and empty files are *)
(* left alone, whoever runs its transaction finds its own token and fence  *)
(* in the file (src/src/lock-lease.ts:236).                                *)
THEOREM LockExcludes == Spec => []Exclusion
  <1>1. Inv => Exclusion
    BY DEF Inv, Owned, OneTaker, Owns, Locked, Exclusion, Holding
  <1> QED BY <1>1, InvHolds, PTL

(* What that means for two callers: they do not run their transactions at  *)
(* the same time.                                                          *)
OneHolder == OneTaker => \A c, d \in Holding : c = d

THEOREM AtMostOneHolds == Spec => []OneHolder
  <1>1. Inv => OneHolder
    BY OwnerIsOne DEF Inv, OneHolder, Holding, Owning, Locked
  <1> QED BY <1>1, InvHolds, PTL

(* Every caller that takes a lock over, or is about to, has judged it by a *)
(* lock that its owner has left behind by a crash or a failure, however    *)
(* many takeovers there were (src/src/lock-lease.ts:166).                  *)
THEOREM NoTakeoverOfTheLiving == Spec => []TakeoverOnlyOfAbandoned
  <1>1. Inv => TakeoverOnlyOfAbandoned
    BY DEF Inv
  <1> QED BY <1>1, InvHolds, PTL
=============================================================================
