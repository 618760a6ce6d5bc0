------------------------------ MODULE LockLease ------------------------------
(***************************************************************************)
(* The file lock of src/src/lock-lease.ts (withFencedLock), which guards   *)
(* the temp directory and the state migration among server processes.      *)
(*                                                                         *)
(* A caller is one call of withFencedLock, in whatever process, with the   *)
(* token it draws. One step is one operation of the file system; what a    *)
(* caller reads in one step it acts upon in a later one. A file created by *)
(* wx stays empty until its creator writes it.                             *)
(*                                                                         *)
(* Time appears as what a reader can find: a lock whose holder renews it   *)
(* is never seen stale (heartbeats of 10 s against a lease of 60 s, or a   *)
(* lease of 24 h), one that is left behind may be.                         *)
(***************************************************************************)
EXTENDS Naturals

CONSTANTS
    Callers,
    TakeoverOnCorrupt,    \* options of the same names
    TakeoverOnDeadOwner,
    Heartbeats,           \* heartbeatMs > 0
    NoFile,               \* the lock file does not exist
    MaxFaults             \* bound: crashes and failing file operations

ASSUME ConstantsAssumption ==
    /\ {TakeoverOnCorrupt, TakeoverOnDeadOwner, Heartbeats} \subseteq BOOLEAN
    /\ NoFile \notin [token : Callers, fence : Nat]
    /\ MaxFaults \in Nat

VARIABLES
    file,       \* the lock file: who wrote it, and the fence; fence 0: still empty
    pc,         \* where each caller is
    prevFence,  \* the fence read from the lock that a caller takes over
    fence,      \* the fence each caller acquired with
    beat,       \* the heartbeat: off, waiting for its timer, or renewing
    beatFence,  \* the fence the renewing heartbeat has read
    \* History.
    takers,     \* callers that took a lock over
    judged,     \* who wrote the lock that each caller last found stale
    abandoned,  \* callers that ended without giving the lock up
    faults      \* number of faults

leaseVars == <<prevFence, fence, beat, beatFence>>
history   == <<takers, judged, abandoned, faults>>
vars == <<file, pc, leaseVars, history>>

Locks   == [token : Callers, fence : Nat]
Ended   == {"done", "failed", "dead"}
Waiting == {"read", "create", "fill", "replace", "wait"}
PCs     == {"idle", "held", "verify", "remove"} \cup Waiting \cup Ended

TypeOK ==
    /\ file \in Locks \cup {NoFile}
    /\ pc \in [Callers -> PCs]
    /\ prevFence \in [Callers -> Nat]
    /\ fence \in [Callers -> Nat]
    /\ beat \in [Callers -> {"off", "waiting", "renewing"}]
    /\ \A c \in Callers : beat[c] # "off" => pc[c] \in {"held", "dead"}
    /\ beatFence \in [Callers -> Nat]
    /\ takers \subseteq Callers /\ abandoned \subseteq Callers
    /\ judged \in [Callers -> Callers \cup {NoFile}]
    /\ faults \in 0..MaxFaults

Init ==
    /\ file = NoFile
    /\ pc = [c \in Callers |-> "idle"]
    /\ prevFence = [c \in Callers |-> 0]
    /\ fence = [c \in Callers |-> 0]
    /\ beat = [c \in Callers |-> "off"]
    /\ beatFence = [c \in Callers |-> 0]
    /\ takers = {} /\ judged = [c \in Callers |-> NoFile]
    /\ abandoned = {} /\ faults = 0
-----------------------------------------------------------------------------
Lock(c, n) == [token |-> c, fence |-> n]

Empty   == file # NoFile /\ file.fence = 0
Mine(c) == file # NoFile /\ file.token = c /\ file.fence > 0
Holding == {c \in Callers : pc[c] = "held"}

Goto(c, to) == pc' = [pc EXCEPT ![c] = to]

Start(c) ==
    /\ pc[c] = "idle"
    /\ Goto(c, "read")
    /\ UNCHANGED <<file, leaseVars, history>>

\* Mutants of Stale: the age of the lock, or nothing, decides.
StaleByAge(owner) == BOOLEAN

StaleNever(owner) == {FALSE}

\* What a reader may conclude of the owner's lease and life. The lease of one
\* that lives and renews in time has not run out.
Stale(owner) ==
    IF pc[owner] = "dead" /\ TakeoverOnDeadOwner THEN {TRUE}
    ELSE IF pc[owner] \in Ended THEN BOOLEAN
    ELSE {FALSE}

\* The acquisition loop reads the lock and decides.
Read(c) ==
    /\ pc[c] = "read"
    /\ \/ /\ file = NoFile
          /\ Goto(c, "create")
          /\ UNCHANGED <<prevFence, judged>>
       \/ /\ Empty
          /\ Goto(c, IF TakeoverOnCorrupt THEN "replace" ELSE "wait")
          /\ prevFence' = [prevFence EXCEPT ![c] = 0]
          /\ UNCHANGED judged
       \/ /\ file # NoFile /\ ~Empty
          /\ \E stale \in Stale(file.token) :
                /\ Goto(c, IF stale THEN "replace" ELSE "wait")
                /\ judged' = IF stale THEN [judged EXCEPT ![c] = file.token] ELSE judged
          /\ prevFence' = [prevFence EXCEPT ![c] = file.fence]
    /\ UNCHANGED <<file, fence, beat, beatFence, takers, abandoned, faults>>

\* Mutant of Create: the file is opened with w.
CreateOverwrites(c) ==
    /\ pc[c] = "create"
    /\ file' = Lock(c, 0)
    /\ Goto(c, "fill")
    /\ UNCHANGED <<leaseVars, history>>

\* atomicWriteLockFresh, first half: open with wx, or EEXIST.
Create(c) ==
    /\ pc[c] = "create"
    /\ IF file = NoFile
       THEN file' = Lock(c, 0) /\ Goto(c, "fill")
       ELSE UNCHANGED file /\ Goto(c, "wait")
    /\ UNCHANGED <<leaseVars, history>>

Acquired(c, n) ==
    /\ Goto(c, "held")
    /\ fence' = [fence EXCEPT ![c] = n]
    /\ beat' = [beat EXCEPT ![c] = IF Heartbeats THEN "waiting" ELSE "off"]
    /\ UNCHANGED <<prevFence, beatFence, judged, abandoned, faults>>

\* Second half: the content goes to the file that was opened, wherever the
\* path points to by now.
Fill(c) ==
    /\ pc[c] = "fill"
    /\ file' = IF file = Lock(c, 0) THEN Lock(c, 1) ELSE file
    /\ Acquired(c, 1)
    /\ UNCHANGED takers

\* atomicWriteLock, on behalf of a takeover: the rename replaces whatever lock
\* the path has by now.
Replace(c) ==
    /\ pc[c] = "replace"
    /\ file' = Lock(c, prevFence[c] + 1)
    /\ Acquired(c, prevFence[c] + 1)
    /\ takers' = takers \cup {c}

\* The retry interval, and the deadline of the loop.
Retry(c) ==
    /\ pc[c] = "wait"
    /\ Goto(c, "read")
    /\ UNCHANGED <<file, leaseVars, history>>

TimesOut(c) ==
    /\ pc[c] = "wait"
    /\ Goto(c, "failed")
    /\ UNCHANGED <<file, leaseVars, history>>
-----------------------------------------------------------------------------
\* The heartbeat reads the lock; a foreign one stops it (fenceLost).
BeatReads(c) ==
    /\ pc[c] = "held" /\ beat[c] = "waiting"
    /\ IF Mine(c)
       THEN /\ beat' = [beat EXCEPT ![c] = "renewing"]
            /\ beatFence' = [beatFence EXCEPT ![c] = file.fence]
       ELSE /\ beat' = [beat EXCEPT ![c] = "off"]
            /\ UNCHANGED beatFence
    /\ UNCHANGED <<file, pc, prevFence, fence, history>>

\* It renews what it read, with a rename that replaces whatever is there.
BeatRenews(c) ==
    /\ pc[c] = "held" /\ beat[c] = "renewing"
    /\ file' = Lock(c, beatFence[c])
    /\ beat' = [beat EXCEPT ![c] = "waiting"]
    /\ UNCHANGED <<pc, prevFence, fence, beatFence, history>>

\* fn has returned or thrown: the heartbeat is stopped, one in flight awaited.
Finish(c) ==
    /\ pc[c] = "held" /\ beat[c] # "renewing"
    /\ beat' = [beat EXCEPT ![c] = "off"]
    /\ Goto(c, "verify")
    /\ UNCHANGED <<file, prevFence, fence, beatFence, history>>

\* The release reads the lock and removes it if the token is its own.
Verify(c) ==
    /\ pc[c] = "verify"
    /\ Goto(c, IF Mine(c) THEN "remove" ELSE "done")
    /\ UNCHANGED <<file, leaseVars, history>>

Remove(c) ==
    /\ pc[c] = "remove"
    /\ file' = NoFile
    /\ Goto(c, "done")
    /\ UNCHANGED <<leaseVars, history>>
-----------------------------------------------------------------------------
Fault == faults < MaxFaults /\ faults' = faults + 1 /\ UNCHANGED <<takers, judged>>

\* The process of a caller dies, at any point.
Crash(c) ==
    /\ pc[c] \notin Ended \cup {"idle"}
    /\ Fault
    /\ Goto(c, "dead")
    /\ abandoned' = abandoned \cup {c}
    /\ UNCHANGED <<file, leaseVars>>

\* The write of a fresh lock fails: the call throws and leaves the empty file.
FillFails(c) ==
    /\ pc[c] = "fill"
    /\ Fault
    /\ Goto(c, "failed")
    /\ abandoned' = abandoned \cup {c}
    /\ UNCHANGED <<file, leaseVars>>

\* A takeover fails and is tried again, a renewal waits for the next one.
RenameFails(c) ==
    /\ Fault
    /\ \/ pc[c] = "replace" /\ Goto(c, "wait") /\ UNCHANGED beat
       \/ pc[c] = "held" /\ beat[c] = "renewing" /\ UNCHANGED pc
          /\ beat' = [beat EXCEPT ![c] = "waiting"]
    /\ UNCHANGED <<file, prevFence, fence, beatFence, abandoned>>

\* The release cannot read or remove the lock: it is only logged.
RemoveFails(c) ==
    /\ pc[c] \in {"verify", "remove"}
    /\ Fault
    /\ Goto(c, "done")
    /\ abandoned' = abandoned \cup {c}
    /\ UNCHANGED <<file, leaseVars>>
\* A heartbeat that cannot read the lock throws; one that is in flight when fn
\* ends makes the call throw before its release.
BeatThrows(c) ==
    /\ pc[c] = "held" /\ beat[c] = "waiting"
    /\ Fault
    /\ Goto(c, "failed")
    /\ beat' = [beat EXCEPT ![c] = "off"]
    /\ abandoned' = abandoned \cup {c}
    /\ UNCHANGED <<file, prevFence, fence, beatFence>>
-----------------------------------------------------------------------------
Proceeds(c) ==
    \/ Start(c) \/ Read(c) \/ Create(c) \/ Fill(c) \/ Replace(c) \/ Retry(c)
    \/ Finish(c) \/ Verify(c) \/ Remove(c)

Next == \E c \in Callers :
    \/ Start(c) \/ Read(c) \/ Create(c) \/ Fill(c) \/ Replace(c) \/ Retry(c)
    \/ BeatReads(c) \/ BeatRenews(c) \/ Finish(c) \/ Verify(c) \/ Remove(c)
    \/ TimesOut(c) \/ Crash(c) \/ FillFails(c) \/ RenameFails(c) \/ RemoveFails(c)
    \/ BeatThrows(c)

Spec == Init /\ [][Next]_vars

(***************************************************************************)
(* A live caller goes on, its transaction ends, and a heartbeat in flight  *)
(* ends too, on time: the transaction is not held up by beats for ever.    *)
(***************************************************************************)
FairSpec == Spec /\ \A c \in Callers : /\ WF_vars(Proceeds(c))
                                       /\ SF_vars(Finish(c))
                                       /\ WF_vars(BeatRenews(c))
-----------------------------------------------------------------------------
(***************************************************************************)
(* Properties.                                                             *)
(***************************************************************************)

\* As long as at most one caller has taken a lock over, and empty files are not
\* taken for abandoned locks, the lock excludes, whatever crashed or failed:
\* whoever runs its transaction finds its own token and fence in the file, so at
\* most one does, and its assertFence passes.
Exclusion ==
    ~TakeoverOnCorrupt /\ (\A c, d \in takers : c = d) =>
        \A c \in Holding : file = Lock(c, fence[c])

\* Whoever takes a lock over, however many do, has found stale a lock that its
\* owner has left behind by a crash or a failure: nobody loses the lock to
\* another's judgement because it waits, works for long or is releasing, as long
\* as its heartbeats are in time, which the model assumes. What the rename then
\* replaces is another matter: two callers may judge the same lock, and one
\* replaces the lock of the other (LiveHolderKept).
TakeoverOnlyOfAbandoned ==
    ~TakeoverOnCorrupt =>
        \A c \in Callers : pc[c] = "replace" \/ c \in takers => judged[c] \in abandoned

\* A live holder is never force-taken over (CHANGELOG.md, lock-lease.ts): its
\* token stays in the file while it holds the lock.
LiveHolderKept ==
    [][\A c \in Callers : pc[c] = "held" /\ pc'[c] = "held" /\ Mine(c) => Mine(c)']_vars

\* The release never deletes the lock of another caller (header comment and
\* test of lock-lease.ts).
NeverDeletesOthers == [][\A c \in Callers : Remove(c) => file = NoFile \/ Mine(c)]_vars

\* A caller gets the lock, or gives up, whatever crashed before it: a lock left
\* behind by a dead owner is taken over. Exempt is a file that stays empty where
\* empty files may not be taken over, and a lock that a live process left.
LockIsRecovered ==
    \A c \in Callers :
        pc[c] \in Waiting ~>
            \/ pc[c] \notin Waiting
            \/ Empty /\ ~TakeoverOnCorrupt
            \/ \E d \in abandoned : pc[d] # "dead"
=============================================================================
