----------------------------- MODULE TempQuota -----------------------------
(***************************************************************************)
(* The capacity of the temp root of src/src/temp-manager.ts, shared by     *)
(* several server processes: reservations, the size of the disk that a     *)
(* process measures and caches, and the quota ledger through which         *)
(* processes see what the others have reserved and not yet written.        *)
(*                                                                         *)
(* A reservation belongs to one staging directory, which is appended to    *)
(* byte by byte: reserve, append, markWritten. What runs under the temp    *)
(* lock is one step, except for the measuring of the disk, during which    *)
(* other appends go on without the lock. The lock excludes (LockLease).    *)
(***************************************************************************)
EXTENDS Naturals, FiniteSets

CONSTANTS
    Procs,      \* server processes
    Stagings,   \* staging directories, each with its reservation
    Makers,     \* the processes that may create a staging directory
    None,       \* no owner, no entry, nothing measured, nobody
    MaxTotal,   \* MCP_TEMP_MAX_TOTAL_BYTES
    MaxWrites,  \* bound: bytes that a staging directory asks for
    MaxFaults   \* bound: crashes, failures, timeouts of the lock and of entries

Sizes == [Stagings -> 0..MaxWrites]

ASSUME ConstantsAssumption ==
    /\ None \notin Procs \cup Stagings \cup Nat \cup Sizes
    /\ Makers \in [Stagings -> SUBSET Procs] /\ IsFiniteSet(Stagings)
    /\ MaxTotal \in Nat \ {0} /\ MaxWrites \in Nat \ {0} /\ MaxFaults \in Nat

VARIABLES
    alive,      \* processes that run
    owner,      \* the process that has created the staging directory
    status,     \* where its append stands, or what has become of it
    size,       \* bytes on disk
    reserved,   \* ReservationImpl.reservedBytes and writtenBytes
    written,
    lock,       \* the reservation that holds mutex and lock while it measures
    measure,    \* the sizes that it goes by
    cache,      \* diskBytesCache of a process, as long as it is young
    ledger,     \* .quota.json: the bytes of an entry; its pid is the owner
    dirty,      \* ledgerSyncDirty
    timer,      \* the processes with a ledgerSyncTimer
    gaps,       \* history: how bytes may have left the accounts
    faults

resVars   == <<owner, status, size, reserved, written>>
syncVars  == <<dirty, timer>>
quotaVars == <<alive, resVars, lock, measure, cache, ledger, syncVars, gaps, faults>>

Reserving == {"scanning", "measured"}
InUse     == {"idle", "writing", "marking", "failed", "leaked"} \cup Reserving
Left      == {"kept", "orphan"}
Entries   == [Stagings -> 0..MaxWrites \cup {None}]

(***************************************************************************)
(* The ways in which bytes may be on disk or promised, and in no account:  *)
(* marked as written while the own process measures; out of the ledger     *)
(* while another process still goes by an older size; an entry that has    *)
(* timed out; a ledger that could not be written. "sync" is a failed       *)
(* synchronisation.                                                        *)
(***************************************************************************)
Gaps == {"overlap", "behind", "lapsed", "ledger", "sync"}

QuotaTypeOK ==
    /\ alive \subseteq Procs
    /\ owner \in [Stagings -> Procs \cup {None}]
    /\ status \in [Stagings -> InUse \cup Left \cup {"none", "gone"}]
    /\ {size, reserved, written, measure} \subseteq Sizes
    /\ lock \in Stagings \cup {None}
    /\ cache \in [Procs -> Sizes \cup {None}]
    /\ ledger \in Entries
    /\ dirty \in [Procs -> SUBSET Stagings] /\ timer \subseteq Procs
    /\ gaps \subseteq Gaps /\ faults \in 0..MaxFaults

Empty     == [r \in Stagings |-> 0]
NoEntries == [r \in Stagings |-> None]

QuotaInit ==
    /\ alive = Procs
    /\ owner = [r \in Stagings |-> None] /\ status = [r \in Stagings |-> "none"]
    /\ size = Empty /\ reserved = Empty /\ written = Empty
    /\ lock = None /\ measure = Empty
    /\ cache = [p \in Procs |-> None]
    /\ ledger = NoEntries
    /\ dirty = [p \in Procs |-> {}] /\ timer = {}
    /\ gaps = {} /\ faults = 0
-----------------------------------------------------------------------------
Active(r)      == status[r] \in InUse
Outstanding(r) == IF Active(r) THEN reserved[r] - written[r] ELSE 0

\* What the directory takes, or will take when the append goes through.
Promised(r) == IF Active(r) /\ reserved[r] > size[r] THEN reserved[r] ELSE size[r]

\* The sum of the amounts, none of which exceeds MaxWrites, byte by byte.
Bytes(amount) == {b \in (DOMAIN amount) \X (1..MaxWrites) : b[2] <= amount[b[1]]}
TotalBytes(amount) == Cardinality(Bytes(amount))

\* readQuotaLedgerLocked: entries of dead processes, and those that have timed out, go.
Read(lapsed) ==
    [r \in Stagings |-> IF r \in lapsed \/ owner[r] \notin alive THEN None ELSE ledger[r]]

\* The size of r that process q goes by, if any.
Account(q) ==
    IF lock # None /\ owner[lock] = q THEN measure ELSE cache[q]

\* Another process goes by a size of r that lacks bytes which have been marked.
Behind(r) ==
    \E q \in alive \ {owner[r]} :
        /\ Account(q) # None
        /\ Account(q)[r] < IF Active(r) THEN written[r] ELSE size[r]

Fault == faults < MaxFaults /\ faults' = faults + 1

\* The entries of rs are rewritten, and those that are not in read are dropped.
Opened(read, rs) ==
    (IF \E r \in Stagings : read[r] = None /\ ledger[r] # None /\ owner[r] \in alive /\ Outstanding(r) > 0
     THEN {"lapsed"} ELSE {})
    \cup (IF \E r \in Stagings : (r \in rs \/ read[r] # ledger[r]) /\ Behind(r)
          THEN {"behind"} ELSE {})

\* writeQuotaLedgerLocked swallows a failure, which may leave a torn file.
WriteLedger(new, opened) ==
    \/ ledger' = new /\ gaps' = gaps \cup opened /\ UNCHANGED faults
    \/ Fault /\ ledger' \in {ledger, NoEntries} /\ gaps' = gaps \cup opened \cup {"ledger"}

\* scheduleLedgerSync
Schedule(r) ==
    /\ dirty' = [dirty EXCEPT ![owner[r]] = @ \cup {r}]
    /\ timer' = timer \cup {owner[r]}

Invalidate(p) == cache' = [cache EXCEPT ![p] = None]
-----------------------------------------------------------------------------
Create(p, r) ==
    /\ p \in alive \cap Makers[r] /\ status[r] = "none" /\ lock = None
    /\ status' = [status EXCEPT ![r] = "idle"] /\ owner' = [owner EXCEPT ![r] = p]
    /\ Invalidate(p)
    /\ UNCHANGED <<alive, size, reserved, written, lock, measure, ledger, syncVars, gaps, faults>>

\* An append asks for its byte: reserveBytes gets the lock, diskBytesCached starts.
Reserve(r) ==
    LET young == cache[owner[r]]
    IN  /\ status[r] = "idle" /\ reserved[r] < MaxWrites /\ lock = None
        /\ lock' = r
        /\ status' = [status EXCEPT ![r] = IF young = None THEN "scanning" ELSE "measured"]
        /\ measure' = IF young = None THEN size ELSE young
        /\ UNCHANGED <<alive, owner, size, reserved, written, cache, ledger, syncVars, gaps, faults>>

\* Each file was read at some time of the scan. The cache is set, invalidated or not.
ScanEnds ==
    /\ lock # None /\ status[lock] = "scanning"
    /\ measure' \in {f \in Sizes : \A r \in Stagings : f[r] \in measure[r]..size[r]}
    /\ cache' = [cache EXCEPT ![owner[lock]] = measure']
    /\ status' = [status EXCEPT ![lock] = "measured"]
    /\ UNCHANGED <<alive, owner, size, reserved, written, lock, ledger, syncVars, gaps, faults>>

Lapsed == {{}} \cup {{r} : r \in {q \in Stagings : ledger[q] # None}}

\* Disk, entries of the other processes, and what the own reservations still hold.
Fits(read) ==
    LET own    == {r \in Stagings : owner[r] = owner[lock]}
        others == [r \in Stagings \ own |-> IF read[r] = None THEN 0 ELSE read[r]]
    IN  TotalBytes(measure) + TotalBytes(others) + TotalBytes([r \in own |-> Outstanding(r)]) + 1 <= MaxTotal

\* The rest of reserveBytesLocked.
Admit ==
    \E lapsed \in Lapsed :
        LET read == Read(lapsed)
        IN  /\ lock # None /\ status[lock] = "measured"
            /\ IF Fits(read)
               THEN /\ reserved' = [reserved EXCEPT ![lock] = @ + 1]
                    /\ status' = [status EXCEPT ![lock] = "writing"]
                    /\ WriteLedger([read EXCEPT ![lock] = Outstanding(lock) + 1],
                                   Opened(read, {lock}))
               ELSE /\ status' = [status EXCEPT ![lock] = "failed"]
                    /\ WriteLedger(read, Opened(read, {}))
                    /\ UNCHANGED reserved
            /\ lock' = None /\ measure' = Empty
            /\ UNCHANGED <<alive, owner, size, written, cache, syncVars>>

\* The lock is not free for five seconds.
ReserveTimesOut(r) ==
    /\ status[r] = "idle" /\ reserved[r] < MaxWrites
    /\ lock # None /\ owner[lock] # owner[r]
    /\ Fault
    /\ status' = [status EXCEPT ![r] = "failed"]
    /\ UNCHANGED <<alive, owner, size, reserved, written, lock, measure, cache, ledger, syncVars, gaps>>

\* appendFile
Write(r) ==
    /\ status[r] = "writing"
    /\ size' = [size EXCEPT ![r] = @ + 1]
    /\ status' = [status EXCEPT ![r] = "marking"]
    /\ UNCHANGED <<alive, owner, reserved, written, lock, measure, cache, ledger, syncVars, gaps, faults>>

WriteFails(r) ==
    /\ status[r] = "writing" /\ Fault
    /\ status' = [status EXCEPT ![r] = "failed"]
    /\ UNCHANGED <<alive, owner, size, reserved, written, lock, measure, cache, ledger, syncVars, gaps>>

\* The scan that the own process is in may have read the size without the byte.
Overlap(r) ==
    IF lock # None /\ owner[lock] = owner[r] /\ measure[r] < size[r] THEN {"overlap"} ELSE {}

\* Mutant of Mark: the cached size stays.
MarkKeepsCache(r) ==
    /\ status[r] = "marking"
    /\ written' = [written EXCEPT ![r] = @ + 1]
    /\ status' = [status EXCEPT ![r] = "idle"]
    /\ Schedule(r)
    /\ gaps' = gaps \cup Overlap(r)
    /\ UNCHANGED <<alive, owner, size, reserved, lock, measure, cache, ledger, faults>>

\* markWritten: it does not wait for the mutex.
Mark(r) ==
    /\ status[r] = "marking"
    /\ written' = [written EXCEPT ![r] = @ + 1]
    /\ status' = [status EXCEPT ![r] = "idle"]
    /\ Invalidate(owner[r])
    /\ Schedule(r)
    /\ gaps' = gaps \cup Overlap(r)
    /\ UNCHANGED <<alive, owner, size, reserved, lock, measure, ledger, faults>>
-----------------------------------------------------------------------------
\* Mutant of Entry: the entry of a reservation in use is dropped as well.
EntryDropped(r) == None

\* What is left of a reservation at the time of the write.
Entry(r) == IF Active(r) THEN Outstanding(r) ELSE None

(***************************************************************************)
(* The timer of scheduleLedgerSync fires, and syncLedgerEntries gets the   *)
(* lock. An id that is queued while it waits is synchronised at once here, *)
(* and a second later in the code; what is written is read under the lock. *)
(***************************************************************************)
SyncWrites(p) ==
    \E lapsed \in Lapsed :
        LET read == Read(lapsed)
        IN  /\ p \in timer /\ lock = None
            /\ timer' = timer \ {p} /\ dirty' = [dirty EXCEPT ![p] = {}]
            /\ WriteLedger([r \in Stagings |-> IF r \in dirty[p] THEN Entry(r) ELSE read[r]],
                           Opened(read, dirty[p]))
            /\ UNCHANGED <<alive, resVars, lock, measure, cache>>

\* The lock is not free in time. The ids stay queued, and no timer is set.
SyncFails(p) ==
    /\ p \in timer /\ lock # None /\ Fault
    /\ timer' = timer \ {p}
    /\ gaps' = gaps \cup {"sync"}
    /\ UNCHANGED <<alive, resVars, lock, measure, cache, ledger, dirty>>
-----------------------------------------------------------------------------
(***************************************************************************)
(* discardStaging, also while an append is under way, which then fails on  *)
(* the missing directory.                                                  *)
(***************************************************************************)
Discard(r) ==
    /\ Active(r) /\ status[r] # "leaked" /\ lock = None
    /\ status' = [status EXCEPT ![r] = "gone"] /\ size' = [size EXCEPT ![r] = 0]
    /\ Invalidate(owner[r])
    /\ Schedule(r)
    /\ UNCHANGED <<alive, owner, reserved, written, lock, measure, ledger, gaps, faults>>

\* The directory cannot be removed, or the lock times out: nobody tries again.
DiscardFails(r) ==
    /\ Active(r) /\ status[r] \notin Reserving \cup {"leaked"} /\ Fault
    /\ status' = [status EXCEPT ![r] = "leaked"]
    /\ UNCHANGED <<alive, owner, size, reserved, written, lock, measure, cache, ledger, syncVars, gaps>>

\* Mutant of Finalize: the reservation is deleted, and the ledger not told.
FinalizeSilently(r) ==
    /\ status[r] = "idle" /\ lock = None
    /\ status' = [status EXCEPT ![r] = "kept"]
    /\ Invalidate(owner[r])
    /\ UNCHANGED <<alive, owner, size, reserved, written, lock, measure, ledger, syncVars, gaps, faults>>

\* finalizeStaging: what is on disk is left to diskBytesCached.
Finalize(r) ==
    /\ status[r] = "idle" /\ lock = None
    /\ status' = [status EXCEPT ![r] = "kept"]
    /\ Invalidate(owner[r])
    /\ Schedule(r)
    /\ UNCHANGED <<alive, owner, size, reserved, written, lock, measure, ledger, gaps, faults>>

(***************************************************************************)
(* cleanup removes published directories and those of dead processes, and  *)
(* measures the disk. Which ones have expired is not modelled here.        *)
(***************************************************************************)
Cleanup(p) ==
    \E rs \in SUBSET {r \in Stagings : status[r] \in Left} :
        /\ p \in alive /\ lock = None /\ rs # {}
        /\ status' = [r \in Stagings |-> IF r \in rs THEN "gone" ELSE status[r]]
        /\ size' = [r \in Stagings |-> IF r \in rs THEN 0 ELSE size[r]]
        /\ cache' = [cache EXCEPT ![p] = size']
        /\ UNCHANGED <<alive, owner, reserved, written, lock, measure, ledger, syncVars, gaps, faults>>

\* DISK_BYTES_CACHE_MS have passed.
CacheExpires(p) ==
    /\ cache[p] # None
    /\ Invalidate(p)
    /\ UNCHANGED <<alive, resVars, lock, measure, ledger, syncVars, gaps, faults>>

\* Process p is writing the ledger, or may be about to.
WritesLedger(p) ==
    \/ lock # None /\ status[lock] = "measured" /\ owner[lock] = p
    \/ lock = None /\ p \in timer

\* The lock of a dead process is taken over, and its directories are left behind.
Crash(p) ==
    /\ p \in alive /\ alive # {p} /\ Fault
    /\ alive' = alive \ {p}
    /\ status' = [r \in Stagings |-> IF owner[r] = p /\ Active(r) THEN "orphan" ELSE status[r]]
    /\ IF lock # None /\ owner[lock] = p
       THEN lock' = None /\ measure' = Empty
       ELSE UNCHANGED <<lock, measure>>
    /\ Invalidate(p)
    /\ dirty' = [dirty EXCEPT ![p] = {}] /\ timer' = timer \ {p}
    /\ \/ UNCHANGED <<ledger, gaps>>
       \/ WritesLedger(p) /\ ledger' = NoEntries /\ gaps' = gaps \cup {"ledger"}
    /\ UNCHANGED <<owner, size, reserved, written>>
-----------------------------------------------------------------------------
Append(r) ==
    \/ Reserve(r) \/ ReserveTimesOut(r) \/ Write(r) \/ WriteFails(r) \/ Mark(r)

QuotaNext ==
    \/ \E p \in Procs : (\E r \in Stagings : Create(p, r)) \/ SyncWrites(p)
                        \/ SyncFails(p) \/ Cleanup(p) \/ CacheExpires(p) \/ Crash(p)
    \/ \E r \in Stagings : Append(r) \/ Discard(r) \/ DiscardFails(r) \/ Finalize(r)
    \/ ScanEnds \/ Admit

QuotaSpec == QuotaInit /\ [][QuotaNext]_quotaVars

\* The timers fire, a scan ends, and a synchronisation gets the lock or gives up.
FairQuotaSpec ==
    /\ QuotaSpec
    /\ WF_quotaVars(ScanEnds) /\ WF_quotaVars(Admit)
    /\ \A p \in Procs : WF_quotaVars(SyncWrites(p))
-----------------------------------------------------------------------------
(***************************************************************************)
(* The temp root never holds, nor has promised, more than its capacity,    *)
(* in all processes together, unless bytes have left the accounts in one   *)
(* of the four ways: every other interleaving of reservations, appends,    *)
(* measurements and synchronisations counts each byte at least once.       *)
(***************************************************************************)
CapacityKept == gaps \subseteq {"sync"} => TotalBytes([r \in Stagings |-> Promised(r)]) <= MaxTotal

(***************************************************************************)
(* The ledger shows other processes at least what a living reservation     *)
(* still holds: an entry that lags behind counts too much, never too       *)
(* little, also after a failed synchronisation.                            *)
(***************************************************************************)
LedgerConservative ==
    gaps \cap {"lapsed", "ledger"} = {} =>
        \A r \in Stagings :
            Outstanding(r) > 0 => ledger[r] # None /\ ledger[r] >= Outstanding(r)

(***************************************************************************)
(* What a reservation held is given back: once it is released, its entry   *)
(* leaves the ledger, unless its process dies, a synchronisation has       *)
(* failed, which nobody repeats, or the ledger could not be written.       *)
(***************************************************************************)
CapacityReturned ==
    \A r \in Stagings :
        status[r] \in {"kept", "gone"} ~>
            \/ ledger[r] = None \/ owner[r] \notin alive
            \/ gaps \cap {"sync", "ledger"} # {}

(***************************************************************************)
(* The comment on reserveBytesLocked: a request that goes over the limit,  *)
(* with the disk and what all processes have outstanding, is rejected.     *)
(***************************************************************************)
NeverOverfull == TotalBytes([r \in Stagings |-> Promised(r)]) <= MaxTotal
=============================================================================
