------------------------- MODULE ProcessSupervisor -------------------------
(***************************************************************************)
(* The child-process registry of src/src/process-supervisor.ts: how a      *)
(* child enters the registry, how it is terminated (graceful signal,       *)
(* bounded wait, force kill, bounded wait; on Windows a "taskkill" control *)
(* process first), how it leaves the registry, and how shutdown drains the *)
(* registry and reports what is left.                                      *)
(*                                                                         *)
(* One step is one turn of the event loop: a synchronous method, a timer,  *)
(* or a child event with the promise continuations it releases.            *)
(***************************************************************************)
EXTENDS Naturals, FiniteSets

CONSTANTS
    Children,    \* the children the tools start
    MaxActive,   \* maxActiveProcesses
    Windows,     \* IS_WINDOWS
    Protected    \* children whose credentials differ: signalling them is EPERM

ASSUME ConstantsAssumption ==
    /\ MaxActive \in Nat \ {0}
    /\ Windows \in BOOLEAN
    /\ Protected \subseteq Children

\* A managed process is a child the tools started, or the taskkill process
\* that killWindowsTree starts on behalf of one (tree: false, internalControl).
Main(c)    == <<c, "main">>
Control(c) == <<c, "control">>
Mains      == Children \X {"main"}
Controls   == Children \X {"control"}
Procs      == Mains \cup Controls
Refusing   == Protected \X {"main"}

\* "output-limit" stands for both reasons a caller may give itself: the other
\* one, "internal-error", is treated alike.
Reasons == {"timeout", "cancelled", "output-limit", "shutdown"}
Settled == {"exited", "failed"}
Phases  == {"idle", "treekill", "grace", "force"} \cup Settled

VARIABLES
    \* The operating system's side.
    started,     \* processes that were spawned
    exited,      \* those whose exitCode or signalCode is set: ~isAlive
    closeSeen,   \* those whose "close" event was emitted
    \* The registry and its entries.
    active,      \* keys of this.active
    closed,      \* Entry.closed
    reason,      \* ManagedProcessState.reason; "none": termination not requested
    timedOut,    \* ManagedProcessState.timedOut
    cancelled,   \* ManagedProcessState.cancelled
    terminated,  \* ManagedProcessState.terminated
    phase,       \* where terminateEntry stands; Settled: its promise resolved,
                 \* "failed": terminationFailed was set and counted
    \* The shutdown.
    shut,        \* "serving", then what shutdown's async body waits for
    awaited,     \* the entries whose termination shutdown awaits
    remaining    \* ShutdownReport.remaining; the report is clean when it is {}

osVars    == <<started, exited, closeSeen>>
stateVars == <<reason, timedOut, cancelled, terminated, phase>>
shutVars  == <<shut, awaited, remaining>>
vars      == <<osVars, active, closed, stateVars, shutVars>>

TypeOK ==
    /\ started \subseteq Procs
    /\ exited \subseteq started
    /\ closeSeen \subseteq exited
    /\ active \subseteq started
    /\ closed \subseteq started
    /\ reason \in [Procs -> Reasons \cup {"none"}]
    /\ timedOut \subseteq Procs
    /\ cancelled \subseteq Mains
    /\ terminated \subseteq Procs
    /\ phase \in [Procs -> Phases]
    /\ shut \in {"serving", "terminating", "draining", "reported"}
    /\ awaited \subseteq Procs
    /\ remaining \subseteq Procs

Init ==
    /\ started = {} /\ exited = {} /\ closeSeen = {}
    /\ active = {} /\ closed = {}
    /\ reason = [p \in Procs |-> "none"]
    /\ timedOut = {} /\ cancelled = {} /\ terminated = {}
    /\ phase = [p \in Procs |-> "idle"]
    /\ shut = "serving" /\ awaited = {} /\ remaining = {}
-----------------------------------------------------------------------------
Running      == started \ exited
Requested(p) == reason[p] # "none"

\* terminateEntry runs taskkill for a tree on Windows, and signals otherwise.
Direct(p) == ~Windows \/ p \in Controls

\* A signal to such a process is refused, and child.kill emits "error" at once.
Refuses(p) == p \in Running /\ p \in Refusing

(***************************************************************************)
(* terminate(p, why) for every p of S, none of them requested before.      *)
(*   gone:    already exited, so waitForExit resolves at once and the      *)
(*            continuation removes the entry                               *)
(*   refused: the "error" of the refused SIGTERM runs cleanup while        *)
(*            terminationPromise is still null, which removes the entry    *)
(*   trees:   taskkill is spawned and registered                           *)
(* The others wait graceMs for their exit.                                 *)
(***************************************************************************)
TerminateAll(S, why) ==
    LET gone    == {p \in S : Direct(p) /\ p \in exited}
        refused == {p \in S : Direct(p) /\ Refuses(p)}
        trees   == {p \in S : ~Direct(p)}
        kills   == {q \in Controls : Main(q[1]) \in trees}
    IN  /\ reason' = [p \in Procs |-> IF p \in S THEN why ELSE reason[p]]
        /\ phase' = [p \in Procs |-> IF p \in gone THEN "exited"
                                     ELSE IF p \in trees THEN "treekill"
                                     ELSE IF p \in S THEN "grace"
                                     ELSE phase[p]]
        /\ terminated' = terminated \cup gone
        /\ closed' = closed \cup gone \cup refused
        /\ active' = (active \ (gone \cup refused)) \cup kills
        /\ started' = started \cup kills
        /\ UNCHANGED <<exited, closeSeen>>

\* The guard of the timeout timer, the abort listener and terminate itself.
MayTerminate(p) == p \in active /\ ~Requested(p)
-----------------------------------------------------------------------------
\* Mutant of Spawn: no shutdown check.
SpawnWhileDraining(c) ==
    /\ Main(c) \notin started
    /\ Cardinality(active) < MaxActive
    /\ started' = started \cup {Main(c)}
    /\ active' = active \cup {Main(c)}
    /\ UNCHANGED <<exited, closeSeen, closed, stateVars, shutVars>>

\* spawnManaged, execFileManaged and track: refused while draining or at the
\* limit, which control processes count against too. A spawn that fails is a
\* child that exits at once.
Spawn(c) ==
    /\ Main(c) \notin started
    /\ shut = "serving"
    /\ Cardinality(active) < MaxActive
    /\ started' = started \cup {Main(c)}
    /\ active' = active \cup {Main(c)}
    /\ UNCHANGED <<exited, closeSeen, closed, stateVars, shutVars>>

\* The process ends, by itself or by a signal: exitCode or signalCode is set.
Exit(p) ==
    /\ p \in Running
    /\ exited' = exited \cup {p}
    /\ UNCHANGED <<started, closeSeen, active, closed, stateVars, shutVars>>

\* Mutant of Timeout: no terminationRequested check.
TimeoutUnguarded(p) ==
    /\ p \in active /\ p \notin closed
    /\ timedOut' = timedOut \cup {p}
    /\ TerminateAll({q \in {p} : ~Requested(q)}, "timeout")
    /\ UNCHANGED <<cancelled, shutVars>>

\* Mutant of Timeout: an exited child is left to its "close".
TimeoutAliveOnly(p) ==
    /\ MayTerminate(p) /\ p \notin closed /\ p \notin exited
    /\ timedOut' = timedOut \cup {p}
    /\ TerminateAll({p}, "timeout")
    /\ UNCHANGED <<cancelled, shutVars>>

\* The timeout timer of track.
Timeout(p) ==
    /\ MayTerminate(p) /\ p \notin closed
    /\ timedOut' = timedOut \cup {p}
    /\ TerminateAll({p}, "timeout")
    /\ UNCHANGED <<cancelled, shutVars>>

\* The abort listener of track.
Abort(c) ==
    /\ MayTerminate(Main(c)) /\ Main(c) \notin closed
    /\ cancelled' = cancelled \cup {Main(c)}
    /\ TerminateAll({Main(c)}, "cancelled")
    /\ UNCHANGED <<timedOut, shutVars>>

\* Mutant of CallerTerminates: a second request starts a second termination.
CallerTerminatesAgain(c) ==
    /\ Main(c) \in active
    /\ TerminateAll({Main(c)}, "output-limit")
    /\ UNCHANGED <<timedOut, cancelled, shutVars>>

\* A caller of managed.terminate: an output limit, a failed stream.
CallerTerminates(c) ==
    /\ MayTerminate(Main(c))
    /\ TerminateAll({Main(c)}, "output-limit")
    /\ UNCHANGED <<timedOut, cancelled, shutVars>>
-----------------------------------------------------------------------------
(***************************************************************************)
(* "close" of a child: cleanup removes the entry (an exited child leaves   *)
(* the registry whatever its termination does), then a waitForExit that is *)
(* pending resolves to true.                                               *)
(***************************************************************************)
Waiting(p) == phase[p] \in {"grace", "force"}

Close(c) ==
    LET p == Main(c)
    IN  /\ p \in exited \ closeSeen
        /\ closeSeen' = closeSeen \cup {p}
        /\ closed' = closed \cup {p}
        /\ active' = active \ {p}
        /\ terminated' = IF Waiting(p) \/ (Requested(p) /\ p \notin closed)
                         THEN terminated \cup {p} ELSE terminated
        /\ phase' = [phase EXCEPT ![p] = IF Waiting(p) THEN "exited" ELSE @]
        /\ UNCHANGED <<started, exited, reason, timedOut, cancelled, shutVars>>

(***************************************************************************)
(* What terminateEntry does when killTreeImpl resolves (the first of the   *)
(* control's close and the control timer): a child that is still alive     *)
(* after a failed taskkill is sent SIGKILL, whose refusal marks the entry  *)
(* closed but leaves it registered until the termination ends; a child     *)
(* that exited meanwhile ends it; otherwise the grace window opens.        *)
(***************************************************************************)
KillPending(c) == phase[Main(c)] = "treekill"

MainGone(c) == {p \in {Main(c)} : KillPending(c) /\ p \in exited}

MainRefused(c, ok) == {p \in {Main(c)} : KillPending(c) /\ ~ok /\ Refuses(p)}

\* Mutant of AfterTreeKill: taskkill's answer ends the termination.
AfterTreeKillEnds(c) == IF KillPending(c) THEN "exited" ELSE phase[Main(c)]

AfterTreeKill(c) ==
    IF ~KillPending(c) THEN phase[Main(c)]
    ELSE IF Main(c) \in exited THEN "exited" ELSE "grace"

\* "close" of taskkill, with exit code 0 or another one.
CloseControl(c, ok) ==
    LET p == Control(c)
        own == {q \in {p} : Waiting(q) \/ (Requested(q) /\ q \notin closed)}
    IN  /\ p \in exited \ closeSeen
        /\ ok => c \notin Protected
        /\ closeSeen' = closeSeen \cup {p}
        /\ closed' = closed \cup {p} \cup MainGone(c) \cup MainRefused(c, ok)
        /\ active' = active \ ({p} \cup MainGone(c))
        /\ terminated' = terminated \cup own \cup MainGone(c)
        /\ phase' = [phase EXCEPT ![p] = IF Waiting(p) THEN "exited" ELSE @,
                                  ![Main(c)] = AfterTreeKill(c)]
        /\ UNCHANGED <<started, exited, reason, timedOut, cancelled, shutVars>>

\* killWindowsTree's own timer: finish(false).
ControlTimer(c) ==
    /\ KillPending(c)
    /\ closed' = closed \cup MainGone(c) \cup MainRefused(c, FALSE)
    /\ active' = active \ MainGone(c)
    /\ terminated' = terminated \cup MainGone(c)
    /\ phase' = [phase EXCEPT ![Main(c)] = AfterTreeKill(c)]
    /\ UNCHANGED <<osVars, reason, timedOut, cancelled, shutVars>>

\* waitForExit's timer at the end of a window, for a child that has exited
\* although its "close" is still to come.
WindowEndsExited(p) ==
    /\ Waiting(p) /\ p \in exited
    /\ phase' = [phase EXCEPT ![p] = "exited"]
    /\ terminated' = terminated \cup {p}
    /\ closed' = closed \cup {p}
    /\ active' = active \ {p}
    /\ UNCHANGED <<osVars, reason, timedOut, cancelled, shutVars>>

\* The grace window ends with the child alive: SIGKILL, whose refusal closes
\* the entry; it stays registered until the termination ends.
GraceEnds(p) ==
    /\ phase[p] = "grace" /\ p \notin exited
    /\ phase' = [phase EXCEPT ![p] = "force"]
    /\ closed' = IF Refuses(p) THEN closed \cup {p} ELSE closed
    /\ UNCHANGED <<osVars, active, reason, timedOut, cancelled, terminated, shutVars>>

\* Mutant of ForceEnds: the entry of a failed termination is removed.
ForceEndsRemoves(p) ==
    /\ phase[p] = "force" /\ p \notin exited
    /\ phase' = [phase EXCEPT ![p] = "failed"]
    /\ active' = active \ {p}
    /\ UNCHANGED <<osVars, closed, reason, timedOut, cancelled, terminated, shutVars>>

\* The force window ends with the child alive: the termination failed. The
\* entry stays registered until its "close" unless it was closed before.
ForceEnds(p) ==
    /\ phase[p] = "force" /\ p \notin exited
    /\ phase' = [phase EXCEPT ![p] = "failed"]
    /\ active' = IF p \in closed THEN active \ {p} ELSE active
    /\ UNCHANGED <<osVars, closed, reason, timedOut, cancelled, terminated, shutVars>>
-----------------------------------------------------------------------------
\* shutdown: no further child, and every registered one is terminated.
ShutdownStart ==
    /\ shut = "serving"
    /\ shut' = "terminating"
    /\ awaited' = active
    /\ TerminateAll({p \in active : ~Requested(p)}, "shutdown")
    /\ UNCHANGED <<timedOut, cancelled, remaining>>

\* Mutant of ShutdownTerminated: Promise.all over successful terminations.
ShutdownAllExited ==
    /\ shut = "terminating"
    /\ \A p \in awaited : phase[p] = "exited"
    /\ shut' = "draining"
    /\ UNCHANGED <<osVars, active, closed, stateVars, awaited, remaining>>

\* Promise.allSettled over the terminations.
ShutdownTerminated ==
    /\ shut = "terminating"
    /\ \A p \in awaited : phase[p] \in Settled
    /\ shut' = "draining"
    /\ UNCHANGED <<osVars, active, closed, stateVars, awaited, remaining>>

\* The polling loop ends: the registry is empty or deadlineMs has passed.
ShutdownReport ==
    /\ shut = "draining"
    /\ shut' = "reported"
    /\ remaining' = active
    /\ UNCHANGED <<osVars, active, closed, stateVars, awaited>>
-----------------------------------------------------------------------------
Next ==
    \/ \E c \in Children :
          \/ Spawn(c) \/ Abort(c) \/ CallerTerminates(c) \/ Close(c) \/ ControlTimer(c)
          \/ \E ok \in BOOLEAN : CloseControl(c, ok)
    \/ \E p \in Procs :
          Exit(p) \/ Timeout(p) \/ WindowEndsExited(p) \/ GraceEnds(p) \/ ForceEnds(p)
    \/ ShutdownStart \/ ShutdownTerminated \/ ShutdownReport

Spec == Init /\ [][Next]_vars

(***************************************************************************)
(* Timers that are set do fire, and shutdown's own async body goes on.     *)
(* Nothing is assumed of the processes: one may never exit, and the        *)
(* "close" of an exited one may never come (a grandchild can hold its      *)
(* pipes open).                                                            *)
(***************************************************************************)
Timers(p)  == Timeout(p) \/ WindowEndsExited(p) \/ GraceEnds(p) \/ ForceEnds(p)

Fairness ==
    /\ \A p \in Procs : WF_vars(Timers(p))
    /\ \A c \in Children : WF_vars(ControlTimer(c))
    /\ WF_vars(ShutdownTerminated) /\ WF_vars(ShutdownReport)

FairSpec == Spec /\ Fairness
-----------------------------------------------------------------------------
(***************************************************************************)
(* Properties.                                                             *)
(***************************************************************************)

\* A child that refuses signals may leave the registry alive, but only into
\* the windows of its termination, or counted as a failed termination
\* (terminationFailureCount, onTerminationFailed).
Ending == {"grace", "force", "failed"}
KnownAsRefusing(p) == p \in Refusing /\ phase[p] \in Ending

\* A live child is never dropped from the registry, whatever the order of its
\* exit, its close, its timers and the end of its termination; a child that
\* refuses signals, whose refusal is taken for its end, is dropped only while
\* its termination goes on or after that was counted as failed.
RegistryCoversLive == \A p \in Running : p \in active \/ KnownAsRefusing(p)

\* Every child that shutdown's report leaves out is dead, or refused its
\* signal and is being waited for or was counted as a failure: the report of
\* shutdown() is truthful about every child that can be signalled.
ReportTruthful ==
    shut = "reported" => \A p \in Running : p \in remaining \/ KnownAsRefusing(p)

\* The same without the exception: a clean report of shutdown() means that no
\* child is left. It holds where no child refuses its signals.
CleanMeansNoChild == shut = "reported" /\ remaining = {} => Running = {}

\* A child is reported as timed out only if the timeout ended it, as cancelled
\* only if the caller did: never both, and never one whose termination had
\* another cause, in spite of the timer, the abort and shutdown racing.
AttributionExclusive ==
    /\ \A p \in timedOut : reason[p] = "timeout"
    /\ \A p \in cancelled : reason[p] = "cancelled"

\* "terminated" and a termination's exited: true are claimed of dead processes
\* only, and only where a termination was requested. A termination that still
\* waits has its live process in the registry, on Windows even one that refuses
\* its signals (elsewhere the "error" of the refused SIGTERM drops it at once);
\* a failed one keeps it there unless the process refused.
OutcomeTruthful ==
    /\ \A p \in Procs : p \in terminated \/ phase[p] = "exited" => p \in exited
    /\ \A p \in Procs : Requested(p) <=> phase[p] # "idle"
    /\ terminated \subseteq {p \in Procs : Requested(p)}
    /\ \A p \in Procs : phase[p] \in {"treekill", "grace", "force"} =>
          p \in active \/ p \in exited \/ (Direct(p) /\ p \in Refusing)
    /\ \A p \in Procs : phase[p] = "failed" =>
          p \in active \/ p \in exited \/ p \in Refusing

\* The first request wins and a termination ends once: concurrent terminate
\* calls share one promise, so neither the reason nor the outcome ever changes.
FirstRequestWins ==
    [][\A p \in Procs : /\ Requested(p) => reason'[p] = reason[p]
                        /\ phase[p] \in Settled => phase'[p] = phase[p]]_vars

\* Once shutdown has begun every registered child is being terminated, so
\* nothing but a refusing or unkillable process can outlive it.
DrainingTerminatesAll ==
    shut # "serving" => \A p \in active \cap Mains : Requested(p)

\* Nothing is open about a process: a requested termination has ended, and its
\* entry is gone or is a failed termination's.
AtRest(p) ==
    /\ Requested(p) => phase[p] \in Settled
    /\ p \in active => phase[p] = "failed"

\* Every requested termination ends, with its process dead or counted as a
\* failure, and no registered process is forgotten, even one that never exits
\* or whose "close" never comes, whatever the children and taskkill refuse to
\* do (terminateEntry, scheduleEntryRemoval).
ChildrenSettle == \A p \in Procs : p \in active \/ Requested(p) ~> AtRest(p)

\* shutdown always reports.
ShutdownReports == shut = "terminating" ~> shut = "reported"
=============================================================================
