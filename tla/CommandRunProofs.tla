-------------------------- MODULE CommandRunProofs --------------------------
(***************************************************************************)
(* Proofs about a command that runs: the safety properties of              *)
(* ProcessSupervisor, for every set of children, every limit, on Windows   *)
(* and elsewhere, whichever children refuse signals; and, from Awaited on, *)
(* those of CommandOutput, for every number of chunks, all limits and any  *)
(* number of failures.                                                     *)
(***************************************************************************)
EXTENDS ProcessSupervisor, CommandOutput, SequenceTheorems, FiniteSetTheorems,
        WellFoundedInduction, TLAPS

\* An entry is closed by an exit or by a refused signal, never otherwise. It is
\* what makes the late removal of a closed entry safe.
ClosedForCause == \A p \in closed : p \in exited \/ p \in Refusing

Inv ==
    /\ TypeOK
    /\ RegistryCoversLive
    /\ ClosedForCause
    /\ OutcomeTruthful
    /\ AttributionExclusive
    /\ DrainingTerminatesAll
    /\ ReportTruthful

InWindow == {"treekill", "grace", "force"}
-----------------------------------------------------------------------------
LEMMA ProcsFacts ==
    /\ \A c \in Children : Main(c) \in Mains /\ Control(c) \in Controls
    /\ \A p \in Mains : p \notin Controls
    /\ \A q \in Controls : q[1] \in Children
    /\ Procs = Mains \cup Controls
BY DEF Mains, Controls, Procs, Main, Control

\* Terminating registered processes that were not requested before keeps the
\* types of the variables that terminate writes.
LEMMA TerminateTyped ==
    ASSUME TypeOK, NEW S \in SUBSET active, NEW why \in Reasons, TerminateAll(S, why)
    PROVE  /\ started' \subseteq Procs /\ started \subseteq started'
           /\ exited' = exited /\ closeSeen' = closeSeen
           /\ active' \subseteq started'
           /\ closed' \subseteq started'
           /\ reason' \in [Procs -> Reasons \cup {"none"}]
           /\ terminated' \subseteq Procs
           /\ phase' \in [Procs -> Phases]
<1> DEFINE gone    == {p \in S : Direct(p) /\ p \in exited}
           refused == {p \in S : Direct(p) /\ Refuses(p)}
           trees   == {p \in S : ~Direct(p)}
           kills   == {q \in Controls : Main(q[1]) \in trees}
<1>1. /\ reason' = [p \in Procs |-> IF p \in S THEN why ELSE reason[p]]
      /\ phase' = [p \in Procs |-> IF p \in gone THEN "exited"
                                   ELSE IF p \in trees THEN "treekill"
                                   ELSE IF p \in S THEN "grace"
                                   ELSE phase[p]]
      /\ terminated' = terminated \cup gone
      /\ closed' = closed \cup gone \cup refused
      /\ active' = (active \ (gone \cup refused)) \cup kills
      /\ started' = started \cup kills
      /\ UNCHANGED <<exited, closeSeen>>
  BY DEF TerminateAll
<1>2. kills \subseteq Procs /\ S \subseteq started /\ started \subseteq Procs
  BY DEF Procs, TypeOK
<1>3. reason' \in [Procs -> Reasons \cup {"none"}]
  BY <1>1 DEF TypeOK
<1>4. phase' \in [Procs -> Phases]
  BY <1>1 DEF TypeOK, Phases, Settled
<1>5. QED  BY <1>1, <1>2, <1>3, <1>4 DEF TypeOK

\* What terminating unrequested processes does to the entries: it drops only
\* processes that have exited or refuse the signal, it starts and registers
\* taskkill, and it leaves alone what was requested before.
LEMMA TerminateKeeps ==
    ASSUME Inv, NEW S \in SUBSET active, \A p \in S : ~Requested(p),
           NEW why \in Reasons, TerminateAll(S, why)
    PROVE  /\ RegistryCoversLive' /\ ClosedForCause' /\ OutcomeTruthful'
           /\ active' \cap Mains \subseteq active
           /\ started' \subseteq started \cup active'
           /\ \A p \in S : reason'[p] = why
           /\ \A p \in Procs \ S : reason'[p] = reason[p]
           /\ \A p \in Procs : Requested(p) => phase'[p] = phase[p]
           /\ (\A p \in S : Direct(p)) => started' = started
<1> DEFINE gone    == {p \in S : Direct(p) /\ p \in exited}
           refused == {p \in S : Direct(p) /\ Refuses(p)}
           trees   == {p \in S : ~Direct(p)}
           kills   == {q \in Controls : Main(q[1]) \in trees}
<1>1. /\ reason' = [p \in Procs |-> IF p \in S THEN why ELSE reason[p]]
      /\ phase' = [p \in Procs |-> IF p \in gone THEN "exited"
                                   ELSE IF p \in trees THEN "treekill"
                                   ELSE IF p \in S THEN "grace"
                                   ELSE phase[p]]
      /\ terminated' = terminated \cup gone
      /\ closed' = closed \cup gone \cup refused
      /\ active' = (active \ (gone \cup refused)) \cup kills
      /\ started' = started \cup kills
      /\ UNCHANGED <<exited, closeSeen>>
  BY DEF TerminateAll
<1>2. S \subseteq Procs /\ kills \subseteq Controls
  BY DEF TypeOK, Inv
<1>3. RegistryCoversLive'
  <2>1. SUFFICES ASSUME NEW p \in started', p \notin exited', p \notin active'
                 PROVE  p \in Refusing /\ phase'[p] \in Ending
    BY DEF RegistryCoversLive, Running, KnownAsRefusing
  <2>2. p \in started /\ p \notin exited /\ p \in Procs
    BY <1>1, <1>2, <2>1 DEF Inv, TypeOK
  <2>3. CASE p \in S
    BY <1>1, <2>1, <2>2, <2>3 DEF Refuses, Ending
  <2>4. CASE p \notin S
    BY <1>1, <2>1, <2>2, <2>4 DEF Inv, RegistryCoversLive, Running, KnownAsRefusing
  <2>5. QED  BY <2>3, <2>4
<1>4. ClosedForCause'
  BY <1>1 DEF Inv, ClosedForCause, Refuses, Refusing
<1>5. \A p \in S : reason'[p] = why
  BY <1>1, <1>2
<1>6. \A p \in Procs \ S : reason'[p] = reason[p]
  BY <1>1
<1>7. \A p \in Procs : p \notin S => phase'[p] = phase[p]
  BY <1>1
<1>8. \A p \in S : phase'[p] # "idle" /\ (phase'[p] = "exited" => p \in exited)
  BY <1>1, <1>2
<1>9. why # "none"
  BY DEF Reasons
<1>10. OutcomeTruthful'
  <2>1. \A p \in Procs : p \in terminated' \/ phase'[p] = "exited" => p \in exited'
    BY <1>1, <1>7, <1>8 DEF Inv, OutcomeTruthful
  <2>2. \A p \in Procs : reason'[p] # "none" <=> phase'[p] # "idle"
    BY <1>5, <1>6, <1>7, <1>8, <1>9 DEF Inv, OutcomeTruthful, Requested
  <2>3. \A p \in terminated' : p \in Procs /\ reason'[p] # "none"
    BY <1>1, <1>2, <1>5, <1>6, <1>9 DEF Inv, OutcomeTruthful, Requested
  <2>4. \A p \in Procs : phase'[p] \in InWindow =>
           p \in active' \/ p \in exited' \/ (Direct(p) /\ p \in Refusing)
    BY <1>1, <1>7 DEF Inv, OutcomeTruthful, Refuses, InWindow
  <2>5. \A p \in Procs : phase'[p] = "failed" =>
           p \in active' \/ p \in exited' \/ p \in Refusing
    BY <1>1, <1>7 DEF Inv, OutcomeTruthful, Refuses
  <2>6. QED  BY <2>1, <2>2, <2>3, <2>4, <2>5 DEF OutcomeTruthful, Requested, Direct, InWindow
<1>11. active' \cap Mains \subseteq active
  BY <1>1, <1>2, ProcsFacts
<1>12. (\A p \in S : Direct(p)) => started' = started
  BY <1>1
<1>13. QED  BY <1>1, <1>3, <1>4, <1>5, <1>6, <1>7, <1>10, <1>11, <1>12
-----------------------------------------------------------------------------
LEMMA InitInv == Init => Inv
BY ProcsFacts DEF Init, Inv, TypeOK, RegistryCoversLive, ClosedForCause, OutcomeTruthful,
   AttributionExclusive, DrainingTerminatesAll, ReportTruthful, Running, Requested, Phases,
   Settled, Main, Control

\* A step that terminates S, in the way TerminateKeeps describes, keeps the
\* invariant if it records only the cause it gives, and begins the shutdown
\* only by terminating all that is left.
LEMMA TerminateInv ==
    ASSUME Inv, NEW S \in SUBSET active, \A p \in S : ~Requested(p),
           NEW why \in Reasons, TerminateAll(S, why),
           timedOut' = timedOut \cup {p \in S : why = "timeout"},
           cancelled' = cancelled \cup {p \in S \cap Mains : why = "cancelled"},
           \/ UNCHANGED shutVars
           \/ /\ shut' = "terminating" /\ awaited' = active /\ UNCHANGED remaining
              /\ S = {p \in active : ~Requested(p)}
    PROVE  Inv'
<1>1. TypeOK'
  BY TerminateTyped, ProcsFacts DEF Inv, TypeOK, shutVars
<1>2. RegistryCoversLive' /\ ClosedForCause' /\ OutcomeTruthful'
  BY TerminateKeeps
<1>3. AttributionExclusive'
  <2>1. \A p \in timedOut : p \in Procs /\ p \notin S /\ reason[p] = "timeout"
    BY DEF Inv, TypeOK, AttributionExclusive, Requested
  <2>2. \A p \in cancelled : p \in Procs /\ p \notin S /\ reason[p] = "cancelled"
    BY DEF Inv, TypeOK, AttributionExclusive, Requested, Mains, Procs
  <2>3. QED  BY <2>1, <2>2, TerminateKeeps DEF AttributionExclusive
<1>4. DrainingTerminatesAll'
  <2>1. \A p \in active : p \in Procs
    BY DEF Inv, TypeOK
  <2>2. \A p \in Procs : Requested(p) => reason'[p] # "none"
    BY TerminateKeeps DEF Requested
  <2>3. \A p \in S : reason'[p] # "none"
    BY TerminateKeeps DEF Reasons
  <2>4. \A p \in active' \cap Mains : p \in active
    BY TerminateKeeps
  <2>5. CASE UNCHANGED shutVars
    BY <2>1, <2>2, <2>4, <2>5 DEF Inv, DrainingTerminatesAll, Requested, shutVars
  <2>6. CASE S = {p \in active : ~Requested(p)}
    BY <2>1, <2>2, <2>3, <2>4, <2>6 DEF DrainingTerminatesAll, Requested
  <2>7. QED  BY <2>5, <2>6
<1>5. ReportTruthful'
  <2>1. SUFFICES ASSUME shut' = "reported" PROVE ReportTruthful'
    BY DEF ReportTruthful
  <2>2. shut = "reported" /\ remaining' = remaining
    BY <2>1 DEF shutVars
  <2>3. \A p \in S : p \notin Mains
    BY <2>2 DEF Inv, DrainingTerminatesAll
  <2>4. \A p \in S : Direct(p)
    BY <2>3 DEF Inv, TypeOK, Procs, Direct
  <2>5. started' = started /\ exited' = exited
    BY <2>4, TerminateKeeps, TerminateTyped DEF Inv
  <2>6. \A p \in Procs : phase[p] \in Ending => phase'[p] \in Ending
    BY TerminateKeeps DEF Inv, OutcomeTruthful, Requested, Ending
  <2>7. QED  BY <2>2, <2>5, <2>6 DEF Inv, TypeOK, ReportTruthful, Running, KnownAsRefusing
<1>6. QED  BY <1>1, <1>2, <1>3, <1>4, <1>5 DEF Inv
-----------------------------------------------------------------------------
LEMMA SpawnInv == ASSUME Inv, NEW c \in Children, Spawn(c) PROVE Inv'
<1> USE DEF Inv, Spawn, stateVars, shutVars
<1>1. Main(c) \in Procs
  BY ProcsFacts
<1>2. TypeOK'
  BY <1>1 DEF TypeOK
<1>3. RegistryCoversLive' /\ ClosedForCause' /\ OutcomeTruthful' /\ AttributionExclusive'
  BY DEF RegistryCoversLive, ClosedForCause, OutcomeTruthful, AttributionExclusive, Running,
         Requested, KnownAsRefusing, Direct
<1>4. DrainingTerminatesAll' /\ ReportTruthful'
  BY DEF DrainingTerminatesAll, ReportTruthful
<1>5. QED  BY <1>2, <1>3, <1>4

LEMMA ExitInv == ASSUME Inv, NEW p \in Procs, Exit(p) PROVE Inv'
BY DEF Inv, Exit, TypeOK, RegistryCoversLive, ClosedForCause, OutcomeTruthful,
       AttributionExclusive, DrainingTerminatesAll, ReportTruthful, Running, Requested,
       KnownAsRefusing, Direct, stateVars, shutVars

LEMMA TimeoutInv == ASSUME Inv, NEW p \in Procs, Timeout(p) PROVE Inv'
<1>1. {p} \in SUBSET active /\ \A q \in {p} : ~Requested(q)
  BY DEF Timeout, MayTerminate
<1>2. TerminateAll({p}, "timeout") /\ UNCHANGED <<cancelled, shutVars>>
  BY DEF Timeout
<1>3. /\ timedOut' = timedOut \cup {q \in {p} : "timeout" = "timeout"}
      /\ cancelled' = cancelled \cup {q \in {p} \cap Mains : "timeout" = "cancelled"}
  BY DEF Timeout
<1>4. QED  BY <1>1, <1>2, <1>3, TerminateInv DEF Reasons

LEMMA AbortInv == ASSUME Inv, NEW c \in Children, Abort(c) PROVE Inv'
<1>1. {Main(c)} \in SUBSET active /\ \A q \in {Main(c)} : ~Requested(q)
  BY DEF Abort, MayTerminate
<1>2. TerminateAll({Main(c)}, "cancelled") /\ UNCHANGED <<timedOut, shutVars>>
  BY DEF Abort
<1>3. /\ timedOut' = timedOut \cup {q \in {Main(c)} : "cancelled" = "timeout"}
      /\ cancelled' = cancelled \cup {q \in {Main(c)} \cap Mains : "cancelled" = "cancelled"}
  BY ProcsFacts DEF Abort
<1>4. QED  BY <1>1, <1>2, <1>3, TerminateInv DEF Reasons

LEMMA CallerTerminatesInv == ASSUME Inv, NEW c \in Children, CallerTerminates(c) PROVE Inv'
<1>1. {Main(c)} \in SUBSET active /\ \A q \in {Main(c)} : ~Requested(q)
  BY DEF CallerTerminates, MayTerminate
<1>2. TerminateAll({Main(c)}, "output-limit") /\ UNCHANGED <<timedOut, cancelled, shutVars>>
  BY DEF CallerTerminates
<1>3. /\ timedOut' = timedOut \cup {q \in {Main(c)} : "output-limit" = "timeout"}
      /\ cancelled' = cancelled \cup {q \in {Main(c)} \cap Mains : "output-limit" = "cancelled"}
  BY DEF CallerTerminates
<1>4. QED  BY <1>1, <1>2, <1>3, TerminateInv DEF Reasons

LEMMA ShutdownStartInv == ASSUME Inv, ShutdownStart PROVE Inv'
<1> DEFINE S == {p \in active : ~Requested(p)}
<1>1. /\ TerminateAll(S, "shutdown") /\ UNCHANGED <<timedOut, cancelled, remaining>>
      /\ shut' = "terminating" /\ awaited' = active
  BY DEF ShutdownStart
<1>2. /\ timedOut' = timedOut \cup {p \in S : "shutdown" = "timeout"}
      /\ cancelled' = cancelled \cup {p \in S \cap Mains : "shutdown" = "cancelled"}
  BY <1>1
<1>3. S \in SUBSET active /\ \A p \in S : ~Requested(p)
  OBVIOUS
<1> HIDE DEF S
<1>4. S = {p \in active : ~Requested(p)}
  BY DEF S
<1>5. QED  BY <1>1, <1>2, <1>3, <1>4, TerminateInv DEF Reasons
-----------------------------------------------------------------------------
\* The termination of p stays where it is or goes on: into a window it was
\* waiting for, to its failure, or to an exit.
Onward(p) ==
    /\ phase'[p] \in InWindow => phase[p] \in InWindow
    /\ phase'[p] = "failed" => phase[p] \in InWindow \cup {"failed"}
    /\ phase[p] \in Ending => phase'[p] \in Ending \/ p \in exited

\* A step that starts no process and leaves reason, the flags and the shutdown
\* alone keeps the invariant if what it drops has exited or refuses signals,
\* and what it claims to have exited has.
LEMMA ReleaseInv ==
    ASSUME Inv,
           UNCHANGED <<started, exited, reason, timedOut, cancelled, shutVars>>,
           closeSeen' \subseteq exited,
           active' \subseteq active,
           \A p \in active \ active' :
              p \in exited \/ (p \in Refusing /\ phase'[p] = "failed"),
           closed' \subseteq started,
           \A p \in closed' : p \in exited \/ p \in Refusing,
           phase' \in [Procs -> Phases],
           \A p \in Procs : phase'[p] = "exited" => p \in exited,
           \A p \in Procs : phase'[p] = "idle" <=> phase[p] = "idle",
           \A p \in Procs : Onward(p),
           terminated' \subseteq {p \in Procs : p \in exited /\ Requested(p)}
    PROVE  Inv'
<1> USE DEF Inv, shutVars
<1>1. TypeOK'
  BY DEF TypeOK
<1>2. ClosedForCause'
  BY DEF ClosedForCause
<1>3. RegistryCoversLive'
  <2>1. SUFFICES ASSUME NEW p \in Procs, p \in started, p \notin exited, p \notin active'
                 PROVE  p \in Refusing /\ phase'[p] \in Ending
    BY DEF RegistryCoversLive, Running, KnownAsRefusing, TypeOK
  <2>2. CASE p \in active
    BY <2>1, <2>2 DEF Ending
  <2>3. CASE p \notin active
    BY <2>1, <2>3 DEF RegistryCoversLive, Running, KnownAsRefusing, Onward
  <2>4. QED  BY <2>2, <2>3
<1>4. OutcomeTruthful'
  <2>1. \A p \in Procs : p \in terminated' \/ phase'[p] = "exited" => p \in exited'
    OBVIOUS
  <2>2. /\ \A p \in Procs : reason'[p] # "none" <=> phase'[p] # "idle"
        /\ terminated' \subseteq {p \in Procs : reason'[p] # "none"}
    BY DEF OutcomeTruthful, Requested
  <2>3. \A p \in Procs : phase'[p] \in InWindow =>
           p \in active' \/ p \in exited \/ (Direct(p) /\ p \in Refusing)
    BY DEF OutcomeTruthful, Onward, InWindow
  <2>4. \A p \in Procs : phase'[p] = "failed" =>
           p \in active' \/ p \in exited \/ p \in Refusing
    BY DEF OutcomeTruthful, Onward, InWindow
  <2>5. QED  BY <2>1, <2>2, <2>3, <2>4 DEF OutcomeTruthful, Requested, Direct, InWindow
<1>5. AttributionExclusive' /\ DrainingTerminatesAll'
  BY DEF AttributionExclusive, DrainingTerminatesAll, Requested
<1>6. ReportTruthful'
  BY DEF ReportTruthful, Running, KnownAsRefusing, Onward, TypeOK
<1>7. QED  BY <1>1, <1>2, <1>3, <1>4, <1>5, <1>6

\* What the invariant says of a process whose exit is known.
LEMMA Known ==
    ASSUME Inv, NEW p \in Procs
    PROVE  /\ phase[p] # "idle" <=> Requested(p)
           /\ phase[p] = "exited" => p \in exited
           /\ Waiting(p) => Requested(p)
           /\ \A q \in terminated : q \in Procs /\ q \in exited /\ Requested(q)
           /\ p \in closed => p \in exited \/ p \in Refusing
BY DEF Inv, OutcomeTruthful, ClosedForCause, Waiting

LEMMA CloseInv == ASSUME Inv, NEW c \in Children, Close(c) PROVE Inv'
<1> DEFINE p == Main(c)
<1>1. p \in Procs /\ p \in exited
  BY ProcsFacts DEF Close
<1>2. phase' = [phase EXCEPT ![p] = IF Waiting(p) THEN "exited" ELSE @]
  BY DEF Close
<1>3. phase' \in [Procs -> Phases] /\ \A q \in Procs : phase'[q] = "exited" => q \in exited
  BY <1>1, <1>2, Known DEF Inv, TypeOK, Phases, Settled
<1>4. \A q \in Procs : phase'[q] = "idle" <=> phase[q] = "idle"
  BY <1>1, <1>2 DEF Waiting, Inv, TypeOK
<1>5. terminated' \subseteq {q \in Procs : q \in exited /\ Requested(q)}
  BY <1>1, Known DEF Close
<1>6. /\ closeSeen' \subseteq exited /\ active' \subseteq active
      /\ \A q \in active \ active' : q \in exited \/ q \in Refusing
      /\ closed' \subseteq started /\ \A q \in closed' : q \in exited \/ q \in Refusing
  BY <1>1, Known DEF Close, Inv, TypeOK, ClosedForCause
<1>7. UNCHANGED <<started, exited, reason, timedOut, cancelled, shutVars>>
  BY DEF Close
<1>8. \A q \in Procs : Onward(q)
  BY <1>1, <1>2 DEF Onward, Waiting, Inv, TypeOK, Ending, InWindow
<1>9. \A q \in active \ active' : q \in exited
  BY <1>1 DEF Close
<1>10. QED  BY <1>3, <1>4, <1>5, <1>6, <1>7, <1>8, <1>9, ReleaseInv

\* taskkill's answer ends the termination of an exited child only.
LEMMA AfterTreeKillFacts ==
    ASSUME Inv, NEW c \in Children, NEW ok \in BOOLEAN
    PROVE  /\ AfterTreeKill(c) \in Phases
           /\ AfterTreeKill(c) = "exited" => Main(c) \in exited
           /\ AfterTreeKill(c) = "idle" <=> phase[Main(c)] = "idle"
           /\ AfterTreeKill(c) \in InWindow => phase[Main(c)] \in InWindow
           /\ AfterTreeKill(c) = "failed" => phase[Main(c)] = "failed"
           /\ phase[Main(c)] \in Ending => AfterTreeKill(c) = phase[Main(c)]
           /\ \A p \in MainGone(c) : p = Main(c) /\ p \in exited /\ Requested(p)
           /\ \A p \in MainRefused(c, ok) : p \in started /\ p \in Refusing
<1>1. Main(c) \in Procs
  BY ProcsFacts
<1>2. QED
  BY <1>1, Known
  DEF AfterTreeKill, MainGone, MainRefused, KillPending, Inv, TypeOK, Phases, Settled,
      Refuses, Refusing, Running, InWindow, Ending

LEMMA CloseControlInv ==
    ASSUME Inv, NEW c \in Children, NEW ok \in BOOLEAN, CloseControl(c, ok) PROVE Inv'
<1> DEFINE p == Control(c)
           own == {q \in {p} : Waiting(q) \/ (Requested(q) /\ q \notin closed)}
<1>1. p \in Procs /\ p \in exited /\ Main(c) \in Procs /\ p # Main(c)
  BY ProcsFacts DEF CloseControl
<1>2. phase' = [phase EXCEPT ![p] = IF Waiting(p) THEN "exited" ELSE @,
                             ![Main(c)] = AfterTreeKill(c)]
  BY DEF CloseControl
<1>3. /\ phase'[p] = IF Waiting(p) THEN "exited" ELSE phase[p]
      /\ phase'[Main(c)] = AfterTreeKill(c)
      /\ \A q \in Procs \ {p, Main(c)} : phase'[q] = phase[q]
      /\ DOMAIN phase' = Procs
  BY <1>1, <1>2 DEF Inv, TypeOK
<1>4. phase' \in [Procs -> Phases]
  BY <1>1, <1>2, AfterTreeKillFacts DEF Inv, TypeOK, Phases, Settled
<1>5. \A q \in Procs : phase'[q] = "exited" => q \in exited
  BY <1>1, <1>3, Known, AfterTreeKillFacts
<1>6. \A q \in Procs : phase'[q] = "idle" <=> phase[q] = "idle"
  BY <1>1, <1>3, AfterTreeKillFacts DEF Waiting
<1>7. \A q \in own : q = p /\ Requested(q)
  BY <1>1, Known
<1>8. terminated' = terminated \cup own \cup MainGone(c)
  BY DEF CloseControl
<1>9. terminated' \subseteq {q \in Procs : q \in exited /\ Requested(q)}
  BY <1>1, <1>7, <1>8, Known, AfterTreeKillFacts
<1>10. /\ closeSeen' \subseteq exited /\ active' \subseteq active
       /\ \A q \in active \ active' : q \in exited \/ q \in Refusing
  BY <1>1, AfterTreeKillFacts DEF CloseControl, Inv, TypeOK
<1>11. /\ closed' \subseteq started /\ \A q \in closed' : q \in exited \/ q \in Refusing
  BY <1>1, AfterTreeKillFacts DEF CloseControl, Inv, TypeOK, ClosedForCause
<1>12. UNCHANGED <<started, exited, reason, timedOut, cancelled, shutVars>>
  BY DEF CloseControl
<1>13. \A q \in Procs : Onward(q)
  BY <1>1, <1>3, AfterTreeKillFacts DEF Onward, Waiting, Ending, InWindow
<1>14. \A q \in active \ active' : q \in exited
  BY <1>1, AfterTreeKillFacts DEF CloseControl
<1>15. QED
  BY <1>4, <1>5, <1>6, <1>9, <1>10, <1>11, <1>12, <1>13, <1>14, ReleaseInv

LEMMA ControlTimerInv == ASSUME Inv, NEW c \in Children, ControlTimer(c) PROVE Inv'
<1>1. Main(c) \in Procs
  BY ProcsFacts
<1>2. phase' = [phase EXCEPT ![Main(c)] = AfterTreeKill(c)]
  BY DEF ControlTimer
<1>3. /\ phase' \in [Procs -> Phases]
      /\ \A q \in Procs : phase'[q] = "exited" => q \in exited
      /\ \A q \in Procs : phase'[q] = "idle" <=> phase[q] = "idle"
  BY <1>1, <1>2, AfterTreeKillFacts, Known DEF Inv, TypeOK
<1>4. terminated' \subseteq {q \in Procs : q \in exited /\ Requested(q)}
  BY <1>1, Known, AfterTreeKillFacts DEF ControlTimer
<1>5. /\ closeSeen' \subseteq exited /\ active' \subseteq active
      /\ \A q \in active \ active' : q \in exited \/ q \in Refusing
      /\ closed' \subseteq started /\ \A q \in closed' : q \in exited \/ q \in Refusing
  BY AfterTreeKillFacts DEF ControlTimer, osVars, Inv, TypeOK, ClosedForCause
<1>6. UNCHANGED <<started, exited, reason, timedOut, cancelled, shutVars>>
  BY DEF ControlTimer, osVars
<1>7. \A q \in Procs : Onward(q)
  BY <1>1, <1>2, AfterTreeKillFacts DEF Onward, Inv, TypeOK
<1>8. \A q \in active \ active' : q \in exited
  BY AfterTreeKillFacts DEF ControlTimer
<1>9. QED  BY <1>3, <1>4, <1>5, <1>6, <1>7, <1>8, ReleaseInv

LEMMA WindowEndsExitedInv == ASSUME Inv, NEW p \in Procs, WindowEndsExited(p) PROVE Inv'
<1>1. phase' = [phase EXCEPT ![p] = "exited"] /\ p \in exited /\ Waiting(p)
  BY DEF WindowEndsExited
<1>2. /\ phase' \in [Procs -> Phases]
      /\ \A q \in Procs : phase'[q] = "exited" => q \in exited
      /\ \A q \in Procs : phase'[q] = "idle" <=> phase[q] = "idle"
  BY <1>1, Known DEF Inv, TypeOK, Phases, Settled, Waiting
<1>3. terminated' \subseteq {q \in Procs : q \in exited /\ Requested(q)}
  BY <1>1, Known DEF WindowEndsExited
<1>4. /\ closeSeen' \subseteq exited /\ active' \subseteq active
      /\ \A q \in active \ active' : q \in exited \/ q \in Refusing
      /\ closed' \subseteq started /\ \A q \in closed' : q \in exited \/ q \in Refusing
  BY <1>1 DEF WindowEndsExited, osVars, Inv, TypeOK, ClosedForCause
<1>5. UNCHANGED <<started, exited, reason, timedOut, cancelled, shutVars>>
  BY DEF WindowEndsExited, osVars
<1>6. \A q \in Procs : Onward(q)
  BY <1>1 DEF Onward, Inv, TypeOK, Ending, InWindow
<1>7. QED  BY <1>1, <1>2, <1>3, <1>4, <1>5, <1>6, ReleaseInv DEF WindowEndsExited

LEMMA GraceEndsInv == ASSUME Inv, NEW p \in Procs, GraceEnds(p) PROVE Inv'
<1>1. /\ phase' \in [Procs -> Phases]
      /\ \A q \in Procs : phase'[q] = "exited" => q \in exited
      /\ \A q \in Procs : phase'[q] = "idle" <=> phase[q] = "idle"
  BY Known DEF GraceEnds, Inv, TypeOK, Phases
<1>2. terminated' \subseteq {q \in Procs : q \in exited /\ Requested(q)}
  BY Known DEF GraceEnds
<1>3. /\ closeSeen' \subseteq exited /\ active' \subseteq active
      /\ \A q \in active \ active' : q \in exited \/ q \in Refusing
      /\ closed' \subseteq started /\ \A q \in closed' : q \in exited \/ q \in Refusing
  BY DEF GraceEnds, osVars, Inv, TypeOK, ClosedForCause, Refuses, Refusing, Running
<1>4. UNCHANGED <<started, exited, reason, timedOut, cancelled, shutVars>>
  BY DEF GraceEnds, osVars
<1>5. (\A q \in Procs : Onward(q)) /\ active' = active
  BY DEF GraceEnds, Onward, Inv, TypeOK, Ending, InWindow
<1>6. QED  BY <1>1, <1>2, <1>3, <1>4, <1>5, ReleaseInv

LEMMA ForceEndsInv == ASSUME Inv, NEW p \in Procs, ForceEnds(p) PROVE Inv'
<1>1. /\ phase' \in [Procs -> Phases]
      /\ \A q \in Procs : phase'[q] = "exited" => q \in exited
      /\ \A q \in Procs : phase'[q] = "idle" <=> phase[q] = "idle"
  BY Known DEF ForceEnds, Inv, TypeOK, Phases, Settled
<1>2. terminated' \subseteq {q \in Procs : q \in exited /\ Requested(q)}
  BY Known DEF ForceEnds
<1>3. /\ closeSeen' \subseteq exited /\ active' \subseteq active
      /\ \A q \in active \ active' : q \in exited \/ q \in Refusing
      /\ closed' \subseteq started /\ \A q \in closed' : q \in exited \/ q \in Refusing
  BY DEF ForceEnds, osVars, Inv, TypeOK, ClosedForCause
<1>4. UNCHANGED <<started, exited, reason, timedOut, cancelled, shutVars>>
  BY DEF ForceEnds, osVars
<1>5. \A q \in Procs : Onward(q)
  BY DEF ForceEnds, Onward, Inv, TypeOK, Ending, InWindow
<1>6. \A q \in active \ active' : q \in Refusing /\ phase'[q] = "failed"
  BY DEF ForceEnds, Inv, TypeOK, ClosedForCause
<1>7. QED  BY <1>1, <1>2, <1>3, <1>4, <1>5, <1>6, ReleaseInv

\* The steps of the shutdown body after its start. The report lists the
\* registry, which covers what is alive.
LEMMA ShutdownBodyInv == ASSUME Inv, ShutdownTerminated \/ ShutdownReport PROVE Inv'
<1> USE DEF Inv, osVars, stateVars
<1>1. CASE ShutdownTerminated
  BY <1>1 DEF ShutdownTerminated, TypeOK, RegistryCoversLive, ClosedForCause,
     OutcomeTruthful,
     AttributionExclusive, DrainingTerminatesAll, ReportTruthful, Running, Requested,
     KnownAsRefusing, Direct
<1>2. CASE ShutdownReport
  <2>1. TypeOK' /\ RegistryCoversLive' /\ ClosedForCause' /\ OutcomeTruthful'
    BY <1>2 DEF ShutdownReport, TypeOK, RegistryCoversLive, ClosedForCause, OutcomeTruthful,
       Running, Requested, KnownAsRefusing, Direct
  <2>2. AttributionExclusive' /\ DrainingTerminatesAll'
    BY <1>2 DEF ShutdownReport, AttributionExclusive, DrainingTerminatesAll, Requested
  <2>3. ReportTruthful'
    BY <1>2 DEF ShutdownReport, ReportTruthful, RegistryCoversLive, Running, KnownAsRefusing
  <2>4. QED  BY <2>1, <2>2, <2>3
<1>3. QED  BY <1>1, <1>2

LEMMA StutterInv == ASSUME Inv, UNCHANGED vars PROVE Inv'
BY DEF Inv, vars, osVars, stateVars, shutVars, TypeOK, RegistryCoversLive, ClosedForCause,
   OutcomeTruthful, AttributionExclusive, DrainingTerminatesAll, ReportTruthful, Running,
   Requested, KnownAsRefusing, Direct

LEMMA NextInv == Inv /\ [Next]_vars => Inv'
<1> SUFFICES ASSUME Inv, [Next]_vars PROVE Inv'
  OBVIOUS
<1>1. ASSUME NEW c \in Children, Spawn(c) PROVE Inv'
  BY <1>1, SpawnInv
<1>2. ASSUME NEW c \in Children, Abort(c) PROVE Inv'
  BY <1>2, AbortInv
<1>3. ASSUME NEW c \in Children, CallerTerminates(c) PROVE Inv'
  BY <1>3, CallerTerminatesInv
<1>4. ASSUME NEW c \in Children, Close(c) PROVE Inv'
  BY <1>4, CloseInv
<1>5. ASSUME NEW c \in Children, ControlTimer(c) PROVE Inv'
  BY <1>5, ControlTimerInv
<1>6. ASSUME NEW c \in Children, NEW ok \in BOOLEAN, CloseControl(c, ok) PROVE Inv'
  BY <1>6, CloseControlInv
<1>7. ASSUME NEW p \in Procs, Exit(p) PROVE Inv'
  BY <1>7, ExitInv
<1>8. ASSUME NEW p \in Procs, Timeout(p) PROVE Inv'
  BY <1>8, TimeoutInv
<1>9. ASSUME NEW p \in Procs, WindowEndsExited(p) PROVE Inv'
  BY <1>9, WindowEndsExitedInv
<1>10. ASSUME NEW p \in Procs, GraceEnds(p) PROVE Inv'
  BY <1>10, GraceEndsInv
<1>11. ASSUME NEW p \in Procs, ForceEnds(p) PROVE Inv'
  BY <1>11, ForceEndsInv
<1>12. CASE ShutdownStart
  BY <1>12, ShutdownStartInv
<1>13. CASE ShutdownTerminated \/ ShutdownReport
  BY <1>13, ShutdownBodyInv
<1>14. CASE UNCHANGED vars
  BY <1>14, StutterInv
<1>15. QED
  BY <1>1, <1>2, <1>3, <1>4, <1>5, <1>6, <1>7, <1>8, <1>9, <1>10, <1>11, <1>12, <1>13, <1>14
  DEF Next

\* The inductive invariant behind every theorem below.
THEOREM Invariance == Spec => []Inv
BY InitInv, NextInv, PTL DEF Spec

\* Every variable keeps its type.
THEOREM TypeCorrect == Spec => []TypeOK
<1>1. Inv => TypeOK
  BY DEF Inv
<1>2. QED  BY <1>1, Invariance, PTL

\* A live child is in the registry, or refuses signals and is known as such.
THEOREM RegistryCovers == Spec => []RegistryCoversLive
<1>1. Inv => RegistryCoversLive
  BY DEF Inv
<1>2. QED  BY <1>1, Invariance, PTL

\* The shutdown report lists every live child but those that refused a signal
\* and are still being terminated or counted as failures.
THEOREM ReportIsTruthful == Spec => []ReportTruthful
<1>1. Inv => ReportTruthful
  BY DEF Inv
<1>2. QED  BY <1>1, Invariance, PTL

\* Where no child refuses signals, a clean report means that no child is left.
THEOREM CleanReportWithoutRefusal ==
    ASSUME Protected = {} PROVE Spec => []CleanMeansNoChild
<1>1. Inv => CleanMeansNoChild
  BY DEF Inv, ReportTruthful, CleanMeansNoChild, KnownAsRefusing, Refusing
<1>2. QED  BY <1>1, Invariance, PTL

\* Timeout, cancellation and the other causes exclude each other.
THEOREM Attribution == Spec => []AttributionExclusive
<1>1. Inv => AttributionExclusive
  BY DEF Inv
<1>2. QED  BY <1>1, Invariance, PTL

\* Exits are claimed of dead processes only, and an unfinished or failed
\* termination keeps its live process in the registry.
THEOREM Outcomes == Spec => []OutcomeTruthful
<1>1. Inv => OutcomeTruthful
  BY DEF Inv
<1>2. QED  BY <1>1, Invariance, PTL

\* Whatever is registered once the shutdown began is being terminated.
THEOREM Draining == Spec => []DrainingTerminatesAll
<1>1. Inv => DrainingTerminatesAll
  BY DEF Inv
<1>2. QED  BY <1>1, Invariance, PTL
-----------------------------------------------------------------------------
\* What one step may do to the reason and the outcome of a termination.
Wins == \A p \in Procs : /\ Requested(p) => reason'[p] = reason[p]
                         /\ phase[p] \in Settled => phase'[p] = phase[p]

LEMMA TerminateWins ==
    ASSUME Inv, NEW S \in SUBSET active, \A p \in S : ~Requested(p),
           NEW why \in Reasons, TerminateAll(S, why)
    PROVE  Wins
<1>1. \A p \in Procs : Requested(p) => p \in Procs \ S
  OBVIOUS
<1>2. \A p \in Procs : phase[p] \in Settled => Requested(p)
  BY Known DEF Settled
<1>3. QED  BY <1>1, <1>2, TerminateKeeps DEF Wins

LEMMA ReleaseWins ==
    ASSUME Inv, UNCHANGED reason, \A p \in Procs : phase[p] \in Settled => phase'[p] = phase[p]
    PROVE  Wins
BY DEF Wins

\* The first request for a termination decides its reason, and a settled
\* termination stays settled the way it was.
THEOREM FirstRequest == Spec => FirstRequestWins
<1>1. Inv /\ [Next]_vars => [Wins]_vars
  <2> SUFFICES ASSUME Inv, Next PROVE Wins
    OBVIOUS
  <2>1. ASSUME NEW c \in Children, Spawn(c) PROVE Wins
    BY <2>1 DEF Spawn, stateVars, Wins
  <2>2. ASSUME NEW c \in Children, Abort(c) PROVE Wins
    BY <2>2, TerminateWins DEF Abort, MayTerminate, Reasons
  <2>3. ASSUME NEW c \in Children, CallerTerminates(c) PROVE Wins
    BY <2>3, TerminateWins DEF CallerTerminates, MayTerminate, Reasons
  <2>4. ASSUME NEW c \in Children, Close(c) PROVE Wins
    BY <2>4, ReleaseWins DEF Close, Waiting, Settled, Inv, TypeOK
  <2>5. ASSUME NEW c \in Children, ControlTimer(c) PROVE Wins
    BY <2>5, ReleaseWins DEF ControlTimer, KillPending, Settled, Inv, TypeOK
  <2>6. ASSUME NEW c \in Children, NEW ok \in BOOLEAN, CloseControl(c, ok) PROVE Wins
    <3>1. phase' = [phase EXCEPT ![Control(c)] = IF Waiting(Control(c)) THEN "exited" ELSE @,
                                 ![Main(c)] = AfterTreeKill(c)]
      BY <2>6 DEF CloseControl
    <3>2. phase[Main(c)] \in Settled => AfterTreeKill(c) = phase[Main(c)]
      BY DEF AfterTreeKill, KillPending, Settled
    <3>3. Main(c) # Control(c)
      BY ProcsFacts
    <3>4. \A p \in Procs : phase[p] \in Settled => phase'[p] = phase[p]
      BY <3>1, <3>2, <3>3 DEF Waiting, Settled, Inv, TypeOK
    <3>5. QED  BY <2>6, <3>4, ReleaseWins DEF CloseControl
  <2>7. ASSUME NEW p \in Procs, Exit(p) PROVE Wins
    BY <2>7 DEF Exit, stateVars, Wins
  <2>8. ASSUME NEW p \in Procs, Timeout(p) PROVE Wins
    BY <2>8, TerminateWins DEF Timeout, MayTerminate, Reasons
  <2>9. ASSUME NEW p \in Procs, WindowEndsExited(p) \/ GraceEnds(p) \/ ForceEnds(p) PROVE Wins
    BY <2>9, ReleaseWins DEF WindowEndsExited, GraceEnds, ForceEnds, Waiting, Settled, Inv,
       TypeOK
  <2>10. CASE ShutdownStart
    <3> DEFINE S == {p \in active : ~Requested(p)}
    <3>1. TerminateAll(S, "shutdown")
      BY <2>10 DEF ShutdownStart
    <3>2. S \in SUBSET active /\ \A p \in S : ~Requested(p)
      OBVIOUS
    <3> HIDE DEF S
    <3>3. QED  BY <3>1, <3>2, TerminateWins DEF Reasons
  <2>11. CASE ShutdownTerminated \/ ShutdownReport
    BY <2>11 DEF ShutdownTerminated, ShutdownReport, stateVars, Wins
  <2>12. QED
    BY <2>1, <2>2, <2>3, <2>4, <2>5, <2>6, <2>7, <2>8, <2>9, <2>10, <2>11 DEF Next
<1>2. QED
  BY <1>1, Invariance, PTL DEF Spec, FirstRequestWins, Wins
-----------------------------------------------------------------------------

\* What a handler may await.
Awaited == [at : {"idle", "spilling", "writing"}, on : Streams, data : Buffer, room : 0..Cap]

\* The parts of the state that the steps of a handler write, and their types.
DataType ==
    /\ chunks \in [Streams -> Seq(Buffer)]
    /\ retained \in [Streams -> Nat]
    /\ truncated \subseteq Streams
    /\ fallback \in [Streams -> Buffer] /\ \A s \in Streams : Len(fallback[s]) <= FallbackMax

CacheType ==
    /\ disabled \in BOOLEAN /\ spill \in {"none", "creating", "replaying", "over"}
    /\ replay \in [Streams -> Seq(Buffer)]
    /\ staging \in {"none", "open", "discarded", "published"}
    /\ disk \in [Streams -> Buffer]
    /\ work \in [Handlers -> Awaited]

ScanType ==
    /\ held \in [Streams -> Buffer] /\ secret \in BOOLEAN
    /\ cleared \in [Streams -> SUBSET Units]

LEMMA TypeParts ==
    OutputTypeOK <=>
        /\ DataType /\ CacheType /\ ScanType
        /\ tier \in Tiers /\ arrived \in [Streams -> 0..MaxChunks] /\ crossed \subseteq Streams
        /\ early \in BOOLEAN
        /\ stage \in {"capture", "settle", "publish", "returned", "threw"} \cup Streams
        /\ faults \in 0..MaxFaults
  BY DEF OutputTypeOK, DataType, CacheType, ScanType, Awaited

-----------------------------------------------------------------------------
(* Buffers.                                                                *)
Waits(h)  == work[h].at = "spilling"
Writes(h) == work[h].at = "writing"

\* With a scanner, what is on its way to the disk has been released by it.
Released ==
    /\ tier = "cache" =>
          \A s \in Streams : \A i \in 1..Len(chunks[s]) : ToSet(chunks[s][i]) \subseteq cleared[s]
    /\ tier # "off" =>
          \A s \in Streams : \A i \in 1..Len(replay[s]) : ToSet(replay[s][i]) \subseteq cleared[s]
    /\ tier = "cache" => \A h \in Handlers : Waits(h) => ToSet(work[h].data) \subseteq cleared[work[h].on]

\* What the spill, the writer and the stage of the command say of each other.
Opening ==
    /\ spill \in {"none", "creating"} =>
          staging = "none" /\ ~disabled /\ \A h \in Handlers : ~Writes(h)
    /\ ~Waits("spill")
    /\ InProgress => \E h \in Handlers : Waits(h)
    /\ ~early /\ stage \notin {"capture", "threw"} => \A s \in Streams : work[s].at = "idle"
    /\ secret /\ (spill = "creating" \/ staging = "open") => crossed # {} \/ early
    /\ disabled => staging # "open"
    /\ stage \in {"publish", "returned"} => ~InProgress /\ \A h \in Handlers : ~Waits(h)
    /\ stage = "publish" => ~secret /\ (staging = "open" \/ disabled)
    /\ staging = "published" => stage = "returned" /\ ~secret
    /\ stage = "returned" /\ staging = "open" => secret

OutputInv == OutputTypeOK /\ Released /\ Opening /\ ScanBeforePersist

LEMMA BufferParts ==
    ASSUME NEW buf \in Buffer, NEW n \in Nat
    PROVE  /\ First(n, buf) \in Buffer /\ Len(First(n, buf)) = Least(n, Len(buf))
           /\ \A i \in 1..Len(First(n, buf)) : First(n, buf)[i] = buf[i]
           /\ ToSet(First(n, buf)) \subseteq ToSet(buf)
           /\ n <= Len(buf) => Rest(n, buf) \in Buffer
  <1> USE DEF Buffer
  <1>1. Len(buf) \in Nat /\ Least(n, Len(buf)) \in 0..Len(buf)
    BY DEF Least
  <1>2. /\ First(n, buf) \in Seq(Units) /\ Len(First(n, buf)) = Least(n, Len(buf))
        /\ \A i \in 1..Len(First(n, buf)) : First(n, buf)[i] = buf[i]
    BY <1>1, SubSeqProperties DEF First
  <1>3. ToSet(First(n, buf)) \subseteq ToSet(buf)
    <2> SUFFICES ASSUME NEW i \in 1..Len(First(n, buf)) PROVE First(n, buf)[i] \in ToSet(buf)
      BY <1>2 DEF ToSet
    <2> QED BY <1>1, <1>2 DEF ToSet
  <1>4. n <= Len(buf) => Rest(n, buf) \in Seq(Units)
    BY <1>1, SubSeqProperties DEF Rest
  <1> QED BY <1>2, <1>3, <1>4

LEMMA BuffersJoin ==
    ASSUME NEW a \in Buffer, NEW b \in Buffer
    PROVE  /\ a \o b \in Buffer /\ Len(a \o b) = Len(a) + Len(b)
           /\ ToSet(a \o b) = ToSet(a) \cup ToSet(b)
  <1> USE DEF Buffer
  <1>1. a \o b \in Seq(Units) /\ Len(a \o b) = Len(a) + Len(b)
    OBVIOUS
  <1> DEFINE c == a \o b
  <1>2. /\ \A x : x \in ToSet(a) <=> \E i \in 1..Len(a) : x = a[i]
        /\ \A x : x \in ToSet(b) <=> \E i \in 1..Len(b) : x = b[i]
        /\ \A x : x \in ToSet(c) <=> \E i \in 1..Len(c) : x = c[i]
    <2>1. DOMAIN a = 1..Len(a) /\ DOMAIN b = 1..Len(b) /\ DOMAIN c = 1..Len(c)
      BY <1>1
    <2> HIDE DEF c
    <2> QED BY <2>1, Zenon DEF ToSet
  <1>3. Len(a) \in Nat /\ Len(b) \in Nat /\ Len(c) = Len(a) + Len(b)
    BY <1>1
  <1>4. ASSUME NEW x \in ToSet(c) PROVE x \in ToSet(a) \/ x \in ToSet(b)
    <2>1. PICK i \in 1..Len(c) : x = c[i]
      BY <1>2
    <2>2. CASE i <= Len(a)
      <3>1. i \in 1..Len(a) /\ c[i] = a[i]
        BY <1>3, <2>2
      <3> QED BY <1>2, <2>1, <3>1
    <2>3. CASE i > Len(a)
      <3>1. i - Len(a) \in 1..Len(b) /\ c[i] = b[i - Len(a)]
        BY <1>3, <2>3
      <3> QED BY <1>2, <2>1, <3>1
    <2> QED BY <1>3, <2>2, <2>3
  <1>5. ASSUME NEW x \in ToSet(a) PROVE x \in ToSet(c)
    <2>1. PICK i \in 1..Len(a) : x = a[i]
      BY <1>2
    <2>2. i \in 1..Len(c) /\ c[i] = a[i]
      BY <1>3
    <2> QED BY <1>2, <2>1, <2>2
  <1>6. ASSUME NEW x \in ToSet(b) PROVE x \in ToSet(c)
    <2>1. PICK i \in 1..Len(b) : x = b[i]
      BY <1>2
    <2>2. i + Len(a) \in 1..Len(c) /\ c[i + Len(a)] = b[i]
      BY <1>3
    <2> QED BY <1>2, <2>1, <2>2
  <1> QED BY <1>1, <1>4, <1>5, <1>6

LEMMA RoomType ==
    ASSUME DataType, NEW s \in Streams
    PROVE  Room(s) \in 0..Cap /\ Cap \in Nat
  BY OutputAssumption DEF DataType, Room

LEMMA FedType ==
    ASSUME DataType, NEW s \in Streams, NEW buf \in Buffer
    PROVE  Fed(s, buf) \in [Streams -> Buffer] /\ \A t \in Streams : Len(Fed(s, buf)[t]) <= FallbackMax
  <1>1. FallbackMax \in Nat /\ fallback[s] \o buf \in Buffer
    BY BuffersJoin, OutputAssumption DEF DataType
  <1>2. /\ First(FallbackMax, fallback[s] \o buf) \in Buffer
        /\ Len(First(FallbackMax, fallback[s] \o buf)) <= FallbackMax
    <2>1. Len(fallback[s] \o buf) \in Nat
      BY <1>1 DEF Buffer
    <2> QED BY <1>1, <2>1, BufferParts DEF Least
  <1> QED BY <1>2 DEF Fed, DataType

-----------------------------------------------------------------------------
(* What processSafe and writeAccepted do.                                  *)
LEMMA WriteAcceptedDoes ==
    ASSUME DataType, CacheType, NEW h \in Handlers, NEW s \in Streams, NEW buf \in Buffer,
           NEW fed \in BOOLEAN, WriteAccepted(h, s, buf, fed), replay' \in [Streams -> Seq(Buffer)]
    PROVE  /\ DataType' /\ CacheType'
           /\ UNCHANGED <<chunks, secret, disabled, spill, staging>>
           /\ \A g \in Handlers : g # h => work'[g] = work[g]
           /\ \/ disk' = disk /\ work'[h].at = "idle"
              \/ /\ staging = "open" /\ work'[h].at = "writing"
                 /\ disk' = [disk EXCEPT ![s] = @ \o First(Room(s), buf)]
  <1> DEFINE accepted == First(Room(s), buf)
  <1>1. accepted \in Buffer /\ Room(s) \in 0..Cap
    BY RoomType, BufferParts
  <1>2. DataType'
    <2>1. truncated' \subseteq Streams
      BY DEF WriteAccepted, Cut, DataType
    <2>2. fallback' \in {fallback, Fed(s, accepted)}
      BY DEF WriteAccepted
    <2> HIDE DEF accepted
    <2>3. /\ fallback' \in [Streams -> Buffer]
          /\ \A t \in Streams : Len(fallback'[t]) <= FallbackMax
      BY <1>1, <2>2, FedType DEF DataType
    <2>4. UNCHANGED <<chunks, retained>>
      BY DEF WriteAccepted
    <2> QED BY <2>1, <2>3, <2>4 DEF DataType
  <1> DEFINE waiting == [at |-> "writing", on |-> s, data |-> accepted, room |-> Room(s)]
  <1>3. \/ work' = [work EXCEPT ![h] = Idle] /\ disk' = disk
        \/ /\ staging = "open" /\ work' = [work EXCEPT ![h] = waiting]
           /\ disk' = [disk EXCEPT ![s] = @ \o accepted]
    BY DEF WriteAccepted, Rests, Awaits
  <1>4. waiting \in Awaited /\ waiting.at = "writing"
    <2> HIDE DEF accepted
    <2> QED BY <1>1 DEF Awaited
  <1>5. Idle \in Awaited /\ Idle.at = "idle"
    BY RoomType DEF Awaited, Idle, Buffer, Streams
  <1>6. disk[s] \o accepted \in Buffer
    <2> HIDE DEF accepted
    <2> QED BY <1>1, BuffersJoin DEF CacheType
  <1> HIDE DEF accepted, waiting
  <1>7. work' \in [Handlers -> Awaited] /\ disk' \in [Streams -> Buffer]
    BY <1>3, <1>4, <1>5, <1>6 DEF CacheType
  <1>8. UNCHANGED <<chunks, secret, disabled, spill, staging>>
    BY DEF WriteAccepted
  <1>9. CacheType'
    BY <1>7, <1>8 DEF CacheType
  <1> QED BY <1>2, <1>3, <1>4, <1>5, <1>8, <1>9 DEF CacheType, accepted

\* A buffer is kept, degraded, written, or waits for the spill, which starts.
LEMMA SafeDoes ==
    ASSUME DataType, CacheType, NEW h \in Handlers, NEW s \in Streams, NEW buf \in Buffer,
           ProcessSafe(h, s, buf)
    PROVE  /\ DataType' /\ CacheType'
           /\ UNCHANGED <<secret, disabled, staging>>
           /\ \A g \in Handlers : g # h => work'[g] = work[g]
           /\ \/ chunks' = chunks
              \/ /\ ~disabled /\ staging # "open"
                 /\ chunks' = [chunks EXCEPT ![s] = Append(@, First(Room(s), buf))]
           /\ \/ disk' = disk /\ work'[h].at = "idle" /\ UNCHANGED <<spill, replay>>
              \/ /\ staging = "open" /\ ~disabled /\ work'[h].at = "writing"
                 /\ UNCHANGED <<chunks, spill, replay>>
                 /\ disk' = [disk EXCEPT ![s] = @ \o First(Room(s), buf)]
              \/ /\ staging # "open" /\ ~disabled /\ Overflows(s, buf)
                 /\ disk' = disk /\ chunks' = chunks
                 /\ work'[h].at = "spilling" /\ work'[h].on = s /\ work'[h].data = buf
                 /\ spill' = IF spill = "none" THEN "creating" ELSE spill
                 /\ replay' = IF spill = "none" THEN chunks ELSE replay
  <1> DEFINE accepted == First(Room(s), buf)
             waiting == [at |-> "spilling", on |-> s, data |-> buf, room |-> Room(s)]
  <1>1. accepted \in Buffer /\ Room(s) \in 0..Cap /\ Len(accepted) \in Nat
    BY RoomType, BufferParts DEF Buffer
  <1>2. Idle \in Awaited /\ Idle.at = "idle"
    BY RoomType DEF Awaited, Idle, Buffer, Streams
  <1>3. waiting \in Awaited /\ waiting.at = "spilling" /\ waiting.on = s /\ waiting.data = buf
    BY <1>1 DEF Awaited
  <1>4. Cut(s, buf) \subseteq Streams
    BY DEF Cut, DataType
  <1>5. Fed(s, accepted) \in [Streams -> Buffer] /\ \A t \in Streams : Len(Fed(s, accepted)[t]) <= FallbackMax
    BY <1>1, FedType
  <1>6. CASE disabled /\ Degrade(h, s, buf)
    <2>1. /\ truncated' = Cut(s, buf) /\ fallback' = Fed(s, accepted)
          /\ work' = [work EXCEPT ![h] = Idle]
          /\ UNCHANGED <<chunks, retained, secret, disabled, spill, replay, staging, disk>>
      BY <1>6 DEF Degrade, Rests, cacheVars
    <2> HIDE DEF accepted, waiting
    <2>2. DataType' /\ CacheType'
      BY <1>2, <1>4, <1>5, <2>1 DEF DataType, CacheType
    <2> QED BY <1>2, <2>1, <2>2 DEF CacheType
  <1>7. CASE ~disabled /\ staging = "open" /\ WriteAccepted(h, s, buf, TRUE) /\ UNCHANGED replay
    <2>1. replay' \in [Streams -> Seq(Buffer)]
      BY <1>7 DEF CacheType
    <2>2. TRUE \in BOOLEAN /\ WriteAccepted(h, s, buf, TRUE)
      BY <1>7
    <2> HIDE DEF accepted, waiting
    <2>3. /\ DataType' /\ CacheType' /\ UNCHANGED <<chunks, secret, disabled, spill, staging>>
          /\ \A g \in Handlers : g # h => work'[g] = work[g]
          /\ \/ disk' = disk /\ work'[h].at = "idle"
             \/ /\ staging = "open" /\ work'[h].at = "writing"
                /\ disk' = [disk EXCEPT ![s] = @ \o First(Room(s), buf)]
      BY <2>1, <2>2, WriteAcceptedDoes
    <2> QED BY <1>7, <2>3
  <1>8. CASE ~disabled /\ staging # "open" /\ Overflows(s, buf) /\ JoinSpill(h, s, buf)
    <2>1. /\ truncated' = Cut(s, buf) /\ work' = [work EXCEPT ![h] = waiting]
          /\ spill' = IF spill = "none" THEN "creating" ELSE spill
          /\ replay' = IF spill = "none" THEN chunks ELSE replay
          /\ UNCHANGED <<chunks, retained, fallback, secret, disabled, staging, disk>>
      BY <1>8 DEF JoinSpill, Awaits
    <2> HIDE DEF accepted, waiting
    <2>2. DataType' /\ CacheType'
      BY <1>3, <1>4, <2>1 DEF DataType, CacheType
    <2> QED BY <1>3, <1>8, <2>1, <2>2 DEF CacheType
  <1>9. CASE ~disabled /\ staging # "open" /\ Keep(h, s, buf)
    <2>1. /\ truncated' = Cut(s, buf) /\ fallback' = Fed(s, accepted)
          /\ work' = [work EXCEPT ![h] = Idle]
          /\ chunks' \in {chunks, [chunks EXCEPT ![s] = Append(@, accepted)]}
          /\ retained' = [retained EXCEPT ![s] = @ + Len(accepted)]
          /\ UNCHANGED <<secret, disabled, spill, replay, staging, disk>>
      BY <1>9 DEF Keep, Rests, cacheVars
    <2> HIDE DEF accepted, waiting
    <2>2. retained' \in [Streams -> Nat] /\ chunks' \in [Streams -> Seq(Buffer)]
      <3>1. chunks[s] \in Seq(Buffer) /\ retained[s] \in Nat
        BY DEF DataType
      <3>2. Append(chunks[s], accepted) \in Seq(Buffer) /\ retained[s] + Len(accepted) \in Nat
        BY <1>1, <3>1
      <3> QED BY <2>1, <3>2 DEF DataType
    <2>3. DataType' /\ CacheType'
      BY <1>2, <1>4, <1>5, <2>1, <2>2 DEF DataType, CacheType
    <2> QED BY <1>2, <1>9, <2>1, <2>3 DEF CacheType, accepted
  <1> QED BY <1>6, <1>7, <1>8, <1>9 DEF ProcessSafe

LEMMA MarkSecretDoes ==
    ASSUME DataType, MarkSecret, CacheType
    PROVE  /\ DataType' /\ secret' = TRUE /\ chunks' = Nothing /\ disabled' = disabled
           /\ staging' \in {"none", "discarded", "published"}
           /\ staging' = IF staging = "open" THEN "discarded" ELSE staging
  BY OutputAssumption DEF MarkSecret, DataType, Nothing, Buffer, CacheType

LEMMA DisableCacheDoes ==
    ASSUME DataType, DisableCache, CacheType
    PROVE  /\ DataType' /\ secret' = secret /\ disabled' = (disabled \/ ~secret)
           /\ disabled' \in BOOLEAN
           /\ chunks' \in {chunks, Nothing}
           /\ staging' = IF ~secret /\ ~disabled /\ staging = "open" THEN "discarded" ELSE staging
  BY OutputAssumption DEF DisableCache, DataType, Nothing, Buffer, CacheType

-----------------------------------------------------------------------------
(* What memory holds, as one buffer.                                       *)
LEMMA UpToAll ==
    ASSUME NEW T \in SUBSET Nat, 1 \in T, \A n \in T : n + 1 \in T
    PROVE  \A n \in Nat : n > 0 => n \in T
  <1> DEFINE R == {ss \in Nat \X Nat : ss[1] < ss[2]}
             U == {n \in Nat : n > 0} \ T
  <1>1. IsWellFoundedOn(R, Nat)
    BY NatLessThanWellFounded DEF OpToRel
  <1>2. SUFFICES ASSUME U # {} PROVE FALSE
    OBVIOUS
  <1>3. \E x \in U : \A y \in U : ~(<<y, x>> \in R)
    <2>1. U \subseteq Nat
      OBVIOUS
    <2> HIDE DEF R, U
    <2> QED BY <1>1, <1>2, <2>1, WFMin
  <1>4. PICK x \in U : \A y \in U : ~(y < x)
    BY <1>3
  <1>5. x # 1 /\ x - 1 \in Nat /\ x - 1 < x /\ x - 1 > 0
    OBVIOUS
  <1>6. x - 1 \in T
    BY <1>4, <1>5
  <1>7. (x - 1) + 1 \in T
    BY <1>6
  <1> QED BY <1>4, <1>7

\* The first n of them, in their order.
PartJoins(ss, n) ==
    {g \in [1..n -> Buffer] : \A i \in 1..n : g[i] = IF i = 1 THEN ss[i] ELSE g[i - 1] \o ss[i]}

LEMMA JoinsExist ==
    ASSUME NEW ss \in Seq(Buffer), Len(ss) > 0
    PROVE  PartJoins(ss, Len(ss)) # {}
  <1> DEFINE T == {n \in Nat : n <= Len(ss) => PartJoins(ss, n) # {}}
  <1>1. 1 \in T
    <2>1. ss[1] \in Buffer
      OBVIOUS
    <2>2. [i \in 1..1 |-> ss[1]] \in PartJoins(ss, 1)
      BY <2>1 DEF PartJoins
    <2> QED BY <2>2
  <1>2. ASSUME NEW n \in T PROVE n + 1 \in T
    <2> SUFFICES ASSUME n + 1 <= Len(ss), n > 0 PROVE PartJoins(ss, n + 1) # {}
      <3>1. CASE n = 0
        <4> HIDE DEF T
        <4>1. n + 1 = 1
          BY <3>1
        <4> QED BY <1>1, <4>1 DEF T
      <3> QED BY <3>1
    <2>1. PICK g : g \in PartJoins(ss, n)
      OBVIOUS
    <2> DEFINE last == g[n] \o ss[n + 1]
               h    == [i \in 1..(n + 1) |-> IF i = n + 1 THEN last ELSE g[i]]
    <2>2. n + 1 \in 1..Len(ss) /\ ss[n + 1] \in Buffer /\ g[n] \in Buffer
      BY <2>1 DEF PartJoins
    <2>3. last \in Buffer
      BY <2>2, BuffersJoin
    <2>4. h \in [1..(n + 1) -> Buffer]
      <3> HIDE DEF last
      <3> QED BY <2>1, <2>3 DEF PartJoins
    <2>5. ASSUME NEW i \in 1..(n + 1)
          PROVE  h[i] = IF i = 1 THEN ss[i] ELSE h[i - 1] \o ss[i]
      <3>1. CASE i = n + 1
        <4>1. n \in Nat /\ i # 1 /\ i - 1 = n /\ n \in 1..(n + 1) /\ n # n + 1
          <5> HIDE DEF T, h, last
          <5>1. n \in Nat
            BY DEF T
          <5> QED BY <3>1, <5>1
        <4>2. h[i] = last /\ h[i - 1] = g[n]
          BY <3>1, <4>1
        <4> HIDE DEF h
        <4> QED BY <3>1, <4>1, <4>2
      <3>2. CASE i # n + 1
        <4>1. i \in 1..n /\ h[i] = g[i] /\ (i # 1 => h[i - 1] = g[i - 1])
          BY <3>2
        <4> HIDE DEF h
        <4> QED BY <2>1, <4>1 DEF PartJoins
      <3> QED BY <3>1, <3>2
    <2>6. h \in PartJoins(ss, n + 1)
      <3> HIDE DEF h
      <3> QED BY <2>4, <2>5 DEF PartJoins
    <2> QED BY <2>6
  <1>3. Len(ss) \in T
    <2> HIDE DEF T
    <2>1. T \in SUBSET Nat
      BY DEF T
    <2> QED BY <1>1, <1>2, <2>1, UpToAll
  <1> QED BY <1>3

LEMMA FlattenJoins ==
    ASSUME NEW ss \in Seq(Buffer), Len(ss) > 0
    PROVE  \E g \in PartJoins(ss, Len(ss)) : FlattenSeq(ss) = g[Len(ss)]
  <1> DEFINE Eq(u) == u = [i \in 1..Len(ss) |-> IF i = 1 THEN ss[i] ELSE u[i - 1] \o ss[i]]
             flatten == CHOOSE u : Eq(u)
             T == {n \in Nat : n <= Len(ss) => flatten[n] \in Buffer}
  <1>1. PICK g : g \in PartJoins(ss, Len(ss))
    BY JoinsExist
  <1>2. Eq(g)
    <2>1. g = [i \in 1..Len(ss) |-> g[i]]
      BY <1>1 DEF PartJoins
    <2>2. \A i \in 1..Len(ss) : g[i] = IF i = 1 THEN ss[i] ELSE g[i - 1] \o ss[i]
      BY <1>1 DEF PartJoins
    <2> QED BY <2>1, <2>2, Zenon
  <1>3. Eq(flatten)
    BY <1>2
  <1>4. FlattenSeq(ss) = flatten[Len(ss)]
    BY DEF FlattenSeq
  <1> HIDE DEF flatten
  <1>5. flatten = [i \in 1..Len(ss) |-> flatten[i]]
    BY <1>3, Zenon
  <1>6. \A i \in 1..Len(ss) : flatten[i] = IF i = 1 THEN ss[i] ELSE flatten[i - 1] \o ss[i]
    BY <1>3, Zenon
  <1>7. 1 \in T
    BY <1>6
  <1>8. ASSUME NEW n \in T PROVE n + 1 \in T
    <2> SUFFICES ASSUME n + 1 <= Len(ss) PROVE flatten[n + 1] \in Buffer
      OBVIOUS
    <2>1. CASE n = 0
      BY <1>7, <2>1
    <2>2. CASE n # 0
      <3>1. n + 1 \in 1..Len(ss) /\ (n + 1) - 1 = n /\ ss[n + 1] \in Buffer /\ flatten[n] \in Buffer
        OBVIOUS
      <3>2. flatten[n + 1] = flatten[n] \o ss[n + 1]
        <4>1. n + 1 # 1
          <5> HIDE DEF T
          <5>1. n \in Nat
            BY DEF T
          <5> QED BY <2>2, <5>1
        <4>2. flatten[n + 1] = flatten[(n + 1) - 1] \o ss[n + 1]
          BY <1>6, <3>1, <4>1, Zenon
        <4> QED BY <3>1, <4>2
      <3> QED BY <3>1, <3>2, BuffersJoin
    <2> QED BY <2>1, <2>2
  <1>9. \A n \in 1..Len(ss) : flatten[n] \in Buffer
    <2> HIDE DEF T
    <2>1. T \in SUBSET Nat
      BY DEF T
    <2>2. \A n \in 1..Len(ss) : n \in T
      BY <1>7, <1>8, <2>1, UpToAll
    <2> QED BY <2>2 DEF T
  <1>10. flatten \in PartJoins(ss, Len(ss))
    BY <1>5, <1>6, <1>9 DEF PartJoins
  <1> QED BY <1>4, <1>10

LEMMA InMemoryType ==
    ASSUME DataType, NEW t \in Streams
    PROVE  InMemory(t) \in Buffer
  <1>1. chunks[t] \in Seq(Buffer)
    BY DEF DataType
  <1>2. CASE Len(chunks[t]) = 0
    <2>1. FlattenSeq(chunks[t]) = chunks[t] /\ chunks[t] = <<>>
      BY <1>1, <1>2 DEF FlattenSeq
    <2> QED BY <2>1 DEF InMemory, Buffer
  <1>3. CASE Len(chunks[t]) > 0
    <2>1. Len(chunks[t]) \in Nat
      BY <1>1
    <2> QED BY <1>1, <1>3, <2>1, FlattenJoins DEF InMemory, PartJoins
  <1> QED BY <1>1, <1>2, <1>3

-----------------------------------------------------------------------------
(* What a scan does.                                                       *)

\* The buffers of a sequence are all released.
Clean(bufs, t) == \A i \in 1..Len(bufs) : ToSet(bufs[i]) \subseteq cleared'[t]

\* The handler rests, with what it was given in memory or nowhere;
Quiet(h, s) ==
    /\ work'[h].at = "idle"
    /\ UNCHANGED <<secret, spill, replay, staging, disk>>
    /\ \/ chunks' = chunks
       \/ /\ ~secret /\ ~disabled /\ staging # "open"
          /\ \E buf \in Buffer : /\ chunks' = [chunks EXCEPT ![s] = Append(@, buf)]
                                 /\ tier = "cache" => ToSet(buf) \subseteq cleared'[s]

\* or it finds a secret;
Alarmed(h) ==
    /\ work'[h].at = "idle"
    /\ secret' = TRUE /\ chunks' = Nothing /\ UNCHANGED <<replay, disk>>
    /\ spill' \in {spill, "over"}
    /\ staging' = IF staging = "open" THEN "discarded" ELSE staging

\* or it writes;
Written(h, s) ==
    /\ ~secret /\ staging = "open" /\ work'[h].at = "writing"
    /\ UNCHANGED <<chunks, secret, spill, replay, staging>>
    /\ \E buf \in Buffer : /\ disk' = [disk EXCEPT ![s] = @ \o buf]
                           /\ tier # "off" => ToSet(buf) \subseteq cleared'[s]

\* or it waits for the spill, which it starts if nobody has.
Joined(h, s) ==
    /\ ~secret /\ staging # "open" /\ ~disabled
    /\ work'[h].at = "spilling" /\ work'[h].on = s
    /\ tier = "cache" => ToSet(work'[h].data) \subseteq cleared'[s]
    /\ UNCHANGED <<chunks, secret, staging, disk>>
    /\ spill' = IF spill = "none" THEN "creating" ELSE spill
    /\ IF spill # "none" THEN replay' = replay
       ELSE \/ tier \in {"off", "cache"} /\ replay' = chunks
            \/ \A t \in Streams : Clean(replay'[t], t)

Outcome(h, s) ==
    /\ DataType' /\ CacheType' /\ ScanType'
    /\ \A g \in Handlers : g # h => work'[g] = work[g]
    /\ \A t \in Streams : cleared[t] \subseteq cleared'[t]
    /\ disabled' = disabled
    /\ Quiet(h, s) \/ Alarmed(h) \/ Written(h, s) \/ Joined(h, s)

\* processSafe of a buffer that is clean, or need not be.
LEMMA SafeOutcome ==
    ASSUME DataType, CacheType, ScanType', ~secret, NEW h \in Handlers, NEW s \in Streams,
           NEW buf \in Buffer, ProcessSafe(h, s, buf), \A t \in Streams : cleared[t] \subseteq cleared'[t],
           tier = "cache" => ToSet(buf) \subseteq cleared'[s],
           tier # "off" /\ staging = "open" /\ ~disabled => ToSet(buf) \subseteq cleared'[s],
           spill = "none" /\ staging # "open" /\ ~disabled /\ Overflows(s, buf) => tier \in {"off", "cache"}
    PROVE  Outcome(h, s)
  <1> DEFINE accepted == First(Room(s), buf)
  <1>1. accepted \in Buffer /\ ToSet(accepted) \subseteq ToSet(buf)
    BY RoomType, BufferParts
  <1> HIDE DEF accepted
  <1>2. /\ DataType' /\ CacheType'
        /\ UNCHANGED <<secret, disabled, staging>>
        /\ \A g \in Handlers : g # h => work'[g] = work[g]
        /\ \/ chunks' = chunks
           \/ /\ ~disabled /\ staging # "open"
              /\ chunks' = [chunks EXCEPT ![s] = Append(@, accepted)]
        /\ \/ disk' = disk /\ work'[h].at = "idle" /\ UNCHANGED <<spill, replay>>
           \/ /\ staging = "open" /\ ~disabled /\ work'[h].at = "writing"
              /\ UNCHANGED <<chunks, spill, replay>>
              /\ disk' = [disk EXCEPT ![s] = @ \o accepted]
           \/ /\ staging # "open" /\ ~disabled /\ Overflows(s, buf)
              /\ disk' = disk /\ chunks' = chunks
              /\ work'[h].at = "spilling" /\ work'[h].on = s /\ work'[h].data = buf
              /\ spill' = IF spill = "none" THEN "creating" ELSE spill
              /\ replay' = IF spill = "none" THEN chunks ELSE replay
    BY SafeDoes DEF accepted
  <1>3. CASE disk' = disk /\ work'[h].at = "idle" /\ UNCHANGED <<spill, replay>>
    <2>1. Quiet(h, s)
      BY <1>1, <1>2, <1>3 DEF Quiet
    <2> QED BY <1>2, <2>1 DEF Outcome
  <1>4. CASE /\ staging = "open" /\ ~disabled /\ work'[h].at = "writing"
             /\ UNCHANGED <<chunks, spill, replay>>
             /\ disk' = [disk EXCEPT ![s] = @ \o accepted]
    <2>1. Written(h, s)
      BY <1>1, <1>2, <1>4 DEF Written
    <2> QED BY <1>2, <2>1 DEF Outcome
  <1>5. CASE /\ staging # "open" /\ ~disabled /\ Overflows(s, buf)
             /\ disk' = disk /\ chunks' = chunks
             /\ work'[h].at = "spilling" /\ work'[h].on = s /\ work'[h].data = buf
             /\ spill' = IF spill = "none" THEN "creating" ELSE spill
             /\ replay' = IF spill = "none" THEN chunks ELSE replay
    <2>1. Joined(h, s)
      BY <1>2, <1>5 DEF Joined
    <2> QED BY <1>2, <2>1 DEF Outcome
  <1> QED BY <1>2, <1>3, <1>4, <1>5

LEMMA SecretOutcome ==
    ASSUME DataType, CacheType, ScanType, NEW h \in Handlers, NEW s \in Streams,
           MarkSecret, Rests(h), UNCHANGED <<held, cleared, replay, disk>>, spill' \in {spill, "over"}
    PROVE  Outcome(h, s)
  <1>1. /\ DataType' /\ secret' = TRUE /\ chunks' = Nothing /\ disabled' = disabled
        /\ staging' \in {"none", "discarded", "published"}
        /\ staging' = IF staging = "open" THEN "discarded" ELSE staging
    BY MarkSecretDoes
  <1>2. /\ work' \in [Handlers -> Awaited] /\ work'[h].at = "idle"
        /\ \A g \in Handlers : g # h => work'[g] = work[g]
    <2>1. Idle \in Awaited /\ Idle.at = "idle"
      BY RoomType DEF Awaited, Idle, Buffer, Streams
    <2>2. work' = [work EXCEPT ![h] = Idle] /\ work \in [Handlers -> Awaited]
      BY DEF Rests, CacheType
    <2> QED BY <2>1, <2>2
  <1>3. CacheType' /\ ScanType'
    BY <1>1, <1>2 DEF CacheType, ScanType
  <1>4. Alarmed(h)
    BY <1>1, <1>2 DEF Alarmed
  <1> QED BY <1>1, <1>2, <1>3, <1>4 DEF Outcome

LEMMA ReleaseOutcome ==
    ASSUME DataType, CacheType, ScanType, ~secret, NEW h \in Handlers, NEW s \in Streams,
           NEW buf \in Buffer, NEW n \in 0..Len(buf), Release(h, s, buf, n),
           spill = "none" => tier = "cache"
    PROVE  Outcome(h, s)
  <1>1. n \in Nat /\ n <= Len(buf)
    BY DEF Buffer
  <1>2. First(n, buf) \in Buffer /\ Rest(n, buf) \in Buffer
    BY <1>1, BufferParts
  <1> DEFINE released == First(n, buf)
  <1>3. ToSet(released) \subseteq Units
    BY <1>2 DEF ToSet, Buffer
  <1>4. /\ held' = [held EXCEPT ![s] = Rest(n, buf)]
        /\ cleared' = [cleared EXCEPT ![s] = @ \cup ToSet(released)]
    BY DEF Release
  <1> HIDE DEF released
  <1>5. /\ \A t \in Streams : cleared[t] \subseteq cleared'[t]
        /\ ToSet(released) \subseteq cleared'[s]
    BY <1>4 DEF ScanType
  <1>6. held' \in [Streams -> Buffer] /\ cleared' \in [Streams -> SUBSET Units]
    BY <1>2, <1>3, <1>4 DEF ScanType
  <1>7. CASE n = 0
    <2>1. Rests(h) /\ UNCHANGED <<dataVars, secret, cacheVars>>
      BY <1>7 DEF Release
    <2>2. Idle \in Awaited /\ Idle.at = "idle"
      BY RoomType DEF Awaited, Idle, Buffer, Streams
    <2>3. /\ work' \in [Handlers -> Awaited] /\ work'[h].at = "idle"
          /\ \A g \in Handlers : g # h => work'[g] = work[g]
      BY <2>1, <2>2 DEF Rests, CacheType
    <2>4. DataType' /\ CacheType' /\ ScanType'
      BY <1>6, <2>1, <2>3 DEF DataType, CacheType, ScanType, dataVars, cacheVars
    <2>5. Quiet(h, s)
      BY <2>1, <2>3 DEF Quiet, dataVars, cacheVars
    <2> QED BY <1>5, <2>1, <2>3, <2>4, <2>5 DEF Outcome, cacheVars
  <1>8. CASE n # 0
    <2>1. ProcessSafe(h, s, released)
      BY <1>8 DEF Release, released
    <2>2. secret' = secret
      BY <1>2, <2>1, SafeDoes DEF released
    <2>3. ScanType'
      BY <1>6, <2>2 DEF ScanType
    <2>4. released \in Buffer
      BY <1>2 DEF released
    <2> QED BY <1>5, <2>1, <2>3, <2>4, SafeOutcome
  <1> QED BY <1>7, <1>8

LEMMA ScanMemoryOutcome ==
    ASSUME DataType, CacheType, ScanType, ~secret, tier = "write", spill = "none",
           staging # "open", ~disabled, NEW h \in Handlers, NEW s \in Streams, NEW buf \in Buffer,
           ScanMemory(h, s, buf)
    PROVE  Outcome(h, s)
  <1>1. CASE MarkSecret /\ spill' = "over" /\ Rests(h) /\ UNCHANGED <<held, cleared, replay, disk>>
    BY <1>1, SecretOutcome
  <1>2. ASSUME NEW n \in [Streams -> 0..MaxChunks],
               /\ \A t \in Streams : n[t] <= Len(InMemory(t))
               /\ replay' = Replayed(n)
               /\ held' = [t \in Streams |-> Rest(n[t], InMemory(t))]
               /\ cleared' = [t \in Streams |-> cleared[t] \cup ToSet(First(n[t], InMemory(t)))]
               /\ fallback' = [t \in Streams |-> First(FallbackMax, First(n[t], InMemory(t)))]
               /\ truncated' = Cut(s, buf)
               /\ spill' = "creating"
               /\ Awaits(h, "spilling", s, buf)
               /\ UNCHANGED <<chunks, retained, secret, disabled, staging, disk>>
        PROVE  Outcome(h, s)
    <2> DEFINE prefix(t) == First(n[t], InMemory(t))
    <2>1. ASSUME NEW t \in Streams
          PROVE  /\ prefix(t) \in Buffer /\ ToSet(prefix(t)) \subseteq Units
                 /\ Rest(n[t], InMemory(t)) \in Buffer
                 /\ First(FallbackMax, prefix(t)) \in Buffer
                 /\ Len(First(FallbackMax, prefix(t))) <= FallbackMax
      <3>1. InMemory(t) \in Buffer /\ n[t] \in Nat /\ FallbackMax \in Nat
        BY InMemoryType, OutputAssumption
      <3>2. prefix(t) \in Buffer /\ Rest(n[t], InMemory(t)) \in Buffer
        BY <1>2, <3>1, BufferParts
      <3> HIDE DEF prefix
      <3>3. ToSet(prefix(t)) \subseteq Units /\ Len(prefix(t)) \in Nat
        BY <3>2 DEF ToSet, Buffer
      <3>4. /\ First(FallbackMax, prefix(t)) \in Buffer
            /\ Len(First(FallbackMax, prefix(t))) <= FallbackMax
        BY <3>1, <3>2, <3>3, BufferParts DEF Least
      <3> QED BY <3>2, <3>3, <3>4
    <2>2. /\ replay' = [t \in Streams |-> IF n[t] = 0 THEN <<>> ELSE <<prefix(t)>>]
          /\ cleared' = [t \in Streams |-> cleared[t] \cup ToSet(prefix(t))]
          /\ fallback' = [t \in Streams |-> First(FallbackMax, prefix(t))]
      BY <1>2 DEF Replayed
    <2> HIDE DEF prefix
    <2>3. DataType'
      <3>1. truncated' \subseteq Streams
        BY <1>2 DEF Cut, DataType
      <3>2. fallback' \in [Streams -> Buffer] /\ \A t \in Streams : Len(fallback'[t]) <= FallbackMax
        BY <2>1, <2>2
      <3> QED BY <1>2, <3>1, <3>2 DEF DataType
    <2>4. ScanType'
      <3>1. held' \in [Streams -> Buffer]
        BY <1>2, <2>1
      <3>2. cleared' \in [Streams -> SUBSET Units]
        BY <2>1, <2>2 DEF ScanType
      <3> QED BY <1>2, <3>1, <3>2 DEF ScanType
    <2> DEFINE waiting == [at |-> "spilling", on |-> s, data |-> buf, room |-> Room(s)]
    <2>5. waiting \in Awaited /\ waiting.at = "spilling" /\ waiting.on = s /\ waiting.data = buf
      BY RoomType DEF Awaited
    <2>6. work' = [work EXCEPT ![h] = waiting]
      BY <1>2 DEF Awaits
    <2> HIDE DEF waiting
    <2>7. /\ work' \in [Handlers -> Awaited] /\ work'[h] = waiting
          /\ \A g \in Handlers : g # h => work'[g] = work[g]
      BY <2>5, <2>6 DEF CacheType
    <2>8. replay' \in [Streams -> Seq(Buffer)] /\ \A t \in Streams : Clean(replay'[t], t)
      <3>1. ASSUME NEW t \in Streams PROVE replay'[t] \in Seq(Buffer) /\ Clean(replay'[t], t)
        <4>1. ToSet(prefix(t)) \subseteq cleared'[t] /\ prefix(t) \in Buffer
          BY <2>1, <2>2
        <4>2. CASE n[t] = 0
          <5>1. replay'[t] = <<>>
            BY <2>2, <4>2
          <5> QED BY <5>1 DEF Clean
        <4>3. CASE n[t] # 0
          <5>1. replay'[t] = <<prefix(t)>>
            BY <2>2, <4>3
          <5> QED BY <4>1, <5>1 DEF Clean
        <4> QED BY <4>2, <4>3
      <3> QED BY <2>2, <3>1
    <2>9. CacheType'
      BY <1>2, <2>7, <2>8 DEF CacheType
    <2>10. Joined(h, s)
      BY <1>2, <2>5, <2>7, <2>8 DEF Joined
    <2>11. \A t \in Streams : cleared[t] \subseteq cleared'[t]
      BY <2>2
    <2> QED BY <1>2, <2>3, <2>4, <2>7, <2>9, <2>10, <2>11 DEF Outcome
  <1> QED BY <1>1, <1>2 DEF ScanMemory

LEMMA ScanOutcome ==
    ASSUME OutputInv, NEW h \in Handlers, NEW s \in Streams, NEW buf \in Buffer, Scan(h, s, buf)
    PROVE  Outcome(h, s)
  <1>1. DataType /\ CacheType /\ ScanType /\ tier \in {"off", "write", "cache"}
    BY TypeParts, OutputAssumption DEF OutputInv
  <1>2. spill = "none" => staging # "open" /\ ~disabled
    BY DEF OutputInv, Opening
  <1>3. CASE secret
    <2>1. Rests(h) /\ UNCHANGED <<dataVars, scanVars, cacheVars>>
      BY <1>3 DEF Scan
    <2>2. Idle \in Awaited /\ Idle.at = "idle"
      BY <1>1, RoomType DEF Awaited, Idle, Buffer, Streams
    <2>3. /\ work' \in [Handlers -> Awaited] /\ work'[h].at = "idle"
          /\ \A g \in Handlers : g # h => work'[g] = work[g]
      BY <1>1, <2>1, <2>2 DEF Rests, CacheType
    <2>4. DataType' /\ CacheType' /\ ScanType'
      BY <1>1, <2>1, <2>3 DEF DataType, CacheType, ScanType, dataVars, cacheVars, scanVars
    <2>5. Quiet(h, s)
      BY <2>1, <2>3 DEF Quiet, dataVars, cacheVars, scanVars
    <2> QED BY <2>1, <2>3, <2>4, <2>5 DEF Outcome, cacheVars, scanVars
  <1>4. CASE ~secret /\ Matching
    <2>1. CASE SecretFound(h)
      BY <1>1, <2>1, SecretOutcome DEF SecretFound
    <2>2. ASSUME NEW n \in 0..Len(held[s] \o buf), Release(h, s, held[s] \o buf, n)
          PROVE  Outcome(h, s)
      <3>1. held[s] \o buf \in Buffer
        BY <1>1, BuffersJoin DEF ScanType
      <3> QED BY <1>1, <1>4, <2>2, <3>1, ReleaseOutcome DEF Matching
    <2> QED BY <1>4, <2>1, <2>2 DEF Scan
  <1>5. CASE ~secret /\ ~Matching /\ ScanMemory(h, s, buf)
             /\ tier = "write" /\ ~disabled /\ staging # "open"
    BY <1>1, <1>5, ScanMemoryOutcome DEF Matching
  <1>6. CASE /\ ~secret /\ ~Matching /\ ProcessSafe(h, s, buf) /\ UNCHANGED <<held, cleared>>
             /\ ~(tier = "write" /\ ~disabled /\ staging # "open" /\ Overflows(s, buf))
    <2>1. ScanType'
      <3>1. secret' = secret
        BY <1>1, <1>6, SafeDoes
      <3> QED BY <1>1, <1>6, <3>1 DEF ScanType
    <2>2. tier # "cache" /\ (tier = "write" => spill = "none")
      BY <1>6 DEF Matching
    <2>3. \A t \in Streams : cleared[t] \subseteq cleared'[t]
      BY <1>6
    <2>4. ~secret /\ ProcessSafe(h, s, buf)
      BY <1>6
    <2>5. tier # "off" /\ staging = "open" /\ ~disabled => FALSE
      BY <1>1, <1>2, <2>2
    <2>6. spill = "none" /\ staging # "open" /\ ~disabled /\ Overflows(s, buf) => tier \in {"off", "cache"}
      BY <1>1, <1>6
    <2> QED BY <1>1, <2>1, <2>2, <2>3, <2>4, <2>5, <2>6, SafeOutcome
  <1> QED BY <1>3, <1>4, <1>5, <1>6 DEF Scan

-----------------------------------------------------------------------------
(* The steps of a handler that scans.                                      *)

\* What is clean stays clean.
LEMMA ReleasedStays ==
    ASSUME OutputInv, NEW h \in Handlers, NEW s \in Streams, Outcome(h, s), tier' = tier
    PROVE  Released' /\ ScanBeforePersist'
  <1>1. /\ DataType /\ CacheType /\ ScanType /\ Released /\ ScanBeforePersist
        /\ \A t \in Streams : cleared[t] \subseteq cleared'[t]
        /\ \A g \in Handlers : g # h => work'[g] = work[g]
    BY TypeParts DEF OutputInv, Outcome
  <1>2. ASSUME tier = "cache", NEW t \in Streams, NEW i \in 1..Len(chunks'[t])
        PROVE  ToSet(chunks'[t][i]) \subseteq cleared'[t]
    <2>1. chunks[t] \in Seq(Buffer)
      BY <1>1 DEF DataType
    <2>2. CASE chunks' = chunks
      <3>1. ToSet(chunks[t][i]) \subseteq cleared[t]
        BY <1>1, <1>2, <2>2 DEF Released
      <3> QED BY <1>1, <2>2, <3>1
    <2>3. ASSUME NEW buf \in Buffer, chunks' = [chunks EXCEPT ![s] = Append(@, buf)],
                 ToSet(buf) \subseteq cleared'[s]
          PROVE  ToSet(chunks'[t][i]) \subseteq cleared'[t]
      <3>1. CASE t = s
        <4>1. chunks'[t] = Append(chunks[t], buf)
          BY <1>1, <2>3, <3>1 DEF DataType
        <4>2. CASE i = Len(chunks[t]) + 1
          <5>1. chunks'[t][i] = buf
            BY <2>1, <4>1, <4>2
          <5> QED BY <2>3, <3>1, <5>1
        <4>3. CASE i # Len(chunks[t]) + 1
          <5>1. i \in 1..Len(chunks[t]) /\ chunks'[t][i] = chunks[t][i]
            BY <2>1, <4>1, <4>3
          <5>2. ToSet(chunks[t][i]) \subseteq cleared[t]
            BY <1>1, <1>2, <5>1 DEF Released
          <5> QED BY <1>1, <5>1, <5>2
        <4> QED BY <4>2, <4>3
      <3>2. CASE t # s
        <4>1. chunks'[t] = chunks[t]
          BY <1>1, <2>3, <3>2 DEF DataType
        <4>2. ToSet(chunks[t][i]) \subseteq cleared[t]
          BY <1>1, <1>2, <4>1 DEF Released
        <4> QED BY <1>1, <4>1, <4>2
      <3> QED BY <3>1, <3>2
    <2>4. CASE chunks' = Nothing
      <3>1. chunks'[t] = <<>>
        BY <2>4 DEF Nothing
      <3> QED BY <3>1
    <2> QED BY <1>2, <2>2, <2>3, <2>4 DEF Outcome, Quiet, Alarmed, Written, Joined
  <1>3. ASSUME tier # "off", NEW t \in Streams, NEW i \in 1..Len(replay'[t])
        PROVE  ToSet(replay'[t][i]) \subseteq cleared'[t]
    <2>1. CASE replay' = replay
      <3>1. ToSet(replay[t][i]) \subseteq cleared[t]
        BY <1>1, <1>3, <2>1 DEF Released
      <3> QED BY <1>1, <2>1, <3>1
    <2>2. CASE tier = "cache" /\ replay' = chunks
      <3>1. ToSet(chunks[t][i]) \subseteq cleared[t]
        BY <1>1, <2>2 DEF Released
      <3> QED BY <1>1, <2>2, <3>1
    <2>3. CASE Clean(replay'[t], t)
      BY <2>3 DEF Clean
    <2>4. \/ replay' = replay
          \/ tier \in {"off", "cache"} /\ replay' = chunks
          \/ Clean(replay'[t], t)
      BY DEF Outcome, Quiet, Alarmed, Written, Joined
    <2> QED BY <1>3, <2>1, <2>2, <2>3, <2>4
  <1>4. ASSUME tier = "cache", NEW g \in Handlers, Waits(g)'
        PROVE  ToSet(work'[g].data) \subseteq cleared'[work'[g].on]
    <2>1. CASE g = h
      BY <1>4, <2>1 DEF Outcome, Quiet, Alarmed, Written, Joined, Waits
    <2>2. CASE g # h
      <3>1. work'[g] = work[g] /\ work[g].on \in Streams
        BY <1>1, <2>2 DEF CacheType, Awaited
      <3>2. ToSet(work[g].data) \subseteq cleared[work[g].on]
        BY <1>1, <1>4, <3>1 DEF Released, Waits
      <3> QED BY <1>1, <3>1, <3>2
    <2> QED BY <2>1, <2>2
  <1>5. ASSUME tier # "off", NEW t \in Streams PROVE ToSet(disk'[t]) \subseteq cleared'[t]
    <2>1. disk[t] \in Buffer /\ ToSet(disk[t]) \subseteq cleared'[t]
      BY <1>1, <1>5 DEF CacheType, ScanBeforePersist
    <2>2. CASE disk' = disk
      BY <2>1, <2>2
    <2>3. ASSUME NEW buf \in Buffer, disk' = [disk EXCEPT ![s] = @ \o buf],
                 ToSet(buf) \subseteq cleared'[s]
          PROVE  ToSet(disk'[t]) \subseteq cleared'[t]
      <3>1. CASE t = s
        <4>1. disk'[t] = disk[t] \o buf
          BY <1>1, <2>3, <3>1 DEF CacheType
        <4> QED BY <2>1, <2>3, <3>1, <4>1, BuffersJoin
      <3>2. CASE t # s
        BY <1>1, <2>1, <2>3, <3>2 DEF CacheType
      <3> QED BY <3>1, <3>2
    <2> QED BY <1>5, <2>2, <2>3 DEF Outcome, Quiet, Alarmed, Written, Joined
  <1>6. Released'
    BY <1>2, <1>3, <1>4 DEF Released
  <1> QED BY <1>5, <1>6 DEF ScanBeforePersist

\* What spill, writer and stage say of each other stays true.
LEMMA OpeningStays ==
    ASSUME OutputInv, NEW h \in Handlers, h # "spill", NEW s \in Streams, Outcome(h, s),
           UNCHANGED early, crossed' \in {crossed, crossed \cup {s}},
           {stage, stage'} \cap {"publish", "returned"} = {},
           stage' = stage \/ stage \in Streams,
           h \in Streams /\ ~early => stage \in {"capture", "threw"} /\ stage' = stage,
           work[h].at = "idle" \/ spill = "over",
           Alarmed(h) /\ spill = "creating" => crossed' # {} \/ early
    PROVE  Opening'
  <1>1. /\ CacheType /\ Opening /\ CacheType'
        /\ \A g \in Handlers : g # h => work'[g] = work[g]
        /\ disabled' = disabled
    BY TypeParts DEF OutputInv, Outcome
  <1>2. /\ spill' \in {spill, "creating", "over"}
        /\ spill' = "creating" => spill \in {"none", "creating"}
    <2>1. CASE Quiet(h, s)
      BY <2>1 DEF Quiet
    <2>2. CASE Alarmed(h)
      BY <2>2 DEF Alarmed
    <2>3. CASE Written(h, s)
      BY <2>3 DEF Written
    <2>4. CASE Joined(h, s)
      BY <2>4 DEF Joined
    <2> QED BY <2>1, <2>2, <2>3, <2>4 DEF Outcome
  <1>3. staging' = staging \/ (staging = "open" /\ staging' = "discarded")
    BY DEF Outcome, Quiet, Alarmed, Written, Joined
  <1>4. spill' \in {"none", "creating"} =>
          staging' = "none" /\ ~disabled' /\ \A g \in Handlers : ~Writes(g)'
    <2> SUFFICES ASSUME spill' \in {"none", "creating"}
                 PROVE  staging' = "none" /\ ~disabled' /\ \A g \in Handlers : ~Writes(g)'
      OBVIOUS
    <2>1. spill \in {"none", "creating"}
      BY <1>2
    <2>2. staging = "none" /\ ~disabled /\ \A g \in Handlers : work[g].at # "writing"
      BY <1>1, <2>1 DEF Opening, Writes
    <2>3. work'[h].at # "writing"
      BY <2>2 DEF Outcome, Quiet, Alarmed, Written, Joined
    <2> QED BY <1>1, <1>3, <2>2, <2>3 DEF Writes
  <1>5. ~Waits("spill")'
    BY <1>1 DEF Opening, Waits, Handlers
  <1>6. InProgress' => \E g \in Handlers : Waits(g)'
    <2> SUFFICES ASSUME InProgress' PROVE \E g \in Handlers : work'[g].at = "spilling"
      BY DEF Waits
    <2>1. CASE work'[h].at = "spilling"
      BY <2>1
    <2>2. CASE work'[h].at # "spilling"
      <3>1. spill' \in {spill, "over"}
        BY <2>2 DEF Outcome, Quiet, Alarmed, Written, Joined
      <3>2. InProgress /\ work[h].at = "idle"
        BY <3>1 DEF InProgress
      <3>3. PICK g \in Handlers : work[g].at = "spilling"
        BY <1>1, <3>2 DEF Opening, Waits
      <3> QED BY <1>1, <3>2, <3>3
    <2> QED BY <2>1, <2>2
  <1>7. ~early' /\ stage' \notin {"capture", "threw"} => \A t \in Streams : work'[t].at = "idle"
    <2> SUFFICES ASSUME ~early, stage' \notin {"capture", "threw"}, NEW t \in Streams
                 PROVE  work'[t].at = "idle"
      OBVIOUS
    <2>1. stage \notin {"capture", "threw"}
      BY DEF Streams
    <2>2. h \notin Streams
      BY <2>1
    <2>3. work[t].at = "idle" /\ t # h /\ t \in Handlers
      BY <1>1, <2>1, <2>2 DEF Opening, Handlers
    <2> QED BY <1>1, <2>3
  <1>8. secret' /\ (spill' = "creating" \/ staging' = "open") => crossed' # {} \/ early'
    <2> SUFFICES ASSUME secret', spill' = "creating" \/ staging' = "open" PROVE crossed' # {} \/ early
      OBVIOUS
    <2>1. crossed # {} => crossed' # {}
      OBVIOUS
    <2>2. CASE Alarmed(h)
      <3>1. staging' # "open"
        BY <2>2 DEF Alarmed
      <3>2. spill = "creating"
        BY <2>2, <3>1 DEF Alarmed
      <3> QED BY <2>2, <3>2
    <2>3. CASE ~Alarmed(h)
      <3>1. secret /\ spill' = spill /\ staging' = staging
        BY <2>3 DEF Outcome, Quiet, Written, Joined
      <3> QED BY <1>1, <2>1, <3>1 DEF Opening
    <2> QED BY <2>2, <2>3
  <1>9. disabled' => staging' # "open"
    BY <1>1, <1>3 DEF Opening
  <1>10. staging' # "published"
    BY <1>1, <1>3 DEF Opening
  <1>11. stage' \notin {"publish", "returned"}
    OBVIOUS
  <1> QED BY <1>4, <1>5, <1>6, <1>7, <1>8, <1>9, <1>10, <1>11 DEF Opening

LEMMA TypePartsNext ==
    OutputTypeOK' <=>
        /\ DataType' /\ CacheType' /\ ScanType'
        /\ tier' \in Tiers /\ arrived' \in [Streams -> 0..MaxChunks] /\ crossed' \subseteq Streams
        /\ early' \in BOOLEAN
        /\ stage' \in {"capture", "settle", "publish", "returned", "threw"} \cup Streams
        /\ faults' \in 0..MaxFaults
  BY DEF OutputTypeOK, DataType, CacheType, ScanType, Awaited

LEMMA TakeInv ==
    ASSUME OutputInv, NEW s \in Streams, Take(s)
    PROVE  OutputInv'
  <1>1. /\ OutputTypeOK /\ arrived \in [Streams -> 0..MaxChunks] /\ MaxChunks \in Nat
        /\ stage = "capture" /\ work[s].at = "idle" /\ arrived[s] < MaxChunks
        /\ s \in Handlers /\ s # "spill"
    BY TypeParts, OutputAssumption DEF OutputInv, Take, Streams, Handlers
  <1>2. arrived[s] + 1 \in Units /\ <<arrived[s] + 1>> \in Buffer
    <2>1. arrived[s] + 1 \in 1..MaxChunks
      BY <1>1
    <2> QED BY <2>1 DEF Units, Buffer
  <1>3. Outcome(s, s)
    BY <1>1, <1>2, ScanOutcome DEF Take
  <1>4. UNCHANGED <<tier, stage, early, faults>> /\ crossed' \in {crossed, crossed \cup {s}}
    BY DEF Take, runVars
  <1>5. OutputTypeOK'
    <2>1. arrived' \in [Streams -> 0..MaxChunks]
      <3>1. arrived[s] + 1 \in 0..MaxChunks /\ arrived' = [arrived EXCEPT ![s] = @ + 1]
        BY <1>1 DEF Take
      <3> QED BY <1>1, <3>1
    <2>2. crossed' \subseteq Streams
      BY <1>1, <1>4, TypeParts
    <2> QED BY <1>1, <1>3, <1>4, <2>1, <2>2, TypeParts, TypePartsNext DEF Outcome
  <1>6. Alarmed(s) /\ spill = "creating" => crossed' # {}
    BY DEF Take, Alarmed, InProgress
  <1>7. Opening'
    <2>1. {stage, stage'} \cap {"publish", "returned"} = {}
      BY <1>1, <1>4
    <2> QED BY <1>1, <1>3, <1>4, <1>6, <2>1, OpeningStays
  <1> QED BY <1>1, <1>3, <1>4, <1>5, <1>7, ReleasedStays DEF OutputInv

LEMMA SpillJoinedOutcome ==
    ASSUME OutputInv, NEW h \in Handlers, SpillJoined(h)
    PROVE  work[h].on \in Streams /\ Outcome(h, work[h].on)
  <1>1. /\ DataType /\ CacheType /\ ScanType /\ tier \in {"off", "write", "cache"} /\ Waits(h)
    BY TypeParts, OutputAssumption DEF OutputInv, SpillJoined, Joins, Waits
  <1>2. PICK s : s = work[h].on
    OBVIOUS
  <1>3. PICK buf : buf = work[h].data
    OBVIOUS
  <1>4. s \in Streams /\ buf \in Buffer /\ work[h].room \in Nat
    BY <1>1, <1>2, <1>3, RoomType DEF CacheType, Awaited
  <1>5. tier = "cache" => ToSet(buf) \subseteq cleared[s]
    BY <1>1, <1>2, <1>3 DEF OutputInv, Released
  <1>6. Idle \in Awaited /\ Idle.at = "idle"
    BY <1>1, RoomType DEF Awaited, Idle, Buffer, Streams
  <1>7. CASE secret /\ Rests(h) /\ UNCHANGED <<dataVars, scanVars, cacheVars>>
    <2>1. /\ work' \in [Handlers -> Awaited] /\ work'[h].at = "idle"
          /\ \A g \in Handlers : g # h => work'[g] = work[g]
      BY <1>1, <1>6, <1>7 DEF Rests, CacheType
    <2>2. DataType' /\ CacheType' /\ ScanType'
      BY <1>1, <1>7, <2>1 DEF DataType, CacheType, ScanType, dataVars, cacheVars, scanVars
    <2>3. Quiet(h, s)
      BY <1>7, <2>1 DEF Quiet, dataVars, cacheVars, scanVars
    <2> QED BY <1>2, <1>4, <1>7, <2>1, <2>2, <2>3 DEF Outcome, cacheVars, scanVars
  <1>8. CASE Scan(h, s, buf)
    BY <1>2, <1>4, <1>8, ScanOutcome
  <1>9. CASE /\ ~secret /\ tier # "write" /\ staging = "open" /\ WriteAccepted(h, s, buf, TRUE)
             /\ UNCHANGED <<replay, held, cleared>>
    <2>1. replay' \in [Streams -> Seq(Buffer)] /\ TRUE \in BOOLEAN
      BY <1>1, <1>9 DEF CacheType
    <2>2. First(Room(s), buf) \in Buffer /\ ToSet(First(Room(s), buf)) \subseteq ToSet(buf)
      BY <1>1, <1>4, RoomType, BufferParts
    <2>3. /\ DataType' /\ CacheType' /\ UNCHANGED <<chunks, secret, disabled, spill, staging>>
          /\ \A g \in Handlers : g # h => work'[g] = work[g]
          /\ \/ disk' = disk /\ work'[h].at = "idle"
             \/ /\ staging = "open" /\ work'[h].at = "writing"
                /\ disk' = [disk EXCEPT ![s] = @ \o First(Room(s), buf)]
      BY <1>1, <1>4, <1>9, <2>1, WriteAcceptedDoes
    <2>4. ScanType'
      BY <1>1, <1>9, <2>3 DEF ScanType
    <2>5. Quiet(h, s) \/ Written(h, s)
      BY <1>1, <1>5, <1>9, <2>2, <2>3 DEF Quiet, Written
    <2> QED BY <1>2, <1>4, <1>9, <2>3, <2>4, <2>5 DEF Outcome
  <1>10. CASE /\ fallback' = Fed(s, First(work[h].room, buf)) /\ Rests(h)
              /\ UNCHANGED <<chunks, retained, truncated, secret, cacheVars, held, cleared>>
    <2>1. First(work[h].room, buf) \in Buffer
      BY <1>4, BufferParts
    <2>2. fallback' \in [Streams -> Buffer] /\ \A t \in Streams : Len(fallback'[t]) <= FallbackMax
      BY <1>1, <1>4, <1>10, <2>1, FedType
    <2>3. /\ work' \in [Handlers -> Awaited] /\ work'[h].at = "idle"
          /\ \A g \in Handlers : g # h => work'[g] = work[g]
      BY <1>1, <1>6, <1>10 DEF Rests, CacheType
    <2>4. DataType' /\ CacheType' /\ ScanType'
      BY <1>1, <1>10, <2>2, <2>3 DEF DataType, CacheType, ScanType, cacheVars
    <2>5. Quiet(h, s)
      BY <1>10, <2>3 DEF Quiet, cacheVars
    <2> QED BY <1>2, <1>4, <1>10, <2>3, <2>4, <2>5 DEF Outcome, cacheVars
  <1> QED BY <1>2, <1>3, <1>7, <1>8, <1>9, <1>10 DEF SpillJoined

LEMMA SpillJoinedInv ==
    ASSUME OutputInv, NEW h \in Handlers, SpillJoined(h)
    PROVE  OutputInv'
  <1>1. PICK s \in Streams : Outcome(h, s)
    BY SpillJoinedOutcome
  <1>2. /\ OutputTypeOK /\ Opening /\ Waits(h) /\ spill = "over"
        /\ UNCHANGED <<tier, arrived, stage, early, crossed, faults>>
    BY DEF OutputInv, SpillJoined, Joins, Waits, Still, runVars
  <1>3. OutputTypeOK'
    BY <1>1, <1>2, TypeParts, TypePartsNext DEF Outcome
  <1>4. /\ h # "spill" /\ {stage, stage'} \cap {"publish", "returned"} = {}
        /\ h \in Streams /\ ~early => stage \in {"capture", "threw"}
    BY <1>2 DEF Opening, Waits
  <1>5. Opening'
    BY <1>1, <1>2, <1>4, OpeningStays
  <1> QED BY <1>1, <1>2, <1>3, <1>5, ReleasedStays DEF OutputInv

\* The matcher of a stream finishes: it finds a secret, or releases what it holds.
LEMMA FinishedInv ==
    ASSUME OutputInv, NEW s \in Streams, FinishStream(s), ~secret, Matching
    PROVE  OutputInv'
  <1>1. /\ OutputTypeOK /\ Opening /\ stage = s /\ work["main"].at = "idle"
        /\ DataType /\ CacheType /\ ScanType
        /\ UNCHANGED <<tier, arrived, early, crossed, faults>>
        /\ "main" \in Handlers /\ "main" # "spill" /\ "main" \notin Streams
    BY TypeParts DEF OutputInv, FinishStream, Goes, Handlers, Streams
  <1>2. stage' \in {"stderr", "settle"}
    BY DEF FinishStream, Goes, After
  <1>3. Outcome("main", s)
    <2>1. CASE SecretFound("main")
      BY <1>1, <2>1, SecretOutcome DEF SecretFound
    <2>2. CASE Release("main", s, held[s], Len(held[s]))
      <3>1. PICK buf : buf = held[s]
        OBVIOUS
      <3>2. buf \in Buffer /\ Len(buf) \in 0..Len(buf)
        BY <1>1, <3>1 DEF ScanType, Buffer
      <3> QED BY <1>1, <2>2, <3>1, <3>2, ReleaseOutcome DEF Matching
    <2> QED BY <2>1, <2>2 DEF FinishStream
  <1>4. OutputTypeOK'
    BY <1>1, <1>2, <1>3, TypeParts, TypePartsNext DEF Outcome, Streams
  <1>5. spill = "creating" => early
    <2> SUFFICES ASSUME spill = "creating", ~early PROVE FALSE
      OBVIOUS
    <2>1. PICK g \in Handlers : work[g].at = "spilling"
      BY <1>1 DEF Opening, InProgress, Waits
    <2>2. g \in Streams
      BY <1>1, <2>1 DEF Opening, Waits, Handlers
    <2> QED BY <1>1, <2>1, <2>2 DEF Opening, Streams
  <1>6. {stage, stage'} \cap {"publish", "returned"} = {}
    BY <1>1, <1>2 DEF Streams
  <1>7. Opening'
    BY <1>1, <1>3, <1>5, <1>6, OpeningStays
  <1> QED BY <1>1, <1>3, <1>4, <1>7, ReleasedStays DEF OutputInv

-----------------------------------------------------------------------------
(* The steps that scan nothing.                                            *)
LEMMA ReleasedKept ==
    ASSUME OutputInv, UNCHANGED <<tier, cleared, replay, disk>>, chunks' \in {chunks, Nothing},
           \A h \in Handlers : work'[h] = work[h] \/ ~Waits(h)'
    PROVE  Released' /\ ScanBeforePersist'
  <1>1. Released /\ ScanBeforePersist
    BY DEF OutputInv
  <1>2. ASSUME tier = "cache", NEW t \in Streams, NEW i \in 1..Len(chunks'[t])
        PROVE  ToSet(chunks'[t][i]) \subseteq cleared[t]
    <2>1. CASE chunks' = chunks
      BY <1>1, <1>2, <2>1 DEF Released
    <2>2. CASE chunks' = Nothing
      <3>1. chunks'[t] = <<>>
        BY <2>2 DEF Nothing
      <3> QED BY <3>1
    <2> QED BY <2>1, <2>2
  <1>3. ASSUME tier = "cache", NEW h \in Handlers, Waits(h)'
        PROVE  ToSet(work'[h].data) \subseteq cleared[work'[h].on]
    <2>1. work'[h] = work[h]
      BY <1>3
    <2> QED BY <1>1, <1>3, <2>1 DEF Released, Waits
  <1>4. Released'
    BY <1>1, <1>2, <1>3 DEF Released
  <1> QED BY <1>1, <1>4 DEF ScanBeforePersist

LEMMA SpillCreatedInv == ASSUME OutputInv, SpillCreated PROVE OutputInv'
  <1>1. /\ OutputTypeOK /\ Opening /\ spill = "creating" /\ spill' = "replaying"
        /\ staging' = "open" /\ chunks' = Nothing /\ retained' = [s \in Streams |-> 0]
        /\ UNCHANGED <<tier, arrived, stage, early, crossed, truncated, fallback, scanVars,
                       disabled, replay, disk, work, faults>>
    BY DEF OutputInv, SpillCreated, Still, runVars
  <1>2. OutputTypeOK'
    <2>1. chunks' \in [Streams -> Seq(Buffer)] /\ retained' \in [Streams -> Nat]
      BY <1>1 DEF Nothing
    <2>2. DataType'
      BY <1>1, <2>1, TypeParts DEF DataType
    <2>3. CacheType' /\ ScanType'
      BY <1>1, TypeParts DEF CacheType, ScanType, scanVars
    <2> QED BY <1>1, <2>2, <2>3, TypeParts, TypePartsNext
  <1>3. Released' /\ ScanBeforePersist'
    BY <1>1, ReleasedKept DEF scanVars
  <1>4. Opening'
    BY <1>1 DEF Opening, InProgress, Waits, Writes, scanVars
  <1> QED BY <1>2, <1>3, <1>4 DEF OutputInv

LEMMA SpillFailsInv == ASSUME OutputInv, SpillFails PROVE OutputInv'
  <1>1. /\ OutputTypeOK /\ Opening /\ spill = "creating" /\ spill' = "over" /\ DisableCache
        /\ faults < MaxFaults /\ faults' = faults + 1
        /\ UNCHANGED <<tier, arrived, stage, early, crossed, held, cleared, replay, disk, work>>
    BY DEF OutputInv, SpillFails, Still, runVars
  <1>2. /\ DataType' /\ secret' = secret /\ disabled' = (disabled \/ ~secret)
        /\ disabled' \in BOOLEAN /\ chunks' \in {chunks, Nothing}
        /\ staging' = IF ~secret /\ ~disabled /\ staging = "open" THEN "discarded" ELSE staging
    BY <1>1, DisableCacheDoes, TypeParts
  <1>3. staging = "none" /\ staging' = "none"
    BY <1>1, <1>2 DEF Opening
  <1>4. OutputTypeOK'
    <2>1. CacheType' /\ ScanType'
      BY <1>1, <1>2, <1>3, TypeParts DEF CacheType, ScanType
    <2>2. faults' \in 0..MaxFaults
      BY <1>1, TypeParts, OutputAssumption
    <2> QED BY <1>1, <1>2, <2>1, <2>2, TypeParts, TypePartsNext
  <1>5. Released' /\ ScanBeforePersist'
    BY <1>1, <1>2, ReleasedKept
  <1>6. Opening'
    BY <1>1, <1>2, <1>3 DEF Opening, InProgress, Waits, Writes
  <1> QED BY <1>4, <1>5, <1>6 DEF OutputInv

LEMMA ReplayEndsInv == ASSUME OutputInv, ReplayEnds PROVE OutputInv'
  <1>1. /\ OutputTypeOK /\ Opening /\ spill = "replaying" /\ spill' = "over"
        /\ UNCHANGED <<tier, arrived, stage, early, crossed, dataVars, scanVars, disabled,
                       replay, staging, disk, work, faults>>
    BY DEF OutputInv, ReplayEnds, Still, runVars
  <1>2. OutputTypeOK'
    <2>1. DataType' /\ CacheType' /\ ScanType'
      BY <1>1, TypeParts DEF DataType, CacheType, ScanType, dataVars, scanVars
    <2> QED BY <1>1, <2>1, TypeParts, TypePartsNext
  <1>3. Released' /\ ScanBeforePersist'
    BY <1>1, ReleasedKept DEF scanVars, dataVars
  <1>4. Opening'
    BY <1>1 DEF Opening, InProgress, Waits, Writes, scanVars
  <1> QED BY <1>2, <1>3, <1>4 DEF OutputInv

\* What the replay takes is one of the buffers that were to be replayed.
LEMMA ReplayShrinks ==
    ASSUME CacheType, NEW r \in Streams, replay[r] # <<>>,
           replay' = [replay EXCEPT ![r] = Tail(@)]
    PROVE  /\ replay' \in [Streams -> Seq(Buffer)]
           /\ Head(replay[r]) \in Buffer /\ Head(replay[r]) = replay[r][1] /\ 1 \in 1..Len(replay[r])
           /\ \A t \in Streams : \A i \in 1..Len(replay'[t]) :
                \E j \in 1..Len(replay[t]) : replay'[t][i] = replay[t][j]
  <1>1. replay[r] \in Seq(Buffer) /\ replay \in [Streams -> Seq(Buffer)]
    BY DEF CacheType
  <1>2. /\ Tail(replay[r]) \in Seq(Buffer) /\ Len(Tail(replay[r])) = Len(replay[r]) - 1
        /\ Head(replay[r]) = replay[r][1] /\ 1 \in 1..Len(replay[r])
        /\ \A i \in 1..Len(Tail(replay[r])) : Tail(replay[r])[i] = replay[r][i + 1]
    BY <1>1
  <1>3. Head(replay[r]) \in Buffer
    BY <1>1, <1>2
  <1>4. replay' \in [Streams -> Seq(Buffer)]
    BY <1>1, <1>2
  <1>5. ASSUME NEW t \in Streams, NEW i \in 1..Len(replay'[t])
        PROVE  \E j \in 1..Len(replay[t]) : replay'[t][i] = replay[t][j]
    <2>1. CASE t = r
      <3>1. replay'[t] = Tail(replay[r])
        BY <1>1, <2>1
      <3>2. i \in 1..Len(Tail(replay[r])) /\ Len(replay[r]) \in Nat
        BY <1>1, <3>1
      <3>3. i + 1 \in 1..Len(replay[r])
        BY <1>2, <3>2
      <3> QED BY <1>2, <2>1, <3>1, <3>2, <3>3
    <2>2. CASE t # r
      BY <1>1, <2>2
    <2> QED BY <2>1, <2>2
  <1> QED BY <1>2, <1>3, <1>4, <1>5

LEMMA ReplayWriteInv == ASSUME OutputInv, ReplayWrite PROVE OutputInv'
  <1>1. PICK r \in Streams : r = NextReplayed
    BY DEF NextReplayed, Streams
  <1>2. /\ OutputTypeOK /\ Opening /\ Released /\ ScanBeforePersist
        /\ DataType /\ CacheType /\ ScanType
        /\ spill = "replaying" /\ replay[r] # <<>> /\ replay' = [replay EXCEPT ![r] = Tail(@)]
        /\ UNCHANGED <<tier, arrived, stage, early, crossed, held, cleared, faults>>
    BY <1>1, TypeParts DEF OutputInv, ReplayWrite, Still, runVars
  <1>3. /\ replay' \in [Streams -> Seq(Buffer)]
        /\ Head(replay[r]) \in Buffer /\ Head(replay[r]) = replay[r][1] /\ 1 \in 1..Len(replay[r])
        /\ \A t \in Streams : \A i \in 1..Len(replay'[t]) :
             \E j \in 1..Len(replay[t]) : replay'[t][i] = replay[t][j]
    BY <1>2, ReplayShrinks
  <1>4. PICK buf \in Buffer : buf = Head(replay[r])
    BY <1>3
  <1>5. First(Room(r), buf) \in Buffer /\ ToSet(First(Room(r), buf)) \subseteq ToSet(buf)
    BY <1>2, RoomType, BufferParts
  <1>6. /\ DataType' /\ CacheType' /\ UNCHANGED <<chunks, secret, disabled, spill, staging>>
        /\ \A g \in Handlers : g # "spill" => work'[g] = work[g]
        /\ ~Waits("spill")'
        /\ disk' = disk \/ disk' = [disk EXCEPT ![r] = @ \o First(Room(r), buf)]
    <2>1. CASE secret
      <3>1. UNCHANGED <<dataVars, secret, disabled, spill, staging, disk, work>>
        BY <2>1 DEF ReplayWrite
      <3>2. DataType' /\ CacheType'
        BY <1>2, <1>3, <3>1 DEF DataType, CacheType, dataVars
      <3> QED BY <1>2, <3>1, <3>2 DEF dataVars, Waits, Opening
    <2>2. CASE ~secret
      <3> DEFINE h == "spill"
      <3>1. h \in Handlers /\ WriteAccepted(h, r, buf, FALSE)
        BY <1>1, <1>4, <2>2 DEF ReplayWrite, Handlers
      <3> HIDE DEF h
      <3>4. FALSE \in BOOLEAN /\ WriteAccepted(h, r, buf, FALSE)
        BY <3>1
      <3>5. /\ DataType' /\ CacheType' /\ UNCHANGED <<chunks, secret, disabled, spill, staging>>
            /\ \A g \in Handlers : g # h => work'[g] = work[g]
            /\ \/ disk' = disk /\ work'[h].at = "idle"
               \/ /\ staging = "open" /\ work'[h].at = "writing"
                  /\ disk' = [disk EXCEPT ![r] = @ \o First(Room(r), buf)]
        <4>1. DataType /\ CacheType /\ replay' \in [Streams -> Seq(Buffer)]
          BY <1>2, <1>3
        <4> QED BY <3>1, <3>4, <4>1, WriteAcceptedDoes
      <3>2. /\ DataType' /\ CacheType' /\ UNCHANGED <<chunks, secret, disabled, spill, staging>>
            /\ \A g \in Handlers : g # "spill" => work'[g] = work[g]
            /\ \/ disk' = disk /\ work'["spill"].at = "idle"
               \/ /\ staging = "open" /\ work'["spill"].at = "writing"
                  /\ disk' = [disk EXCEPT ![r] = @ \o First(Room(r), buf)]
        BY <3>5 DEF h
      <3>3. work'["spill"].at # "spilling"
        BY <3>2
      <3> QED BY <3>2, <3>3 DEF Waits
    <2> QED BY <2>1, <2>2
  <1>7. OutputTypeOK'
    <2>1. ScanType'
      BY <1>2, <1>6 DEF ScanType
    <2> QED BY <1>2, <1>6, <2>1, TypeParts, TypePartsNext
  <1>8. Released'
    <2>1. ASSUME tier # "off", NEW t \in Streams, NEW i \in 1..Len(replay'[t])
          PROVE  ToSet(replay'[t][i]) \subseteq cleared[t]
      <3>1. PICK k \in 1..Len(replay[t]) : replay'[t][i] = replay[t][k]
        BY <1>3
      <3>2. ToSet(replay[t][k]) \subseteq cleared[t]
        BY <1>2, <2>1 DEF Released
      <3> QED BY <3>1, <3>2
    <2>2. ASSUME tier = "cache", NEW g \in Handlers, Waits(g)'
          PROVE  ToSet(work'[g].data) \subseteq cleared[work'[g].on]
      <3>1. work'[g] = work[g]
        BY <1>6, <2>2
      <3> QED BY <1>2, <2>2, <3>1 DEF Released, Waits
    <2> QED BY <1>2, <1>6, <2>1, <2>2 DEF Released
  <1>9. ScanBeforePersist'
    <2> SUFFICES ASSUME tier # "off", NEW t \in Streams PROVE ToSet(disk'[t]) \subseteq cleared[t]
      BY <1>2 DEF ScanBeforePersist
    <2>1. disk[t] \in Buffer /\ ToSet(disk[t]) \subseteq cleared[t] /\ ToSet(buf) \subseteq cleared[r]
      BY <1>2, <1>3, <1>4 DEF CacheType, ScanBeforePersist, Released
    <2>2. CASE disk' = [disk EXCEPT ![r] = @ \o First(Room(r), buf)] /\ t = r
      <3>1. disk'[t] = disk[t] \o First(Room(r), buf)
        BY <1>2, <2>2 DEF CacheType
      <3> QED BY <1>5, <2>1, <2>2, <3>1, BuffersJoin
    <2>3. CASE disk' = [disk EXCEPT ![r] = @ \o First(Room(r), buf)] /\ t # r
      BY <1>2, <2>1, <2>3 DEF CacheType
    <2> QED BY <1>6, <2>1, <2>2, <2>3
  <1>10. Opening'
    <2>1. \A g \in Handlers : g # "spill" => (Waits(g)' <=> Waits(g))
      BY <1>6 DEF Waits
    <2>2. /\ (InProgress' => \E g \in Handlers : Waits(g)')
          /\ stage \notin {"publish", "returned"}
      BY <1>2, <1>6, <2>1 DEF Opening, InProgress
    <2>3. ~early /\ stage \notin {"capture", "threw"} => \A t \in Streams : work'[t].at = "idle"
      BY <1>2, <1>6 DEF Opening, Streams, Handlers
    <2> QED BY <1>2, <1>6, <2>2, <2>3 DEF Opening
  <1> QED BY <1>7, <1>8, <1>9, <1>10 DEF OutputInv

LEMMA WriteEndsInv ==
    ASSUME OutputInv, NEW h \in Handlers, WriteDone(h) \/ WriteFails(h)
    PROVE  OutputInv'
  <1>1. /\ OutputTypeOK /\ Opening /\ DataType /\ CacheType /\ ScanType
        /\ work[h].at = "writing" /\ work' = [work EXCEPT ![h] = Idle]
        /\ UNCHANGED <<tier, arrived, stage, early, crossed, held, cleared, spill, replay, disk>>
    BY TypeParts DEF OutputInv, WriteDone, WriteFails, Rests, Still, runVars, scanVars,
       cacheVars
  <1>2. /\ work' \in [Handlers -> Awaited] /\ work'[h].at = "idle"
        /\ \A g \in Handlers : g # h => work'[g] = work[g]
    <2>1. Idle \in Awaited /\ Idle.at = "idle"
      BY <1>1, RoomType DEF Awaited, Idle, Buffer, Streams
    <2> QED BY <1>1, <2>1 DEF CacheType
  <1>3. /\ DataType' /\ secret' = secret /\ faults' \in 0..MaxFaults
        /\ chunks' \in {chunks, Nothing} /\ disabled' \in BOOLEAN
        /\ \/ UNCHANGED <<disabled, staging>>
           \/ /\ disabled' = (disabled \/ ~secret)
              /\ staging' = IF ~secret /\ ~disabled /\ staging = "open" THEN "discarded" ELSE staging
    <2>1. CASE WriteDone(h)
      <3>1. /\ work[h].on \in Streams /\ Len(work[h].data) \in Nat
            /\ UNCHANGED <<chunks, truncated, fallback, secret, disabled, staging, faults>>
            /\ retained' = [retained EXCEPT ![work[h].on] = @ + Len(work[h].data)]
        BY <1>1, <2>1 DEF CacheType, Awaited, Buffer, WriteDone, scanVars, cacheVars
      <3>2. retained' \in [Streams -> Nat]
        BY <1>1, <3>1 DEF DataType
      <3> QED BY <1>1, <3>1, <3>2, TypeParts DEF DataType, CacheType
    <2>2. CASE WriteFails(h)
      <3>1. DisableCache /\ faults < MaxFaults /\ faults' = faults + 1
        BY <2>2 DEF WriteFails
      <3>2. faults' \in 0..MaxFaults
        BY <1>1, <3>1, TypeParts, OutputAssumption
      <3> QED BY <1>1, <3>1, <3>2, DisableCacheDoes
    <2> QED BY <2>1, <2>2
  <1>4. OutputTypeOK'
    <2>1. CacheType' /\ ScanType'
      BY <1>1, <1>2, <1>3 DEF CacheType, ScanType
    <2> QED BY <1>1, <1>3, <2>1, TypeParts, TypePartsNext
  <1>5. Released' /\ ScanBeforePersist'
    BY <1>1, <1>2, <1>3, ReleasedKept DEF Waits
  <1>6. Opening'
    <2>1. /\ \A g \in Handlers : Waits(g)' <=> Waits(g)
          /\ \A g \in Handlers : Writes(g)' => Writes(g)
          /\ \A g \in Handlers : work[g].at = "idle" => work'[g].at = "idle"
      BY <1>1, <1>2 DEF Waits, Writes
    <2>2. spill \notin {"none", "creating"}
      BY <1>1 DEF Opening, Writes
    <2>3. /\ staging' = "open" => staging = "open" /\ ~disabled'
          /\ staging' = "published" => staging = "published"
          /\ stage = "publish" => staging' = "open" \/ disabled'
      BY <1>1, <1>3 DEF Opening
    <2>4. "spill" \in Handlers /\ Streams \subseteq Handlers
      BY DEF Handlers
    <2>5. ~Waits("spill")'
      BY <1>1, <1>2, <2>4 DEF Opening, Waits
    <2>6. /\ InProgress' => \E g \in Handlers : Waits(g)'
          /\ stage \in {"publish", "returned"} => ~InProgress' /\ \A g \in Handlers : ~Waits(g)'
      BY <1>1, <2>1 DEF Opening, InProgress
    <2>7. ~early /\ stage \notin {"capture", "threw"} => \A t \in Streams : work'[t].at = "idle"
      BY <1>1, <2>1, <2>4 DEF Opening
    <2> QED BY <1>1, <1>3, <2>2, <2>3, <2>5, <2>6, <2>7 DEF Opening
  <1> QED BY <1>4, <1>5, <1>6 DEF OutputInv

\* Steps of runCommandOutput, which move only on, or publish, or give the cache up.
LEMMA StageInv ==
    ASSUME OutputInv,
           Settles \/ Settle \/ (\E s \in Streams : FinishStream(s) /\ (secret \/ ~Matching))
    PROVE  OutputInv'
  <1>1. /\ OutputTypeOK /\ Opening
        /\ UNCHANGED <<tier, arrived, dataVars, scanVars, cacheVars, work, crossed, faults>>
    BY DEF OutputInv, Settles, Closes, TerminationFails, CaptureErrors, Settle,
       FinishStream,
           Goes, Idles
  <1>2. /\ early' \in BOOLEAN
        /\ early => early'
        /\ stage' \in {"settle", "publish", "returned", "threw"} \cup Streams
        /\ stage \in {"capture", "settle"} \cup Streams
    BY <1>1, TypeParts DEF Settles, Closes, TerminationFails, CaptureErrors, Settle,
       FinishStream,
           Goes, Idles, Streams
  <1>3. OutputTypeOK'
    <2>1. DataType' /\ CacheType' /\ ScanType'
      BY <1>1, TypeParts DEF DataType, CacheType, ScanType, dataVars, scanVars, cacheVars
    <2> QED BY <1>1, <1>2, <2>1, TypeParts, TypePartsNext
  <1>4. Released' /\ ScanBeforePersist'
    BY <1>1, ReleasedKept DEF scanVars, cacheVars, dataVars
  <1>5. ~early' /\ stage' \notin {"capture", "threw"} => \A t \in Streams : work[t].at = "idle"
    <2> SUFFICES ASSUME ~early', stage' \notin {"capture", "threw"}, NEW t \in Streams
                 PROVE  work[t].at = "idle"
      OBVIOUS
    <2>1. CASE stage = "capture"
      BY <1>2, <2>1 DEF Settles, Closes, TerminationFails, CaptureErrors, Settle,
         FinishStream,
           Goes, Streams
    <2>2. CASE stage # "capture"
      BY <1>1, <1>2, <2>2 DEF Opening, Streams
    <2> QED BY <2>1, <2>2
  <1>6. stage' \in {"publish", "returned"} =>
          /\ ~InProgress /\ \A h \in Handlers : ~Waits(h)
          /\ stage' = IF staging = "open" /\ ~disabled /\ ~secret THEN "publish" ELSE "returned"
    <2> SUFFICES ASSUME stage' \in {"publish", "returned"}
                 PROVE  /\ ~InProgress /\ \A h \in Handlers : ~Waits(h)
                        /\ stage' = IF staging = "open" /\ ~disabled /\ ~secret THEN "publish"
                                    ELSE "returned"
      OBVIOUS
    <2>1. Settle
      BY DEF Settles, Closes, TerminationFails, CaptureErrors, FinishStream, Goes, Streams
    <2>2. /\ ~InProgress /\ \A s \in Streams : work[s].at # "spilling"
          /\ work["main"].at = "idle"
          /\ stage' = IF staging = "open" /\ ~disabled /\ ~secret THEN "publish" ELSE "returned"
      BY <2>1 DEF Settle, Goes
    <2> QED BY <1>1, <2>2 DEF Opening, Waits, Handlers
  <1>7. staging # "published"
    BY <1>1, <1>2 DEF Opening, Streams
  <1>8. UNCHANGED <<spill, staging, disabled, secret, work, crossed>>
    BY <1>1 DEF scanVars, cacheVars
  <1>9. Opening'
    BY <1>1, <1>2, <1>5, <1>6, <1>7, <1>8 DEF Opening, Waits, Writes, InProgress
  <1> QED BY <1>3, <1>4, <1>9 DEF OutputInv

LEMMA PublishInv == ASSUME OutputInv, Publish PROVE OutputInv'
  <1>1. /\ OutputTypeOK /\ Opening /\ stage = "publish" /\ stage' = "returned"
        /\ staging' = "published"
        /\ UNCHANGED <<tier, arrived, dataVars, scanVars, disabled, spill, replay, disk, work,
                       early, crossed, faults>>
    BY DEF OutputInv, Publish, Goes
  <1>2. OutputTypeOK'
    <2>1. DataType' /\ CacheType' /\ ScanType'
      BY <1>1, TypeParts DEF DataType, CacheType, ScanType, dataVars, scanVars
    <2> QED BY <1>1, <2>1, TypeParts, TypePartsNext
  <1>3. Released' /\ ScanBeforePersist'
    BY <1>1, ReleasedKept DEF scanVars, dataVars
  <1>4. Opening'
    BY <1>1 DEF Opening, Waits, Writes, InProgress, scanVars
  <1> QED BY <1>2, <1>3, <1>4 DEF OutputInv

LEMMA PublishFailsInv == ASSUME OutputInv, PublishFails PROVE OutputInv'
  <1>1. /\ OutputTypeOK /\ Opening /\ stage = "publish" /\ stage' = "returned" /\ DisableCache
        /\ UNCHANGED <<tier, arrived, held, cleared, spill, replay, disk, work, early, crossed>>
    BY DEF OutputInv, PublishFails, Goes
  <1>2. /\ DataType' /\ secret' = secret /\ disabled' = (disabled \/ ~secret)
        /\ disabled' \in BOOLEAN /\ chunks' \in {chunks, Nothing}
        /\ staging' = IF ~secret /\ ~disabled /\ staging = "open" THEN "discarded" ELSE staging
    BY <1>1, DisableCacheDoes, TypeParts
  <1>3. OutputTypeOK'
    <2>1. CacheType' /\ ScanType'
      BY <1>1, <1>2, TypeParts DEF CacheType, ScanType
    <2>2. faults' \in 0..MaxFaults
      BY <1>1, TypeParts, OutputAssumption DEF PublishFails
    <2> QED BY <1>1, <1>2, <2>1, <2>2, TypeParts, TypePartsNext
  <1>4. Released' /\ ScanBeforePersist'
    BY <1>1, <1>2, ReleasedKept
  <1>5. ~secret /\ staging' \notin {"open", "published"}
    BY <1>1, <1>2 DEF Opening
  <1>6. Opening'
    BY <1>1, <1>2, <1>5 DEF Opening, Waits, Writes, InProgress
  <1> QED BY <1>3, <1>4, <1>6 DEF OutputInv

-----------------------------------------------------------------------------
(* The invariant, and what follows from it.                                *)
LEMMA OutputInitInv == ASSUME OutputInit PROVE OutputInv
  <1> USE DEF OutputInit
  <1>1. <<>> \in Buffer /\ <<>> \in Seq(Buffer) /\ FallbackMax \in Nat /\ MaxChunks \in Nat
        /\ MaxFaults \in Nat /\ Cap \in Nat
    BY OutputAssumption DEF Buffer
  <1>2. DataType
    BY <1>1 DEF DataType, Nothing
  <1>3. CacheType /\ ScanType
    <2>1. Idle \in Awaited
      BY <1>1 DEF Idle, Awaited, Streams
    <2> QED BY <1>1, <2>1 DEF CacheType, ScanType, Nothing
  <1>4. OutputTypeOK
    <2>1. /\ tier \in Tiers /\ crossed \subseteq Streams /\ early \in BOOLEAN
          /\ stage \in {"capture", "settle", "publish", "returned", "threw"} \cup Streams
      OBVIOUS
    <2>2. arrived \in [Streams -> 0..MaxChunks] /\ faults \in 0..MaxFaults
      BY <1>1
    <2> HIDE DEF OutputInit
    <2> QED BY <1>2, <1>3, <2>1, <2>2, TypeParts
  <1>5. \A h \in Handlers : work[h].at = "idle"
    BY DEF Idle
  <1>6. "spill" \in Handlers /\ Streams \subseteq Handlers
    BY DEF Handlers
  <1>7. Opening
    BY <1>5, <1>6 DEF Opening, Waits, Writes, InProgress
  <1>8. Released /\ ScanBeforePersist
    BY <1>5 DEF Released, ScanBeforePersist, Nothing, Waits, ToSet
  <1> QED BY <1>4, <1>7, <1>8 DEF OutputInv

LEMMA OutputNextInv == ASSUME OutputInv, [OutputNext]_outputVars PROVE OutputInv'
  <1>1. CASE UNCHANGED outputVars
    <2>1. UNCHANGED <<arrived, chunks, retained, truncated, fallback, held, cleared, secret,
                      disabled, spill, replay, staging, disk, work, tier, stage, early, crossed,
                      faults>>
      BY <1>1 DEF outputVars, dataVars, scanVars, cacheVars, runVars
    <2>2. OutputTypeOK'
      BY <2>1 DEF OutputInv, OutputTypeOK
    <2>3. Released' /\ ScanBeforePersist'
      BY <2>1, ReleasedKept
    <2>4. Opening'
      BY <2>1 DEF OutputInv, Opening, Waits, Writes, InProgress
    <2> QED BY <2>2, <2>3, <2>4 DEF OutputInv
  <1>2. ASSUME NEW s \in Streams, Take(s) PROVE OutputInv'
    BY <1>2, TakeInv
  <1>3. CASE Spills
    BY <1>3, SpillCreatedInv, SpillFailsInv, ReplayWriteInv, ReplayEndsInv DEF Spills
  <1>4. ASSUME NEW h \in Handlers, Works(h) PROVE OutputInv'
    BY <1>4, SpillJoinedInv, WriteEndsInv DEF Works
  <1>5. CASE Settles
    BY <1>5, StageInv
  <1>6. ASSUME NEW s \in Streams, FinishStream(s) PROVE OutputInv'
    BY <1>6, StageInv, FinishedInv
  <1>7. CASE Settle \/ Publish \/ PublishFails
    BY <1>7, StageInv, PublishInv, PublishFailsInv
  <1> QED BY <1>1, <1>2, <1>3, <1>4, <1>5, <1>6, <1>7 DEF OutputNext, Finishes

LEMMA OutputInvHolds == OutputSpec => []OutputInv
  BY OutputInitInv, OutputNextInv, PTL DEF OutputSpec

\* Buffers, the writer, the spill and what the handlers wait for keep their types,
\* whatever the limits and however many chunks come (src/src/command-output.ts:265).
THEOREM OutputTypeCorrect == OutputSpec => []OutputTypeOK
  <1>1. OutputInv => OutputTypeOK
    BY DEF OutputInv
  <1> QED BY <1>1, OutputInvHolds, PTL

\* With a scanner, nothing unscanned is written, and when the command returns there
\* is neither a published secret nor a staging directory that the code could have
\* removed, for any number of chunks, limits and failures
\* (src/src/command-output.ts:366).
THEOREM ScannedOrGoneHolds == OutputSpec => []ScannedOrGone
  <1>1. OutputInv => ScannedOrGone
    BY DEF OutputInv, Opening, ScannedOrGone, StagingSettled
  <1> QED BY <1>1, OutputInvHolds, PTL

\* No step writes to the page cache once a secret has been found.
LEMMA SilentStep ==
    ASSUME OutputInv, [OutputNext]_outputVars, secret
    PROVE  disk' = disk
  <1>1. ASSUME NEW s \in Streams, Take(s) PROVE disk' = disk
    <2>1. s \in Handlers /\ <<arrived[s] + 1>> \in Buffer /\ Scan(s, s, <<arrived[s] + 1>>)
      <3>1. arrived[s] + 1 \in 1..MaxChunks
        BY <1>1, TypeParts, OutputAssumption DEF OutputInv, Take
      <3> QED BY <1>1, <3>1 DEF Take, Handlers, Units, Buffer
    <2>2. Outcome(s, s)
      BY <2>1, ScanOutcome
    <2> QED BY <2>2 DEF Outcome, Quiet, Alarmed, Written, Joined
  <1>2. ASSUME NEW h \in Handlers, Works(h) PROVE disk' = disk
    <2>1. CASE SpillJoined(h)
      BY <2>1, SpillJoinedOutcome DEF Outcome, Quiet, Alarmed, Written, Joined
    <2>2. CASE WriteDone(h) \/ WriteFails(h)
      BY <2>2 DEF WriteDone, WriteFails, cacheVars
    <2> QED BY <1>2, <2>1, <2>2 DEF Works
  <1>3. CASE Spills
    BY <1>3 DEF Spills, SpillCreated, SpillFails, ReplayWrite, ReplayEnds
  <1>4. CASE Settles \/ Finishes
    BY <1>4 DEF Settles, Closes, TerminationFails, CaptureErrors, Finishes, FinishStream,
       Settle,
                Publish, PublishFails, Idles, cacheVars
  <1>5. CASE UNCHANGED outputVars
    BY <1>5 DEF outputVars, cacheVars
  <1> QED BY <1>1, <1>2, <1>3, <1>4, <1>5 DEF OutputNext

\* From the moment a secret is found in either stream, nothing of any stream is
\* written, neither by a callback that waits nor by the replay
\* (src/src/command-output.ts:300).
THEOREM SilentAfterSecret == OutputSpec => NothingWrittenAfterSecret
  <1>1. OutputInv /\ [OutputNext]_outputVars => [secret => disk' = disk]_outputVars
    BY SilentStep
  <1> QED BY <1>1, OutputInvHolds, PTL DEF OutputSpec, NothingWrittenAfterSecret

-----------------------------------------------------------------------------
(* Order.                                                                  *)
Before(A, B) == \A x \in A, y \in B : x < y
Rising(buf)  == \A i, j \in 1..Len(buf) : i < j => buf[i] < buf[j]
All(bufs)    == UNION {ToSet(bufs[i]) : i \in 1..Len(bufs)}
InOrder(bufs) ==
    /\ \A i \in 1..Len(bufs) : Rising(bufs[i])
    /\ \A i, j \in 1..Len(bufs) : i < j => Before(ToSet(bufs[i]), ToSet(bufs[j]))

LEMMA Elements ==
    ASSUME NEW buf \in Buffer
    PROVE  /\ \A x : x \in ToSet(buf) <=> \E i \in 1..Len(buf) : x = buf[i]
           /\ \A i \in 1..Len(buf) : buf[i] \in ToSet(buf) /\ buf[i] \in Nat
           /\ ToSet(buf) \subseteq Nat
           /\ Len(buf) \in Nat
  <1>1. DOMAIN buf = 1..Len(buf) /\ \A i \in 1..Len(buf) : buf[i] \in Nat
    BY OutputAssumption DEF Buffer, Units
  <1>2. Len(buf) \in Nat
    BY DEF Buffer
  <1>3. \A x : x \in ToSet(buf) <=> \E i \in 1..Len(buf) : x = buf[i]
    BY <1>1, Zenon DEF ToSet
  <1> QED BY <1>1, <1>2, <1>3

LEMMA ElementsOfAll ==
    ASSUME NEW bufs
    PROVE  \A x : x \in All(bufs) <=> \E i \in 1..Len(bufs) : x \in ToSet(bufs[i])
  BY DEF All

LEMMA RisingSplit ==
    ASSUME NEW buf \in Buffer, NEW n \in Nat, n <= Len(buf), Rising(buf)
    PROVE  /\ Rising(First(n, buf)) /\ Rising(Rest(n, buf))
           /\ Before(ToSet(First(n, buf)), ToSet(Rest(n, buf)))
           /\ ToSet(First(n, buf)) \cup ToSet(Rest(n, buf)) = ToSet(buf)
           /\ n = Len(buf) => Rest(n, buf) = <<>>
           /\ n = 0 => Rest(n, buf) = buf
  <1> DEFINE a == First(n, buf)
             b == Rest(n, buf)
  <1>1. a \in Buffer /\ b \in Buffer /\ Len(buf) \in Nat
    BY BufferParts DEF Buffer
  <1>2. /\ Len(a) = n /\ \A i \in 1..n : a[i] = buf[i]
        /\ Len(b) = Len(buf) - n /\ \A i \in 1..Len(b) : b[i] = buf[i + n]
    <2>1. Least(n, Len(buf)) = n
      BY <1>1 DEF Least
    <2>2. buf \in Seq(Units)
      BY DEF Buffer
    <2>3. Len(a) = n /\ \A i \in 1..n : a[i] = buf[i]
      BY <1>1, <2>1, <2>2, SubSeqProperties DEF First
    <2>4. Len(b) = Len(buf) - n /\ \A i \in 1..Len(b) : b[i] = buf[i + n]
      BY <1>1, <2>2, SubSeqProperties DEF Rest
    <2> QED BY <2>3, <2>4
  <1> HIDE DEF a, b
  <1>3. Rising(a) /\ Rising(b)
    <2>1. Rising(a)
      BY <1>1, <1>2 DEF Rising
    <2>2. ASSUME NEW i \in 1..Len(b), NEW j \in 1..Len(b), i < j PROVE b[i] < b[j]
      <3>1. i + n \in 1..Len(buf) /\ j + n \in 1..Len(buf) /\ i + n < j + n
        BY <1>1, <1>2, <2>2
      <3> QED BY <1>2, <3>1 DEF Rising
    <2> QED BY <2>1, <2>2 DEF Rising
  <1>4. Before(ToSet(a), ToSet(b))
    <2> SUFFICES ASSUME NEW x \in ToSet(a), NEW y \in ToSet(b) PROVE x < y
      BY DEF Before
    <2>1. PICK i \in 1..Len(a) : x = a[i]
      BY <1>1, Elements
    <2>2. PICK j \in 1..Len(b) : y = b[j]
      BY <1>1, Elements
    <2>3. i \in 1..Len(buf) /\ j + n \in 1..Len(buf) /\ i < j + n
      BY <1>1, <1>2
    <2> QED BY <1>2, <2>1, <2>2, <2>3 DEF Rising
  <1>5. ToSet(a) \cup ToSet(b) = ToSet(buf)
    <2>1. ASSUME NEW x \in ToSet(a) PROVE x \in ToSet(buf)
      <3>1. PICK i \in 1..Len(a) : x = a[i]
        BY <1>1, Elements
      <3>2. i \in 1..Len(buf) /\ x = buf[i]
        BY <1>1, <1>2, <3>1
      <3> QED BY <3>2, Elements
    <2>2. ASSUME NEW x \in ToSet(b) PROVE x \in ToSet(buf)
      <3>1. PICK i \in 1..Len(b) : x = b[i]
        BY <1>1, Elements
      <3>2. i + n \in 1..Len(buf) /\ x = buf[i + n]
        BY <1>1, <1>2, <3>1
      <3> QED BY <3>2, Elements
    <2>3. ASSUME NEW x \in ToSet(buf) PROVE x \in ToSet(a) \cup ToSet(b)
      <3>1. PICK i \in 1..Len(buf) : x = buf[i]
        BY Elements
      <3>2. CASE i <= n
        <4>1. i \in 1..Len(a) /\ x = a[i]
          BY <1>1, <1>2, <3>1, <3>2
        <4> QED BY <1>1, <4>1, Elements
      <3>3. CASE i > n
        <4>1. i - n \in 1..Len(b) /\ (i - n) + n = i
          BY <1>1, <1>2, <3>1, <3>3
        <4>2. x = b[i - n]
          BY <1>2, <3>1, <4>1
        <4> QED BY <1>1, <4>1, <4>2, Elements
      <3> QED BY <3>2, <3>3
    <2> QED BY <2>1, <2>2, <2>3
  <1>6. n = Len(buf) => b = <<>>
    BY <1>1, <1>2 DEF Buffer
  <1>7. n = 0 => b = buf
    <2> SUFFICES ASSUME n = 0 PROVE b = buf
      OBVIOUS
    <2>1. b \in Seq(Units) /\ buf \in Seq(Units) /\ Len(b) = Len(buf)
      BY <1>1, <1>2 DEF Buffer
    <2>2. \A i \in 1..Len(b) : b[i] = buf[i]
      BY <1>1, <1>2
    <2> QED BY <2>1, <2>2
  <1> QED BY <1>3, <1>4, <1>5, <1>6, <1>7 DEF a, b

LEMMA RisingJoin ==
    ASSUME NEW a \in Buffer, NEW b \in Buffer, Rising(a), Rising(b), Before(ToSet(a), ToSet(b))
    PROVE  Rising(a \o b)
  <1> DEFINE c == a \o b
  <1>1. Len(c) = Len(a) + Len(b) /\ Len(a) \in Nat /\ Len(b) \in Nat /\ c \in Seq(Units)
    BY DEF Buffer
  <1>2. \A i \in 1..Len(c) : IF i <= Len(a) THEN i \in 1..Len(a) /\ c[i] = a[i]
                             ELSE i - Len(a) \in 1..Len(b) /\ c[i] = b[i - Len(a)]
    BY <1>1 DEF Buffer
  <1> HIDE DEF c
  <1>3. ASSUME NEW i \in 1..Len(c), NEW j \in 1..Len(c), i < j PROVE c[i] < c[j]
    <2>1. CASE j <= Len(a)
      BY <1>1, <1>2, <1>3, <2>1 DEF Rising
    <2>2. CASE i > Len(a)
      <3>1. /\ i - Len(a) \in 1..Len(b) /\ c[i] = b[i - Len(a)]
            /\ j - Len(a) \in 1..Len(b) /\ c[j] = b[j - Len(a)]
            /\ i - Len(a) < j - Len(a)
        BY <1>1, <1>2, <1>3, <2>2
      <3> QED BY <3>1 DEF Rising
    <2>3. CASE i <= Len(a) /\ j > Len(a)
      <3>1. c[i] \in ToSet(a)
        BY <1>2, <2>3, Elements
      <3>2. c[j] \in ToSet(b)
        <4>1. j - Len(a) \in 1..Len(b) /\ c[j] = b[j - Len(a)]
          BY <1>1, <1>2, <2>3
        <4> QED BY <4>1, Elements
      <3> QED BY <3>1, <3>2 DEF Before
    <2> QED BY <1>1, <2>1, <2>2, <2>3
  <1> QED BY <1>3 DEF Rising, c

LEMMA InOrderAppend ==
    ASSUME NEW bufs \in Seq(Buffer), NEW buf \in Buffer, InOrder(bufs), Rising(buf),
           Before(All(bufs), ToSet(buf))
    PROVE  InOrder(Append(bufs, buf)) /\ All(Append(bufs, buf)) = All(bufs) \cup ToSet(buf)
  <1> DEFINE more == Append(bufs, buf)
  <1>1. Len(more) = Len(bufs) + 1 /\ Len(bufs) \in Nat
    OBVIOUS
  <1>2. \A i \in 1..Len(more) : IF i = Len(bufs) + 1 THEN more[i] = buf
                                ELSE i \in 1..Len(bufs) /\ more[i] = bufs[i]
    BY <1>1
  <1> HIDE DEF more
  <1>3. \A i \in 1..Len(more) : Rising(more[i])
    BY <1>2 DEF InOrder
  <1>4. ASSUME NEW i \in 1..Len(more), NEW j \in 1..Len(more), i < j
        PROVE  Before(ToSet(more[i]), ToSet(more[j]))
    <2>1. i \in 1..Len(bufs) /\ more[i] = bufs[i]
      BY <1>1, <1>2, <1>4
    <2>2. CASE j = Len(bufs) + 1
      <3>1. more[j] = buf /\ ToSet(bufs[i]) \subseteq All(bufs)
        BY <1>2, <2>1, <2>2, ElementsOfAll
      <3> QED BY <2>1, <3>1 DEF Before
    <2>3. CASE j # Len(bufs) + 1
      BY <1>2, <1>4, <2>1, <2>3 DEF InOrder
    <2> QED BY <2>2, <2>3
  <1>5. ASSUME NEW x PROVE x \in All(more) <=> x \in All(bufs) \cup ToSet(buf)
    <2>1. ASSUME x \in All(more) PROVE x \in All(bufs) \cup ToSet(buf)
      <3>1. PICK i \in 1..Len(more) : x \in ToSet(more[i])
        BY <2>1, ElementsOfAll
      <3> QED BY <1>2, <3>1, ElementsOfAll
    <2>2. ASSUME x \in All(bufs) PROVE x \in All(more)
      <3>1. PICK i \in 1..Len(bufs) : x \in ToSet(bufs[i])
        BY <2>2, ElementsOfAll
      <3>2. i \in 1..Len(more) /\ more[i] = bufs[i]
        BY <1>1, <1>2
      <3> QED BY <3>1, <3>2, ElementsOfAll
    <2>3. ASSUME x \in ToSet(buf) PROVE x \in All(more)
      <3>1. Len(bufs) + 1 \in 1..Len(more) /\ more[Len(bufs) + 1] = buf
        BY <1>1, <1>2
      <3> QED BY <2>3, <3>1, ElementsOfAll
    <2> QED BY <2>1, <2>2, <2>3
  <1> QED BY <1>3, <1>4, <1>5 DEF InOrder, more

\* The head of what is in order comes before the rest.
LEMMA InOrderTail ==
    ASSUME NEW bufs \in Seq(Buffer), bufs # <<>>, InOrder(bufs)
    PROVE  /\ Head(bufs) \in Buffer /\ Rising(Head(bufs)) /\ InOrder(Tail(bufs))
           /\ Before(ToSet(Head(bufs)), All(Tail(bufs)))
           /\ All(bufs) = ToSet(Head(bufs)) \cup All(Tail(bufs))
  <1> DEFINE rest == Tail(bufs)
  <1>1. /\ Len(bufs) \in Nat /\ 1 \in 1..Len(bufs) /\ Head(bufs) = bufs[1] /\ bufs[1] \in Buffer
        /\ Len(rest) = Len(bufs) - 1
        /\ \A i \in 1..Len(rest) : i + 1 \in 1..Len(bufs) /\ rest[i] = bufs[i + 1]
    OBVIOUS
  <1> HIDE DEF rest
  <1>2. Rising(Head(bufs)) /\ \A i \in 1..Len(rest) : Rising(rest[i])
    BY <1>1 DEF InOrder
  <1>3. ASSUME NEW i \in 1..Len(rest), NEW j \in 1..Len(rest), i < j
        PROVE  Before(ToSet(rest[i]), ToSet(rest[j]))
    <2>1. i + 1 \in 1..Len(bufs) /\ j + 1 \in 1..Len(bufs) /\ i + 1 < j + 1
      BY <1>1, <1>3
    <2> QED BY <1>1, <2>1 DEF InOrder
  <1>4. Before(ToSet(Head(bufs)), All(rest))
    <2> SUFFICES ASSUME NEW x \in ToSet(Head(bufs)), NEW y \in All(rest) PROVE x < y
      BY DEF Before
    <2>1. PICK i \in 1..Len(rest) : y \in ToSet(rest[i])
      BY ElementsOfAll
    <2>2. i + 1 \in 1..Len(bufs) /\ 1 < i + 1 /\ rest[i] = bufs[i + 1]
      BY <1>1
    <2>3. Before(ToSet(bufs[1]), ToSet(bufs[i + 1]))
      BY <1>1, <2>2 DEF InOrder
    <2> QED BY <1>1, <2>1, <2>2, <2>3 DEF Before
  <1>5. ASSUME NEW x PROVE x \in All(bufs) <=> x \in ToSet(Head(bufs)) \cup All(rest)
    <2>1. ASSUME x \in All(bufs) PROVE x \in ToSet(Head(bufs)) \cup All(rest)
      <3>1. PICK i \in 1..Len(bufs) : x \in ToSet(bufs[i])
        BY <2>1, ElementsOfAll
      <3>2. CASE i = 1
        BY <1>1, <3>1, <3>2
      <3>3. CASE i # 1
        <4>1. i - 1 \in 1..Len(rest) /\ (i - 1) + 1 = i
          BY <1>1, <3>3
        <4>2. rest[i - 1] = bufs[i]
          BY <1>1, <4>1
        <4> QED BY <3>1, <4>1, <4>2, ElementsOfAll
      <3> QED BY <3>2, <3>3
    <2>2. ASSUME x \in ToSet(Head(bufs)) PROVE x \in All(bufs)
      BY <1>1, <2>2, ElementsOfAll
    <2>3. ASSUME x \in All(rest) PROVE x \in All(bufs)
      <3>1. PICK i \in 1..Len(rest) : x \in ToSet(rest[i])
        BY <2>3, ElementsOfAll
      <3> QED BY <1>1, <3>1, ElementsOfAll
    <2> QED BY <2>1, <2>2, <2>3
  <1> QED BY <1>1, <1>2, <1>3, <1>4, <1>5 DEF InOrder, rest

\* What is in order is rising as one buffer.
LEMMA FlattenInOrder ==
    ASSUME NEW bufs \in Seq(Buffer), InOrder(bufs)
    PROVE  /\ FlattenSeq(bufs) \in Buffer /\ Rising(FlattenSeq(bufs))
           /\ ToSet(FlattenSeq(bufs)) = All(bufs)
  <1>1. CASE Len(bufs) = 0
    <2>1. FlattenSeq(bufs) = bufs /\ bufs = <<>> /\ <<>> \in Buffer
      BY <1>1 DEF FlattenSeq, Buffer
    <2>2. All(<<>>) = {} /\ ToSet(<<>>) = {}
      BY <2>1, Elements, ElementsOfAll
    <2> QED BY <2>1, <2>2 DEF Rising
  <1>2. CASE Len(bufs) > 0
    <2>1. PICK g \in PartJoins(bufs, Len(bufs)) : FlattenSeq(bufs) = g[Len(bufs)]
      BY <1>2, FlattenJoins
    <2>2. /\ \A i \in 1..Len(bufs) : g[i] \in Buffer /\ bufs[i] \in Buffer
          /\ \A i \in 1..Len(bufs) : g[i] = IF i = 1 THEN bufs[i] ELSE g[i - 1] \o bufs[i]
          /\ Len(bufs) \in Nat
      <3>1. \A i \in 1..Len(bufs) : g[i] \in Buffer
        BY <2>1 DEF PartJoins
      <3>2. \A i \in 1..Len(bufs) : g[i] = IF i = 1 THEN bufs[i] ELSE g[i - 1] \o bufs[i]
        BY <2>1 DEF PartJoins
      <3>3. \A i \in 1..Len(bufs) : bufs[i] \in Buffer
        OBVIOUS
      <3> QED BY <3>1, <3>2, <3>3
    <2> DEFINE Joined1(n) == /\ Rising(g[n])
                             /\ \A x : x \in ToSet(g[n]) <=> \E i \in 1..n : x \in ToSet(bufs[i])
               T == {n \in Nat : n \in 1..Len(bufs) => Joined1(n)}
    <2>3. 1 \in T
      <3>1. g[1] = bufs[1] /\ 1 \in 1..Len(bufs)
        BY <1>2, <2>2
      <3>2. Joined1(1)
        BY <3>1 DEF InOrder
      <3> QED BY <3>2
    <2>4. ASSUME NEW n \in T PROVE n + 1 \in T
      <3>1. n \in Nat
        OBVIOUS
      <3>2. SUFFICES ASSUME n + 1 \in 1..Len(bufs), n # 0 PROVE Joined1(n + 1)
        <4>1. CASE n = 0
          <5>1. n + 1 = 1
            BY <4>1
          <5> HIDE DEF T
          <5> QED BY <2>3, <5>1
        <4> HIDE DEF Joined1
        <4> QED BY <3>1, <4>1
      <3>3. n \in 1..Len(bufs) /\ n + 1 # 1 /\ (n + 1) - 1 = n
        BY <3>1, <3>2
      <3>4. Joined1(n)
        BY <3>3
      <3>5. g[n + 1] = g[n] \o bufs[n + 1]
        BY <2>2, <3>2, <3>3
      <3>6. Before(ToSet(g[n]), ToSet(bufs[n + 1]))
        <4> SUFFICES ASSUME NEW x \in ToSet(g[n]), NEW y \in ToSet(bufs[n + 1]) PROVE x < y
          BY DEF Before
        <4>1. PICK i \in 1..n : x \in ToSet(bufs[i])
          BY <3>4
        <4>2. i \in 1..Len(bufs) /\ i < n + 1
          BY <3>1, <3>3
        <4> QED BY <3>2, <4>1, <4>2 DEF InOrder, Before
      <3>7. Rising(g[n + 1])
        BY <2>2, <3>2, <3>3, <3>4, <3>5, <3>6, RisingJoin DEF InOrder
      <3>8. ASSUME NEW x PROVE x \in ToSet(g[n + 1]) <=> \E i \in 1..(n + 1) : x \in ToSet(bufs[i])
        <4>1. ToSet(g[n + 1]) = ToSet(g[n]) \cup ToSet(bufs[n + 1])
          BY <2>2, <3>2, <3>3, <3>5, BuffersJoin
        <4>2. 1..(n + 1) = 1..n \cup {n + 1}
          BY <3>1
        <4> QED BY <3>4, <4>1, <4>2
      <3> QED BY <3>7, <3>8
    <2>5. Joined1(Len(bufs))
      <3>1. Len(bufs) \in T
        <4> HIDE DEF T
        <4>1. T \in SUBSET Nat
          BY DEF T
        <4> QED BY <1>2, <2>2, <2>3, <2>4, <4>1, UpToAll
      <3>2. Len(bufs) \in 1..Len(bufs)
        BY <1>2, <2>2
      <3> HIDE DEF Joined1
      <3> QED BY <3>1, <3>2
    <2>6. Len(bufs) \in 1..Len(bufs)
      BY <1>2, <2>2
    <2>7. g[Len(bufs)] \in Buffer
      BY <2>2, <2>6
    <2>8. ASSUME NEW x PROVE x \in ToSet(g[Len(bufs)]) <=> x \in All(bufs)
      BY <2>5, ElementsOfAll
    <2> HIDE DEF T
    <2> QED BY <2>1, <2>5, <2>7, <2>8
  <1>3. Len(bufs) \in Nat
    OBVIOUS
  <1> QED BY <1>1, <1>2, <1>3

\* The first units of a buffer, whatever their number.
LEMMA RisingFirst ==
    ASSUME NEW buf \in Buffer, NEW n \in Nat, Rising(buf)
    PROVE  /\ First(n, buf) \in Buffer /\ Rising(First(n, buf))
           /\ ToSet(First(n, buf)) \subseteq ToSet(buf)
           /\ Len(buf) <= n => First(n, buf) = buf
  <1>1. /\ First(n, buf) \in Buffer /\ Len(First(n, buf)) = Least(n, Len(buf))
        /\ \A i \in 1..Len(First(n, buf)) : First(n, buf)[i] = buf[i]
        /\ ToSet(First(n, buf)) \subseteq ToSet(buf)
    BY BufferParts
  <1>2. Len(buf) \in Nat
    BY DEF Buffer
  <1>3. Rising(First(n, buf))
    BY <1>1, <1>2 DEF Rising, Least
  <1>4. Len(buf) <= n => First(n, buf) = buf
    <2> SUFFICES ASSUME Len(buf) <= n PROVE First(n, buf) = buf
      OBVIOUS
    <2>1. First(n, buf) \in Seq(Units) /\ buf \in Seq(Units) /\ Len(First(n, buf)) = Len(buf)
      BY <1>1, <1>2 DEF Least, Buffer
    <2> QED BY <1>1, <2>1
  <1> QED BY <1>1, <1>3, <1>4

\* A buffer that rises through 1..n and has at least n units has all of them.
LEMMA FullBuffer ==
    ASSUME NEW buf \in Buffer, NEW n \in Nat, Rising(buf), ToSet(buf) \subseteq 1..n, n <= Len(buf)
    PROVE  ToSet(buf) = 1..n
  <1>1. /\ Len(buf) \in Nat /\ \A i \in 1..Len(buf) : buf[i] \in 1..n
        /\ DOMAIN buf = 1..Len(buf)
    BY Elements DEF Buffer
  <1>2. 1..n \subseteq 1..Len(buf)
    BY <1>1
  <1> DEFINE f == [i \in 1..n |-> buf[i]]
  <1>3. f \in Injection(1..n, 1..n)
    <2>1. f \in [1..n -> 1..n]
      BY <1>1, <1>2
    <2>2. ASSUME NEW i \in 1..n, NEW j \in 1..n, f[i] = f[j] PROVE i = j
      <3>1. i \in 1..Len(buf) /\ j \in 1..Len(buf) /\ buf[i] = buf[j] /\ buf[i] \in 1..n
        BY <1>1, <1>2, <2>2
      <3>2. ~(i < j) /\ ~(j < i)
        BY <3>1 DEF Rising
      <3> QED BY <3>2
    <2> QED BY <2>1, <2>2 DEF Injection, IsInjective
  <1>4. IsFiniteSet(1..n)
    BY FS_Interval
  <1>5. f \in Surjection(1..n, 1..n)
    <2> HIDE DEF f
    <2> QED BY <1>3, <1>4, FS_Injection
  <1>6. ASSUME NEW m \in 1..n PROVE m \in ToSet(buf)
    <2>1. \E i \in 1..n : f[i] = m
      BY <1>5 DEF Surjection
    <2>2. PICK i \in 1..n : buf[i] = m
      BY <2>1
    <2> QED BY <1>2, <2>2, Elements
  <1> QED BY <1>6

-----------------------------------------------------------------------------
(* Where the units of a stream are, and in which order.                    *)

\* What the callback of stream s has and has not handed on.
InHand(s) == UNION {ToSet(work[h].data) : h \in {g \in Handlers : Waits(g) /\ work[g].on = s}}
Pending(s) == InHand(s) \cup ToSet(held[s])

Queue(s) ==
    /\ Rising(held[s])
    /\ \A h \in Handlers : Waits(h) /\ work[h].on = s => Rising(work[h].data)
    /\ tier = "cache" => Before(InHand(s), ToSet(held[s]))
    /\ tier = "write" => Before(ToSet(held[s]), InHand(s))
    /\ Pending(s) \subseteq 1..arrived[s]

\* What it has handed on is in order, and before what it has not.
Stored(s) ==
    /\ Rising(disk[s]) /\ Rising(fallback[s]) /\ InOrder(replay[s])
    /\ spill = "none" => InOrder(chunks[s]) /\ Before(All(chunks[s]), Pending(s))
    /\ Before(ToSet(disk[s]), All(replay[s])) /\ Before(ToSet(disk[s]), Pending(s))
    /\ Before(All(replay[s]), Pending(s)) /\ Before(ToSet(fallback[s]), Pending(s))
    /\ ToSet(disk[s]) \cup All(replay[s]) \cup All(chunks[s]) \cup ToSet(fallback[s])
         \subseteq 1..arrived[s]

\* Nothing is missing that is not flagged.
Complete(s) ==
    ~disabled /\ s \notin truncated =>
        /\ 1..arrived[s] \subseteq
             ToSet(disk[s]) \cup All(replay[s]) \cup All(chunks[s]) \cup Pending(s)
        /\ spill = "creating" =>
             All(chunks[s]) \subseteq
                 All(replay[s]) \cup (IF tier = "write" THEN ToSet(held[s]) ELSE {})

LEMMA InHandUnits ==
    ASSUME NEW s, NEW x
    PROVE  /\ x \in InHand(s) <=>
                \E h \in Handlers : Waits(h) /\ work[h].on = s /\ x \in ToSet(work[h].data)
           /\ x \in InHand(s)' <=>
                \E h \in Handlers : Waits(h)' /\ work'[h].on = s /\ x \in ToSet(work'[h].data)
  BY Zenon DEF InHand, Waits

\* A stream for which one handler waits, or none.
LEMMA OneWaits ==
    ASSUME NEW s, NEW h \in Handlers, \A g \in Handlers : g # h => ~(Waits(g) /\ work[g].on = s)
    PROVE  InHand(s) = IF Waits(h) /\ work[h].on = s THEN ToSet(work[h].data) ELSE {}
  <1>1. ASSUME NEW x
        PROVE  x \in InHand(s) <=> Waits(h) /\ work[h].on = s /\ x \in ToSet(work[h].data)
    BY InHandUnits
  <1> QED BY <1>1

LEMMA OneWaitsNext ==
    ASSUME NEW s, NEW h \in Handlers, \A g \in Handlers : g # h => ~(Waits(g)' /\ work'[g].on = s)
    PROVE  InHand(s)' = IF Waits(h)' /\ work'[h].on = s THEN ToSet(work'[h].data) ELSE {}
  <1>1. ASSUME NEW x
        PROVE  x \in InHand(s)' <=> Waits(h)' /\ work'[h].on = s /\ x \in ToSet(work'[h].data)
    BY InHandUnits
  <1> QED BY <1>1

\* The callback hands x on: it leaves what is pending, to which the units join
\* that have arrived in this step.
Passes(s, x) ==
    /\ Rising(x) /\ Before(ToSet(x), Pending(s)')
    /\ ToSet(x) \cup Pending(s)' = Pending(s) \cup (arrived[s] + 1)..arrived'[s]

\* The storage of stream s takes part of what is handed on, or the replay goes on.
LEMMA StoredKept ==
    ASSUME DataType, CacheType, NEW s \in Streams, NEW x \in Buffer, NEW acc \in Buffer,
           arrived[s] \in Nat, arrived'[s] \in Nat, arrived[s] <= arrived'[s],
           Stored(s), Complete(s), Queue(s), Passes(s, x),
           ToSet(acc) \subseteq ToSet(x), Rising(acc),
           disabled => disabled', s \in truncated => s \in truncated',
           ~disabled' /\ s \notin truncated' => acc = x,
           fallback'[s] \in {fallback[s], First(FallbackMax, fallback[s] \o acc)},
           spill' = "none" => spill = "none", tier' = tier,
           spill' = "creating" =>
              /\ spill = "creating" /\ chunks'[s] = chunks[s] /\ replay'[s] = replay[s]
              /\ tier = "write" => held'[s] = held[s],
           \/ /\ disk'[s] = disk[s] /\ replay'[s] = replay[s] /\ (acc = <<>> \/ disabled')
              /\ \/ chunks'[s] = chunks[s]
                 \/ chunks'[s] = <<>> /\ (disabled' \/ (spill = "creating" /\ held'[s] = held[s]))
           \/ /\ disk'[s] = disk[s] /\ replay'[s] = replay[s] /\ spill = "none"
              /\ chunks'[s] = Append(chunks[s], acc)
           \/ /\ disk'[s] = disk[s] \o acc /\ replay[s] = <<>> /\ replay'[s] = <<>>
              /\ chunks'[s] = chunks[s]
    PROVE  Stored(s)' /\ Complete(s)'
  <1> DEFINE new == (arrived[s] + 1)..arrived'[s]
  <1>1. /\ disk[s] \in Buffer /\ fallback[s] \in Buffer /\ chunks[s] \in Seq(Buffer)
        /\ FallbackMax \in Nat
    BY OutputAssumption DEF DataType, CacheType
  <1>2. /\ \A u \in 1..arrived[s] : u \in 1..arrived'[s]
        /\ \A u \in new : u \in 1..arrived'[s]
        /\ \A u \in 1..arrived[s], v \in new : u < v
        /\ \A u \in 1..arrived'[s] : u \in 1..arrived[s] \/ u \in new
    OBVIOUS
  <1>3. All(<<>>) = {} /\ ToSet(<<>>) = {} /\ <<>> \in Buffer
    <2>1. <<>> \in Buffer
      BY DEF Buffer
    <2> QED BY <2>1, Elements, ElementsOfAll
  <1> HIDE DEF new
  <1>4. ASSUME NEW S, S \subseteq 1..arrived[s], Before(S, Pending(s))
        PROVE  Before(S, Pending(s)') /\ Before(S, ToSet(x)) /\ Before(S, ToSet(acc))
    BY <1>2, <1>4 DEF Before, Passes, new
  <1>5. ToSet(x) \subseteq 1..arrived'[s] /\ Before(ToSet(acc), Pending(s)')
    BY <1>2 DEF Passes, Queue, new, Before
  <1>6. /\ Before(ToSet(disk[s]), Pending(s)') /\ Before(ToSet(disk[s]), ToSet(acc))
        /\ Before(All(replay[s]), Pending(s)')
        /\ Before(ToSet(fallback[s]), Pending(s)') /\ Before(ToSet(fallback[s]), ToSet(acc))
        /\ spill = "none" => /\ Before(All(chunks[s]), Pending(s)')
                             /\ Before(All(chunks[s]), ToSet(acc))
    BY <1>4 DEF Stored
  <1>7. /\ Rising(fallback'[s]) /\ Before(ToSet(fallback'[s]), Pending(s)')
        /\ ToSet(fallback'[s]) \subseteq 1..arrived'[s]
    <2>1. CASE fallback'[s] = fallback[s]
      BY <1>2, <1>6, <2>1 DEF Stored
    <2>2. CASE fallback'[s] = First(FallbackMax, fallback[s] \o acc)
      <3> DEFINE all == fallback[s] \o acc
      <3>1. /\ all \in Buffer /\ Rising(all) /\ ToSet(all) = ToSet(fallback[s]) \cup ToSet(acc)
        BY <1>1, <1>6, BuffersJoin, RisingJoin DEF Stored
      <3> HIDE DEF all
      <3>2. Rising(First(FallbackMax, all)) /\ ToSet(First(FallbackMax, all)) \subseteq ToSet(all)
        BY <1>1, <3>1, RisingFirst
      <3>3. fallback'[s] = First(FallbackMax, all)
        BY <2>2 DEF all
      <3> QED BY <1>2, <1>5, <1>6, <3>1, <3>2, <3>3 DEF Stored, Before
    <2> QED BY <2>1, <2>2
  <1>8. /\ Rising(disk'[s]) /\ InOrder(replay'[s])
        /\ Before(ToSet(disk'[s]), All(replay'[s])) /\ Before(ToSet(disk'[s]), Pending(s)')
        /\ Before(All(replay'[s]), Pending(s)')
        /\ ToSet(disk'[s]) \cup All(replay'[s]) \subseteq 1..arrived'[s]
    <2>1. CASE disk'[s] = disk[s] /\ replay'[s] = replay[s]
      BY <1>2, <1>6, <2>1 DEF Stored
    <2>2. CASE disk'[s] = disk[s] \o acc /\ replay[s] = <<>> /\ replay'[s] = <<>>
      <3>1. /\ Rising(disk'[s]) /\ ToSet(disk'[s]) = ToSet(disk[s]) \cup ToSet(acc)
        BY <1>1, <1>6, <2>2, BuffersJoin, RisingJoin DEF Stored
      <3> QED BY <1>2, <1>3, <1>5, <1>6, <2>2, <3>1 DEF Stored, Before
    <2> QED BY <2>1, <2>2
  <1>9. /\ spill' = "none" => InOrder(chunks'[s]) /\ Before(All(chunks'[s]), Pending(s)')
        /\ All(chunks'[s]) \subseteq 1..arrived'[s]
    <2>1. CASE chunks'[s] = chunks[s]
      BY <1>2, <1>6, <2>1 DEF Stored
    <2>2. CASE chunks'[s] = <<>>
      BY <1>3, <2>2 DEF InOrder, Before
    <2>3. CASE spill = "none" /\ chunks'[s] = Append(chunks[s], acc)
      <3>1. InOrder(chunks'[s]) /\ All(chunks'[s]) = All(chunks[s]) \cup ToSet(acc)
        BY <1>1, <1>6, <2>3, InOrderAppend DEF Stored
      <3> QED BY <1>2, <1>5, <1>6, <2>3, <3>1 DEF Stored, Before
    <2> QED BY <2>1, <2>2, <2>3
  <1>10. Stored(s)'
    BY <1>6, <1>7, <1>8, <1>9 DEF Stored
  <1>11. Complete(s)'
    <2> SUFFICES ASSUME ~disabled', s \notin truncated'
                 PROVE  /\ 1..arrived'[s] \subseteq
                             ToSet(disk'[s]) \cup All(replay'[s]) \cup All(chunks'[s]) \cup Pending(s)'
                        /\ spill' = "creating" =>
                             All(chunks'[s]) \subseteq
                                 All(replay'[s]) \cup (IF tier = "write" THEN ToSet(held'[s]) ELSE {})
      BY DEF Complete
    <2>1. /\ 1..arrived[s] \subseteq
               ToSet(disk[s]) \cup All(replay[s]) \cup All(chunks[s]) \cup Pending(s)
          /\ spill = "creating" =>
               All(chunks[s]) \subseteq
                   All(replay[s]) \cup (IF tier = "write" THEN ToSet(held[s]) ELSE {})
          /\ acc = x
      BY DEF Complete
    <2>2. spill' = "creating" =>
             All(chunks'[s]) \subseteq
                 All(replay'[s]) \cup (IF tier = "write" THEN ToSet(held'[s]) ELSE {})
      BY <2>1
    <2>3. Pending(s) \cup new = ToSet(acc) \cup Pending(s)'
      BY <2>1 DEF Passes, new
    <2>4. /\ ToSet(disk[s]) \subseteq ToSet(disk'[s]) /\ All(replay[s]) \subseteq All(replay'[s])
          /\ ToSet(acc) \subseteq ToSet(disk'[s]) \cup All(chunks'[s])
          /\ All(chunks[s]) \subseteq All(chunks'[s]) \cup All(replay[s]) \cup Pending(s)'
      <3>1. CASE /\ disk'[s] = disk[s] /\ replay'[s] = replay[s] /\ acc = <<>>
                 /\ \/ chunks'[s] = chunks[s]
                    \/ chunks'[s] = <<>> /\ spill = "creating" /\ held'[s] = held[s]
        <4>1. ToSet(held'[s]) \subseteq Pending(s)'
          BY DEF Pending
        <4> QED BY <1>3, <2>1, <3>1, <4>1
      <3>2. CASE /\ disk'[s] = disk[s] /\ replay'[s] = replay[s] /\ spill = "none"
                 /\ chunks'[s] = Append(chunks[s], acc)
        <4>1. All(chunks'[s]) = All(chunks[s]) \cup ToSet(acc)
          BY <1>1, <1>6, <3>2, InOrderAppend DEF Stored
        <4> QED BY <3>2, <4>1
      <3>3. CASE /\ disk'[s] = disk[s] \o acc /\ replay[s] = <<>> /\ replay'[s] = <<>>
                 /\ chunks'[s] = chunks[s]
        <4>1. ToSet(disk'[s]) = ToSet(disk[s]) \cup ToSet(acc)
          BY <1>1, <3>3, BuffersJoin
        <4> QED BY <3>3, <4>1
      <3> QED BY <3>1, <3>2, <3>3
    <2>5. 1..arrived'[s] \subseteq
              ToSet(disk'[s]) \cup All(replay'[s]) \cup All(chunks'[s]) \cup Pending(s)'
      BY <1>2, <2>1, <2>3, <2>4
    <2> QED BY <2>2, <2>5
  <1> QED BY <1>10, <1>11

Follows(s) == Queue(s) /\ Stored(s) /\ Complete(s)

LEMMA PassNothing ==
    ASSUME NEW s, arrived[s] \in Nat, arrived'[s] = arrived[s], Pending(s)' = Pending(s)
    PROVE  <<>> \in Buffer /\ Rising(<<>>) /\ Passes(s, <<>>) /\ ToSet(<<>>) = {}
  <1>1. <<>> \in Buffer /\ Rising(<<>>)
    BY DEF Buffer, Rising
  <1>2. ToSet(<<>>) = {}
    BY <1>1, Elements
  <1>3. (arrived[s] + 1)..arrived'[s] = {}
    OBVIOUS
  <1> QED BY <1>1, <1>2, <1>3 DEF Passes, Before

\* Whoever waits for stream s waits on, with the same buffer.
WaitsOn(s) ==
    \A h \in Handlers :
        /\ Waits(h)' /\ work'[h].on = s <=> Waits(h) /\ work[h].on = s
        /\ Waits(h) /\ work[h].on = s => work'[h].data = work[h].data

LEMMA QueueKept ==
    ASSUME NEW s, Queue(s), UNCHANGED tier, arrived'[s] = arrived[s], held'[s] = held[s], WaitsOn(s)
    PROVE  Queue(s)' /\ Pending(s)' = Pending(s)
  <1>1. InHand(s)' = InHand(s)
    <2>1. ASSUME NEW x PROVE x \in InHand(s)' <=> x \in InHand(s)
      BY InHandUnits DEF WaitsOn
    <2> QED BY <2>1
  <1>2. Pending(s)' = Pending(s)
    BY <1>1 DEF Pending
  <1>3. \A h \in Handlers : Waits(h)' /\ work'[h].on = s => Rising(work'[h].data)
    BY DEF WaitsOn, Queue
  <1> QED BY <1>1, <1>2, <1>3 DEF Queue

\* A step that does not concern stream s, except that its memory may be given up.
LEMMA Untouched ==
    ASSUME DataType, CacheType, NEW s \in Streams, Follows(s), UNCHANGED tier,
           arrived[s] \in Nat, arrived'[s] = arrived[s], held'[s] = held[s], WaitsOn(s),
           disabled => disabled', s \in truncated => s \in truncated',
           fallback'[s] = fallback[s], disk'[s] = disk[s], replay'[s] = replay[s],
           spill' = "none" => spill = "none",
           spill' = "creating" => spill = "creating" /\ chunks'[s] = chunks[s],
           \/ chunks'[s] = chunks[s]
           \/ chunks'[s] = <<>> /\ (disabled' \/ spill = "creating")
    PROVE  Follows(s)'
  <1>1. Queue(s)' /\ Pending(s)' = Pending(s)
    BY QueueKept DEF Follows
  <1>2. PICK x : x = <<>>
    OBVIOUS
  <1>3. x \in Buffer /\ Rising(x) /\ Passes(s, x) /\ ToSet(x) = {}
    BY <1>1, <1>2, PassNothing
  <1>4. Stored(s)' /\ Complete(s)'
    <2>1. Stored(s) /\ Complete(s) /\ Queue(s) /\ arrived'[s] \in Nat /\ arrived[s] <= arrived'[s]
      BY DEF Follows
    <2> QED BY <1>2, <1>3, <2>1, StoredKept
  <1> QED BY <1>1, <1>4 DEF Follows

\* The replay goes on with the next buffer of stream s.
LEMMA Replays ==
    ASSUME DataType, CacheType, NEW s \in Streams, Follows(s), UNCHANGED tier,
           arrived[s] \in Nat, arrived'[s] = arrived[s], held'[s] = held[s], WaitsOn(s),
           disabled => disabled', s \in truncated => s \in truncated',
           spill = "replaying", spill' = "replaying", replay[s] # <<>>, replay'[s] = Tail(replay[s]),
           NEW acc \in Buffer, ToSet(acc) \subseteq ToSet(Head(replay[s])), Rising(acc),
           ~disabled' /\ s \notin truncated' => acc = Head(replay[s]),
           fallback'[s] = fallback[s], chunks'[s] = chunks[s],
           disk'[s] = disk[s] \o acc \/ (disk'[s] = disk[s] /\ (acc = <<>> \/ disabled'))
    PROVE  Follows(s)'
  <1>1. Queue(s)' /\ Pending(s)' = Pending(s)
    BY QueueKept DEF Follows
  <1>2. disk[s] \in Buffer /\ replay[s] \in Seq(Buffer)
    BY DEF CacheType
  <1>3. Stored(s) /\ Complete(s)
    BY DEF Follows
  <1>4. /\ InOrder(replay'[s]) /\ Before(ToSet(Head(replay[s])), All(replay'[s]))
        /\ All(replay[s]) = ToSet(Head(replay[s])) \cup All(replay'[s])
    BY <1>2, <1>3, InOrderTail DEF Stored
  <1>5. Rising(disk'[s]) /\ ToSet(disk'[s]) \subseteq ToSet(disk[s]) \cup ToSet(acc)
    BY <1>2, <1>3, <1>4, BuffersJoin, RisingJoin DEF Stored, Before
  <1>6. ToSet(acc) \subseteq ToSet(disk'[s]) \/ disabled'
    <2>1. <<>> \in Buffer
      BY DEF Buffer
    <2>2. ToSet(<<>>) = {}
      BY <2>1, Elements
    <2> QED BY <1>2, <2>2, BuffersJoin
  <1>7. ToSet(disk[s]) \subseteq ToSet(disk'[s])
    BY <1>2, BuffersJoin
  <1>8. Stored(s)'
    BY <1>1, <1>3, <1>4, <1>5 DEF Stored, Before
  <1>9. Complete(s)'
    BY <1>1, <1>3, <1>4, <1>6, <1>7 DEF Complete
  <1> QED BY <1>1, <1>8, <1>9 DEF Follows

\* The spill starts: the replay has what memory holds.
LEMMA SpillStarts ==
    ASSUME NEW s \in Streams, Follows(s), UNCHANGED tier, Queue(s)', Passes(s, <<>>),
           arrived[s] \in Nat, arrived'[s] \in Nat, arrived[s] <= arrived'[s],
           disabled => disabled', s \in truncated => s \in truncated',
           spill = "none", spill' = "creating", replay'[s] = chunks[s], replay[s] = <<>>,
           disk[s] = <<>>, disk'[s] = <<>>, chunks'[s] = chunks[s], fallback'[s] = fallback[s]
    PROVE  Follows(s)'
  <1> DEFINE new == (arrived[s] + 1)..arrived'[s]
  <1>1. /\ \A u \in 1..arrived[s] : u \in 1..arrived'[s]
        /\ \A u \in 1..arrived[s], v \in new : u < v
        /\ \A u \in 1..arrived'[s] : u \in 1..arrived[s] \/ u \in new
    OBVIOUS
  <1> HIDE DEF new
  <1>2. ToSet(<<>>) = {} /\ Rising(<<>>) /\ All(<<>>) = {}
    <2>1. <<>> \in Buffer
      BY DEF Buffer
    <2> QED BY <2>1, Elements, ElementsOfAll DEF Rising
  <1>3. Pending(s)' = Pending(s) \cup new
    BY <1>2 DEF Passes, new
  <1>4. Stored(s) /\ Complete(s)
    BY DEF Follows
  <1>5. /\ Before(All(chunks[s]), Pending(s)') /\ Before(ToSet(fallback[s]), Pending(s)')
        /\ InOrder(chunks[s])
        /\ All(chunks[s]) \cup ToSet(fallback[s]) \subseteq 1..arrived'[s]
    BY <1>1, <1>3, <1>4 DEF Stored, Before
  <1>6. Stored(s)'
    BY <1>2, <1>4, <1>5 DEF Stored, Before
  <1>7. Complete(s)'
    BY <1>1, <1>2, <1>3, <1>4 DEF Complete
  <1> QED BY <1>6, <1>7 DEF Follows

\* In tier "write" it starts with what the matchers release of that.
LEMMA SpillScans ==
    ASSUME DataType, NEW s \in Streams, Follows(s), tier = "write", tier' = "write",
           arrived[s] \in Nat, arrived'[s] \in Nat, arrived[s] <= arrived'[s],
           disabled => disabled', s \in truncated => s \in truncated',
           spill = "none", spill' = "creating", held[s] = <<>>, InHand(s) = {},
           InHand(s)' = (arrived[s] + 1)..arrived'[s],
           \A h \in Handlers : Waits(h)' /\ work'[h].on = s => Rising(work'[h].data),
           NEW n \in Nat, n <= Len(InMemory(s)),
           replay'[s] = IF n = 0 THEN <<>> ELSE <<First(n, InMemory(s))>>,
           held'[s] = Rest(n, InMemory(s)),
           fallback'[s] = First(FallbackMax, First(n, InMemory(s))),
           replay[s] = <<>>, disk[s] = <<>>, disk'[s] = <<>>, chunks'[s] = chunks[s]
    PROVE  Follows(s)'
  <1> DEFINE new == (arrived[s] + 1)..arrived'[s]
             all == InMemory(s)
             out == First(n, all)
             kept == Rest(n, all)
  <1>1. /\ \A u \in 1..arrived[s] : u \in 1..arrived'[s]
        /\ \A u \in new : u \in 1..arrived'[s]
        /\ \A u \in 1..arrived[s], v \in new : u < v
        /\ \A u \in 1..arrived'[s] : u \in 1..arrived[s] \/ u \in new
    OBVIOUS
  <1> HIDE DEF new
  <1>2. ToSet(<<>>) = {} /\ Rising(<<>>) /\ All(<<>>) = {} /\ InOrder(<<>>)
    <2>1. <<>> \in Buffer
      BY DEF Buffer
    <2> QED BY <2>1, Elements, ElementsOfAll DEF Rising, InOrder
  <1>3. Queue(s) /\ Stored(s) /\ Complete(s) /\ chunks[s] \in Seq(Buffer)
    BY DEF Follows, DataType
  <1>4. all \in Buffer /\ Rising(all) /\ ToSet(all) = All(chunks[s])
    BY <1>3, FlattenInOrder DEF Stored, InMemory
  <1> HIDE DEF all
  <1>5. /\ out \in Buffer /\ Rising(out) /\ Rising(kept) /\ Before(ToSet(out), ToSet(kept))
        /\ ToSet(out) \cup ToSet(kept) = All(chunks[s])
        /\ n = 0 => ToSet(out) = {}
    <2>1. n <= Len(all)
      BY DEF all
    <2>2. out \in Buffer /\ Len(out) = Least(n, Len(all)) /\ Len(all) \in Nat
      BY <1>4, BufferParts DEF Buffer
    <2>3. n = 0 => ToSet(out) = {}
      <3> SUFFICES ASSUME n = 0, NEW u \in ToSet(out) PROVE FALSE
        OBVIOUS
      <3>1. Len(out) = 0
        BY <2>2 DEF Least
      <3> HIDE DEF out
      <3> QED BY <2>2, <3>1, Elements
    <2> QED BY <1>4, <2>1, <2>2, <2>3, RisingSplit
  <1>6. held'[s] = kept /\ fallback'[s] = First(FallbackMax, out)
        /\ replay'[s] = IF n = 0 THEN <<>> ELSE <<out>>
    BY DEF all
  <1> HIDE DEF out, kept
  <1>7. InOrder(replay'[s]) /\ All(replay'[s]) = ToSet(out)
    <2>1. CASE n = 0
      BY <1>2, <1>5, <1>6, <2>1
    <2>2. CASE n # 0
      <3>1. replay'[s] = <<out>> /\ Len(<<out>>) = 1 /\ <<out>>[1] = out
        BY <1>6, <2>2
      <3>2. InOrder(<<out>>)
        BY <1>5, <3>1 DEF InOrder
      <3>3. \A u : u \in All(<<out>>) <=> u \in ToSet(out)
        BY <3>1, ElementsOfAll
      <3> QED BY <3>1, <3>2, <3>3
    <2> QED BY <2>1, <2>2
  <1>8. Rising(fallback'[s]) /\ ToSet(fallback'[s]) \subseteq ToSet(out)
    BY <1>5, <1>6, RisingFirst, OutputAssumption
  <1>9. Pending(s)' = new \cup ToSet(kept)
    BY <1>6 DEF Pending, new
  <1>10. All(chunks[s]) \subseteq 1..arrived[s]
    BY <1>3 DEF Stored
  <1>11. Before(ToSet(kept), new) /\ Before(ToSet(out), Pending(s)')
    BY <1>1, <1>5, <1>9, <1>10 DEF Before
  <1>12. Queue(s)'
    <2>1. tier' # "cache" /\ InHand(s)' = new
      BY DEF new
    <2> QED BY <1>1, <1>5, <1>6, <1>9, <1>10, <1>11, <2>1 DEF Queue
  <1>13. Stored(s)'
    <2>1. ToSet(out) \subseteq 1..arrived'[s] /\ All(chunks[s]) \subseteq 1..arrived'[s]
      BY <1>1, <1>5, <1>10
    <2> QED BY <1>2, <1>7, <1>8, <1>11, <2>1 DEF Stored, Before
  <1>14. Complete(s)'
    <2> SUFFICES ASSUME ~disabled', s \notin truncated'
                 PROVE  /\ 1..arrived'[s] \subseteq All(chunks[s]) \cup Pending(s)'
                        /\ All(chunks[s]) \subseteq ToSet(out) \cup ToSet(kept)
      BY <1>2, <1>6, <1>7 DEF Complete
    <2>1. 1..arrived[s] \subseteq All(chunks[s]) \cup Pending(s) /\ Pending(s) = {}
      BY <1>2, <1>3 DEF Complete, Pending
    <2> QED BY <1>1, <1>5, <1>9, <2>1
  <1> QED BY <1>12, <1>13, <1>14 DEF Follows

\* A matcher holds nothing before there is one, and after it has finished.
HeldFits ==
    /\ tier = "off" \/ (tier = "write" /\ spill = "none") => held = Nothing
    /\ ~early /\ ~secret /\ stage \notin {"capture", "threw", "stdout"} => held["stdout"] = <<>>
    /\ ~early /\ ~secret /\ stage \notin {"capture", "threw", "stdout", "stderr"} =>
          held["stderr"] = <<>>

\* What memory, the writer, the spill and the stage say of each other besides.
Awaiting ==
    /\ HeldFits
    /\ spill \in {"replaying", "over"} /\ ~secret /\ ~disabled => staging \in {"open", "published"}
    /\ spill = "over" /\ ~secret /\ ~disabled => replay = Nothing /\ chunks = Nothing
    /\ spill = "none" => replay = Nothing /\ disk = Nothing /\ \A h \in Handlers : ~Waits(h)
    /\ spill = "replaying" => chunks = Nothing
    /\ stage \in {"capture", "threw"} => ~Waits("main")
    /\ ~early /\ Waits("main") => tier = "cache"
    /\ \A h \in Streams : Waits(h) => work[h].on = h

\* A handler places what is handed on: it keeps, writes or previews a part;
Placed(h, s, x) ==
    /\ ~Waits(h)' /\ UNCHANGED <<spill, replay, disabled, secret, staging>>
    /\ truncated \subseteq truncated'
    /\ \A t \in Streams : t # s =>
          disk'[t] = disk[t] /\ fallback'[t] = fallback[t] /\ chunks'[t] = chunks[t]
    /\ \E acc \in Buffer :
          /\ ToSet(acc) \subseteq ToSet(x) /\ (Rising(x) => Rising(acc))
          /\ disabled \/ s \in truncated' \/ acc = x
          /\ fallback'[s] \in {fallback[s], First(FallbackMax, fallback[s] \o acc)}
          /\ \/ disk'[s] = disk[s] /\ chunks'[s] = chunks[s] /\ (disabled \/ acc = <<>>)
             \/ /\ ~disabled /\ staging = "open" /\ chunks'[s] = chunks[s]
                /\ disk'[s] = disk[s] \o acc
             \/ /\ ~disabled /\ staging # "open" /\ disk'[s] = disk[s]
                /\ chunks'[s] = Append(chunks[s], acc)

\* or it waits with all of it for the spill.
Parked(h, s, x) ==
    /\ staging # "open" /\ ~disabled /\ Overflows(s, x)
    /\ Waits(h)' /\ work'[h].on = s /\ work'[h].data = x
    /\ UNCHANGED <<chunks, fallback, disk, disabled, secret, staging>>
    /\ truncated \subseteq truncated'
    /\ spill' = IF spill = "none" THEN "creating" ELSE spill
    /\ replay' = IF spill = "none" THEN chunks ELSE replay

LEMMA Accepted ==
    ASSUME DataType, NEW s \in Streams, NEW buf \in Buffer, truncated' = Cut(s, buf)
    PROVE  /\ First(Room(s), buf) \in Buffer /\ ToSet(First(Room(s), buf)) \subseteq ToSet(buf)
           /\ Rising(buf) => Rising(First(Room(s), buf))
           /\ s \in truncated' \/ First(Room(s), buf) = buf
           /\ truncated \subseteq truncated'
  <1>1. Room(s) \in Nat /\ Len(buf) \in Nat
    BY RoomType DEF Buffer
  <1>2. First(Room(s), buf) \in Buffer /\ ToSet(First(Room(s), buf)) \subseteq ToSet(buf)
    BY <1>1, BufferParts
  <1>3. Rising(buf) => Rising(First(Room(s), buf))
    BY <1>1, RisingFirst
  <1>4. Len(buf) <= Room(s) => First(Room(s), buf) = buf
    <2> SUFFICES ASSUME Len(buf) <= Room(s) PROVE First(Room(s), buf) = buf
      OBVIOUS
    <2>1. /\ Len(First(Room(s), buf)) = Len(buf)
          /\ \A i \in 1..Len(First(Room(s), buf)) : First(Room(s), buf)[i] = buf[i]
      BY <1>1, BufferParts DEF Least
    <2> QED BY <1>2, <2>1 DEF Buffer
  <1> QED BY <1>1, <1>2, <1>3, <1>4 DEF Cut

LEMMA WritePlaces ==
    ASSUME DataType, CacheType, NEW h \in Handlers, NEW s \in Streams, NEW buf \in Buffer,
           ~disabled, staging = "open", WriteAccepted(h, s, buf, TRUE), UNCHANGED replay
    PROVE  Placed(h, s, buf)
  <1> DEFINE acc == First(Room(s), buf)
  <1>1. /\ acc \in Buffer /\ ToSet(acc) \subseteq ToSet(buf) /\ (Rising(buf) => Rising(acc))
        /\ s \in truncated' \/ acc = buf
        /\ truncated \subseteq truncated'
    BY Accepted DEF WriteAccepted
  <1>2. /\ fallback' = Fed(s, acc)
        /\ UNCHANGED <<chunks, disabled, secret, spill, staging>>
        /\ \/ acc = <<>> /\ work' = [work EXCEPT ![h] = Idle] /\ disk' = disk
           \/ /\ work' = [work EXCEPT ![h] = [at |-> "writing", on |-> s, data |-> acc, room |-> Room(s)]]
              /\ disk' = [disk EXCEPT ![s] = @ \o acc]
    BY DEF WriteAccepted, Rests, Awaits
  <1> HIDE DEF acc
  <1>3. ~Waits(h)'
    BY <1>2 DEF CacheType, Waits, Idle
  <1>4. /\ fallback'[s] = First(FallbackMax, fallback[s] \o acc)
        /\ \A t \in Streams : t # s => fallback'[t] = fallback[t]
    BY <1>2 DEF DataType, Fed
  <1>5. /\ \A t \in Streams : t # s => disk'[t] = disk[t]
        /\ disk'[s] = disk[s] \o acc \/ (disk'[s] = disk[s] /\ acc = <<>>)
    BY <1>2 DEF CacheType
  <1> QED BY <1>1, <1>2, <1>3, <1>4, <1>5 DEF Placed

LEMMA SafePlaces ==
    ASSUME DataType, CacheType, NEW h \in Handlers, NEW s \in Streams, NEW buf \in Buffer,
           ProcessSafe(h, s, buf)
    PROVE  Placed(h, s, buf) \/ Parked(h, s, buf)
  <1> DEFINE acc == First(Room(s), buf)
             waiting == [at |-> "spilling", on |-> s, data |-> buf, room |-> Room(s)]
  <1>1. CASE ~disabled /\ staging = "open" /\ WriteAccepted(h, s, buf, TRUE) /\ UNCHANGED replay
    BY <1>1, WritePlaces
  <1>2. CASE ~disabled /\ staging # "open" /\ Overflows(s, buf) /\ JoinSpill(h, s, buf)
    <2>1. /\ truncated' = Cut(s, buf) /\ work' = [work EXCEPT ![h] = waiting]
          /\ spill' = IF spill = "none" THEN "creating" ELSE spill
          /\ replay' = IF spill = "none" THEN chunks ELSE replay
          /\ UNCHANGED <<chunks, retained, fallback, secret, disabled, staging, disk>>
      BY <1>2 DEF JoinSpill, Awaits
    <2>2. truncated \subseteq truncated'
      BY <2>1 DEF Cut
    <2>3. work'[h] = waiting
      BY <2>1 DEF CacheType
    <2> QED BY <1>2, <2>1, <2>2, <2>3 DEF Parked, Waits
  <1>3. ASSUME truncated' = Cut(s, buf), fallback' = Fed(s, acc), Rests(h),
               UNCHANGED <<secret, disabled, spill, replay, staging, disk>>,
               \/ disabled /\ chunks' = chunks
               \/ acc = <<>> /\ chunks' = chunks
               \/ ~disabled /\ staging # "open" /\ chunks' = [chunks EXCEPT ![s] = Append(@, acc)]
        PROVE  Placed(h, s, buf)
    <2>1. /\ acc \in Buffer /\ ToSet(acc) \subseteq ToSet(buf) /\ (Rising(buf) => Rising(acc))
          /\ s \in truncated' \/ acc = buf
          /\ truncated \subseteq truncated'
      BY <1>3, Accepted
    <2> HIDE DEF acc
    <2>2. ~Waits(h)'
      BY <1>3 DEF CacheType, Waits, Idle, Rests
    <2>3. /\ fallback'[s] = First(FallbackMax, fallback[s] \o acc)
          /\ \A t \in Streams : t # s => fallback'[t] = fallback[t]
      BY <1>3 DEF DataType, Fed
    <2>4. /\ \A t \in Streams : t # s => chunks'[t] = chunks[t]
          /\ \/ chunks'[s] = chunks[s] /\ (disabled \/ acc = <<>>)
             \/ ~disabled /\ staging # "open" /\ chunks'[s] = Append(chunks[s], acc)
      BY <1>3 DEF DataType
    <2> QED BY <1>3, <2>1, <2>2, <2>3, <2>4 DEF Placed
  <1>4. CASE disabled /\ Degrade(h, s, buf)
    BY <1>3, <1>4 DEF Degrade, cacheVars
  <1>5. CASE ~disabled /\ staging # "open" /\ Keep(h, s, buf)
    BY <1>3, <1>5 DEF Keep, cacheVars
  <1> QED BY <1>1, <1>2, <1>4, <1>5 DEF ProcessSafe

\* What the queue of stream s is when x has been handed on, and k is held back.
LEMMA QueueAfter ==
    ASSUME NEW h \in Handlers, NEW s \in Streams, NEW x \in Buffer, NEW k \in Buffer,
           Queue(s), UNCHANGED tier, held'[s] = k, Rising(x), Rising(k), Before(ToSet(x), ToSet(k)),
           ToSet(x) \cup ToSet(k) = Pending(s) \cup (arrived[s] + 1)..arrived'[s],
           arrived[s] \in Nat, arrived'[s] \in Nat, arrived[s] <= arrived'[s],
           \A g \in Handlers : g # h => ~(Waits(g)' /\ work'[g].on = s)
    PROVE  /\ ~Waits(h)' => Queue(s)' /\ Passes(s, x)
           /\ /\ Waits(h)' /\ work'[h].on = s /\ work'[h].data = x
              /\ tier # "write"
              => Queue(s)' /\ Passes(s, <<>>)
  <1>1. /\ \A u \in Pending(s) : u \in 1..arrived'[s]
        /\ \A u \in (arrived[s] + 1)..arrived'[s] : u \in 1..arrived'[s]
    BY DEF Queue
  <1>2. <<>> \in Buffer /\ Rising(<<>>) /\ ToSet(<<>>) = {}
    <2>1. <<>> \in Buffer
      BY DEF Buffer
    <2> QED BY <2>1, Elements DEF Rising
  <1>3. InHand(s)' = IF Waits(h)' /\ work'[h].on = s THEN ToSet(work'[h].data) ELSE {}
    BY OneWaitsNext
  <1>4. CASE ~Waits(h)'
    <2>1. InHand(s)' = {} /\ Pending(s)' = ToSet(k)
      BY <1>3, <1>4 DEF Pending
    <2> QED BY <1>1, <1>4, <2>1 DEF Queue, Passes, Before
  <1>5. CASE Waits(h)' /\ work'[h].on = s /\ work'[h].data = x /\ tier # "write"
    <2>1. InHand(s)' = ToSet(x) /\ Pending(s)' = ToSet(x) \cup ToSet(k)
      BY <1>3, <1>5 DEF Pending
    <2> QED BY <1>1, <1>2, <1>5, <2>1 DEF Queue, Passes, Before
  <1> QED BY <1>4, <1>5

\* Where a handler puts what stream s hands on, the stream goes on in order.
LEMMA HandedOn ==
    ASSUME OutputInv, Awaiting, ~secret, UNCHANGED tier, NEW h \in Handlers, NEW s \in Streams,
           NEW x \in Buffer, NEW k \in Buffer,
           Follows(s), held'[s] = k, Rising(x), Rising(k), Before(ToSet(x), ToSet(k)),
           ToSet(x) \cup ToSet(k) = Pending(s) \cup (arrived[s] + 1)..arrived'[s],
           arrived'[s] \in Nat, arrived[s] <= arrived'[s], staging # "published",
           \A g \in Handlers : g # h => work'[g] = work[g] /\ ~(Waits(g) /\ work[g].on = s),
           \/ Placed(h, s, x) /\ spill \in {"none", "over"}
           \/ Parked(h, s, x) /\ tier # "write"
    PROVE  Follows(s)'
  <1>1. /\ DataType /\ CacheType /\ arrived[s] \in Nat /\ Opening
        /\ Queue(s) /\ Stored(s) /\ Complete(s)
    BY TypeParts DEF OutputInv, Follows
  <1>2. /\ ~Waits(h)' => Queue(s)' /\ Passes(s, x)
        /\ /\ Waits(h)' /\ work'[h].on = s /\ work'[h].data = x
           /\ tier # "write"
           => Queue(s)' /\ Passes(s, <<>>)
    <2>1. \A g \in Handlers : g # h => ~(Waits(g)' /\ work'[g].on = s)
      BY DEF Waits
    <2> QED BY <1>1, <2>1, QueueAfter
  <1>3. CASE Placed(h, s, x) /\ spill \in {"none", "over"}
    <2>1. PICK acc \in Buffer :
             /\ ToSet(acc) \subseteq ToSet(x) /\ Rising(acc)
             /\ disabled \/ s \in truncated' \/ acc = x
             /\ fallback'[s] \in {fallback[s], First(FallbackMax, fallback[s] \o acc)}
             /\ \/ disk'[s] = disk[s] /\ chunks'[s] = chunks[s] /\ (disabled \/ acc = <<>>)
                \/ /\ ~disabled /\ staging = "open" /\ chunks'[s] = chunks[s]
                   /\ disk'[s] = disk[s] \o acc
                \/ /\ ~disabled /\ staging # "open" /\ disk'[s] = disk[s]
                   /\ chunks'[s] = Append(chunks[s], acc)
      BY <1>3 DEF Placed
    <2>2. Queue(s)' /\ Passes(s, x)
      BY <1>2, <1>3 DEF Placed
    <2>3. /\ spill' = spill /\ replay' = replay /\ disabled' = disabled
          /\ s \in truncated => s \in truncated'
      BY <1>3 DEF Placed
    <2>4. ~disabled /\ staging = "open" => replay[s] = <<>>
      BY <1>1, <1>3 DEF Opening, Awaiting, Nothing
    <2>5. ~disabled /\ staging # "open" => spill = "none"
      BY <1>3 DEF Awaiting
    <2>6. Stored(s)' /\ Complete(s)'
      BY <1>1, <1>3, <2>1, <2>2, <2>3, <2>4, <2>5, StoredKept
    <2> QED BY <2>2, <2>6 DEF Follows
  <1>4. CASE Parked(h, s, x) /\ tier # "write"
    <2>1. Queue(s)' /\ Passes(s, <<>>)
      BY <1>2, <1>4 DEF Parked
    <2>2. UNCHANGED <<chunks, fallback, disk, disabled>> /\ (s \in truncated => s \in truncated')
      BY <1>4 DEF Parked
    <2>3. CASE spill = "none"
      <3>1. replay[s] = <<>> /\ disk[s] = <<>>
        BY <2>3 DEF Awaiting, Nothing
      <3>2. spill' = "creating" /\ replay' = chunks
        BY <1>4, <2>3 DEF Parked
      <3> QED BY <1>1, <2>1, <2>2, <2>3, <3>1, <3>2, SpillStarts
    <2>4. CASE spill # "none"
      <3>1. spill' = spill /\ replay' = replay
        BY <1>4, <2>4 DEF Parked
      <3>2. PICK none : none = <<>>
        OBVIOUS
      <3>3. none \in Buffer /\ Passes(s, none) /\ Rising(none)
        BY <2>1, <3>2 DEF Rising, Buffer
      <3>4. Stored(s)' /\ Complete(s)'
        BY <1>1, <1>4, <2>2, <2>4, <3>1, <3>2, <3>3, StoredKept
      <3> QED BY <2>1, <3>4 DEF Follows
    <2> QED BY <2>3, <2>4
  <1> QED BY <1>3, <1>4

\* The other stream is left alone, or the spill starts for it too.
LEMMA OtherFollows ==
    ASSUME OutputInv, Awaiting, UNCHANGED tier, NEW h \in Handlers, NEW s \in Streams, NEW x,
           NEW t \in Streams, t # s, Follows(t), held'[t] = held[t], arrived'[t] = arrived[t],
           \A g \in Handlers : g # h => work'[g] = work[g],
           ~(Waits(h) /\ work[h].on = t),
           Placed(h, s, x) \/ Parked(h, s, x)
    PROVE  Follows(t)'
  <1>1. DataType /\ CacheType /\ arrived[t] \in Nat
    BY TypeParts DEF OutputInv
  <1>2. WaitsOn(t)
    BY DEF WaitsOn, Waits, Placed, Parked
  <1>3. /\ disk'[t] = disk[t] /\ fallback'[t] = fallback[t] /\ chunks'[t] = chunks[t]
        /\ disabled' = disabled /\ (t \in truncated => t \in truncated')
    BY DEF Placed, Parked
  <1>4. CASE spill' = spill /\ replay' = replay
    BY <1>1, <1>2, <1>3, <1>4, Untouched
  <1>5. CASE spill = "none" /\ spill' = "creating" /\ replay' = chunks
    <2>1. replay[t] = <<>> /\ disk[t] = <<>>
      BY <1>5 DEF Awaiting, Nothing
    <2>2. Queue(t)' /\ Pending(t)' = Pending(t)
      BY <1>2, QueueKept DEF Follows
    <2>3. Passes(t, <<>>)
      BY <1>1, <2>2, PassNothing
    <2> QED BY <1>1, <1>3, <1>5, <2>1, <2>2, <2>3, SpillStarts
  <1> QED BY <1>4, <1>5 DEF Placed, Parked

\* The step of a handler whose stream is s, seen by stream t.
Moves(h, s, t) ==
    /\ \A g \in Handlers : g # h => ~(Waits(g) /\ work[g].on = s)
    /\ Waits(h) => work[h].on = s
    /\ arrived'[t] \in Nat /\ arrived[t] <= arrived'[t] /\ (t # s => arrived'[t] = arrived[t])
    /\ staging # "published"
    /\ t = s => spill \in {"none", "over"} \/ (Waits(h)' /\ tier # "write")

\* A matcher releases a part of y, which is all that is pending of its stream.
LEMMA ReleaseFollows ==
    ASSUME OutputInv, Awaiting, ~secret, Matching, UNCHANGED tier, NEW h \in Handlers,
           NEW s \in Streams, NEW y \in Buffer, NEW n \in 0..Len(y), Release(h, s, y, n),
           NEW t \in Streams, Follows(t), Moves(h, s, t),
           t = s => /\ Rising(y)
                    /\ ToSet(y) = Pending(s) \cup (arrived[s] + 1)..arrived'[s]
    PROVE  Follows(t)'
  <1>1. DataType /\ CacheType /\ ScanType /\ Opening
    BY TypeParts DEF OutputInv
  <1>2. \A g \in Handlers : g # h => work'[g] = work[g]
    BY <1>1, ReleaseOutcome DEF Matching, Outcome
  <1>3. n \in Nat /\ n <= Len(y)
    BY DEF Buffer
  <1>4. PICK x \in Buffer : x = First(n, y)
    BY <1>3, BufferParts
  <1>5. PICK k \in Buffer : k = Rest(n, y)
    BY <1>3, BufferParts
  <1>6. held' = [held EXCEPT ![s] = k]
    BY <1>5 DEF Release
  <1>7. held'[s] = k /\ (t # s => held'[t] = held[t])
    BY <1>1, <1>6 DEF ScanType
  <1>8. t = s => /\ Rising(x) /\ Rising(k) /\ Before(ToSet(x), ToSet(k))
                 /\ ToSet(x) \cup ToSet(k) = ToSet(y)
    BY <1>3, <1>4, <1>5, RisingSplit
  <1>9. Placed(h, s, x) \/ Parked(h, s, x)
    <2>1. CASE n = 0
      <3>1. Rests(h) /\ UNCHANGED <<dataVars, secret, cacheVars>>
        BY <2>1 DEF Release
      <3>2. ~Waits(h)'
        BY <1>1, <3>1 DEF Rests, CacheType, Idle, Waits
      <3>3. x = <<>>
        <4>1. Len(x) = 0
          BY <1>3, <1>4, <2>1, BufferParts DEF Least, Buffer
        <4> QED BY <4>1 DEF Buffer
      <3> QED BY <3>1, <3>2, <3>3 DEF Placed, dataVars, cacheVars
    <2>2. CASE n # 0
      <3>1. ProcessSafe(h, s, x)
        BY <1>4, <2>2 DEF Release
      <3> QED BY <1>1, <3>1, SafePlaces
    <2> QED BY <2>1, <2>2
  <1>10. CASE t = s
    <2>1. \/ Placed(h, s, x) /\ spill \in {"none", "over"}
          \/ Parked(h, s, x) /\ tier # "write"
      <3>1. Parked(h, s, x) => ~(spill = "over")
        BY DEF Parked, Awaiting, Moves
      <3>2. spill = "none" => tier # "write"
        BY DEF Matching
      <3> QED BY <1>9, <1>10, <3>1, <3>2 DEF Moves, Placed
    <2> QED BY <1>2, <1>7, <1>8, <1>10, <2>1, HandedOn DEF Moves
  <1>11. CASE t # s
    BY <1>2, <1>7, <1>9, <1>11, OtherFollows DEF Moves
  <1> QED BY <1>10, <1>11

\* Without a matcher, what has arrived is handed on as it is.
LEMMA DirectFollows ==
    ASSUME OutputInv, Awaiting, ~secret, UNCHANGED <<tier, held>>, NEW h \in Handlers,
           NEW s \in Streams, NEW x \in Buffer, ProcessSafe(h, s, x),
           NEW t \in Streams, Follows(t), Moves(h, s, t),
           tier = "write" => ~(~disabled /\ staging # "open" /\ Overflows(s, x)),
           t = s => /\ Rising(x) /\ held[s] = <<>>
                    /\ ToSet(x) = Pending(s) \cup (arrived[s] + 1)..arrived'[s]
    PROVE  Follows(t)'
  <1>1. DataType /\ CacheType /\ ScanType /\ Opening
    BY TypeParts DEF OutputInv
  <1>2. \A g \in Handlers : g # h => work'[g] = work[g]
    BY <1>1, SafeDoes
  <1>3. Placed(h, s, x) \/ (Parked(h, s, x) /\ tier # "write")
    <2>1. Parked(h, s, x) => tier # "write"
      BY DEF Parked
    <2> QED BY <1>1, <2>1, SafePlaces
  <1>4. CASE t = s
    <2>1. PICK k : k = <<>>
      OBVIOUS
    <2>2. k \in Buffer /\ Rising(k) /\ ToSet(k) = {} /\ held'[s] = k
      <3>1. k \in Buffer
        BY <2>1 DEF Buffer
      <3> QED BY <1>4, <2>1, <3>1, Elements DEF Rising
    <2>3. Before(ToSet(x), ToSet(k))
      BY <2>2 DEF Before
    <2>4. ToSet(x) \cup ToSet(k) = Pending(s) \cup (arrived[s] + 1)..arrived'[s]
      BY <1>4, <2>2
    <2>5. \/ Placed(h, s, x) /\ spill \in {"none", "over"}
          \/ Parked(h, s, x) /\ tier # "write"
      BY <1>3, <1>4 DEF Moves, Placed
    <2> QED BY <1>2, <1>4, <2>2, <2>3, <2>4, <2>5, HandedOn DEF Moves
  <1>5. CASE t # s
    BY <1>2, <1>3, <1>5, OtherFollows DEF Moves
  <1> QED BY <1>4, <1>5

\* In tier "write" the spill starts with a scan of what memory holds.
LEMMA ScanMemoryFollows ==
    ASSUME OutputInv, Awaiting, ~secret, ~secret', tier = "write", tier' = "write", spill = "none",
           NEW h \in Handlers, NEW s \in Streams, NEW buf \in Buffer, ScanMemory(h, s, buf),
           NEW t \in Streams, Follows(t), Moves(h, s, t),
           t = s => Rising(buf),
           t = s => ToSet(buf) = (arrived[s] + 1)..arrived'[s]
    PROVE  Follows(t)'
  <1>1. DataType /\ CacheType /\ ScanType /\ Opening /\ arrived[t] \in Nat
    BY TypeParts DEF OutputInv
  <1>2. PICK n \in [Streams -> 0..MaxChunks] :
               /\ \A u \in Streams : n[u] <= Len(InMemory(u))
               /\ replay' = Replayed(n)
               /\ held' = [u \in Streams |-> Rest(n[u], InMemory(u))]
               /\ cleared' = [u \in Streams |-> cleared[u] \cup ToSet(First(n[u], InMemory(u)))]
               /\ fallback' = [u \in Streams |-> First(FallbackMax, First(n[u], InMemory(u)))]
               /\ truncated' = Cut(s, buf)
               /\ spill' = "creating"
               /\ Awaits(h, "spilling", s, buf)
               /\ UNCHANGED <<chunks, retained, secret, disabled, staging, disk>>
    BY DEF ScanMemory, MarkSecret
  <1>3. n[t] \in Nat /\ n[t] <= Len(InMemory(t))
    BY <1>2, OutputAssumption
  <1>4. /\ replay'[t] = IF n[t] = 0 THEN <<>> ELSE <<First(n[t], InMemory(t))>>
        /\ held'[t] = Rest(n[t], InMemory(t))
        /\ fallback'[t] = First(FallbackMax, First(n[t], InMemory(t)))
        /\ t \in truncated => t \in truncated'
    BY <1>2 DEF Replayed, Cut
  <1>5. /\ held[t] = <<>> /\ replay[t] = <<>> /\ disk[t] = <<>> /\ disk'[t] = <<>>
        /\ \A g \in Handlers : ~Waits(g)
    BY <1>2 DEF Awaiting, HeldFits, Nothing
  <1>6. InHand(t) = {}
    BY <1>5, InHandUnits
  <1>7. /\ Waits(h)' /\ work'[h].on = s /\ work'[h].data = buf
        /\ \A g \in Handlers : g # h => ~Waits(g)'
    BY <1>1, <1>2, <1>5 DEF Awaits, CacheType, Waits
  <1>8. InHand(t)' = (arrived[t] + 1)..arrived'[t]
    <2>1. InHand(t)' = IF Waits(h)' /\ work'[h].on = t THEN ToSet(work'[h].data) ELSE {}
      BY <1>7, OneWaitsNext
    <2>2. t # s => (arrived[t] + 1)..arrived'[t] = {}
      BY <1>1 DEF Moves
    <2> QED BY <1>7, <2>1, <2>2
  <1>9. \A g \in Handlers : Waits(g)' /\ work'[g].on = t => Rising(work'[g].data)
    BY <1>7
  <1>10. PICK m \in Nat : m = n[t]
    BY <1>3
  <1> QED BY <1>1, <1>2, <1>3, <1>4, <1>5, <1>6, <1>8, <1>9, <1>10, SpillScans DEF Moves

LEMMA ScanFollows ==
    ASSUME OutputInv, Awaiting, ~secret, ~secret', UNCHANGED tier, NEW h \in Handlers,
           NEW s \in Streams, NEW buf \in Buffer, Scan(h, s, buf),
           NEW t \in Streams, Follows(t), Moves(h, s, t),
           t = s => Rising(buf),
           t = s => /\ Before(ToSet(held[s]), ToSet(buf))
                    /\ ToSet(held[s]) \cup ToSet(buf) = Pending(s) \cup (arrived[s] + 1)..arrived'[s]
    PROVE  Follows(t)'
  <1>1. DataType /\ CacheType /\ ScanType /\ Opening /\ tier \in {"off", "write", "cache"}
    BY TypeParts, OutputAssumption DEF OutputInv
  <1>2. CASE Matching
    <2>1. PICK n \in 0..Len(held[s] \o buf) : Release(h, s, held[s] \o buf, n)
      BY <1>2 DEF Scan, SecretFound, MarkSecret
    <2>2. PICK y : y = held[s] \o buf
      OBVIOUS
    <2>3. held[s] \in Buffer
      BY <1>1 DEF ScanType
    <2>4. y \in Buffer /\ ToSet(y) = ToSet(held[s]) \cup ToSet(buf)
      BY <2>2, <2>3, BuffersJoin
    <2>5. t = s => Rising(y)
      BY <2>2, <2>3, RisingJoin DEF Follows, Queue
    <2>6. n \in 0..Len(y) /\ Release(h, s, y, n)
      BY <2>1, <2>2
    <2> QED BY <1>2, <2>4, <2>5, <2>6, ReleaseFollows
  <1>3. CASE ~Matching
    <2>1. tier = "off" \/ (tier = "write" /\ spill = "none")
      BY <1>1, <1>3 DEF Matching
    <2>2. held[s] = <<>> /\ ToSet(<<>>) = {}
      <3>1. <<>> \in Buffer
        BY DEF Buffer
      <3> QED BY <2>1, <3>1, Elements DEF Awaiting, HeldFits, Nothing
    <2>3. CASE tier = "write" /\ ~disabled /\ staging # "open" /\ Overflows(s, buf) /\ ScanMemory(h, s, buf)
      <3>1. t = s => ToSet(buf) = (arrived[s] + 1)..arrived'[s]
        <4>1. InHand(s) = {}
          BY <2>1, <2>3, InHandUnits DEF Awaiting
        <4>2. Pending(s) = {}
          BY <2>2, <4>1 DEF Pending
        <4> QED BY <2>2, <4>2
      <3> QED BY <2>1, <2>3, <3>1, ScanMemoryFollows
    <2>4. CASE /\ ~(tier = "write" /\ ~disabled /\ staging # "open" /\ Overflows(s, buf))
               /\ ProcessSafe(h, s, buf) /\ UNCHANGED <<held, cleared>>
      BY <2>2, <2>4, DirectFollows
    <2> QED BY <1>3, <2>3, <2>4 DEF Scan
  <1> QED BY <1>2, <1>3

\* Who waits while the command has not settled early, and for which stream.
LEMMA Waiters ==
    ASSUME OutputInv, Awaiting, ~early
    PROVE  /\ \A g, h \in Handlers : Waits(g) /\ Waits(h) /\ work[g].on = work[h].on => g = h
           /\ \A h \in Handlers : Waits(h) => h \in Streams \cup {"main"}
           /\ \A s \in Streams : work[s].at = "idle" /\ ~Waits("main") =>
                 \A h \in Handlers : ~(Waits(h) /\ work[h].on = s)
           /\ stage \notin {"capture", "threw"} => \A s \in Streams : ~Waits(s)
  <1>1. /\ Opening /\ \A h \in Streams : Waits(h) => work[h].on = h
        /\ stage \in {"capture", "threw"} => ~Waits("main")
    BY DEF OutputInv, Awaiting
  <1>2. \A h \in Handlers : Waits(h) => h \in Streams \cup {"main"}
    BY <1>1 DEF Opening, Handlers
  <1>3. stage \notin {"capture", "threw"} => \A s \in Streams : ~Waits(s)
    BY <1>1 DEF Opening, Waits
  <1>4. \A s \in Streams : work[s].at = "idle" /\ ~Waits("main") =>
                 \A h \in Handlers : ~(Waits(h) /\ work[h].on = s)
    BY <1>1, <1>2 DEF Waits
  <1> QED BY <1>1, <1>2, <1>3, <1>4

LEMMA TakeFollows ==
    ASSUME OutputInv, Awaiting, ~secret, ~secret', ~early, NEW s \in Streams, Take(s),
           NEW t \in Streams, t \notin crossed', Follows(t)
    PROVE  Follows(t)'
  <1>1. /\ OutputTypeOK /\ Opening /\ arrived \in [Streams -> 0..MaxChunks] /\ MaxChunks \in Nat
        /\ ScanType /\ stage = "capture" /\ work[s].at = "idle" /\ arrived[s] < MaxChunks
        /\ s \in Handlers
    BY TypeParts, OutputAssumption DEF OutputInv, Take, Streams, Handlers
  <1>2. PICK a : a = arrived[s] + 1
    OBVIOUS
  <1>3. PICK buf : buf = <<a>>
    OBVIOUS
  <1>4. a \in 1..MaxChunks /\ arrived' = [arrived EXCEPT ![s] = a] /\ Scan(s, s, buf) /\ UNCHANGED tier
    BY <1>1, <1>2, <1>3 DEF Take, runVars
  <1>5. buf \in Buffer /\ Rising(buf) /\ ToSet(buf) = {a}
    <2>1. buf \in Buffer /\ Len(buf) = 1 /\ buf[1] = a
      BY <1>3, <1>4 DEF Buffer, Units
    <2> QED BY <2>1, Elements DEF Rising
  <1>6. Moves(s, s, t)
    <2>1. \A h \in Handlers : ~(Waits(h) /\ work[h].on = s)
      BY <1>1, Waiters DEF Awaiting
    <2>2. arrived'[t] \in Nat /\ arrived[t] <= arrived'[t] /\ (t # s => arrived'[t] = arrived[t])
      BY <1>1, <1>2, <1>4
    <2>3. staging # "published"
      BY <1>1 DEF Opening
    <2>4. t = s => spill \in {"none", "over"} \/ (Waits(s)' /\ tier # "write")
      <3> SUFFICES ASSUME t = s, spill \notin {"none", "over"} PROVE Waits(s)' /\ tier # "write"
        OBVIOUS
      <3>1. InProgress
        BY <1>1, TypeParts DEF CacheType, InProgress
      <3> QED BY <3>1 DEF Take, Waits
    <2>5. ~Waits(s)
      BY <1>1 DEF Waits
    <2> QED BY <2>1, <2>2, <2>3, <2>4, <2>5 DEF Moves
  <1>7. t = s => /\ Before(ToSet(held[s]), ToSet(buf))
                 /\ ToSet(held[s]) \cup ToSet(buf) = Pending(s) \cup (arrived[s] + 1)..arrived'[s]
    <2> SUFFICES ASSUME t = s
                 PROVE  /\ Before(ToSet(held[s]), ToSet(buf))
                        /\ ToSet(held[s]) \cup ToSet(buf) = Pending(s) \cup (arrived[s] + 1)..arrived'[s]
      OBVIOUS
    <2>1. InHand(s) = {}
      <3>1. \A h \in Handlers : ~(Waits(h) /\ work[h].on = s)
        BY <1>1, Waiters DEF Awaiting
      <3> QED BY <3>1, InHandUnits
    <2>2. Pending(s) = ToSet(held[s]) /\ Pending(s) \subseteq 1..arrived[s]
      BY <2>1 DEF Pending, Follows, Queue
    <2>3. (arrived[s] + 1)..arrived'[s] = {a}
      BY <1>1, <1>2, <1>4
    <2>4. \A u \in 1..arrived[s] : u < a
      BY <1>1, <1>2
    <2> QED BY <1>5, <2>2, <2>3, <2>4 DEF Before
  <1> QED BY <1>1, <1>4, <1>5, <1>6, <1>7, ScanFollows

LEMMA SpillJoinedFollows ==
    ASSUME OutputInv, Awaiting, ~secret, ~secret', ~early, NEW h \in Handlers, SpillJoined(h),
           NEW t \in Streams, Follows(t)
    PROVE  Follows(t)'
  <1>1. /\ DataType /\ CacheType /\ ScanType /\ Opening /\ tier \in {"off", "write", "cache"}
        /\ Waits(h) /\ spill = "over" /\ UNCHANGED <<tier, arrived>>
        /\ \A u \in Streams : arrived[u] \in Nat
    <2>1. OutputTypeOK /\ Opening
      BY DEF OutputInv
    <2>2. Waits(h) /\ spill = "over" /\ UNCHANGED <<tier, arrived>>
      BY DEF SpillJoined, Joins, Waits, Still, runVars
    <2>3. /\ DataType /\ CacheType /\ ScanType /\ tier \in {"off", "write", "cache"}
          /\ arrived \in [Streams -> 0..MaxChunks]
      BY <2>1, TypeParts, OutputAssumption
    <2> QED BY <2>1, <2>2, <2>3
  <1>2. PICK s : s = work[h].on
    OBVIOUS
  <1>3. PICK buf : buf = work[h].data
    OBVIOUS
  <1>4. PICK room : room = work[h].room
    OBVIOUS
  <1>5. s \in Streams /\ buf \in Buffer /\ room \in Nat
    BY <1>1, <1>2, <1>3, <1>4, RoomType DEF CacheType, Awaited
  <1>6. staging # "published"
    BY <1>1 DEF Opening
  <1>7. Moves(h, s, t)
    <2>1. \A g \in Handlers : g # h => ~(Waits(g) /\ work[g].on = s)
      BY <1>1, <1>2, Waiters
    <2> QED BY <1>1, <1>2, <1>6, <2>1 DEF Moves
  <1>8. t = s => /\ InHand(s) = ToSet(buf) /\ Rising(buf)
                 /\ ToSet(held[s]) \cup ToSet(buf) = Pending(s) \cup (arrived[s] + 1)..arrived'[s]
    <2>1. InHand(s) = ToSet(buf)
      BY <1>1, <1>2, <1>3, <1>7, OneWaits DEF Moves
    <2>2. (arrived[s] + 1)..arrived'[s] = {}
      BY <1>1, <1>5
    <2> QED BY <1>1, <1>2, <1>3, <2>1, <2>2 DEF Pending, Follows, Queue
  <1>9. CASE tier = "write"
    <2>1. Scan(h, s, buf)
      BY <1>2, <1>3, <1>9 DEF SpillJoined
    <2>2. t = s => Before(ToSet(held[s]), ToSet(buf))
      BY <1>8, <1>9 DEF Follows, Queue
    <2>3. CASE t = s
      BY <1>1, <1>5, <1>7, <1>8, <2>1, <2>2, <2>3, ScanFollows
    <2>4. CASE t # s
      BY <1>1, <1>2, <1>3, <1>5, <1>7, <1>9, <2>1, <2>4, ScanFollows
    <2> QED BY <2>3, <2>4
  <1>10. CASE tier # "write"
    <2>1. /\ held' = held
          /\ IF staging = "open" THEN WriteAccepted(h, s, buf, TRUE) /\ UNCHANGED replay
             ELSE /\ fallback' = Fed(s, First(room, buf)) /\ Rests(h)
                  /\ UNCHANGED <<chunks, retained, truncated, secret, cacheVars>>
      BY <1>2, <1>3, <1>4, <1>10 DEF SpillJoined
    <2>2. \A g \in Handlers : g # h => work'[g] = work[g]
      BY SpillJoinedOutcome DEF Outcome
    <2>3. Placed(h, s, buf)
      <3>1. CASE staging = "open"
        <4>1. ~disabled
          BY <1>1, <3>1 DEF Opening
        <4> QED BY <1>1, <1>5, <2>1, <3>1, <4>1, WritePlaces
      <3>2. CASE staging # "open"
        <4>1. disabled
          BY <1>1, <1>6, <3>2 DEF Awaiting
        <4>2. PICK acc : acc = First(room, buf)
          OBVIOUS
        <4>3. /\ acc \in Buffer /\ ToSet(acc) \subseteq ToSet(buf)
              /\ Rising(buf) => Rising(acc)
          BY <1>5, <4>2, BufferParts, RisingFirst
        <4>4. /\ fallback'[s] = First(FallbackMax, fallback[s] \o acc)
              /\ \A u \in Streams : u # s => fallback'[u] = fallback[u]
          BY <1>1, <1>5, <2>1, <3>2, <4>2 DEF DataType, Fed
        <4>5. ~Waits(h)'
          BY <1>1, <2>1, <3>2 DEF CacheType, Waits, Idle, Rests
        <4> QED BY <2>1, <3>2, <4>1, <4>3, <4>4, <4>5 DEF Placed, cacheVars
      <3> QED BY <3>1, <3>2
    <2>4. CASE t = s
      <3>1. Before(ToSet(buf), ToSet(held[s])) /\ Rising(held[s]) /\ held[s] \in Buffer
        <4>1. tier = "off" => held[s] = <<>>
          BY <1>5 DEF Awaiting, HeldFits, Nothing
        <4>2. ToSet(<<>>) = {}
          <5>1. <<>> \in Buffer
            BY DEF Buffer
          <5> QED BY <5>1, Elements
        <4> QED BY <1>1, <1>5, <1>8, <1>10, <2>4, <4>1, <4>2 DEF Follows, Queue, Before,
                   ScanType
      <3> QED BY <1>1, <1>5, <1>6, <1>7, <1>8, <2>1, <2>2, <2>3, <2>4, <3>1, HandedOn
                 DEF Moves
    <2>5. CASE t # s
      BY <1>1, <1>2, <1>5, <2>1, <2>2, <2>3, <2>5, OtherFollows
    <2> QED BY <2>4, <2>5
  <1> QED BY <1>9, <1>10

LEMMA FinishFollows ==
    ASSUME OutputInv, Awaiting, ~secret, ~secret', ~early, Matching, NEW s \in Streams, FinishStream(s),
           NEW t \in Streams, Follows(t)
    PROVE  Follows(t)'
  <1>1. /\ DataType /\ CacheType /\ ScanType /\ Opening
        /\ stage = s /\ work["main"].at = "idle" /\ UNCHANGED <<tier, arrived>>
        /\ \A u \in Streams : arrived[u] \in Nat
    BY TypeParts, OutputAssumption DEF OutputInv, FinishStream, Goes
  <1>2. PICK h \in Handlers : h = "main"
    BY DEF Handlers
  <1>3. PICK y : y = held[s]
    OBVIOUS
  <1>4. y \in Buffer /\ Len(y) \in 0..Len(y) /\ Release(h, s, y, Len(y))
    BY <1>1, <1>2, <1>3 DEF FinishStream, SecretFound, MarkSecret, ScanType, Buffer
  <1>5. \A g \in Handlers : ~Waits(g)
    <2>1. stage \notin {"capture", "threw"} /\ ~Waits("main")
      BY <1>1 DEF Streams, Waits
    <2> QED BY <2>1, Waiters
  <1>6. spill \in {"none", "over"}
    BY <1>1, <1>5 DEF Opening, InProgress, CacheType
  <1>7. Moves(h, s, t)
    <2>1. staging # "published"
      BY <1>1 DEF Opening, Streams
    <2> QED BY <1>1, <1>5, <1>6, <2>1 DEF Moves
  <1>8. t = s => /\ Rising(y)
                 /\ ToSet(y) = Pending(s) \cup (arrived[s] + 1)..arrived'[s]
    <2>1. InHand(s) = {}
      BY <1>5, InHandUnits
    <2>2. (arrived[s] + 1)..arrived'[s] = {}
      BY <1>1
    <2> QED BY <1>3, <2>1, <2>2 DEF Pending, Follows, Queue
  <1> QED BY <1>1, <1>4, <1>7, <1>8, ReleaseFollows

\* The steps that only move stored data on, give it up, or wait.
LEMMA RestFollows ==
    ASSUME OutputInv, Awaiting, NEW t \in Streams, Follows(t),
           \/ SpillCreated \/ SpillFails \/ ReplayEnds
           \/ \E h \in Handlers : WriteDone(h) \/ WriteFails(h)
           \/ Settles \/ Settle \/ Publish \/ PublishFails
           \/ \E s \in Streams : FinishStream(s) /\ (secret \/ ~Matching)
           \/ UNCHANGED outputVars
    PROVE  Follows(t)'
  <1>1. DataType /\ CacheType /\ ScanType /\ arrived[t] \in Nat
    BY TypeParts DEF OutputInv
  <1>2. ASSUME UNCHANGED <<tier, arrived, held, truncated, fallback, disk, replay>>,
               \/ work' = work
               \/ \E h \in Handlers : work[h].at = "writing" /\ work' = [work EXCEPT ![h] = Idle],
               disabled => disabled',
               spill' = "none" => spill = "none",
               spill' = "creating" => spill = "creating" /\ chunks' = chunks,
               \/ chunks' = chunks
               \/ chunks' = Nothing /\ (disabled' \/ spill = "creating")
        PROVE  Follows(t)'
    <2>1. WaitsOn(t)
      <3>1. CASE work' = work
        BY <3>1 DEF WaitsOn, Waits
      <3>2. ASSUME NEW h \in Handlers, work[h].at = "writing", work' = [work EXCEPT ![h] = Idle]
            PROVE  WaitsOn(t)
        <4>1. work'[h] = Idle /\ \A g \in Handlers : g # h => work'[g] = work[g]
          BY <1>1, <3>2 DEF CacheType
        <4> QED BY <3>2, <4>1 DEF WaitsOn, Waits, Idle
      <3> QED BY <1>2, <3>1, <3>2
    <2>2. chunks' = Nothing => chunks'[t] = <<>>
      BY DEF Nothing
    <2> QED BY <1>1, <1>2, <2>1, <2>2, Untouched
  <1>3. CASE SpillCreated
    BY <1>2, <1>3 DEF SpillCreated, Still, runVars, scanVars
  <1>4. CASE SpillFails
    BY <1>2, <1>4 DEF SpillFails, Still, runVars, DisableCache
  <1>5. CASE ReplayEnds
    BY <1>2, <1>5 DEF ReplayEnds, Still, runVars, dataVars, scanVars
  <1>6. ASSUME NEW h \in Handlers, WriteDone(h) \/ WriteFails(h) PROVE Follows(t)'
    <2>1. CASE WriteDone(h)
      BY <1>2, <2>1 DEF WriteDone, Rests, Still, runVars, scanVars, cacheVars
    <2>2. CASE WriteFails(h)
      <3>1. spill \notin {"none", "creating"}
        BY <2>2 DEF OutputInv, Opening, WriteFails, Writes
      <3> QED BY <1>2, <2>2, <3>1 DEF WriteFails, Rests, Still, runVars, DisableCache
    <2> QED BY <1>6, <2>1, <2>2
  <1>7. CASE Settles \/ Settle
    BY <1>2, <1>7 DEF Settles, Closes, TerminationFails, CaptureErrors, Settle, Goes, Idles,
       dataVars, scanVars, cacheVars
  <1>8. ASSUME NEW s \in Streams, FinishStream(s), secret \/ ~Matching PROVE Follows(t)'
    BY <1>2, <1>8 DEF FinishStream, Goes, dataVars, scanVars, cacheVars
  <1>9. CASE Publish
    BY <1>2, <1>9 DEF Publish, Goes, dataVars, scanVars
  <1>10. CASE PublishFails
    <2>1. spill \notin {"none", "creating"} \/ (spill = "none" /\ disabled)
      BY <1>10, <1>1 DEF OutputInv, Opening, PublishFails, InProgress, CacheType
    <2> QED BY <1>2, <1>10, <2>1 DEF PublishFails, Goes, DisableCache
  <1>11. CASE UNCHANGED outputVars
    BY <1>2, <1>11 DEF outputVars, dataVars, scanVars, cacheVars, runVars
  <1> QED BY <1>3, <1>4, <1>5, <1>6, <1>7, <1>8, <1>9, <1>10, <1>11

LEMMA ReplayFollows ==
    ASSUME OutputInv, Awaiting, ~secret, ReplayWrite, NEW t \in Streams, Follows(t)
    PROVE  Follows(t)'
  <1>1. PICK r \in Streams : r = NextReplayed
    BY DEF NextReplayed, Streams
  <1>2. PICK h \in Handlers : h = "spill"
    BY DEF Handlers
  <1>3. PICK buf : buf = Head(replay[r])
    OBVIOUS
  <1>4. /\ DataType /\ CacheType /\ ScanType /\ Opening /\ arrived[t] \in Nat
        /\ spill = "replaying" /\ replay[r] # <<>> /\ replay' = [replay EXCEPT ![r] = Tail(@)]
        /\ UNCHANGED <<tier, arrived, held>>
        /\ WriteAccepted(h, r, buf, FALSE) /\ work[h].at = "idle"
    <2>1. DataType /\ CacheType /\ ScanType /\ Opening
      BY TypeParts DEF OutputInv
    <2>2. arrived[t] \in Nat
      <3>1. MaxChunks \in Nat
        BY OutputAssumption
      <3>2. arrived \in [Streams -> 0..MaxChunks]
        BY DEF OutputInv, OutputTypeOK
      <3> QED BY <3>1, <3>2
    <2>3. /\ spill = "replaying" /\ replay[r] # <<>> /\ replay' = [replay EXCEPT ![r] = Tail(@)]
          /\ UNCHANGED <<tier, arrived, held>>
          /\ WriteAccepted(h, r, buf, FALSE) /\ work[h].at = "idle"
      BY <1>1, <1>2, <1>3 DEF ReplayWrite, Still, runVars
    <2> QED BY <2>1, <2>2, <2>3
  <1>5. replay' \in [Streams -> Seq(Buffer)] /\ buf \in Buffer
    BY <1>3, <1>4, ReplayShrinks
  <1>6. PICK acc : acc = First(Room(r), buf)
    OBVIOUS
  <1>7. /\ acc \in Buffer /\ ToSet(acc) \subseteq ToSet(buf) /\ (Rising(buf) => Rising(acc))
        /\ r \in truncated' \/ acc = buf
        /\ truncated \subseteq truncated'
    BY <1>4, <1>5, <1>6, Accepted DEF WriteAccepted
  <1>8. /\ UNCHANGED <<fallback, chunks, disabled, spill>>
        /\ \/ acc = <<>> /\ work' = [work EXCEPT ![h] = Idle] /\ disk' = disk
           \/ staging # "open" /\ work' = [work EXCEPT ![h] = Idle] /\ disk' = disk
           \/ /\ work' = [work EXCEPT ![h] = [at |-> "writing", on |-> r, data |-> acc, room |-> Room(r)]]
              /\ disk' = [disk EXCEPT ![r] = @ \o acc]
    BY <1>4, <1>6 DEF WriteAccepted, Rests, Awaits
  <1>9. staging # "open" => disabled
    BY <1>4 DEF Awaiting, Opening, InProgress
  <1>10. WaitsOn(t)
    <2>1. ~Waits(h)' /\ ~Waits(h) /\ \A g \in Handlers : g # h => work'[g] = work[g]
      BY <1>4, <1>8 DEF CacheType, Waits, Idle
    <2> QED BY <2>1 DEF WaitsOn, Waits
  <1>11. CASE t = r
    <2>1. /\ disk'[t] = disk[t] \o acc \/ (disk'[t] = disk[t] /\ (acc = <<>> \/ disabled'))
          /\ replay'[t] = Tail(replay[t])
      BY <1>4, <1>8, <1>9, <1>11 DEF CacheType
    <2>2. Rising(acc)
      BY <1>3, <1>4, <1>7, <1>11, InOrderTail DEF Follows, Stored, CacheType
    <2> QED BY <1>3, <1>4, <1>7, <1>8, <1>10, <1>11, <2>1, <2>2, Replays
  <1>12. CASE t # r
    <2>1. disk'[t] = disk[t] /\ replay'[t] = replay[t]
      BY <1>4, <1>8, <1>12 DEF CacheType
    <2> QED BY <1>4, <1>7, <1>8, <1>10, <2>1, Untouched
  <1> QED BY <1>11, <1>12

\* Every stream that has not crossed the spill goes on in order.
Followed == ~secret /\ ~early => \A s \in Streams \ crossed : Follows(s)

LEMMA FollowedNext ==
    ASSUME OutputInv, Awaiting, Followed, [OutputNext]_outputVars
    PROVE  Followed'
  <1>1. SUFFICES ASSUME ~secret', ~early', NEW t \in Streams, t \notin crossed'
                 PROVE  Follows(t)'
    BY DEF Followed
  <1>2. crossed \subseteq crossed' /\ (early => early')
    <2>1. ASSUME NEW s \in Streams, Take(s) PROVE crossed \subseteq crossed' /\ (early => early')
      BY <2>1 DEF Take, runVars
    <2>2. ASSUME NEW s \in Streams, FinishStream(s) PROVE crossed \subseteq crossed' /\ (early => early')
      BY <2>2 DEF FinishStream
    <2>3. ASSUME NEW h \in Handlers, Works(h) PROVE crossed \subseteq crossed' /\ (early => early')
      <3>1. Still
        BY <2>3 DEF Works, SpillJoined, WriteDone, WriteFails
      <3> QED BY <3>1 DEF Still, runVars
    <2>4. CASE Spills
      <3>1. Still
        BY <2>4 DEF Spills, SpillCreated, SpillFails, ReplayWrite, ReplayEnds
      <3> QED BY <3>1 DEF Still, runVars
    <2>5. CASE Settles \/ Settle \/ Publish \/ PublishFails
      BY <2>5 DEF Settles, Closes, TerminationFails, CaptureErrors, Settle, Publish,
         PublishFails, Idles
    <2>6. CASE UNCHANGED outputVars
      BY <2>6 DEF outputVars, runVars
    <2> QED BY <2>1, <2>2, <2>3, <2>4, <2>5, <2>6 DEF OutputNext, Finishes
  <1>3. secret => secret'
    <2>1. ASSUME NEW h \in Handlers, NEW s \in Streams, Outcome(h, s) PROVE secret => secret'
      BY <2>1 DEF Outcome, Quiet, Alarmed, Written, Joined
    <2>2. ASSUME NEW s \in Streams, Take(s) PROVE secret => secret'
      <3> SUFFICES ASSUME secret PROVE secret'
        OBVIOUS
      <3> QED BY <2>2 DEF Take, Scan, scanVars
    <2>3. ASSUME NEW s \in Streams, FinishStream(s) PROVE secret => secret'
      BY <2>3 DEF FinishStream, scanVars
    <2>4. ASSUME NEW h \in Handlers, Works(h) PROVE secret => secret'
      <3>1. CASE SpillJoined(h)
        BY <2>1, <2>4, <3>1, SpillJoinedOutcome
      <3>2. CASE WriteDone(h) \/ WriteFails(h)
        BY <3>2 DEF WriteDone, WriteFails, DisableCache, scanVars
      <3> QED BY <2>4, <3>1, <3>2 DEF Works
    <2>5. CASE Spills
      BY <2>5 DEF Spills, SpillCreated, SpillFails, ReplayWrite, ReplayEnds, WriteAccepted,
         DisableCache,
         scanVars
    <2>6. CASE Settles \/ Settle \/ Publish \/ PublishFails
      BY <2>6 DEF Settles, Closes, TerminationFails, CaptureErrors, Settle, Publish,
         PublishFails, Idles,
         scanVars, DisableCache
    <2>7. CASE UNCHANGED outputVars
      BY <2>7 DEF outputVars, scanVars
    <2> QED BY <2>2, <2>3, <2>4, <2>5, <2>6, <2>7 DEF OutputNext, Finishes
  <1>4. ~secret /\ ~early /\ Follows(t)
    BY <1>1, <1>2, <1>3 DEF Followed
  <1>5. ASSUME NEW s \in Streams, Take(s) PROVE Follows(t)'
    BY <1>1, <1>4, <1>5, TakeFollows
  <1>6. ASSUME NEW s \in Streams, FinishStream(s) PROVE Follows(t)'
    BY <1>1, <1>4, <1>6, FinishFollows, RestFollows
  <1>7. ASSUME NEW h \in Handlers, Works(h) PROVE Follows(t)'
    <2>1. CASE SpillJoined(h)
      BY <1>1, <1>4, <2>1, SpillJoinedFollows
    <2>2. CASE WriteDone(h) \/ WriteFails(h)
      BY <1>4, <2>2, RestFollows
    <2> QED BY <1>7, <2>1, <2>2 DEF Works
  <1>8. CASE Spills
    BY <1>4, <1>8, ReplayFollows, RestFollows DEF Spills
  <1>9. CASE Settles \/ Settle \/ Publish \/ PublishFails \/ UNCHANGED outputVars
    BY <1>4, <1>9, RestFollows
  <1> QED BY <1>5, <1>6, <1>7, <1>8, <1>9 DEF OutputNext, Finishes

\* What a handler does to its buffer leaves the waiting in order.
LEMMA AwaitingScans ==
    ASSUME OutputInv, Awaiting, NEW h \in Handlers, h # "spill", NEW s \in Streams, Outcome(h, s),
           UNCHANGED <<tier, early>>, staging # "published",
           stage' = stage \/ stage' \notin {"capture", "threw"},
           h = "main" => stage' \notin {"capture", "threw"},
           h = "main" /\ ~early => tier = "cache" \/ spill = "over",
           h \in Streams => s = h, HeldFits'
    PROVE  Awaiting'
  <1>1. /\ Opening /\ CacheType
        /\ \A g \in Handlers : g # h => work'[g] = work[g]
        /\ disabled' = disabled
        /\ Quiet(h, s) \/ Alarmed(h) \/ Written(h, s) \/ Joined(h, s)
    BY TypeParts DEF OutputInv, Outcome
  <1>2. "main" \in Handlers /\ Streams \subseteq Handlers
    BY DEF Handlers
  <1>3. ASSUME ~Waits(h)'
        PROVE  /\ stage' \in {"capture", "threw"} => ~Waits("main")'
               /\ ~early' /\ Waits("main")' => tier' = "cache"
               /\ \A g \in Streams : Waits(g)' => work'[g].on = g
               /\ (\A g \in Handlers : ~Waits(g)) => \A g \in Handlers : ~Waits(g)'
    BY <1>1, <1>2, <1>3 DEF Awaiting, Waits
  <1>4. CASE Quiet(h, s)
    <2>1. ~Waits(h)' /\ UNCHANGED <<secret, spill, replay, staging, disk>>
      BY <1>4 DEF Quiet, Waits
    <2>2. spill \in {"replaying", "over"} => chunks' = chunks
      BY <1>4 DEF Quiet, Awaiting
    <2> QED BY <1>1, <1>3, <2>1, <2>2 DEF Awaiting
  <1>5. CASE Alarmed(h)
    <2>1. ~Waits(h)' /\ secret' = TRUE /\ chunks' = Nothing /\ UNCHANGED <<replay, disk>>
          /\ spill' \in {spill, "over"}
      BY <1>5 DEF Alarmed, Waits
    <2> QED BY <1>3, <2>1 DEF Awaiting
  <1>6. CASE Written(h, s)
    <2>1. ~Waits(h)' /\ UNCHANGED <<chunks, secret, spill, replay, staging>> /\ staging = "open"
      BY <1>6 DEF Written, Waits
    <2>2. spill # "none"
      BY <1>1, <2>1 DEF Opening
    <2> QED BY <1>1, <1>3, <2>1, <2>2 DEF Awaiting
  <1>7. CASE Joined(h, s)
    <2>1. /\ ~secret /\ ~disabled /\ staging # "open" /\ work'[h].on = s
          /\ spill' = IF spill = "none" THEN "creating" ELSE spill
      BY <1>7 DEF Joined
    <2>2. spill \in {"none", "creating"} /\ spill' = "creating"
      BY <1>1, <2>1 DEF Awaiting, CacheType
    <2>3. stage' \in {"capture", "threw"} => ~Waits("main")'
      BY <1>1, <1>2 DEF Awaiting, Waits
    <2>4. ~early' /\ Waits("main")' => tier' = "cache"
      BY <1>1, <1>2, <2>2 DEF Awaiting, Waits
    <2>5. \A g \in Streams : Waits(g)' => work'[g].on = g
      BY <1>1, <1>2, <2>1 DEF Awaiting, Waits
    <2> QED BY <2>2, <2>3, <2>4, <2>5 DEF Awaiting
  <1> QED BY <1>1, <1>4, <1>5, <1>6, <1>7

\* A scan holds nothing back before there is a matcher.
LEMMA ScanHolds ==
    ASSUME OutputInv, Awaiting, NEW h \in Handlers, NEW s \in Streams, NEW buf \in Buffer,
           Scan(h, s, buf), UNCHANGED tier
    PROVE  tier' = "off" \/ (tier' = "write" /\ spill' = "none") => held' = Nothing
  <1>1. Outcome(h, s) /\ Opening /\ CacheType
    BY ScanOutcome, TypeParts DEF OutputInv
  <1>2. spill' = "none" => spill = "none"
    BY <1>1 DEF Outcome, Quiet, Alarmed, Written, Joined
  <1>3. SUFFICES ASSUME tier = "off" \/ (tier = "write" /\ spill' = "none") PROVE held' = held
    BY <1>2 DEF Awaiting, HeldFits
  <1>4. ~Matching
    BY <1>2, <1>3 DEF Matching
  <1>5. CASE secret
    BY <1>5 DEF Scan, scanVars
  <1>6. CASE ~secret /\ tier = "write" /\ ~disabled /\ staging # "open" /\ Overflows(s, buf)
    <2>1. ScanMemory(h, s, buf)
      BY <1>4, <1>6 DEF Scan
    <2>2. spill' \in {"over", "creating"}
      BY <2>1 DEF ScanMemory
    <2> QED BY <1>3, <1>6, <2>2
  <1>7. CASE ~secret /\ ~(tier = "write" /\ ~disabled /\ staging # "open" /\ Overflows(s, buf))
    BY <1>4, <1>7 DEF Scan
  <1> QED BY <1>5, <1>6, <1>7

LEMMA TakeAwaits ==
    ASSUME OutputInv, Awaiting, NEW s \in Streams, Take(s)
    PROVE  Awaiting'
  <1>1. /\ Opening /\ arrived \in [Streams -> 0..MaxChunks] /\ MaxChunks \in Nat
        /\ stage = "capture" /\ UNCHANGED <<tier, stage, early>> /\ arrived[s] < MaxChunks
        /\ s \in Handlers /\ s # "spill" /\ s # "main"
    BY TypeParts, OutputAssumption DEF OutputInv, Take, runVars, Streams, Handlers
  <1>2. PICK buf : buf = <<arrived[s] + 1>>
    OBVIOUS
  <1>3. buf \in Buffer /\ Scan(s, s, buf)
    BY <1>1, <1>2 DEF Take, Buffer, Units
  <1>4. Outcome(s, s) /\ HeldFits'
    BY <1>1, <1>3, ScanOutcome, ScanHolds DEF HeldFits
  <1>5. staging # "published"
    BY <1>1 DEF Opening
  <1> QED BY <1>1, <1>4, <1>5, AwaitingScans

LEMMA SpillJoinedAwaits ==
    ASSUME OutputInv, Awaiting, NEW h \in Handlers, SpillJoined(h)
    PROVE  Awaiting'
  <1>1. /\ DataType /\ CacheType /\ ScanType /\ Opening /\ tier \in {"off", "write", "cache"}
        /\ Waits(h) /\ spill = "over" /\ UNCHANGED <<tier, stage, early>>
    <2>1. OutputTypeOK /\ Opening
      BY DEF OutputInv
    <2>2. Waits(h) /\ spill = "over" /\ UNCHANGED <<tier, stage, early>>
      BY DEF SpillJoined, Joins, Waits, Still, runVars
    <2> QED BY <2>1, <2>2, TypeParts, OutputAssumption
  <1>2. PICK s \in Streams : s = work[h].on
    BY <1>1 DEF CacheType, Awaited
  <1>3. PICK buf \in Buffer : buf = work[h].data
    BY <1>1 DEF CacheType, Awaited
  <1>4. h # "spill" /\ (h = "main" => stage \notin {"capture", "threw"}) /\ (h \in Streams => s = h)
    BY <1>1, <1>2 DEF Opening, Awaiting
  <1>5. staging # "published"
    BY <1>1 DEF Opening
  <1>6. Outcome(h, s)
    BY <1>2, SpillJoinedOutcome
  <1>7. ~early /\ stage \notin {"capture", "threw"} => h = "main" /\ tier = "cache"
    <2> SUFFICES ASSUME ~early, stage \notin {"capture", "threw"} PROVE h = "main" /\ tier = "cache"
      OBVIOUS
    <2>1. h \notin Streams
      BY <1>1 DEF Opening, Waits
    <2> QED BY <1>1, <1>4, <2>1 DEF Handlers, Awaiting
  <1>8. HeldFits'
    <2>1. CASE secret
      <3>1. secret' = secret /\ held' = held /\ spill' = spill
        BY <2>1 DEF SpillJoined, scanVars, cacheVars
      <3> QED BY <1>1, <3>1 DEF Awaiting, HeldFits
    <2>2. CASE ~secret /\ tier = "write"
      <3>1. Scan(h, s, buf)
        BY <1>2, <1>3, <2>2 DEF SpillJoined
      <3>2. early \/ stage \in {"capture", "threw"}
        BY <1>7, <2>2
      <3> QED BY <1>1, <3>1, <3>2, ScanHolds DEF HeldFits
    <2>3. CASE ~secret /\ tier # "write"
      <3>1. held' = held
        BY <2>3 DEF SpillJoined
      <3> QED BY <1>1, <2>3, <3>1 DEF Awaiting, HeldFits
    <2> QED BY <2>1, <2>2, <2>3
  <1> QED BY <1>1, <1>2, <1>4, <1>5, <1>6, <1>7, <1>8, AwaitingScans

\* The matcher of a stream that ends gives all that it holds.
LEMMA FinishAwaits ==
    ASSUME OutputInv, Awaiting, NEW s \in Streams, FinishStream(s), ~secret, Matching
    PROVE  Awaiting'
  <1>1. /\ DataType /\ CacheType /\ ScanType /\ Opening
        /\ stage = s /\ work["main"].at = "idle" /\ UNCHANGED <<tier, early>>
    BY TypeParts DEF OutputInv, FinishStream, Goes
  <1>2. PICK h \in Handlers : h = "main"
    BY DEF Handlers
  <1>3. PICK y : y = held[s]
    OBVIOUS
  <1>4. y \in Buffer /\ Len(y) \in 0..Len(y) /\ Len(y) \in Nat
    BY <1>1, <1>3 DEF ScanType, Buffer
  <1>5. \/ SecretFound(h) /\ stage' = "settle"
        \/ Release(h, s, y, Len(y)) /\ stage' = After(s)
    BY <1>2, <1>3 DEF FinishStream, Goes
  <1>6. Matching => (spill = "none" => tier = "cache")
    BY DEF Matching
  <1>7. Outcome(h, s)
    <2>1. CASE SecretFound(h)
      BY <1>1, <2>1, SecretOutcome DEF SecretFound
    <2>2. CASE Release(h, s, y, Len(y))
      BY <1>1, <1>4, <1>6, <2>2, ReleaseOutcome
    <2> QED BY <1>5, <2>1, <2>2
  <1>8. stage' \notin {"capture", "threw", "stdout"} /\ staging # "published"
    BY <1>1, <1>5 DEF After, Opening, Streams
  <1>9. ~early => tier = "cache" \/ spill = "over"
    <2> SUFFICES ASSUME ~early PROVE tier = "cache" \/ spill = "over"
      OBVIOUS
    <2>1. \A g \in Handlers : ~Waits(g)
      BY <1>1, Waiters DEF Streams, Waits
    <2> QED BY <1>1, <2>1 DEF Matching, Opening, InProgress, CacheType
  <1>10. spill' = "none" => spill = "none"
    BY <1>7 DEF Outcome, Quiet, Alarmed, Written, Joined
  <1>11. HeldFits'
    <2>1. tier' = "off" \/ (tier' = "write" /\ spill' = "none") => held' = Nothing
      BY <1>1, <1>10 DEF Matching
    <2>2. CASE SecretFound(h)
      <3>1. secret'
        BY <2>2 DEF SecretFound, MarkSecret
      <3> QED BY <2>1, <3>1 DEF HeldFits
    <2>3. CASE Release(h, s, y, Len(y)) /\ stage' = After(s)
      <3>1. Rest(Len(y), y) = <<>>
        BY <1>4 DEF Rest, Buffer
      <3>2. held' = [held EXCEPT ![s] = <<>>]
        BY <2>3, <3>1 DEF Release
      <3>3. held'[s] = <<>> /\ \A t \in Streams : t # s => held'[t] = held[t]
        BY <1>1, <3>2 DEF ScanType
      <3>4. CASE s = "stdout"
        BY <2>1, <2>3, <3>3, <3>4 DEF After, HeldFits
      <3>5. CASE s = "stderr"
        <4>1. ~early' => held'["stdout"] = <<>>
          BY <1>1, <3>3, <3>5 DEF Awaiting, HeldFits, Streams
        <4> QED BY <2>1, <3>3, <3>5, <4>1 DEF HeldFits
      <3> QED BY <3>4, <3>5 DEF Streams
    <2> QED BY <1>5, <2>2, <2>3
  <1> QED BY <1>1, <1>2, <1>7, <1>8, <1>9, <1>11, AwaitingScans DEF Streams

LEMMA AwaitingInit == ASSUME OutputInit PROVE Awaiting
  <1>1. /\ held = Nothing /\ spill = "none" /\ replay = Nothing /\ disk = Nothing
        /\ \A h \in Handlers : work[h].at = "idle"
        /\ stage = "capture"
    BY DEF OutputInit, Idle
  <1>2. \A h \in Handlers : ~Waits(h)
    BY <1>1 DEF Waits
  <1> QED BY <1>1, <1>2 DEF Awaiting, HeldFits, Handlers

LEMMA FollowedInit == ASSUME OutputInit PROVE Followed
  <1> SUFFICES ASSUME NEW s \in Streams PROVE Follows(s)
    BY DEF Followed
  <1>1. /\ held[s] = <<>> /\ replay[s] = <<>> /\ disk[s] = <<>> /\ chunks[s] = <<>>
        /\ fallback[s] = <<>> /\ arrived[s] = 0
        /\ spill = "none" /\ \A h \in Handlers : ~Waits(h)
    BY DEF OutputInit, Nothing, Idle, Waits
  <1>2. ToSet(<<>>) = {} /\ All(<<>>) = {} /\ Rising(<<>>) /\ InOrder(<<>>)
    <2>1. <<>> \in Buffer
      BY DEF Buffer
    <2> QED BY <2>1, Elements, ElementsOfAll DEF Rising, InOrder
  <1>3. InHand(s) = {}
    BY <1>1, InHandUnits
  <1>4. Pending(s) = {} /\ 1..arrived[s] = {}
    BY <1>1, <1>2, <1>3 DEF Pending
  <1> QED BY <1>1, <1>2, <1>3, <1>4 DEF Follows, Queue, Stored, Complete, Before

\* The steps of the spill, of the writes and of the stages.
LEMMA RestAwaits ==
    ASSUME OutputInv, Awaiting,
           \/ Spills \/ \E h \in Handlers : WriteDone(h) \/ WriteFails(h)
           \/ Settles \/ Settle \/ Publish \/ PublishFails
           \/ \E s \in Streams : FinishStream(s) /\ (secret \/ ~Matching)
           \/ UNCHANGED outputVars
    PROVE  Awaiting'
  <1>1. /\ Opening /\ DataType /\ CacheType /\ "main" \in Handlers /\ Streams \subseteq Handlers
        /\ tier \in {"off", "write", "cache"}
    BY TypeParts, OutputAssumption DEF OutputInv, Handlers
  \* Who waits goes on waiting, for the same stream, and nobody else does.
  <1>2. ASSUME UNCHANGED <<tier, work>>
        PROVE  /\ \A h \in Handlers : Waits(h)' <=> Waits(h)
               /\ \A h \in Handlers : work'[h] = work[h]
    BY <1>2 DEF Waits
  <1>3. ASSUME NEW h \in Handlers, work[h].at # "spilling", work' = [work EXCEPT ![h] = Idle]
        PROVE  /\ \A g \in Handlers : Waits(g)' <=> Waits(g)
               /\ \A g \in Handlers : Waits(g) => work'[g] = work[g]
    BY <1>1, <1>3 DEF Waits, Idle, CacheType
  <1>4. CASE SpillCreated
    <2>1. /\ UNCHANGED <<tier, work, stage, early, held, secret, disabled, replay, disk>>
          /\ chunks' = Nothing /\ staging' = "open" /\ spill = "creating"
          /\ spill' = "replaying"
      BY <1>4 DEF SpillCreated, Still, runVars, scanVars
    <2> QED BY <1>1, <1>2, <2>1 DEF Awaiting, HeldFits
  <1>5. CASE SpillFails
    <2>1. /\ UNCHANGED <<tier, work, stage, early, held, secret, replay, disk>>
          /\ spill = "creating" /\ spill' = "over" /\ disabled' = (disabled \/ ~secret)
      BY <1>5 DEF SpillFails, DisableCache, Still, runVars
    <2> QED BY <1>1, <1>2, <2>1 DEF Awaiting, HeldFits
  <1>6. CASE ReplayWrite
    <2>1. /\ UNCHANGED <<tier, stage, early, held, secret, disabled, chunks, spill, staging>>
          /\ spill = "replaying"
      BY <1>6 DEF ReplayWrite, WriteAccepted, Still, runVars, dataVars
    <2>2. /\ \A h \in Handlers : Waits(h)' <=> Waits(h)
          /\ \A h \in Handlers : Waits(h) => work'[h] = work[h]
      <3>1. PICK h \in Handlers : h = "spill"
        BY DEF Handlers
      <3>2. work[h].at = "idle"
        BY <1>6, <3>1 DEF ReplayWrite
      <3>3. \/ work' = work \/ work' = [work EXCEPT ![h] = Idle]
            \/ \E next : next.at = "writing" /\ work' = [work EXCEPT ![h] = next]
        <4>1. CASE secret
          BY <1>6, <4>1 DEF ReplayWrite
        <4>2. ASSUME NEW r, NEW buf, WriteAccepted(h, r, buf, FALSE)
              PROVE  \/ work' = [work EXCEPT ![h] = Idle]
                     \/ \E next : next.at = "writing" /\ work' = [work EXCEPT ![h] = next]
          <5>1. PICK next : next = [at |-> "writing", on |-> r, data |-> First(Room(r), buf),
                                    room |-> Room(r)]
            OBVIOUS
          <5>2. next.at = "writing"
            BY <5>1
          <5> QED BY <4>2, <5>1, <5>2 DEF WriteAccepted, Rests, Awaits
        <4> QED BY <1>6, <3>1, <4>1, <4>2 DEF ReplayWrite
      <3>4. CASE work' = work
        BY <3>4 DEF Waits
      <3>5. CASE work' = [work EXCEPT ![h] = Idle]
        BY <1>3, <3>2, <3>5
      <3>6. ASSUME NEW next, next.at = "writing", work' = [work EXCEPT ![h] = next]
            PROVE  /\ \A g \in Handlers : Waits(g)' <=> Waits(g)
                   /\ \A g \in Handlers : Waits(g) => work'[g] = work[g]
        BY <1>1, <3>2, <3>6 DEF Waits, CacheType
      <3> QED BY <3>3, <3>4, <3>5, <3>6
    <2> QED BY <1>1, <2>1, <2>2 DEF Awaiting, HeldFits
  <1>7. CASE ReplayEnds
    <2>1. /\ UNCHANGED <<tier, stage, early, held, secret, disabled, chunks, replay, staging, disk, work>>
          /\ spill = "replaying" /\ spill' = "over" /\ \A s \in Streams : replay[s] = <<>>
      BY <1>7 DEF ReplayEnds, Still, runVars, dataVars, scanVars
    <2>2. replay = Nothing
      BY <1>1, <2>1 DEF CacheType, Nothing
    <2> QED BY <1>1, <1>2, <2>1, <2>2 DEF Awaiting, HeldFits
  <1>8. ASSUME NEW h \in Handlers, WriteDone(h) \/ WriteFails(h) PROVE Awaiting'
    <2>1. /\ UNCHANGED <<tier, stage, early, held, secret, spill, replay, disk>>
          /\ work[h].at # "spilling" /\ work' = [work EXCEPT ![h] = Idle]
          /\ \/ UNCHANGED <<chunks, disabled, staging>>
             \/ DisableCache
      <3>1. CASE WriteDone(h)
        BY <3>1 DEF WriteDone, Rests, Still, runVars, scanVars, cacheVars
      <3>2. CASE WriteFails(h)
        <4>1. /\ UNCHANGED <<tier, stage, early>>
              /\ work[h].at # "spilling" /\ work' = [work EXCEPT ![h] = Idle]
          BY <3>2 DEF WriteFails, Rests, Still, runVars
        <4>2. UNCHANGED <<held, secret, spill, replay, disk>> /\ DisableCache
          BY <3>2 DEF WriteFails, DisableCache
        <4> QED BY <4>1, <4>2
      <3> QED BY <1>8, <3>1, <3>2
    <2>2. /\ \A g \in Handlers : Waits(g)' <=> Waits(g)
          /\ \A g \in Handlers : Waits(g) => work'[g] = work[g]
      BY <1>3, <2>1
    <2>3. \/ UNCHANGED <<chunks, disabled, staging>>
          \/ disabled' = (disabled \/ ~secret) /\ chunks' \in {chunks, Nothing}
      BY <2>1 DEF DisableCache
    <2> QED BY <1>1, <2>1, <2>2, <2>3 DEF Awaiting, HeldFits
  <1>9. CASE Settles \/ Settle
    <2>1. UNCHANGED <<tier, work, held, secret, disabled, spill, replay, chunks, disk, staging>>
      BY <1>9 DEF Settles, Closes, TerminationFails, CaptureErrors, Settle, Goes, Idles,
         dataVars, scanVars, cacheVars
    <2>2. /\ early => early'
          /\ \/ early' /\ stage' = "stdout"
             \/ early' = early /\ stage = "capture" /\ stage' \in {"stdout", "threw"}
             \/ early' = early /\ stage = "settle" /\ stage' \in {"publish", "returned"}
      BY <1>9 DEF Settles, Closes, TerminationFails, CaptureErrors, Settle, Goes
    <2> QED BY <1>1, <1>2, <2>1, <2>2 DEF Awaiting, HeldFits
  <1>10. ASSUME NEW s \in Streams, FinishStream(s), secret \/ ~Matching PROVE Awaiting'
    <2>1. /\ UNCHANGED <<tier, work, held, secret, disabled, spill, replay, chunks, disk, staging, early>>
          /\ stage' = "settle"
      BY <1>10 DEF FinishStream, Goes, dataVars, scanVars, cacheVars, SecretFound, Release
    <2>2. ~Matching => held = Nothing
      BY <1>1 DEF Matching, Awaiting, HeldFits
    <2>3. secret \/ held = Nothing
      BY <1>10, <2>2
    <2> QED BY <1>1, <1>2, <2>1, <2>3 DEF Awaiting, HeldFits, Nothing, Streams
  <1>11. CASE Publish
    <2>1. /\ UNCHANGED <<tier, work, held, secret, disabled, spill, replay, chunks, disk, early>>
          /\ staging' = "published" /\ stage' = "returned" /\ stage = "publish"
      BY <1>11 DEF Publish, Goes, dataVars, scanVars
    <2> QED BY <1>1, <1>2, <2>1 DEF Awaiting, HeldFits
  <1>12. CASE PublishFails
    <2>1. /\ UNCHANGED <<tier, work, held, secret, spill, replay, disk, early>>
          /\ stage' = "returned" /\ stage = "publish" /\ disabled' = (disabled \/ ~secret)
          /\ chunks' \in {chunks, Nothing}
      BY <1>12 DEF PublishFails, DisableCache, Goes
    <2> QED BY <1>1, <1>2, <2>1 DEF Awaiting, HeldFits
  <1>13. CASE UNCHANGED outputVars
    <2>1. UNCHANGED <<tier, stage, work, held, secret, disabled, spill, replay, chunks, disk, early, staging>>
      BY <1>13 DEF outputVars, dataVars, scanVars, cacheVars, runVars
    <2> QED BY <1>1, <1>2, <2>1 DEF Awaiting, HeldFits
  <1> QED BY <1>4, <1>5, <1>6, <1>7, <1>8, <1>9, <1>10, <1>11, <1>12, <1>13 DEF Spills

LEMMA AwaitingNext ==
    ASSUME OutputInv, Awaiting, [OutputNext]_outputVars PROVE Awaiting'
  <1>1. ASSUME NEW s \in Streams, FinishStream(s) PROVE Awaiting'
    BY <1>1, FinishAwaits, RestAwaits
  <1>2. ASSUME NEW h \in Handlers, Works(h) PROVE Awaiting'
    BY <1>2, SpillJoinedAwaits, RestAwaits DEF Works
  <1> QED BY <1>1, <1>2, TakeAwaits, RestAwaits DEF OutputNext, Finishes

\* A stream that has been followed to the end is returned faithfully.
LEMMA ReturnedFaithful ==
    ASSUME OutputInv, Awaiting, Returned, ~early, NEW s \in Streams, Follows(s)
    PROVE  Faithful(s)
  <1>1. /\ Opening /\ DataType /\ CacheType /\ arrived[s] \in Nat
        /\ stage = "returned" /\ ~secret
    BY TypeParts, OutputAssumption DEF OutputInv, Returned
  <1>2. /\ spill \in {"none", "over"} /\ \A h \in Handlers : ~Waits(h)
        /\ staging # "open"
    BY <1>1 DEF Opening, InProgress, CacheType
  <1>3. ToSet(<<>>) = {} /\ All(<<>>) = {}
    <2>1. <<>> \in Buffer
      BY DEF Buffer
    <2> QED BY <2>1, Elements, ElementsOfAll
  <1>4. Pending(s) = {}
    <2>1. InHand(s) = {}
      BY <1>2, InHandUnits
    <2>2. held[s] = <<>>
      BY <1>1 DEF Awaiting, HeldFits, Streams
    <2> QED BY <1>3, <2>1, <2>2 DEF Pending
  <1>5. PICK result : result = Result(s)
    OBVIOUS
  <1>6. SUFFICES /\ result \in Buffer /\ Rising(result)
                 /\ Flagged(s) \/ ToSet(result) = 1..arrived[s]
    <2>1. result \in Buffer => DOMAIN result = 1..Len(result)
      BY DEF Buffer
    <2> QED BY <1>5, <2>1 DEF Faithful, Rising
  \* A preview, or what is in memory, has no gap if it is not flagged.
  <1>7. ASSUME result \in Buffer, Rising(result), ToSet(result) \subseteq 1..arrived[s],
               disabled \/ staging # "published"
        PROVE  Flagged(s) \/ ToSet(result) = 1..arrived[s]
    <2> SUFFICES ASSUME ~Flagged(s) PROVE ToSet(result) = 1..arrived[s]
      OBVIOUS
    <2>1. Len(result) \in Nat /\ arrived[s] <= Len(result)
      BY <1>1, <1>5, <1>7 DEF Flagged, Buffer
    <2> QED BY <1>1, <1>7, <2>1, FullBuffer
  <1>8. CASE disabled
    <2>1. result = fallback[s]
      BY <1>5, <1>8 DEF Result
    <2>2. result \in Buffer /\ Rising(result) /\ ToSet(result) \subseteq 1..arrived[s]
      BY <1>1, <2>1 DEF Follows, Stored, DataType
    <2> QED BY <1>7, <1>8, <2>2
  <1>9. CASE ~disabled /\ staging = "published"
    <2>1. result = disk[s]
      BY <1>5, <1>9 DEF Result
    <2>2. spill = "over" /\ replay[s] = <<>> /\ chunks[s] = <<>>
      BY <1>1, <1>2, <1>9 DEF Opening, Awaiting, Nothing
    <2>3. result \in Buffer /\ Rising(result) /\ ToSet(result) \subseteq 1..arrived[s]
      BY <1>1, <2>1 DEF Follows, Stored, CacheType
    <2>4. s \notin truncated => 1..arrived[s] \subseteq ToSet(result)
      BY <1>3, <1>4, <1>9, <2>1, <2>2 DEF Follows, Complete
    <2> QED BY <2>3, <2>4 DEF Flagged
  <1>10. CASE ~disabled /\ staging # "published"
    <2>1. result = FlattenSeq(chunks[s])
      BY <1>5, <1>10 DEF Result, InMemory
    <2>2. spill = "none"
      BY <1>1, <1>2, <1>10 DEF Awaiting
    <2>3. chunks[s] \in Seq(Buffer) /\ InOrder(chunks[s]) /\ All(chunks[s]) \subseteq 1..arrived[s]
      BY <1>1, <2>2 DEF Follows, Stored, DataType
    <2>4. result \in Buffer /\ Rising(result) /\ ToSet(result) \subseteq 1..arrived[s]
      BY <2>1, <2>3, FlattenInOrder
    <2> QED BY <1>7, <1>10, <2>4
  <1> QED BY <1>8, <1>9, <1>10

LEMMA OutputFollowed == OutputSpec => [](OutputInv /\ Awaiting /\ Followed)
  <1>1. OutputInit => OutputInv /\ Awaiting /\ Followed
    BY OutputInitInv, AwaitingInit, FollowedInit
  <1>2. OutputInv /\ Awaiting /\ Followed /\ [OutputNext]_outputVars =>
          (OutputInv /\ Awaiting /\ Followed)'
    BY OutputNextInv, AwaitingNext, FollowedNext
  <1> QED BY <1>1, <1>2, PTL DEF OutputSpec

\* The output of a command comes back in its order, and without a gap that is
\* not flagged, of every stream that had no chunk handled during the spill:
\* in memory, spilled, or as a preview (runCommandOutput).
THEOREM OutputIsFaithful == OutputSpec => []OutputFaithful
  <1>1. OutputInv /\ Awaiting /\ Followed => OutputFaithful
    BY ReturnedFaithful DEF OutputFaithful, Followed, Returned
  <1> QED BY <1>1, OutputFollowed, PTL
=============================================================================
