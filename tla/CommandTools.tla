---------------------------- MODULE CommandTools ----------------------------
(***************************************************************************)
(* The three command tools of src/src/tools/command.ts: execute_command    *)
(* and watch_command, which run one command each, and batch_execute, whose *)
(* workers run N commands against the budget account of                    *)
(* src/src/hardening-contract.ts and src/src/command-budget.ts.  All calls *)
(* are admitted by the policy, the token bucket of src/src/ratelimit.ts    *)
(* and the safety gate of src/src/safeguard.ts, and are in flight together.*)
(*                                                                         *)
(* A command is what the supervisor and the capture make of it: it ends,   *)
(* sooner or later, well or not, with some output.  An action is a stretch *)
(* of code between two awaits.  Bytes of output are counted in units, the  *)
(* tokens of the bucket in whole tokens.  The calls looked at give no      *)
(* directory of their own, so that they run in that of the session.        *)
(***************************************************************************)
EXTENDS Naturals, FiniteSets

CONSTANTS
  Configs,            \* the combinations of settings and batch options looked at
  Singles,            \* calls of execute_command or watch_command
  Batch,              \* the call of batch_execute
  N,                  \* number of its commands
  Concurrency,        \* workers of a parallel batch (4 in the code)
  MaxOutput,          \* output the budget of the batch allows
  MaxCommandOutput,   \* most output of one command
  Burst,              \* capacity of the token bucket
  MaxRefills,         \* bound: tokens that time adds
  Dirs, Home,         \* working directories of the session, the first one
  MaxMoves            \* bound: changes of the working directory

ASSUME CommandToolsAssumption ==
  /\ Configs \subseteq
       [mode: {"strict", "normal", "off"}, confirmation: {"all", "risk-gated"},
        elicits: BOOLEAN, single: {"execute_command", "watch_command"},
        perCommand: BOOLEAN, parallel: BOOLEAN, stop: BOOLEAN]
  /\ N \in Nat \ {0} /\ Concurrency \in Nat \ {0}
  /\ {MaxOutput, MaxCommandOutput, Burst, MaxRefills, MaxMoves} \subseteq Nat
  /\ IsFiniteSet(Singles) /\ Batch \notin Singles
  /\ Home \in Dirs /\ "nowhere" \notin Dirs

VARIABLES
  config,          \* the settings of the server and the options of the batch
  tokens, refills, \* the token bucket and the tokens that time has added
  cwd, moves,      \* session.cwd, and how often it has changed
  stage,           \* of each call
  ranIn, audited,  \* of a single call: where it ran, and where the audit says
  threw,           \* single calls that ended in their catch branch
  slot,            \* of each command of the batch: its item, or what it waits for
  output,          \* of each command of the batch: bytes, once it has completed
  at,              \* of each worker: its command, Ready (at the head of its loop) or Returned
  nextIndex, stopScheduling, outputExhausted,
  used, aborted, closed,   \* the budget account
  late,            \* the deadline of the batch has passed
  cancelled        \* the client has cancelled the batch

calls   == <<config, tokens, refills, cwd, moves, stage, ranIn, audited, threw>>
account == <<used, aborted, closed, late, cancelled>>
items   == <<slot, output, at, nextIndex, stopScheduling, outputExhausted>>
vars    == <<calls, account, items>>

Calls    == Singles \cup {Batch}
Commands == 1..N
Workers  == 1..(IF config.parallel /\ Concurrency < N THEN Concurrency
                ELSE IF config.parallel THEN N ELSE 1)
AllWorkers == 1..Concurrency
Ready      == 0
Returned   == N + 1

Stages    == {"new", "asking", "shell", "running", "done", "refused"}
Reasons   == {"stop_on_error", "budget_output", "budget_deadline", "budget_input"}
Completed == {"ok", "failed"}
Nowhere   == "nowhere"

TypeOK ==
  /\ config \in Configs
  /\ tokens \in 0..Burst /\ refills \in 0..MaxRefills /\ moves \in 0..MaxMoves
  /\ cwd \in Dirs
  /\ stage \in [Calls -> Stages]
  /\ ranIn \in [Singles -> Dirs \cup {Nowhere}]
  /\ audited \in [Singles -> Dirs \cup {Nowhere}]
  /\ threw \subseteq Singles
  /\ slot \in [Commands -> {"none", "running"} \cup Completed \cup Reasons]
  /\ output \in [Commands -> 0..MaxCommandOutput]
  /\ at \in [AllWorkers -> Commands \cup {Ready, Returned}]
  /\ nextIndex \in 1..(N + Concurrency + 1)
  /\ used \in 0..MaxOutput
  /\ {stopScheduling, outputExhausted, aborted, closed, late, cancelled} \subseteq BOOLEAN

Init ==
  /\ config \in Configs
  /\ tokens = Burst /\ refills = 0
  /\ cwd = Home /\ moves = 0
  /\ stage = [c \in Calls |-> "new"]
  /\ ranIn = [c \in Singles |-> Nowhere] /\ audited = [c \in Singles |-> Nowhere]
  /\ threw = {}
  /\ slot = [i \in Commands |-> "none"] /\ output = [i \in Commands |-> 0]
  /\ at = [w \in AllWorkers |-> Returned]
  /\ nextIndex = 1 /\ stopScheduling = FALSE /\ outputExhausted = FALSE
  /\ used = 0 /\ aborted = FALSE /\ closed = FALSE /\ late = FALSE /\ cancelled = FALSE

(***************************************************************************)
(* Admission                                                               *)
(***************************************************************************)

\* The worker loop runs from one await to the next without a pause: while a
\* worker is at its head, no other callback runs.
Idle == \A w \in AllWorkers : at[w] # Ready

\* What the safety gate decides of a call; "ask" puts the question to the user.
Decision(isHeavy) ==
  IF config.mode = "strict" THEN "blocked"
  ELSE IF \/ config.confirmation = "risk-gated" /\ ~isHeavy
          \/ config.confirmation = "all" /\ config.mode = "off"
  THEN "allow"
  ELSE IF config.elicits THEN "ask" ELSE "required"

StageAfter(isHeavy) ==
  CASE Decision(isHeavy) = "allow" -> "shell"
    [] Decision(isHeavy) = "ask"   -> "asking"
    [] OTHER -> "refused"

IsWatch(c) == c \in Singles /\ config.single = "watch_command"

Cost(c) ==
  CASE IsWatch(c) -> 0
    [] c = Batch /\ config.perCommand -> N
    [] OTHER -> 1

\* Mutant of TakeTokens: a batch in mode per_command looks at the bucket once.
TakeTokensOfOne(c, next) ==
  IF tokens >= 1
  THEN tokens' = tokens - 1 /\ stage' = [stage EXCEPT ![c] = next]
  ELSE tokens' = 0 /\ stage' = [stage EXCEPT ![c] = "refused"]

\* checkRateLimit, for a batch in mode per_command in a loop that keeps the
\* tokens it has taken when the next one is missing.
TakeTokens(c, next) ==
  IF tokens >= Cost(c)
  THEN tokens' = tokens - Cost(c) /\ stage' = [stage EXCEPT ![c] = next]
  ELSE tokens' = 0 /\ stage' = [stage EXCEPT ![c] = "refused"]

\* Invalid input, a command that the policy blocks, or (batch) too much input.
Reject(c) ==
  /\ Idle /\ stage[c] = "new"
  /\ stage' = [stage EXCEPT ![c] = "refused"]
  /\ UNCHANGED <<config, tokens, refills, cwd, moves, ranIn, audited, threw, account, items>>

\* execute_command takes its token before the gate.
SubmitExecute(c, isHeavy) ==
  /\ Idle /\ stage[c] = "new" /\ ~IsWatch(c)
  /\ TakeTokens(c, StageAfter(isHeavy))
  /\ UNCHANGED <<config, refills, cwd, moves, ranIn, audited, threw, account, items>>

\* watch_command takes no token.
SubmitWatch(c, isHeavy) ==
  /\ Idle /\ stage[c] = "new" /\ IsWatch(c)
  /\ stage' = [stage EXCEPT ![c] = StageAfter(isHeavy)]
  /\ UNCHANGED <<config, tokens, refills, cwd, moves, ranIn, audited, threw, account, items>>

\* batch_execute takes its tokens after the gate; it then builds its budget.
SubmitBatch(isHeavy) ==
  /\ Idle /\ stage[Batch] = "new"
  /\ IF StageAfter(isHeavy) = "shell"
     THEN TakeTokens(Batch, "shell")
     ELSE stage' = [stage EXCEPT ![Batch] = StageAfter(isHeavy)] /\ UNCHANGED tokens
  /\ aborted' = (StageAfter(isHeavy) = "shell" /\ cancelled)
  /\ UNCHANGED <<config, refills, cwd, moves, ranIn, audited, threw,
                 used, closed, late, cancelled, items>>

\* The answer of the user; a failing elicitation refuses like a no.
Answer(c, yes) ==
  /\ Idle /\ stage[c] = "asking"
  /\ IF ~yes
     THEN stage' = [stage EXCEPT ![c] = "refused"] /\ UNCHANGED <<tokens, aborted>>
     ELSE IF c = Batch
     THEN TakeTokens(c, "shell") /\ aborted' = cancelled
     ELSE stage' = [stage EXCEPT ![c] = "shell"] /\ UNCHANGED <<tokens, aborted>>
  /\ UNCHANGED <<config, refills, cwd, moves, ranIn, audited, threw,
                 used, closed, late, cancelled, items>>

\* The catch branch of a single call.  That of execute_command records an entry
\* with the directory the session has now, whatever has run and where; that of
\* watch_command records one that names no directory.
Throws(c) ==
  /\ stage' = [stage EXCEPT ![c] = "done"]
  /\ threw' = threw \cup {c}
  /\ audited' = IF IsWatch(c) THEN audited ELSE [audited EXCEPT ![c] = cwd]
  /\ UNCHANGED <<config, tokens, refills, cwd, moves, ranIn, account, items>>

ShellFails(c) == Idle /\ stage[c] = "shell" /\ Throws(c)

ShellFailsBatch ==
  /\ Idle /\ stage[Batch] = "shell"
  /\ stage' = [stage EXCEPT ![Batch] = "done"]
  /\ closed' = TRUE /\ aborted' = TRUE
  /\ UNCHANGED <<config, tokens, refills, cwd, moves, ranIn, audited, threw,
                 used, late, cancelled, items>>

(***************************************************************************)
(* execute_command and watch_command: one command                          *)
(***************************************************************************)

StartSingle(c) ==
  /\ Idle /\ stage[c] = "shell"
  /\ stage' = [stage EXCEPT ![c] = "running"]
  /\ ranIn' = [ranIn EXCEPT ![c] = cwd]
  /\ UNCHANGED <<config, tokens, refills, cwd, moves, audited, threw, account, items>>

\* Mutant of EndSingle: the audit entry asks the session again, as the batch does.
EndSingleLooksAgain(c) ==
  /\ Idle /\ stage[c] = "running"
  /\ stage' = [stage EXCEPT ![c] = "done"]
  /\ audited' = [audited EXCEPT ![c] = cwd]
  /\ UNCHANGED <<config, tokens, refills, cwd, moves, ranIn, threw, account, items>>

EndSingle(c) ==
  /\ Idle /\ stage[c] = "running"
  /\ stage' = [stage EXCEPT ![c] = "done"]
  /\ audited' = [audited EXCEPT ![c] = ranIn[c]]
  /\ UNCHANGED <<config, tokens, refills, cwd, moves, ranIn, threw, account, items>>

\* The run throws: the child did not start, or the capture failed.
RunFails(c) == Idle /\ stage[c] = "running" /\ Throws(c)

\* The supervisor refuses the child, for want of room or because the client has
\* cancelled: this failure alone leaves the catch branch before its audit entry.
SupervisorRefuses(c) ==
  /\ Idle /\ stage[c] = "running"
  /\ stage' = [stage EXCEPT ![c] = "done"]
  /\ UNCHANGED <<config, tokens, refills, cwd, moves, ranIn, audited, threw, account, items>>

(***************************************************************************)
(* The budget account                                                      *)
(***************************************************************************)

IsAvailable == ~closed /\ ~aborted /\ ~late

\* isAvailable aborts the account when it meets the deadline.
Expire == aborted' = (aborted \/ (~closed /\ late))

\* reserve("output", n): what is granted is counted at once.
Grants(n) == IsAvailable /\ (n = 0 \/ used + n <= MaxOutput)

(***************************************************************************)
(* batch_execute: the workers                                              *)
(***************************************************************************)

StartBatch ==
  /\ Idle /\ stage[Batch] = "shell"
  /\ stage' = [stage EXCEPT ![Batch] = "running"]
  /\ at' = [w \in AllWorkers |-> IF w \in Workers THEN Ready ELSE Returned]
  /\ UNCHANGED <<config, tokens, refills, cwd, moves, ranIn, audited, threw, account,
                 slot, output, nextIndex, stopScheduling, outputExhausted>>

\* Mutant of Proceeds: the worker does not look at outputExhausted.
ProceedsOverOutput == ~(config.stop /\ stopScheduling) /\ ~aborted

Proceeds == ~(config.stop /\ stopScheduling) /\ ~outputExhausted /\ ~aborted

\* Mutant of Turn: a worker that may not proceed goes round its loop again.
TurnSpins(w) ==
  /\ at[w] = Ready
  /\ IF Proceeds /\ nextIndex <= N
     THEN /\ slot' = [slot EXCEPT ![nextIndex] = IF IsAvailable THEN "running" ELSE "budget_input"]
          /\ at' = [at EXCEPT ![w] = IF IsAvailable THEN nextIndex ELSE Ready]
          /\ Expire
     ELSE at' = [at EXCEPT ![w] = IF Proceeds THEN Returned ELSE Ready] /\ UNCHANGED <<slot, aborted>>
  /\ nextIndex' = nextIndex + (IF Proceeds THEN 1 ELSE 0)
  /\ UNCHANGED <<calls, output, stopScheduling, outputExhausted, used, closed, late, cancelled>>

\* The head of the loop: return, or take the next command and reserve its
\* input.  The input was checked in sum before, so only the deadline fails it.
Turn(w) ==
  /\ at[w] = Ready
  /\ IF Proceeds /\ nextIndex <= N
     THEN /\ slot' = [slot EXCEPT ![nextIndex] = IF IsAvailable THEN "running" ELSE "budget_input"]
          /\ at' = [at EXCEPT ![w] = IF IsAvailable THEN nextIndex ELSE Ready]
          /\ Expire
     ELSE at' = [at EXCEPT ![w] = Returned] /\ UNCHANGED <<slot, aborted>>
  /\ nextIndex' = nextIndex + (IF Proceeds THEN 1 ELSE 0)
  /\ UNCHANGED <<calls, output, stopScheduling, outputExhausted, used, closed, late, cancelled>>

\* The command of worker w has ended: its item is recorded, and its output is
\* reserved although it is there already.
Complete(w, outcome, n) ==
  /\ Idle /\ at[w] \in Commands
  /\ slot' = [slot EXCEPT ![at[w]] = outcome]
  /\ output' = [output EXCEPT ![at[w]] = n]
  /\ at' = [at EXCEPT ![w] = Ready]
  /\ stopScheduling' = (stopScheduling \/ (config.stop /\ outcome = "failed"))
  /\ used' = used + (IF Grants(n) THEN n ELSE 0)
  /\ outputExhausted' = (outputExhausted \/ ~Grants(n))
  /\ Expire
  /\ UNCHANGED <<calls, nextIndex, closed, late, cancelled>>

FillSkipReason ==
  IF stopScheduling THEN "stop_on_error"
  ELSE IF outputExhausted THEN "budget_output"
  ELSE IF aborted /\ late THEN "budget_deadline"
  ELSE "stop_on_error"

\* All workers have returned: the other slots are filled, the account closed.
\* Mutant of Finish: the batch returns with the first worker.
FinishWithFirst ==
  /\ Idle /\ stage[Batch] = "running"
  /\ \E w \in Workers : at[w] = Returned
  /\ slot' = [i \in Commands |-> IF slot[i] = "none" THEN FillSkipReason ELSE slot[i]]
  /\ stage' = [stage EXCEPT ![Batch] = "done"]
  /\ closed' = TRUE /\ aborted' = TRUE
  /\ UNCHANGED <<config, tokens, refills, cwd, moves, ranIn, audited, threw,
                 used, late, cancelled, output, at, nextIndex, stopScheduling, outputExhausted>>

Finish ==
  /\ stage[Batch] = "running"
  /\ \A w \in Workers : at[w] = Returned
  /\ slot' = [i \in Commands |-> IF slot[i] = "none" THEN FillSkipReason ELSE slot[i]]
  /\ stage' = [stage EXCEPT ![Batch] = "done"]
  /\ closed' = TRUE /\ aborted' = TRUE
  /\ UNCHANGED <<config, tokens, refills, cwd, moves, ranIn, audited, threw,
                 used, late, cancelled, output, at, nextIndex, stopScheduling, outputExhausted>>

(***************************************************************************)
(* Time, the client and the session                                        *)
(***************************************************************************)

Budgeted == stage[Batch] \in {"shell", "running"}

DeadlinePasses ==
  /\ Budgeted /\ ~late
  /\ late' = TRUE
  /\ UNCHANGED <<calls, used, aborted, closed, cancelled, items>>

DeadlineTimer ==
  /\ Idle /\ Budgeted /\ late /\ ~aborted
  /\ aborted' = TRUE
  /\ UNCHANGED <<calls, used, closed, late, cancelled, items>>

\* The signal of the request aborts the account, and through the supervisor
\* the commands that run.
Cancel ==
  /\ Idle /\ ~cancelled /\ stage[Batch] \in {"asking", "shell", "running"}
  /\ cancelled' = TRUE
  /\ aborted' = (aborted \/ Budgeted)
  /\ UNCHANGED <<calls, used, closed, late, items>>

Refill ==
  /\ Idle /\ refills < MaxRefills /\ tokens < Burst
  /\ refills' = refills + 1 /\ tokens' = tokens + 1
  /\ UNCHANGED <<config, cwd, moves, stage, ranIn, audited, threw, account, items>>

\* Another tool changes the working directory of the session.
Move(d) ==
  /\ Idle /\ moves < MaxMoves /\ d # cwd
  /\ cwd' = d /\ moves' = moves + 1
  /\ UNCHANGED <<config, tokens, refills, stage, ranIn, audited, threw, account, items>>

Done == UNCHANGED vars /\ \A c \in Calls : stage[c] \in {"done", "refused"}

Next ==
  \/ \E c \in Calls : Reject(c)
  \/ \E c \in Singles, isHeavy \in BOOLEAN : SubmitExecute(c, isHeavy) \/ SubmitWatch(c, isHeavy)
  \/ \E isHeavy \in BOOLEAN : SubmitBatch(isHeavy)
  \/ \E c \in Calls, yes \in BOOLEAN : Answer(c, yes)
  \/ \E c \in Singles : ShellFails(c) \/ RunFails(c)
  \/ \E c \in Singles : StartSingle(c) \/ EndSingle(c) \/ SupervisorRefuses(c)
  \/ ShellFailsBatch
  \/ StartBatch
  \/ \E w \in AllWorkers : Turn(w)
  \/ \E w \in AllWorkers, outcome \in Completed, n \in 0..MaxCommandOutput :
       Complete(w, outcome, n)
  \/ Finish
  \/ DeadlinePasses \/ DeadlineTimer \/ Cancel \/ Refill
  \/ \E d \in Dirs : Move(d)
  \/ Done

Spec == Init /\ [][Next]_vars

\* The shell resolves or fails, a worker goes on, and a command ends: every
\* command of a batch has 30 s.  That its run then ends is assumed here;
\* CommandOutput says in which case it does not.
BatchProceeds ==
  \/ ShellFailsBatch \/ StartBatch \/ Finish
  \/ \E w \in AllWorkers : Turn(w)
CommandEnds(w) == \E outcome \in Completed, n \in 0..MaxCommandOutput : Complete(w, outcome, n)

FairSpec == Spec /\ WF_vars(BatchProceeds) /\ \A w \in AllWorkers : WF_vars(CommandEnds(w))

(***************************************************************************)
(* Properties                                                              *)
(***************************************************************************)

\* The sum of what the commands have put out.
Total(f) == LET upTo[i \in 0..N] == IF i = 0 THEN 0 ELSE upTo[i - 1] + f[i]
            IN  upTo[N]
Produced == Total(output)
Started  == {i \in Commands : slot[i] \in {"running"} \cup Completed}

\* When the batch has returned, every command has exactly one item, none is
\* still running behind the back of the client, and a command is skipped for
\* a cause that has occurred: an error or a cancellation, an exhausted output
\* budget, the deadline (src/src/tools/command.ts:705-715).
ReportFaithful ==
  stage[Batch] = "done" /\ Started # {} =>
    /\ \A i \in Commands : slot[i] \in Completed \cup Reasons
    /\ \A i \in Commands : slot[i] \in Reasons =>
         \/ late \/ cancelled
         \/ slot[i] = "stop_on_error" /\ config.stop /\ \E j \in Commands : slot[j] = "failed"
         \/ slot[i] = "budget_output" /\ Produced > MaxOutput

\* What the comment at src/src/command-budget.ts:17 says: at the deadline the
\* remaining commands are skipped truthfully, so an exhausted budget is
\* reported only of a budget that was exhausted.
SkipReasonTruthful ==
  \A i \in Commands :
    /\ slot[i] = "budget_output" => Produced > MaxOutput
    /\ slot[i] # "budget_input"

\* Whatever the number of workers, the output of a batch exceeds its budget by
\* no more than the commands that were in flight when it was exhausted: the
\* reservation comes after the output (src/src/tools/command.ts:697).
OverrunBounded == Produced <= MaxOutput + Cardinality(Workers) * MaxCommandOutput

\* What a token is asked of, execute_command and a batch, never exceeds what the
\* bucket held and time has added, though admission has awaits before and after
\* the tokens are taken (src/src/ratelimit.ts:21).  It says nothing of
\* watch_command, which takes no token, and counts the commands of a batch only in
\* mode per_command; otherwise one token admits the whole batch.
Admitted == {"shell", "running", "done"}
RateHolds ==
  Cardinality({c \in Singles : ~IsWatch(c) /\ stage[c] \in Admitted})
    + (IF stage[Batch] \in Admitted THEN Cost(Batch) ELSE 0) <= Burst + refills

\* What src/docs/safety.md:44 says, a bucket of 10 commands per second on the
\* command tools: every command that has started is covered by a token.  It fails.
EveryCommandPaid ==
  Cardinality({c \in Singles : ranIn[c] # Nowhere}) + Cardinality(Started) <= Burst + refills

\* The audit entry of a single command that has run to its end names the
\* directory in which it ran, although the session may have moved on
\* (src/src/tools/command.ts:129).  Exempt is the entry of the catch branch.
AuditNamesTheDirectory == \A c \in Singles \ threw : audited[c] \in {Nowhere, ranIn[c]}

\* The same of the entries of the catch branch (src/src/tools/command.ts:492).  It
\* fails: the session may have moved on while the command ran.
FailuresNameTheDirectory ==
  \A c \in threw : ranIn[c] # Nowhere => audited[c] \in {Nowhere, ranIn[c]}

\* A batch whose commands end returns, however its workers, the deadline and
\* the cancellation fall (src/src/tools/command.ts:704).
BatchReturns == (stage[Batch] \in {"shell", "running"}) ~> (stage[Batch] = "done")
=============================================================================
