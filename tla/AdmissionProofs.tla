--------------------------- MODULE AdmissionProofs ---------------------------
(***************************************************************************)
(* Proofs about what is let in: commands, by the gate, the token bucket    *)
(* and the output budget of a batch (CommandTools), and bytes on disk, by  *)
(* the quota that the processes keep in a common ledger (TempQuota).  They *)
(* hold for every number of calls, commands and workers, all budgets and   *)
(* settings of the gate, and for every number of processes and staging     *)
(* directories.  The first part is about the commands, the second, from    *)
(* Landed on, about the quota.                                             *)
(***************************************************************************)
EXTENDS CommandTools, TempQuota, FiniteSetTheorems, WellFoundedInduction, TLAPS

-----------------------------------------------------------------------------
(* Sums.                                                                   *)

LEMMA SetInduction ==
    ASSUME NEW T \in SUBSET Nat, 0 \in T, \A n \in T : n + 1 \in T
    PROVE  T = Nat
  <1> DEFINE R == {ss \in Nat \X Nat : ss[1] < ss[2]}
             U == Nat \ T
  <1>1. IsWellFoundedOn(R, Nat)
    BY NatLessThanWellFounded DEF OpToRel
  <1>2. SUFFICES ASSUME U # {} PROVE FALSE
    OBVIOUS
  <1>3. \E x \in U : \A y \in U : ~(<<y, x>> \in R)
    <2> HIDE DEF R
    <2> QED BY <1>1, <1>2, WFMin
  <1>4. PICK x \in U : \A y \in U : ~(y < x)
    BY <1>3
  <1>5. x # 0 /\ x - 1 \in Nat /\ x - 1 < x
    OBVIOUS
  <1>6. x - 1 \in T
    BY <1>4
  <1>7. (x - 1) + 1 \in T
    BY <1>6
  <1> QED BY <1>7

LEMMA NIsPositive == N \in Nat /\ N > 0
  BY CommandToolsAssumption

\* The partial sums of f.
Sums(f) == {g \in [0..N -> Nat] : g[0] = 0 /\ \A i \in Commands : g[i] = g[i - 1] + f[i]}

LEMMA SumsExist == ASSUME NEW f \in [Commands -> Nat] PROVE Sums(f) # {}
  <1> DEFINE To(n) == {g \in [0..n -> Nat] : g[0] = 0 /\ \A i \in 1..n : g[i] = g[i - 1] + f[i]}
             T     == {n \in Nat : n <= N => To(n) # {}}
  <1>1. 0 \in T
    <2>1. [i \in 0..0 |-> 0] \in To(0)
      OBVIOUS
    <2> QED BY <2>1
  <1>2. ASSUME NEW n \in T PROVE n + 1 \in T
    <2> SUFFICES ASSUME n + 1 <= N PROVE To(n + 1) # {}
      OBVIOUS
    <2>1. PICK g : g \in To(n)
      BY NIsPositive
    <2> DEFINE h == [i \in 0..(n + 1) |-> IF i = n + 1 THEN g[n] + f[n + 1] ELSE g[i]]
    <2>2. n + 1 \in Commands /\ f[n + 1] \in Nat /\ g[n] \in Nat
      BY <2>1 DEF Commands
    <2>3. h \in [0..(n + 1) -> Nat] /\ h[0] = 0
      BY <2>1, <2>2
    <2>4. ASSUME NEW i \in 1..(n + 1) PROVE h[i] = h[i - 1] + f[i]
      <3>1. CASE i = n + 1
        <4>1. h[i] = g[n] + f[n + 1] /\ i - 1 = n /\ h[n] = g[n]
          BY <3>1
        <4> QED BY <4>1
      <3>2. CASE i # n + 1
        <4>1. i \in 1..n /\ h[i] = g[i] /\ h[i - 1] = g[i - 1]
          BY <3>2
        <4> QED BY <2>1
      <3> QED BY <3>2
    <2> QED BY <2>3, <2>4
  <1>3. N \in T
    <2> HIDE DEF T
    <2>1. T \in SUBSET Nat
      BY DEF T
    <2>2. T = Nat
      BY <1>1, <1>2, <2>1, SetInduction
    <2> QED BY <2>2, NIsPositive
  <1>4. N <= N
    BY NIsPositive
  <1>5. To(N) # {}
    <2> HIDE DEF To
    <2> QED BY <1>3
  <1> QED BY <1>5 DEF Sums, Commands

LEMMA TotalIs ==
    ASSUME NEW f \in [Commands -> Nat]
    PROVE  \E g \in Sums(f) : Total(f) = g[N]
  <1> DEFINE Eq(u) == u = [i \in 0..N |-> IF i = 0 THEN 0 ELSE u[i - 1] + f[i]]
             upTo  == CHOOSE u : Eq(u)
             T     == {n \in Nat : n <= N => upTo[n] \in Nat}
  <1>1. PICK g : g \in Sums(f)
    BY SumsExist
  <1>2. Eq(g)
    BY <1>1 DEF Sums, Commands
  <1>3. Eq(upTo)
    BY <1>2
  <1>4. Total(f) = upTo[N]
    BY DEF Total
  <1> HIDE DEF upTo
  <1>5. upTo[0] = 0 /\ \A i \in Commands : upTo[i] = upTo[i - 1] + f[i]
    BY <1>3, NIsPositive DEF Commands
  <1>6. 0 \in T
    BY <1>5
  <1>7. ASSUME NEW n \in T PROVE n + 1 \in T
    <2>1. n + 1 <= N => n + 1 \in Commands /\ (n + 1) - 1 = n /\ f[n + 1] \in Nat
      BY DEF Commands
    <2> QED BY <1>5, <2>1, NIsPositive
  <1>8. T = Nat
    <2> HIDE DEF T
    <2>1. T \in SUBSET Nat
      BY DEF T
    <2> QED BY <1>6, <1>7, <2>1, SetInduction
  <1>9. \A i \in 0..N : upTo[i] \in Nat
    BY <1>8
  <1>10. upTo \in Sums(f)
    BY <1>3, <1>5, <1>9 DEF Sums
  <1> QED BY <1>4, <1>10

(* The sum grows with one of its terms.                                    *)
LEMMA TotalGrows ==
    ASSUME NEW f \in [Commands -> Nat], NEW k \in Commands, f[k] = 0, NEW n \in Nat
    PROVE  /\ Total(f) \in Nat
           /\ Total([f EXCEPT ![k] = n]) = Total(f) + n
  <1> DEFINE e == [f EXCEPT ![k] = n]
  <1>1. e \in [Commands -> Nat]
    OBVIOUS
  <1>2. PICK g \in Sums(f) : Total(f) = g[N]
    BY TotalIs
  <1>3. PICK h \in Sums(e) : Total(e) = h[N]
    <2> HIDE DEF e
    <2> QED BY <1>1, TotalIs
  <1> DEFINE T == {i \in Nat : i <= N => h[i] = g[i] + IF i < k THEN 0 ELSE n}
  <1>4. k \in 1..N
    BY DEF Commands
  <1>5. 0 \in T
    BY <1>4 DEF Sums
  <1>6. ASSUME NEW i \in T PROVE i + 1 \in T
    <2> SUFFICES ASSUME i + 1 <= N PROVE h[i + 1] = g[i + 1] + IF i + 1 < k THEN 0 ELSE n
      OBVIOUS
    <2>1. /\ i + 1 \in Commands /\ (i + 1) - 1 = i /\ i \in 0..N
          /\ h[i] = g[i] + IF i < k THEN 0 ELSE n
      BY NIsPositive DEF Commands
    <2>2. g[i] \in Nat /\ h[i] \in Nat /\ f[i + 1] \in Nat
      BY <2>1 DEF Sums
    <2>3. g[i + 1] = g[i] + f[i + 1] /\ h[i + 1] = h[i] + e[i + 1]
      <3> HIDE DEF e
      <3> QED BY <2>1 DEF Sums
    <2>4. e[i + 1] = IF i + 1 = k THEN n ELSE f[i + 1]
      OBVIOUS
    <2> HIDE DEF e, T
    <2> QED BY <1>4, <2>1, <2>2, <2>3, <2>4
  <1>7. N \in T
    <2> HIDE DEF T
    <2>1. T \in SUBSET Nat
      BY DEF T
    <2>2. T = Nat
      BY <1>5, <1>6, <2>1, SetInduction
    <2> QED BY <2>2, NIsPositive
  <1>8. h[N] = g[N] + n /\ g[N] \in Nat
    BY <1>4, <1>7 DEF Sums
  <1> QED BY <1>2, <1>3, <1>8

(* Nothing added is nothing.                                               *)
LEMMA TotalOfNothing == Total([i \in Commands |-> 0]) = 0
  <1> DEFINE f == [i \in Commands |-> 0]
  <1>1. f \in [Commands -> Nat]
    OBVIOUS
  <1>2. PICK g \in Sums(f) : Total(f) = g[N]
    BY TotalIs
  <1> DEFINE T == {i \in Nat : i <= N => g[i] = 0}
  <1>3. 0 \in T
    BY DEF Sums
  <1>4. ASSUME NEW i \in T PROVE i + 1 \in T
    <2>1. i + 1 <= N => i + 1 \in Commands /\ (i + 1) - 1 = i /\ f[i + 1] = 0
      BY DEF Commands
    <2> QED BY <2>1, NIsPositive DEF Sums
  <1>5. N \in T
    <2> HIDE DEF T
    <2>1. T \in SUBSET Nat
      BY DEF T
    <2>2. T = Nat
      BY <1>3, <1>4, <2>1, SetInduction
    <2> QED BY <2>2, NIsPositive
  <1> QED BY <1>2, <1>5

-----------------------------------------------------------------------------
(* The invariant.                                                          *)

\* A single call has its token from the time it is asked about, the batch only
\* after it; a token of one that is refused then is lost.
Paid == {c \in Singles : ~IsWatch(c) /\ stage[c] \in {"asking"} \cup Admitted}
PaidByBatch == IF stage[Batch] \in Admitted THEN Cost(Batch) ELSE 0
Rated == tokens + Cardinality(Paid) + PaidByBatch <= Burst + refills

\* The audit entry is written at the end.
Audits ==
    /\ AuditNamesTheDirectory
    /\ \A c \in Singles : stage[c] \in {"new", "asking", "shell"} => audited[c] = Nowhere

Before == {"new", "asking", "shell", "refused"}
Fresh ==
    /\ slot = [i \in Commands |-> "none"] /\ output = [i \in Commands |-> 0]
    /\ at = [w \in AllWorkers |-> Returned]
    /\ nextIndex = 1 /\ ~stopScheduling /\ ~outputExhausted /\ used = 0

\* Which slots wait, and which command is with which worker.
Slots ==
    /\ \A i \in Commands : slot[i] = "none" <=> i >= nextIndex
    /\ \A i \in Commands : slot[i] = "running" => \E w \in Workers : at[w] = i
    /\ \A w \in AllWorkers : at[w] \in Commands => w \in Workers /\ slot[at[w]] = "running"
    /\ \A v, w \in AllWorkers : at[v] = at[w] /\ at[v] \in Commands => v = w
    /\ \A i \in Commands : slot[i] \notin Completed => output[i] = 0

\* Why the workers stop.
Causes ==
    /\ \A i \in Commands : slot[i] \in Reasons => late
    /\ stopScheduling => config.stop /\ \E j \in Commands : slot[j] = "failed"
    /\ outputExhausted => late \/ cancelled \/ Produced > MaxOutput
    /\ \A w \in Workers : at[w] = Returned /\ Proceeds => nextIndex > N

\* What was not granted is at most one command of each worker that has met a
\* refusal, and none of those takes another.
Overrun ==
    /\ used <= Produced
    /\ \E R \in SUBSET Workers :
          /\ Produced <= used + Cardinality(R) * MaxCommandOutput
          /\ R # {} => outputExhausted
          /\ \A w \in R : at[w] \notin Commands

\* A worker that returns takes an index with it.
Indexed ==
    /\ nextIndex <= N + 1 + Cardinality({w \in Workers : at[w] = Returned})
    /\ \A w \in AllWorkers \ Workers : at[w] = Returned

Batched ==
    /\ stage[Batch] \in Before => Fresh
    /\ stage[Batch] # "running" => \A w \in AllWorkers : at[w] = Returned
    /\ stage[Batch] # "done" => ~closed /\ (aborted => late \/ cancelled)
    /\ stage[Batch] = "running" => Slots /\ Causes
    /\ Overrun /\ Indexed /\ ReportFaithful

Inv == TypeOK /\ Rated /\ Audits /\ Batched

-----------------------------------------------------------------------------
(* Constants and types.                                                    *)

LEMMA Bounds ==
    /\ Concurrency \in Nat /\ Concurrency > 0
    /\ MaxOutput \in Nat /\ MaxCommandOutput \in Nat /\ Burst \in Nat
    /\ MaxRefills \in Nat /\ MaxMoves \in Nat
    /\ IsFiniteSet(Singles) /\ Batch \notin Singles
    /\ Home \in Dirs
  BY CommandToolsAssumption

LEMMA ConfigFields ==
    ASSUME config \in Configs
    PROVE  /\ config.mode \in {"strict", "normal", "off"}
           /\ config.confirmation \in {"all", "risk-gated"}
           /\ config.elicits \in BOOLEAN /\ config.perCommand \in BOOLEAN
           /\ config.parallel \in BOOLEAN /\ config.stop \in BOOLEAN
  BY CommandToolsAssumption

LEMMA TheWorkers ==
    ASSUME config \in Configs
    PROVE  /\ Workers \subseteq AllWorkers /\ 1 \in Workers
           /\ IsFiniteSet(AllWorkers) /\ Cardinality(AllWorkers) = Concurrency
           /\ IsFiniteSet(Workers) /\ Cardinality(Workers) \in Nat
  <1>1. Workers \subseteq AllWorkers /\ 1 \in Workers
    BY Bounds, NIsPositive DEF Workers, AllWorkers
  <1>2. IsFiniteSet(AllWorkers) /\ Cardinality(AllWorkers) = Concurrency
    BY Bounds, FS_Interval DEF AllWorkers
  <1> QED BY <1>1, <1>2, FS_Subset, FS_CardinalityType

LEMMA StageAfterOf ==
    ASSUME NEW h \in BOOLEAN
    PROVE  StageAfter(h) \in {"shell", "asking", "refused"}
  BY DEF StageAfter, Decision

LEMMA CostOf ==
    ASSUME config \in Configs, NEW c \in Calls
    PROVE  Cost(c) \in Nat /\ (c \in Singles /\ ~IsWatch(c) => Cost(c) = 1)
  BY Bounds, NIsPositive DEF Cost

-----------------------------------------------------------------------------
(* The initial states.                                                     *)

LEMMA InitInv == ASSUME Init PROVE Inv
  <1>0. config \in Configs
    BY DEF Init
  <1>1. TypeOK
    <2>1. /\ tokens \in 0..Burst /\ refills \in 0..MaxRefills /\ moves \in 0..MaxMoves
          /\ used \in 0..MaxOutput /\ nextIndex \in 1..(N + Concurrency + 1)
      BY Bounds, NIsPositive DEF Init
    <2>2. /\ output \in [Commands -> 0..MaxCommandOutput]
          /\ at \in [AllWorkers -> Commands \cup {Ready, Returned}]
      BY Bounds DEF Init
    <2>3. /\ stage \in [Calls -> Stages] /\ threw \subseteq Singles
          /\ ranIn \in [Singles -> Dirs \cup {Nowhere}]
          /\ audited \in [Singles -> Dirs \cup {Nowhere}]
          /\ slot \in [Commands -> {"none", "running"} \cup Completed \cup Reasons]
      BY DEF Init, Stages
    <2> QED BY <2>1, <2>2, <2>3, Bounds DEF Init, TypeOK
  <1>2. stage[Batch] = "new" /\ \A c \in Calls : stage[c] = "new"
    BY DEF Init, Calls
  <1>4. Rated
    <2>1. Paid = {} /\ PaidByBatch = 0
      BY <1>2 DEF Paid, PaidByBatch, Admitted, Calls
    <2>2. Cardinality({}) = 0
      BY FS_EmptySet
    <2> QED BY <2>1, <2>2, Bounds DEF Init, Rated
  <1>5. Audits
    BY DEF Init, Audits, AuditNamesTheDirectory
  <1>6. Fresh
    BY DEF Init, Fresh
  <1>7. Overrun
    <2>1. Produced = 0
      BY <1>6, TotalOfNothing DEF Fresh, Produced
    <2>2. Cardinality({}) = 0
      BY FS_EmptySet
    <2> QED BY <1>6, <2>1, <2>2, Bounds DEF Fresh, Overrun
  <1>8. Indexed
    <2>1. Cardinality({w \in Workers : at[w] = Returned}) \in Nat
      BY <1>0, TheWorkers, FS_Subset, FS_CardinalityType
    <2> QED BY <1>6, <2>1, NIsPositive DEF Fresh, Indexed
  <1>9. Batched
    BY <1>2, <1>7, <1>8 DEF Batched, ReportFaithful, Init, Fresh
  <1> QED BY <1>1, <1>4, <1>5, <1>9 DEF Inv

-----------------------------------------------------------------------------
(* The steps: what is paid.                                                *)

LEMMA OneMore ==
    ASSUME NEW S, IsFiniteSet(S), NEW x
    PROVE  /\ IsFiniteSet(S \cup {x}) /\ Cardinality(S \cup {x}) \in Nat
           /\ Cardinality(S \cup {x}) <= Cardinality(S) + 1
  <1>1. Cardinality(S) \in Nat /\ IsFiniteSet(S \cup {x}) /\ Cardinality(S \cup {x}) \in Nat
    BY FS_AddElement, FS_CardinalityType
  <1>2. CASE x \in S
    <2>1. Cardinality(S \cup {x}) = Cardinality(S)
      BY <1>2
    <2> QED BY <1>1, <2>1
  <1>3. CASE x \notin S
    <2>1. Cardinality(S \cup {x}) = Cardinality(S) + 1
      BY <1>3, FS_AddElement
    <2> QED BY <1>1, <2>1
  <1> QED BY <1>2, <1>3

\* Call c may go to stage s: it is not counted there, or counted already, or it
\* gives the tokens it costs.
Gives(c) == tokens' + Cost(c) <= tokens
MayGo(c, s) ==
    /\ tokens' <= tokens
    /\ \/ IsWatch(c)
       \/ c \in Singles /\ (s \in {"asking"} \cup Admitted => stage[c] \in {"asking"} \cup Admitted)
       \/ c = Batch /\ (s \in Admitted => stage[c] \in Admitted)
       \/ Gives(c)

LEMMA RatedAfter ==
    ASSUME TypeOK, Rated, NEW c \in Calls, NEW s \in Stages,
           UNCHANGED <<config, refills>>, stage' = [stage EXCEPT ![c] = s],
           tokens' \in Nat, MayGo(c, s)
    PROVE  Rated'
  <1>1. Paid \subseteq Singles /\ IsFiniteSet(Paid) /\ Cardinality(Paid) \in Nat
    BY Bounds, FS_Subset, FS_CardinalityType DEF Paid
  <1>2. /\ tokens \in Nat /\ tokens' \in Nat /\ tokens' <= tokens /\ refills \in Nat /\ refills' = refills /\ Burst \in Nat
    BY Bounds DEF TypeOK, MayGo
  <1>3. Cost(Batch) \in Nat /\ Cost(Batch)' = Cost(Batch) /\ PaidByBatch \in Nat
    BY NIsPositive DEF PaidByBatch, Cost, IsWatch
  <1>4. tokens + Cardinality(Paid) + PaidByBatch <= Burst + refills
    BY DEF Rated
  <1>5. CASE c = Batch
    <2>1. Paid' = Paid
      BY <1>5, Bounds DEF Paid, IsWatch
    <2>2. PaidByBatch' \in Nat
      BY <1>3 DEF PaidByBatch
    <2>3. PaidByBatch' <= PaidByBatch \/ tokens' + PaidByBatch' <= tokens + PaidByBatch
      BY <1>3, Bounds DEF TypeOK, PaidByBatch, MayGo, Gives, IsWatch
    <2>4. tokens' + Cardinality(Paid) + PaidByBatch' <= Burst + refills
      <3>1. PICK t \in Nat, d \in Nat : t = tokens' /\ d = PaidByBatch'
        BY <2>2
      <3>2. t <= tokens /\ (d <= PaidByBatch \/ t + d <= tokens + PaidByBatch)
        BY <1>2, <2>3, <3>1
      <3>3. t + Cardinality(Paid) + d <= Burst + refills
        BY <1>1, <1>2, <1>3, <1>4, <3>2
      <3> QED BY <3>1, <3>3
    <2> QED BY <2>1, <2>4 DEF Rated
  <1>6. CASE c \in Singles
    <2>1. PaidByBatch' = PaidByBatch
      BY <1>3, <1>6, Bounds DEF PaidByBatch
    <2>2. /\ Paid' \subseteq Paid \cup {c}
          /\ Paid' \subseteq Paid \/ (~IsWatch(c) /\ Gives(c))
      <3>1. \A x \in Singles : x # c => stage'[x] = stage[x]
        OBVIOUS
      <3>2. stage'[c] = s
        BY DEF TypeOK
      <3>3. \A x \in Singles : IsWatch(x)' = IsWatch(x)
        BY DEF IsWatch
      <3>4. \/ IsWatch(c)
            \/ s \in {"asking"} \cup Admitted => stage[c] \in {"asking"} \cup Admitted
            \/ Gives(c)
        BY <1>6, Bounds DEF MayGo
      <3>5. Paid' \subseteq Paid \cup {c}
        BY <3>3 DEF Paid
      <3>6. c \in Paid' => ~IsWatch(c) /\ s \in {"asking"} \cup Admitted
        BY <3>2, <3>3 DEF Paid
      <3>7. c \in Paid' => c \in Paid \/ Gives(c)
        BY <3>4, <3>6 DEF Paid
      <3> QED BY <3>5, <3>6, <3>7
    <2>3. /\ IsFiniteSet(Paid \cup {c}) /\ Cardinality(Paid \cup {c}) \in Nat
          /\ Cardinality(Paid \cup {c}) <= Cardinality(Paid) + 1
      BY <1>1, OneMore
    <2>4. CASE Paid' \subseteq Paid
      <3>1. Cardinality(Paid') \in Nat /\ Cardinality(Paid') <= Cardinality(Paid)
        BY <1>1, <2>4, FS_Subset, FS_CardinalityType
      <3> QED BY <1>1, <1>2, <1>3, <2>1, <3>1 DEF Rated
    <2>5. CASE ~IsWatch(c) /\ Gives(c)
      <3>1. Cost(c) = 1
        BY <1>6, <2>5, CostOf DEF TypeOK
      <3>2. Cardinality(Paid') \in Nat /\ Cardinality(Paid') <= Cardinality(Paid \cup {c})
        BY <2>2, <2>3, FS_Subset, FS_CardinalityType
      <3>3. tokens' + Cardinality(Paid') + PaidByBatch <= Burst + refills
        <4>1. PICK t \in Nat, k \in Nat : t = tokens' /\ k = Cardinality(Paid')
          BY <3>2
        <4>2. t + 1 <= tokens
          BY <2>5, <3>1, <4>1 DEF Gives
        <4>3. k <= Cardinality(Paid \cup {c})
          BY <3>2, <4>1
        <4>4. t + 1 <= tokens /\ k <= Cardinality(Paid) + 1
          BY <1>1, <2>3, <4>2, <4>3
        <4>5. t + k + PaidByBatch <= Burst + refills
          BY <1>1, <1>3, <1>2, <1>4, <4>4
        <4> QED BY <4>1, <4>5
      <3> QED BY <2>1, <3>3 DEF Rated
    <2> QED BY <2>2, <2>4, <2>5
  <1> QED BY <1>5, <1>6 DEF Calls

-----------------------------------------------------------------------------
(* The steps: the audit.                                                   *)

LEMMA AuditsNext == ASSUME TypeOK, Audits, Next PROVE Audits'
  <1>1. ASSUME NEW c \in Calls, UNCHANGED <<ranIn, audited, threw>>,
               \/ \E s \in {"refused", "done"} : stage' = [stage EXCEPT ![c] = s]
               \/ stage[c] \in {"new", "asking"} /\ \E s : stage' = [stage EXCEPT ![c] = s]
               \/ c = Batch /\ \E s : stage' = [stage EXCEPT ![c] = s]
        PROVE  Audits'
    BY <1>1, Bounds DEF TypeOK, Audits, AuditNamesTheDirectory, Calls
  <1>2. ASSUME UNCHANGED <<ranIn, audited, threw, stage>> PROVE Audits'
    BY <1>2 DEF Audits, AuditNamesTheDirectory
  <1>3. ASSUME NEW c \in Calls PROVE Reject(c) => Audits'
    BY <1>1 DEF Reject
  <1>4. ASSUME NEW c \in Singles, NEW h \in BOOLEAN
        PROVE  SubmitExecute(c, h) \/ SubmitWatch(c, h) => Audits'
    BY <1>1 DEF SubmitExecute, SubmitWatch, TakeTokens, Calls
  <1>5. ASSUME NEW h \in BOOLEAN PROVE SubmitBatch(h) => Audits'
    BY <1>1 DEF SubmitBatch, TakeTokens, Calls
  <1>6. ASSUME NEW c \in Calls, NEW yes \in BOOLEAN PROVE Answer(c, yes) => Audits'
    BY <1>1 DEF Answer, TakeTokens
  <1>7. ASSUME NEW c \in Singles, StartSingle(c) PROVE Audits'
    <2>1. audited[c] = Nowhere
      BY <1>7 DEF StartSingle, Audits
    <2> QED BY <1>7 DEF StartSingle, Audits, AuditNamesTheDirectory
  <1>8. ASSUME NEW c \in Singles, EndSingle(c) PROVE Audits'
    BY <1>8 DEF EndSingle, Audits, AuditNamesTheDirectory
  <1>9. ASSUME NEW c \in Singles PROVE SupervisorRefuses(c) => Audits'
    BY <1>1 DEF SupervisorRefuses, Calls
  <1>10. StartBatch \/ Finish \/ ShellFailsBatch => Audits'
    BY <1>1 DEF StartBatch, Finish, ShellFailsBatch, Calls
  <1>14. ASSUME NEW c \in Singles, ShellFails(c) \/ RunFails(c) PROVE Audits'
    <2>1. Throws(c) /\ stage'[c] = "done"
      BY <1>14 DEF ShellFails, RunFails, Throws, TypeOK, Calls
    <2>2. \A b \in Singles : b # c => audited'[b] = audited[b] /\ stage'[b] = stage[b]
      BY <2>1 DEF Throws
    <2>3. c \in threw' /\ threw \subseteq threw' /\ ranIn' = ranIn
      BY <2>1 DEF Throws
    <2> QED BY <2>1, <2>2, <2>3 DEF Audits, AuditNamesTheDirectory
  <1>11. ASSUME NEW w \in AllWorkers
         PROVE  /\ Turn(w) => Audits'
                /\ \A o \in Completed, n \in 0..MaxCommandOutput : Complete(w, o, n) => Audits'
    BY <1>2 DEF Turn, Complete, calls
  <1>12. DeadlinePasses \/ DeadlineTimer \/ Cancel \/ Refill \/ Done => Audits'
    BY <1>2 DEF DeadlinePasses, DeadlineTimer, Cancel, Refill, Done, vars, calls
  <1>13. ASSUME NEW d \in Dirs PROVE Move(d) => Audits'
    BY <1>2 DEF Move
  <1> QED BY <1>3, <1>4, <1>5, <1>6, <1>7, <1>8, <1>9, <1>10, <1>11, <1>12, <1>13,
             <1>14 DEF Next

LEMMA RatedNext == ASSUME TypeOK, Rated, Next PROVE Rated'
  <1>1. tokens \in Nat /\ tokens <= tokens /\ \A c \in Calls : Cost(c) \in Nat
    BY CostOf DEF TypeOK
  <1>2. ASSUME NEW c \in Calls, NEW s \in Stages, UNCHANGED <<config, refills, tokens>>,
               stage' = [stage EXCEPT ![c] = s],
               MayGo(c, s)
        PROVE  Rated'
    BY <1>1, <1>2, RatedAfter
  <1>3. ASSUME NEW c \in Calls, NEW s \in Stages, UNCHANGED <<config, refills>>,
               TakeTokens(c, s)
        PROVE  Rated'
    <2>1. CASE tokens >= Cost(c)
      <3>1. tokens' \in Nat /\ tokens' <= tokens /\ tokens' + Cost(c) <= tokens
        BY <1>1, <1>3, <2>1 DEF TakeTokens
      <3>2. MayGo(c, s)
        BY <3>1 DEF MayGo, Gives
      <3>3. stage' = [stage EXCEPT ![c] = s]
        BY <1>3, <2>1 DEF TakeTokens
      <3> QED BY <1>3, <3>1, <3>2, <3>3, RatedAfter
    <2>2. CASE ~(tokens >= Cost(c))
      <3>1. tokens' = 0 /\ stage' = [stage EXCEPT ![c] = "refused"]
        BY <1>3, <2>2 DEF TakeTokens
      <3>2. MayGo(c, "refused")
        BY <1>1, <3>1 DEF MayGo, Admitted, Calls
      <3> QED BY <1>3, <3>1, <3>2, RatedAfter DEF Stages
    <2> QED BY <2>1, <2>2
  <1>4. ASSUME NEW c \in Calls, NEW s \in Stages, UNCHANGED <<config, refills, tokens>>,
               stage' = [stage EXCEPT ![c] = s],
               \/ s = "refused" \/ IsWatch(c) \/ stage[c] \in {"shell", "running"}
               \/ c \in Singles /\ stage[c] = "asking"
               \/ c = Batch /\ s = "asking"
        PROVE  Rated'
    <2>1. MayGo(c, s)
      BY <1>1, <1>4 DEF MayGo, Admitted, Calls
    <2> QED BY <1>2, <1>4, <2>1
  <1>5. ASSUME UNCHANGED <<config, refills, tokens, stage>> PROVE Rated'
    BY <1>5 DEF Rated, Paid, PaidByBatch, Cost, IsWatch
  <1>6. ASSUME NEW c \in Calls PROVE Reject(c) => Rated'
    BY <1>4 DEF Reject, Stages
  <1>7. ASSUME NEW c \in Singles, NEW h \in BOOLEAN
        PROVE  SubmitExecute(c, h) \/ SubmitWatch(c, h) => Rated'
    <2>1. StageAfter(h) \in Stages
      BY StageAfterOf DEF Stages
    <2> QED BY <1>3, <1>4, <2>1 DEF SubmitExecute, SubmitWatch, Calls
  <1>8. ASSUME NEW h \in BOOLEAN, SubmitBatch(h) PROVE Rated'
    <2>1. StageAfter(h) \in {"shell", "asking", "refused"}
      BY StageAfterOf
    <2>2. CASE StageAfter(h) = "shell"
      BY <1>3, <1>8, <2>2 DEF SubmitBatch, Calls, Stages
    <2>3. CASE StageAfter(h) \in {"asking", "refused"}
      BY <1>4, <1>8, <2>3 DEF SubmitBatch, Calls, Stages
    <2> QED BY <2>1, <2>2, <2>3
  <1>9. ASSUME NEW c \in Calls, NEW yes \in BOOLEAN, Answer(c, yes) PROVE Rated'
    <2>1. CASE ~yes
      BY <1>4, <1>9, <2>1 DEF Answer, Stages
    <2>2. CASE yes /\ c = Batch
      BY <1>3, <1>9, <2>2 DEF Answer, Stages
    <2>3. CASE yes /\ c # Batch
      BY <1>4, <1>9, <2>3 DEF Answer, Stages, Calls
    <2> QED BY <2>1, <2>2, <2>3
  <1>10. ASSUME NEW c \in Singles
         PROVE  /\ StartSingle(c) \/ EndSingle(c) \/ SupervisorRefuses(c) => Rated'
                /\ ShellFails(c) \/ RunFails(c) => Rated'
    BY <1>4 DEF StartSingle, EndSingle, SupervisorRefuses, ShellFails, RunFails, Throws, Calls, Stages
  <1>11. StartBatch \/ Finish \/ ShellFailsBatch => Rated'
    BY <1>4 DEF StartBatch, Finish, ShellFailsBatch, Calls, Stages
  <1>12. ASSUME NEW w \in AllWorkers
         PROVE  /\ Turn(w) => Rated'
                /\ \A o \in Completed, n \in 0..MaxCommandOutput : Complete(w, o, n) => Rated'
    BY <1>5 DEF Turn, Complete, calls
  <1>13. DeadlinePasses \/ DeadlineTimer \/ Cancel \/ Done => Rated'
    BY <1>5 DEF DeadlinePasses, DeadlineTimer, Cancel, Done, vars, calls
  <1>14. ASSUME Refill PROVE Rated'
    <2>1. Paid' = Paid /\ PaidByBatch' = PaidByBatch
      BY <1>14 DEF Refill, Paid, PaidByBatch, Cost, IsWatch
    <2>2. PaidByBatch \in Nat /\ Cardinality(Paid) \in Nat /\ refills \in Nat /\ Burst \in Nat
      BY <1>1, Bounds, FS_Subset, FS_CardinalityType DEF TypeOK, PaidByBatch, Paid,
         Calls
    <2>3. (tokens + 1) + Cardinality(Paid) + PaidByBatch <= Burst + (refills + 1)
      BY <1>1, <2>2 DEF Rated
    <2> QED BY <1>14, <2>1, <2>3 DEF Refill, Rated
  <1>15. ASSUME NEW d \in Dirs PROVE Move(d) => Rated'
    BY <1>5 DEF Move
  <1> QED BY <1>6, <1>7, <1>8, <1>9, <1>10, <1>11, <1>12, <1>13, <1>14, <1>15 DEF Next

-----------------------------------------------------------------------------
(* The steps: the batch.                                                   *)

LEMMA Flags ==
    ASSUME TypeOK
    PROVE  /\ stopScheduling \in BOOLEAN /\ outputExhausted \in BOOLEAN
           /\ aborted \in BOOLEAN /\ closed \in BOOLEAN
           /\ late \in BOOLEAN /\ cancelled \in BOOLEAN
  BY DEF TypeOK

\* The other calls, the bucket and the session leave the batch alone.
LEMMA BatchedStays ==
    ASSUME Batched, UNCHANGED <<config, account, items>>, stage'[Batch] = stage[Batch]
    PROVE  Batched'
  <1> USE DEF account, items
  <1>1. Workers' = Workers /\ Produced' = Produced /\ Started' = Started /\ Proceeds' = Proceeds
    BY DEF Workers, Produced, Started, Proceeds
  <1>2. /\ Fresh' = Fresh /\ Slots' = Slots /\ Causes' = Causes
        /\ Overrun' = Overrun /\ Indexed' = Indexed
    BY <1>1 DEF Fresh, Slots, Causes, Overrun, Indexed
  <1>3. ReportFaithful' = ReportFaithful
    BY <1>1 DEF ReportFaithful
  <1> QED BY <1>2, <1>3 DEF Batched

\* Before its workers start, the batch has no items.
LEMMA BatchedBefore ==
    ASSUME TypeOK, Batched, stage[Batch] \in Before, stage'[Batch] \in Before \cup {"done"},
           UNCHANGED <<config, items, used, late, cancelled>>,
           stage'[Batch] # "done" => ~closed' /\ (aborted' => late \/ cancelled)
    PROVE  Batched'
  <1> USE DEF items
  <1>1. Workers' = Workers /\ Produced' = Produced /\ Started' = Started
    BY DEF Workers, Produced, Started
  <1>2. Fresh /\ Fresh' /\ Overrun' /\ Indexed'
    BY <1>1 DEF Batched, Fresh, Overrun, Indexed
  <1>3. Started' = {}
    BY <1>2 DEF Fresh, Started, Completed
  <1>4. ReportFaithful'
    BY <1>3 DEF ReportFaithful
  <1> QED BY <1>2, <1>4 DEF Batched, Before

\* The deadline and the client abort the account.
LEMMA BatchedEvents ==
    ASSUME TypeOK, Batched, stage[Batch] \in {"asking", "shell", "running"},
           UNCHANGED <<config, stage, items, used, closed>>,
           late => late', cancelled => cancelled', aborted => aborted',
           aborted' => late' \/ cancelled'
    PROVE  Batched'
  <1> USE DEF items
  <1>1. Workers' = Workers /\ Produced' = Produced /\ (Proceeds' => Proceeds)
    BY DEF Workers, Produced, Proceeds
  <1>2. Fresh' = Fresh /\ Slots' = Slots /\ Overrun' = Overrun /\ Indexed' = Indexed
    BY <1>1 DEF Fresh, Slots, Overrun, Indexed
  <1>3. Causes => Causes'
    BY <1>1 DEF Causes
  <1> QED BY <1>2, <1>3 DEF Batched, ReportFaithful

LEMMA BatchedStart == ASSUME TypeOK, Batched, StartBatch PROVE Batched'
  <1> USE DEF StartBatch
  <1>1. Workers' = Workers /\ Produced' = Produced
    BY DEF Workers, Produced
  <1>2. Fresh /\ stage'[Batch] = "running"
    BY DEF Batched, Before, TypeOK, Calls
  <1>3. \A w \in AllWorkers : at'[w] = IF w \in Workers THEN Ready ELSE Returned
    OBVIOUS
  <1>4. Ready \notin Commands /\ Returned \notin Commands /\ Ready # Returned
    BY NIsPositive DEF Ready, Returned, Commands
  <1>5. Workers \subseteq AllWorkers
    BY TheWorkers DEF TypeOK
  <1>6. Slots'
    BY <1>2, <1>4 DEF Fresh, Slots, Commands
  <1>7. Causes'
    BY <1>1, <1>2, <1>4, <1>5 DEF Fresh, Causes, Reasons
  <1>8. Overrun'
    <2>1. PICK R \in SUBSET Workers :
             /\ Produced <= used + Cardinality(R) * MaxCommandOutput
             /\ R # {} => outputExhausted
      BY DEF Batched, Overrun
    <2>2. \A w \in R : at'[w] \notin Commands
      BY <1>4, <1>5
    <2>3. R \in SUBSET Workers' /\ (R # {} => outputExhausted')
      BY <1>1, <2>1
    <2> QED BY <1>1, <2>1, <2>2 DEF Batched, Overrun, account
  <1>9. Indexed'
    <2>1. {w \in Workers : at[w] = Returned}' = {}
      BY <1>1, <1>4, <1>5
    <2>2. Cardinality({}) = 0
      BY FS_EmptySet
    <2>3. nextIndex' = 1
      BY <1>2 DEF Fresh
    <2> QED BY <1>1, <2>1, <2>2, <2>3, NIsPositive DEF Indexed
  <1> QED BY <1>2, <1>6, <1>7, <1>8, <1>9 DEF Batched, Before, ReportFaithful, account

\* A worker at the head of its loop returns, or takes the next command.
LEMMA BatchedTurn ==
    ASSUME TypeOK, Batched, NEW w \in AllWorkers, Turn(w) PROVE Batched'
  <1> USE DEF calls
  <1>1. Workers' = Workers /\ Produced' = Produced /\ UNCHANGED <<config, stage>>
    BY DEF Turn, Workers, Produced
  <1>2. Ready \notin Commands /\ Returned \notin Commands /\ Ready # Returned
    BY NIsPositive DEF Ready, Returned, Commands
  <1>3. at[w] = Ready /\ stage[Batch] = "running" /\ w \in Workers
    BY <1>2 DEF Turn, Batched, Indexed
  <1>4. Workers \subseteq AllWorkers
    BY TheWorkers DEF TypeOK
  <1>5. Slots /\ Causes /\ Overrun /\ Indexed /\ ~closed /\ (aborted => late \/ cancelled)
    BY <1>3 DEF Batched
  <1>6. nextIndex \in Nat /\ nextIndex >= 1
    BY DEF TypeOK
  <1>7. \A v \in AllWorkers : v # w => at'[v] = at[v]
    BY DEF Turn, TypeOK
  <1>8. ~closed' /\ (aborted' => late' \/ cancelled') /\ (aborted => aborted')
    BY <1>5 DEF Turn, Expire
  <1>9. CASE Proceeds /\ nextIndex <= N
    <2>1. nextIndex \in Commands /\ nextIndex' = nextIndex + 1 /\ slot[nextIndex] = "none"
      BY <1>5, <1>6, <1>9 DEF Turn, Slots, Commands
    <2>2. ASSUME IsAvailable PROVE Slots' /\ Causes'
      <3>1. /\ slot' = [slot EXCEPT ![nextIndex] = "running"]
            /\ at'[w] = nextIndex
        BY <1>9, <2>2 DEF Turn, TypeOK
      <3>2. /\ slot'[nextIndex] = "running"
            /\ \A i \in Commands : i # nextIndex => slot'[i] = slot[i]
        BY <2>1, <3>1 DEF TypeOK
      <3>3. Slots'
        <4>1. \A i \in Commands : slot'[i] = "none" <=> i >= nextIndex'
          BY <1>5, <2>1, <3>2 DEF Slots, Commands
        <4>2. \A i \in Commands : slot'[i] = "running" => \E v \in Workers : at'[v] = i
          BY <1>2, <1>3, <1>4, <1>5, <1>7, <3>1 DEF Slots
        <4>3. \A v \in AllWorkers : at'[v] \in Commands => v \in Workers /\ slot'[at'[v]] = "running"
          BY <1>3, <1>5, <1>7, <3>1, <3>2 DEF Slots
        <4>4. \A u, v \in AllWorkers : at'[u] = at'[v] /\ at'[u] \in Commands => u = v
          BY <1>5, <1>7, <2>1, <3>1 DEF Slots
        <4>5. \A i \in Commands : slot'[i] \notin Completed => output'[i] = 0
          BY <1>5, <2>1, <3>2 DEF Slots, Completed, Turn
        <4> QED BY <1>1, <4>1, <4>2, <4>3, <4>4, <4>5 DEF Slots
      <3>4. Causes'
        <4>1. \A i \in Commands : slot'[i] \in Reasons => late'
          BY <1>5, <3>2 DEF Causes, Reasons, Turn
        <4>2. stopScheduling' => config'.stop /\ \E j \in Commands : slot'[j] = "failed"
          BY <1>5, <2>1, <3>2 DEF Causes, Turn
        <4>3. Proceeds' => Proceeds
          BY DEF Proceeds, Turn
        <4>4. at'[w] # Returned
          BY <1>2, <2>1, <3>1
        <4>5. \A v \in Workers : at'[v] = Returned /\ Proceeds' => nextIndex' > N
          BY <1>4, <1>5, <1>6, <1>7, <2>1, <4>3, <4>4, NIsPositive DEF Causes
        <4> QED BY <1>1, <1>5, <4>1, <4>2, <4>5 DEF Causes, Turn
      <3> QED BY <3>3, <3>4
    <2>3. ASSUME ~IsAvailable PROVE Slots' /\ Causes'
      <3>1. /\ slot' = [slot EXCEPT ![nextIndex] = "budget_input"]
            /\ at'[w] = Ready /\ late
        BY <1>5, <1>9, <2>3 DEF Turn, TypeOK, IsAvailable, Proceeds
      <3>2. /\ slot'[nextIndex] = "budget_input"
            /\ \A i \in Commands : i # nextIndex => slot'[i] = slot[i]
        BY <2>1, <3>1 DEF TypeOK
      <3>3. Slots'
        <4>1. \A i \in Commands : slot'[i] = "none" <=> i >= nextIndex'
          BY <1>5, <2>1, <3>2 DEF Slots, Commands
        <4>2. \A v \in AllWorkers : at'[v] \in Commands => v # w /\ at[v] # nextIndex
          BY <1>2, <1>5, <2>1, <3>1 DEF Slots
        <4>3. \A i \in Commands : slot'[i] = "running" => \E v \in Workers : at'[v] = i
          BY <1>2, <1>3, <1>4, <1>5, <1>7, <3>2 DEF Slots
        <4>4. \A v \in AllWorkers : at'[v] \in Commands => v \in Workers /\ slot'[at'[v]] = "running"
          BY <1>5, <1>7, <3>2, <4>2 DEF Slots
        <4>5. \A u, v \in AllWorkers : at'[u] = at'[v] /\ at'[u] \in Commands => u = v
          BY <1>5, <1>7, <4>2 DEF Slots
        <4>6. \A i \in Commands : slot'[i] \notin Completed => output'[i] = 0
          BY <1>5, <2>1, <3>2 DEF Slots, Completed, Turn
        <4> QED BY <1>1, <4>1, <4>3, <4>4, <4>5, <4>6 DEF Slots
      <3>4. Causes'
        <4>1. \A i \in Commands : slot'[i] \in Reasons => late'
          BY <3>1 DEF Turn
        <4>2. stopScheduling' => config'.stop /\ \E j \in Commands : slot'[j] = "failed"
          BY <1>5, <2>1, <3>2 DEF Causes, Turn
        <4>3. Proceeds' => Proceeds
          BY DEF Proceeds, Turn
        <4>4. at'[w] # Returned
          BY <1>2, <3>1
        <4>5. \A v \in Workers : at'[v] = Returned /\ Proceeds' => nextIndex' > N
          BY <1>4, <1>5, <1>6, <1>7, <2>1, <4>3, <4>4, NIsPositive DEF Causes
        <4> QED BY <1>1, <1>5, <4>1, <4>2, <4>5 DEF Causes, Turn
      <3> QED BY <3>3, <3>4
    <2>4. Overrun'
      <3>1. ~outputExhausted
        BY <1>9 DEF Proceeds
      <3> QED BY <1>1, <1>5, <3>1 DEF Overrun, Turn
    <2>5. Indexed'
      <3>1. Cardinality({v \in Workers : at'[v] = Returned}) \in Nat
        BY TheWorkers, FS_Subset, FS_CardinalityType DEF TypeOK
      <3>2. \A v \in AllWorkers \ Workers : at'[v] = Returned
        BY <1>3, <1>5, <1>7 DEF Indexed
      <3> QED BY <1>1, <1>6, <1>9, <2>1, <3>1, <3>2, NIsPositive DEF Indexed
    <2> QED BY <1>1, <1>3, <1>8, <2>2, <2>3, <2>4, <2>5 DEF Batched, Before,
               ReportFaithful
  <1>10. CASE ~(Proceeds /\ nextIndex <= N)
    <2>1. /\ at' = [at EXCEPT ![w] = Returned] /\ at'[w] = Returned
          /\ nextIndex' = nextIndex + (IF Proceeds THEN 1 ELSE 0)
          /\ UNCHANGED <<slot, output, stopScheduling, outputExhausted, used, aborted, late, cancelled>>
      BY <1>10 DEF Turn, TypeOK
    <2>2. nextIndex' \in Nat /\ nextIndex' >= nextIndex /\ nextIndex' <= nextIndex + 1
      BY <1>6, <2>1
    <2>3. nextIndex' = nextIndex \/ nextIndex > N
      BY <1>6, <1>10, <2>1, NIsPositive
    <2>4. Slots'
      <3>1. \A i \in Commands : slot'[i] = "none" <=> i >= nextIndex'
        BY <1>5, <1>6, <2>1, <2>3, NIsPositive DEF Slots, Commands
      <3>2. \A i \in Commands : slot'[i] = "running" => \E v \in Workers : at'[v] = i
        BY <1>2, <1>3, <1>5, <2>1 DEF Slots
      <3>3. \A v \in AllWorkers : at'[v] \in Commands => at'[v] = at[v]
        BY <1>2, <2>1
      <3> QED BY <1>1, <1>5, <2>1, <3>1, <3>2, <3>3 DEF Slots
    <2>5. Causes'
      <3>1. Proceeds' = Proceeds
        BY <1>1, <2>1 DEF Proceeds
      <3>2. \A v \in Workers : at'[v] = Returned /\ Proceeds => nextIndex' > N
        BY <1>6, <1>10, <2>2, NIsPositive
      <3> QED BY <1>1, <1>5, <2>1, <3>1, <3>2 DEF Causes
    <2>6. Overrun'
      <3>1. \A v \in AllWorkers : at[v] \notin Commands => at'[v] \notin Commands
        BY <1>2, <2>1
      <3> QED BY <1>1, <1>5, <2>1, <3>1 DEF Overrun
    <2>7. Indexed'
      <3> DEFINE Back == {v \in Workers : at[v] = Returned}
                 Back2 == {v \in Workers : at'[v] = Returned}
      <3>1. Back2 = Back \cup {w} /\ w \notin Back
        BY <1>2, <1>3, <2>1
      <3>2. IsFiniteSet(Back) /\ Cardinality(Back) \in Nat
        BY TheWorkers, FS_Subset, FS_CardinalityType DEF TypeOK
      <3> HIDE DEF Back, Back2
      <3>3. Cardinality(Back2) = Cardinality(Back) + 1
        BY <3>1, <3>2, FS_AddElement
      <3>4. nextIndex <= N + 1 + Cardinality(Back)
        BY <1>5 DEF Indexed, Back
      <3>5. PICK n \in Nat : n = nextIndex' /\ n <= nextIndex + 1
        BY <2>2
      <3>6. n <= N + 1 + Cardinality(Back2)
        BY <1>6, <3>2, <3>3, <3>4, <3>5, NIsPositive
      <3>7. \A v \in AllWorkers \ Workers : at'[v] = Returned
        BY <1>3, <1>5, <1>7 DEF Indexed
      <3> QED BY <1>1, <3>5, <3>6, <3>7 DEF Indexed, Back2
    <2> QED BY <1>1, <1>3, <1>8, <2>4, <2>5, <2>6, <2>7 DEF Batched, Before,
               ReportFaithful
  <1> QED BY <1>9, <1>10

\* A command that ends leaves its worker at the head of the loop; what the
\* account does not grant is charged to that worker.
LEMMA BatchedComplete ==
    ASSUME TypeOK, Batched, NEW w \in AllWorkers, NEW o \in Completed,
           NEW n \in 0..MaxCommandOutput, Complete(w, o, n)
    PROVE  Batched'
  <1> DEFINE k == at[w]
  <1>1. Workers' = Workers /\ UNCHANGED <<config, stage>>
    BY DEF Complete, Workers, calls
  <1>2. Ready \notin Commands /\ Returned \notin Commands /\ Ready # Returned
    BY NIsPositive DEF Ready, Returned, Commands
  <1>3. k \in Commands /\ stage[Batch] = "running"
    BY <1>2 DEF Complete, Batched
  <1>4. Workers \subseteq AllWorkers
    BY TheWorkers DEF TypeOK
  <1>5. Slots /\ Causes /\ Overrun /\ Indexed /\ ~closed /\ (aborted => late \/ cancelled)
    BY <1>3 DEF Batched
  <1>6. w \in Workers /\ slot[k] = "running" /\ output[k] = 0
    BY <1>3, <1>5 DEF Slots, Completed
  <1>7. at'[w] = Ready /\ \A v \in AllWorkers : v # w => at'[v] = at[v]
    BY DEF Complete, TypeOK
  <1>8. slot'[k] = o /\ \A i \in Commands : i # k => slot'[i] = slot[i] /\ output'[i] = output[i]
    BY DEF Complete, TypeOK
  <1>9. ~closed' /\ (aborted' => late' \/ cancelled') /\ (aborted => aborted')
    BY <1>5 DEF Complete, Expire
  <1>10. Slots'
    <2>1. \A i \in Commands : slot'[i] = "none" <=> i >= nextIndex
      BY <1>5, <1>8 DEF Slots, Completed
    <2>2. \A i \in Commands : slot'[i] = "running" => \E v \in Workers : at'[v] = i
      BY <1>4, <1>5, <1>7, <1>8 DEF Slots, Completed
    <2>3. \A v \in AllWorkers : at'[v] \in Commands => v # w /\ at'[v] # k
      BY <1>2, <1>5, <1>7 DEF Slots
    <2>4. \A v \in AllWorkers : at'[v] \in Commands => v \in Workers /\ slot'[at'[v]] = "running"
      BY <1>5, <1>7, <1>8, <2>3 DEF Slots
    <2>5. \A u, v \in AllWorkers : at'[u] = at'[v] /\ at'[u] \in Commands => u = v
      BY <1>5, <1>7, <2>3 DEF Slots
    <2>6. \A i \in Commands : slot'[i] \notin Completed => output'[i] = 0
      BY <1>5, <1>8 DEF Slots
    <2>7. nextIndex' = nextIndex
      BY DEF Complete
    <2> QED BY <1>1, <2>1, <2>2, <2>4, <2>5, <2>6, <2>7 DEF Slots
  <1>11. Produced \in Nat /\ Produced' = Produced + n
    <2>1. output \in [Commands -> Nat] /\ n \in Nat
      BY DEF TypeOK
    <2>2. output' = [output EXCEPT ![k] = n]
      BY DEF Complete
    <2> HIDE DEF k
    <2> QED BY <1>3, <1>6, <2>1, <2>2, TotalGrows DEF Produced
  <1>12. /\ used \in Nat /\ n \in Nat /\ n <= MaxCommandOutput
         /\ MaxOutput \in Nat /\ MaxCommandOutput \in Nat
    BY Bounds DEF TypeOK
  <1>13. used <= Produced
    BY <1>5 DEF Overrun
  <1>14. PICK p \in Nat, u \in Nat : p = Produced' /\ p = Produced + n /\ u = used'
    BY <1>11, <1>12 DEF Complete
  <1>15. u = used + (IF Grants(n) THEN n ELSE 0)
    BY <1>14 DEF Complete
  <1>16. ~Grants(n) => late \/ cancelled \/ used + n > MaxOutput
    BY <1>5, <1>12 DEF Grants, IsAvailable
  <1>17. outputExhausted' = (outputExhausted \/ ~Grants(n)) /\ UNCHANGED <<late, cancelled, nextIndex>>
    BY DEF Complete
  <1>18. Causes'
    <2>1. \A i \in Commands : slot'[i] \in Reasons => late'
      BY <1>5, <1>8, <1>17 DEF Causes, Reasons, Completed
    <2>2. stopScheduling' => config'.stop /\ \E j \in Commands : slot'[j] = "failed"
      BY <1>1, <1>5, <1>6, <1>8 DEF Causes, Complete
    <2>3. outputExhausted' => late' \/ cancelled' \/ Produced' > MaxOutput
      <3>1. Produced > MaxOutput => p > MaxOutput
        BY <1>11, <1>12, <1>14
      <3>2. used + n > MaxOutput => p > MaxOutput
        BY <1>11, <1>12, <1>13, <1>14
      <3> QED BY <1>5, <1>14, <1>16, <1>17, <3>1, <3>2 DEF Causes
    <2>4. Proceeds' => Proceeds
      BY <1>1, <1>9 DEF Proceeds, Complete
    <2>5. \A v \in Workers : at'[v] = Returned /\ Proceeds' => nextIndex' > N
      BY <1>2, <1>4, <1>5, <1>7, <1>17, <2>4 DEF Causes
    <2> QED BY <1>1, <2>1, <2>2, <2>3, <2>5 DEF Causes
  <1>19. Overrun'
    <2>1. PICK R \in SUBSET Workers :
             /\ Produced <= used + Cardinality(R) * MaxCommandOutput
             /\ R # {} => outputExhausted
             /\ \A v \in R : at[v] \notin Commands
      BY <1>5 DEF Overrun
    <2>2. IsFiniteSet(R) /\ Cardinality(R) \in Nat
      BY TheWorkers, FS_Subset, FS_CardinalityType DEF TypeOK
    <2>3. w \notin R
      BY <1>3, <2>1
    <2>4. ASSUME Grants(n)
          PROVE  u <= p /\ p <= u + Cardinality(R) * MaxCommandOutput
      <3>1. u = used + n
        BY <1>15, <2>4
      <3>2. PICK q \in Nat : q = Cardinality(R) * MaxCommandOutput
        BY <1>12, <2>2
      <3>3. Produced <= used + q
        BY <2>1, <3>2
      <3> QED BY <1>11, <1>12, <1>13, <1>14, <3>1, <3>2, <3>3
    <2>5. ASSUME ~Grants(n)
          PROVE  u <= p /\ p <= u + Cardinality(R \cup {w}) * MaxCommandOutput
      <3>1. u = used
        BY <1>12, <1>15, <2>5
      <3>2. Cardinality(R \cup {w}) = Cardinality(R) + 1
        BY <2>2, <2>3, FS_AddElement
      <3>3. PICK q \in Nat : q = Cardinality(R) * MaxCommandOutput
        BY <1>12, <2>2
      <3>4. (Cardinality(R) + 1) * MaxCommandOutput = q + MaxCommandOutput
        BY <1>12, <2>2, <3>3
      <3>5. Produced <= used + q
        BY <2>1, <3>3
      <3>6. p <= u + (q + MaxCommandOutput)
        BY <1>11, <1>12, <1>14, <3>1, <3>5
      <3> QED BY <1>11, <1>13, <1>14, <3>1, <3>2, <3>4, <3>6
    <2>6. \A v \in R \cup {w} : at'[v] \notin Commands
      BY <1>2, <1>4, <1>7, <2>1
    <2>7. CASE Grants(n)
      <3>1. (R # {} => outputExhausted') /\ R \in SUBSET Workers'
        BY <1>1, <1>17, <2>1
      <3> QED BY <1>14, <2>4, <2>6, <2>7, <3>1 DEF Overrun
    <2>8. CASE ~Grants(n)
      <3>1. outputExhausted' /\ (R \cup {w}) \in SUBSET Workers'
        BY <1>1, <1>6, <1>17, <2>8
      <3> QED BY <1>14, <2>5, <2>6, <2>8, <3>1 DEF Overrun
    <2> QED BY <2>7, <2>8
  <1>20. Indexed'
    <2>1. k # Returned /\ w \in Workers
      BY <1>2, <1>3, <1>6
    <2>2. {v \in Workers : at'[v] = Returned} = {v \in Workers : at[v] = Returned}
      BY <1>2, <1>4, <1>7, <2>1
    <2>3. \A v \in AllWorkers \ Workers : at'[v] = Returned
      BY <1>5, <1>7, <2>1 DEF Indexed
    <2> QED BY <1>1, <1>5, <1>17, <2>2, <2>3 DEF Indexed
  <1> QED BY <1>1, <1>3, <1>9, <1>10, <1>18, <1>19, <1>20 DEF Batched, Before,
             ReportFaithful

\* The last worker has returned: what is left is skipped for the reason they
\* returned for.
LEMMA BatchedFinish == ASSUME TypeOK, Batched, Finish PROVE Batched'
  <1>1. /\ stage[Batch] = "running" /\ stage'[Batch] = "done"
        /\ slot' = [i \in Commands |-> IF slot[i] = "none" THEN FillSkipReason ELSE slot[i]]
        /\ UNCHANGED <<config, used, late, cancelled, output, at, nextIndex, stopScheduling, outputExhausted>>
    BY DEF Finish, TypeOK, Calls
  <1>2. Workers' = Workers /\ Produced' = Produced
    BY <1>1 DEF Workers, Produced
  <1>3. Slots /\ Causes /\ (aborted => late \/ cancelled) /\ Overrun /\ Indexed
    BY <1>1 DEF Batched
  <1>4. Overrun' /\ Indexed'
    BY <1>1, <1>2, <1>3 DEF Overrun, Indexed
  <1>5. 1 \in Workers /\ at[1] = Returned /\ Workers \subseteq AllWorkers
    BY TheWorkers DEF Finish, TypeOK
  <1>6. Returned \notin Commands /\ \A w \in AllWorkers : at[w] = Returned
    BY <1>3, NIsPositive DEF Finish, Indexed, Returned, Commands
  <1>7. \A i \in Commands : slot[i] # "running"
    BY <1>3, <1>5, <1>6 DEF Slots
  <1>8. \A i \in Commands : slot[i] = "none" => ~Proceeds
    <2>1. \A i \in Commands : i <= N /\ i \in Nat
      BY DEF Commands
    <2>2. Proceeds => nextIndex > N
      BY <1>3, <1>5 DEF Causes
    <2>3. nextIndex \in Nat
      BY DEF TypeOK
    <2> QED BY <1>3, <2>1, <2>2, <2>3, NIsPositive DEF Slots
  <1>9. FillSkipReason \in Reasons
    BY DEF FillSkipReason, Reasons
  <1>10. \A i \in Commands : slot'[i] \in Completed \cup Reasons
    BY <1>1, <1>7, <1>9 DEF TypeOK
  <1>11. \A j \in Commands : slot[j] = "failed" => slot'[j] = "failed"
    BY <1>1
  <1>12. ASSUME NEW i \in Commands, slot'[i] \in Reasons
         PROVE  \/ late' \/ cancelled'
                \/ slot'[i] = "stop_on_error" /\ config'.stop /\ \E j \in Commands : slot'[j] = "failed"
                \/ slot'[i] = "budget_output" /\ Produced' > MaxOutput
    <2>1. CASE slot[i] # "none"
      BY <1>1, <1>3, <1>12, <2>1 DEF Causes
    <2>2. CASE slot[i] = "none"
      <3>1. slot'[i] = FillSkipReason /\ ~Proceeds
        BY <1>1, <1>8, <2>2
      <3>2. CASE stopScheduling
        BY <1>1, <1>3, <3>1, <3>2 DEF FillSkipReason, Causes
      <3>3. CASE ~stopScheduling /\ outputExhausted
        BY <1>1, <1>2, <1>3, <3>1, <3>3 DEF FillSkipReason, Causes
      <3>4. CASE ~stopScheduling /\ ~outputExhausted
        BY <1>1, <1>3, <3>1, <3>4 DEF Proceeds
      <3> QED BY <3>2, <3>3, <3>4
    <2> QED BY <2>1, <2>2
  <1>13. ReportFaithful'
    BY <1>10, <1>12 DEF ReportFaithful
  <1> QED BY <1>1, <1>4, <1>6, <1>13 DEF Batched, Before

LEMMA BatchedNext == ASSUME TypeOK, Batched, Next PROVE Batched'
  <1>1. ASSUME NEW c \in Singles, NEW s, stage' = [stage EXCEPT ![c] = s],
               UNCHANGED <<config, account, items>>
        PROVE  Batched'
    <2>1. stage'[Batch] = stage[Batch]
      BY <1>1, Bounds
    <2> QED BY <1>1, <2>1, BatchedStays
  <1>2. ASSUME UNCHANGED <<config, stage, account, items>> PROVE Batched'
    BY <1>2, BatchedStays
  <1>3. ASSUME NEW s \in Before, stage[Batch] \in Before, stage' = [stage EXCEPT ![Batch] = s],
               UNCHANGED <<config, items, used, late, cancelled, closed>>,
               aborted' = aborted \/ (aborted' => cancelled)
        PROVE  Batched'
    <2>1. stage'[Batch] = s /\ s # "done" /\ stage[Batch] # "done"
      BY <1>3 DEF TypeOK, Calls, Before
    <2>2. ~closed' /\ (aborted' => late \/ cancelled)
      BY <1>3, <2>1 DEF Batched
    <2> QED BY <1>3, <2>2, BatchedBefore
  <1>4. ASSUME NEW c \in Calls, Reject(c) PROVE Batched'
    <2>1. CASE c = Batch
      BY <1>3, <1>4, <2>1 DEF Reject, Before, account
    <2>2. CASE c # Batch
      BY <1>1, <1>4, <2>2 DEF Reject, Calls
    <2> QED BY <2>1, <2>2
  <1>5. ASSUME NEW c \in Singles, NEW h \in BOOLEAN
        PROVE  SubmitExecute(c, h) \/ SubmitWatch(c, h) => Batched'
    BY <1>1 DEF SubmitExecute, SubmitWatch, TakeTokens
  <1>6. ASSUME NEW h \in BOOLEAN, SubmitBatch(h) PROVE Batched'
    <2>1. StageAfter(h) \in {"shell", "asking", "refused"}
      BY StageAfterOf
    <2>2. \E s \in Before : stage' = [stage EXCEPT ![Batch] = s]
      BY <1>6, <2>1 DEF SubmitBatch, TakeTokens, Before
    <2>3. aborted' => cancelled
      BY <1>6 DEF SubmitBatch
    <2> QED BY <1>3, <1>6, <2>2 DEF SubmitBatch, Before
  <1>7. ASSUME NEW c \in Calls, NEW yes \in BOOLEAN, Answer(c, yes) PROVE Batched'
    <2>1. CASE c = Batch
      <3>1. \E s \in Before : stage' = [stage EXCEPT ![Batch] = s]
        BY <1>7, <2>1 DEF Answer, TakeTokens, Before
      <3>2. aborted' = aborted \/ (aborted' => cancelled)
        BY <1>7 DEF Answer
      <3> QED BY <1>3, <1>7, <2>1, <3>1 DEF Answer, Before
    <2>2. CASE c # Batch
      <3>1. c \in Singles /\ \E s : stage' = [stage EXCEPT ![c] = s]
        BY <1>7, <2>2 DEF Answer, Calls
      <3>2. UNCHANGED <<config, account, items>>
        BY <1>7, <2>2 DEF Answer, account
      <3> QED BY <1>1, <3>1, <3>2
    <2> QED BY <2>1, <2>2
  <1>8. ASSUME ShellFailsBatch PROVE Batched'
    <2>1. stage[Batch] = "shell" /\ stage'[Batch] = "done"
      BY <1>8 DEF ShellFailsBatch, TypeOK, Calls
    <2> QED BY <1>8, <2>1, BatchedBefore DEF ShellFailsBatch, Before
  <1>9. ASSUME NEW c \in Singles
        PROVE  /\ StartSingle(c) \/ EndSingle(c) \/ SupervisorRefuses(c) => Batched'
               /\ ShellFails(c) \/ RunFails(c) => Batched'
    BY <1>1 DEF StartSingle, EndSingle, SupervisorRefuses, ShellFails, RunFails, Throws
  <1>10. ASSUME DeadlinePasses \/ DeadlineTimer \/ Cancel PROVE Batched'
    <2>1. /\ stage[Batch] \in {"asking", "shell", "running"}
          /\ UNCHANGED <<config, stage, items, used, closed>>
      BY <1>10 DEF DeadlinePasses, DeadlineTimer, Cancel, Budgeted, calls
    <2>2. aborted => late \/ cancelled
      BY <2>1 DEF Batched
    <2>3. /\ late => late'
          /\ cancelled => cancelled'
          /\ aborted => aborted'
          /\ aborted' => late' \/ cancelled'
      BY <1>10, Flags DEF DeadlinePasses, DeadlineTimer, Cancel
    <2> QED BY <2>1, <2>3, BatchedEvents
  <1>11. Refill \/ Done => Batched'
    BY <1>2 DEF Refill, Done, vars, calls
  <1>12. ASSUME NEW d \in Dirs PROVE Move(d) => Batched'
    BY <1>2 DEF Move
  <1> QED BY <1>4, <1>5, <1>6, <1>7, <1>8, <1>9, <1>10, <1>11, <1>12, BatchedStart,
             BatchedTurn, BatchedComplete, BatchedFinish DEF Next

-----------------------------------------------------------------------------
(* The steps: types.                                                       *)

\* The types of what the calls, the account and the items are made of.
CallTypes ==
    /\ config \in Configs
    /\ tokens \in 0..Burst /\ refills \in 0..MaxRefills /\ moves \in 0..MaxMoves
    /\ cwd \in Dirs
    /\ stage \in [Calls -> Stages]
    /\ threw \subseteq Singles
    /\ ranIn \in [Singles -> Dirs \cup {Nowhere}]
    /\ audited \in [Singles -> Dirs \cup {Nowhere}]
ItemTypes ==
    /\ slot \in [Commands -> {"none", "running"} \cup Completed \cup Reasons]
    /\ output \in [Commands -> 0..MaxCommandOutput]
    /\ at \in [AllWorkers -> Commands \cup {Ready, Returned}]
    /\ nextIndex \in Nat /\ nextIndex >= 1
    /\ used \in 0..MaxOutput
FlagTypes ==
    /\ stopScheduling \in BOOLEAN /\ outputExhausted \in BOOLEAN
    /\ aborted \in BOOLEAN /\ closed \in BOOLEAN
    /\ late \in BOOLEAN /\ cancelled \in BOOLEAN

LEMMA StageTyped ==
    ASSUME TypeOK, NEW c \in Calls, NEW s \in Stages, stage' = [stage EXCEPT ![c] = s]
    PROVE  stage' \in [Calls -> Stages]
  BY DEF TypeOK

LEMMA TakeTokensTyped ==
    ASSUME TypeOK, NEW c \in Calls, NEW s \in Stages, TakeTokens(c, s)
    PROVE  tokens' \in 0..Burst /\ stage' \in [Calls -> Stages]
  <1>1. Cost(c) \in Nat /\ tokens \in Nat /\ tokens <= Burst /\ Burst \in Nat
    BY Bounds, CostOf DEF TypeOK
  <1>2. tokens' \in 0..Burst
    BY <1>1 DEF TakeTokens
  <1> QED BY <1>2, StageTyped DEF TakeTokens, Stages

LEMMA CallTypesNext == ASSUME TypeOK, Next PROVE CallTypes'
  <1>1. ASSUME UNCHANGED calls PROVE CallTypes'
    BY <1>1 DEF TypeOK, CallTypes, calls
  <1>2. ASSUME NEW c \in Calls, NEW s \in Stages, stage' = [stage EXCEPT ![c] = s],
               UNCHANGED <<config, tokens, refills, cwd, moves>>, threw' \in {threw, threw \cup {c}},
               \/ UNCHANGED <<ranIn, audited, threw>>
               \/ c \in Singles /\ ranIn' = [ranIn EXCEPT ![c] = cwd] /\ audited' = audited
               \/ /\ c \in Singles /\ ranIn' = ranIn
                  /\ audited' \in {audited, [audited EXCEPT ![c] = ranIn[c]], [audited EXCEPT ![c] = cwd]}
        PROVE  CallTypes'
    BY <1>2 DEF TypeOK, CallTypes
  <1>3. ASSUME NEW c \in Calls, NEW s \in Stages,
               TakeTokens(c, s) \/ (tokens' = tokens /\ stage' = [stage EXCEPT ![c] = s]),
               UNCHANGED <<config, refills, cwd, moves, ranIn, audited, threw>>
        PROVE  CallTypes'
    BY <1>3, TakeTokensTyped DEF TypeOK, CallTypes
  <1>4. \A h \in BOOLEAN : StageAfter(h) \in Stages
    BY StageAfterOf DEF Stages
  <1>5. ASSUME NEW c \in Calls PROVE Reject(c) => CallTypes'
    BY <1>2 DEF Reject, Stages
  <1>6. ASSUME NEW c \in Singles, NEW h \in BOOLEAN
        PROVE  SubmitExecute(c, h) \/ SubmitWatch(c, h) => CallTypes'
    BY <1>3, <1>4 DEF SubmitExecute, SubmitWatch, Calls
  <1>7. ASSUME NEW h \in BOOLEAN PROVE SubmitBatch(h) => CallTypes'
    BY <1>3, <1>4 DEF SubmitBatch, Calls
  <1>8. ASSUME NEW c \in Calls, NEW yes \in BOOLEAN PROVE Answer(c, yes) => CallTypes'
    BY <1>3 DEF Answer, Stages
  <1>9. ASSUME NEW c \in Singles
        PROVE  /\ StartSingle(c) \/ EndSingle(c) \/ SupervisorRefuses(c) => CallTypes'
               /\ ShellFails(c) \/ RunFails(c) => CallTypes'
    BY <1>2 DEF StartSingle, EndSingle, SupervisorRefuses, ShellFails, RunFails, Throws, Calls, Stages
  <1>10. StartBatch \/ Finish \/ ShellFailsBatch => CallTypes'
    BY <1>2 DEF StartBatch, Finish, ShellFailsBatch, Calls, Stages
  <1>11. ASSUME NEW w \in AllWorkers
         PROVE  /\ Turn(w) => CallTypes'
                /\ \A o \in Completed, n \in 0..MaxCommandOutput : Complete(w, o, n) => CallTypes'
    BY <1>1 DEF Turn, Complete
  <1>12. DeadlinePasses \/ DeadlineTimer \/ Cancel \/ Done => CallTypes'
    BY <1>1 DEF DeadlinePasses, DeadlineTimer, Cancel, Done, vars
  <1>13. Refill => CallTypes'
    <2>1. tokens \in Nat /\ refills \in Nat /\ Burst \in Nat /\ MaxRefills \in Nat
      BY Bounds DEF TypeOK
    <2>2. Refill => tokens' \in 0..Burst /\ refills' \in 0..MaxRefills
      BY <2>1 DEF Refill
    <2> QED BY <2>2 DEF Refill, TypeOK, CallTypes
  <1>14. ASSUME NEW d \in Dirs PROVE Move(d) => CallTypes'
    <2>1. moves \in Nat /\ MaxMoves \in Nat
      BY Bounds DEF TypeOK
    <2>2. Move(d) => moves' \in 0..MaxMoves
      BY <2>1 DEF Move
    <2> QED BY <2>2 DEF Move, TypeOK, CallTypes
  <1> QED BY <1>5, <1>6, <1>7, <1>8, <1>9, <1>10, <1>11, <1>12, <1>13, <1>14 DEF Next

LEMMA FlagTypesNext == ASSUME TypeOK, Next PROVE FlagTypes'
  <1>1. FlagTypes
    BY Flags DEF FlagTypes
  <1>2. ASSUME UNCHANGED <<stopScheduling, outputExhausted, aborted, closed, late, cancelled>>
        PROVE  FlagTypes'
    BY <1>1, <1>2 DEF FlagTypes
  <1>3. ASSUME NEW c \in Calls PROVE Reject(c) => FlagTypes'
    BY <1>1 DEF Reject, FlagTypes, account, items
  <1>4. ASSUME NEW c \in Singles, NEW h \in BOOLEAN
        PROVE  SubmitExecute(c, h) \/ SubmitWatch(c, h) => FlagTypes'
    BY <1>2 DEF SubmitExecute, SubmitWatch, account, items
  <1>5. ASSUME NEW h \in BOOLEAN PROVE SubmitBatch(h) => FlagTypes'
    BY <1>1 DEF SubmitBatch, FlagTypes, items
  <1>6. ASSUME NEW c \in Calls, NEW yes \in BOOLEAN PROVE Answer(c, yes) => FlagTypes'
    BY <1>1 DEF Answer, FlagTypes, items
  <1>7. ASSUME NEW c \in Singles
        PROVE  /\ StartSingle(c) \/ EndSingle(c) \/ SupervisorRefuses(c) => FlagTypes'
               /\ ShellFails(c) \/ RunFails(c) => FlagTypes'
    BY <1>2 DEF StartSingle, EndSingle, SupervisorRefuses, ShellFails, RunFails, Throws, account, items
  <1>8. StartBatch \/ Finish \/ ShellFailsBatch => FlagTypes'
    BY <1>1 DEF StartBatch, Finish, ShellFailsBatch, items, FlagTypes, account
  <1>9. ASSUME NEW w \in AllWorkers
        PROVE  /\ Turn(w) => FlagTypes'
               /\ \A o \in Completed, n \in 0..MaxCommandOutput : Complete(w, o, n) => FlagTypes'
    BY <1>1 DEF Turn, Complete, Expire, FlagTypes
  <1>10. DeadlinePasses \/ DeadlineTimer \/ Cancel \/ Refill \/ Done => FlagTypes'
    BY <1>1 DEF DeadlinePasses, DeadlineTimer, Cancel, Refill, Done, FlagTypes, vars,
       account, items
  <1>11. ASSUME NEW d \in Dirs PROVE Move(d) => FlagTypes'
    BY <1>2 DEF Move, account, items
  <1> QED BY <1>3, <1>4, <1>5, <1>6, <1>7, <1>8, <1>9, <1>10, <1>11 DEF Next

LEMMA ItemTypesNext == ASSUME TypeOK, Next PROVE ItemTypes'
  <1>1. ItemTypes
    BY DEF TypeOK, ItemTypes
  <1>2. ASSUME UNCHANGED <<slot, output, at, nextIndex, used>> PROVE ItemTypes'
    BY <1>1, <1>2 DEF ItemTypes
  <1>3. ASSUME NEW c \in Calls PROVE Reject(c) => ItemTypes'
    BY <1>2 DEF Reject, account, items
  <1>4. ASSUME NEW c \in Singles, NEW h \in BOOLEAN
        PROVE  SubmitExecute(c, h) \/ SubmitWatch(c, h) => ItemTypes'
    BY <1>2 DEF SubmitExecute, SubmitWatch, account, items
  <1>5. ASSUME NEW h \in BOOLEAN PROVE SubmitBatch(h) => ItemTypes'
    BY <1>2 DEF SubmitBatch, items
  <1>6. ASSUME NEW c \in Calls, NEW yes \in BOOLEAN PROVE Answer(c, yes) => ItemTypes'
    BY <1>2 DEF Answer, items
  <1>7. ASSUME NEW c \in Singles
        PROVE  /\ StartSingle(c) \/ EndSingle(c) \/ SupervisorRefuses(c) => ItemTypes'
               /\ ShellFails(c) \/ RunFails(c) => ItemTypes'
    BY <1>2 DEF StartSingle, EndSingle, SupervisorRefuses, ShellFails, RunFails, Throws, account, items
  <1>8. StartBatch \/ ShellFailsBatch => ItemTypes'
    BY <1>1 DEF StartBatch, ShellFailsBatch, ItemTypes, account, items
  <1>9. Finish => ItemTypes'
    <2>1. FillSkipReason \in Reasons
      BY DEF FillSkipReason, Reasons
    <2> QED BY <1>1, <2>1 DEF Finish, ItemTypes
  <1>10. ASSUME NEW w \in AllWorkers, Turn(w) PROVE ItemTypes'
    <2>1. nextIndex' \in Nat /\ nextIndex' >= 1
      BY <1>1, <1>10 DEF Turn, ItemTypes
    <2>2. nextIndex <= N => nextIndex \in Commands
      BY <1>1 DEF ItemTypes, Commands
    <2>3. /\ slot' \in [Commands -> {"none", "running"} \cup Completed \cup Reasons]
          /\ at' \in [AllWorkers -> Commands \cup {Ready, Returned}]
      BY <1>1, <1>10, <2>2 DEF Turn, ItemTypes, Reasons
    <2> QED BY <1>1, <1>10, <2>3 DEF Turn, ItemTypes
  <1>11. ASSUME NEW w \in AllWorkers, NEW o \in Completed, NEW n \in 0..MaxCommandOutput,
                Complete(w, o, n)
         PROVE  ItemTypes'
    <2>1. MaxOutput \in Nat /\ used \in Nat /\ used <= MaxOutput /\ n \in Nat
      BY <1>1, Bounds DEF ItemTypes
    <2>2. used + (IF Grants(n) THEN n ELSE 0) \in 0..MaxOutput
      BY <2>1 DEF Grants
    <2>3. /\ slot' \in [Commands -> {"none", "running"} \cup Completed \cup Reasons]
          /\ at' \in [AllWorkers -> Commands \cup {Ready, Returned}]
          /\ output' \in [Commands -> 0..MaxCommandOutput]
      BY <1>1, <1>11 DEF Complete, ItemTypes
    <2> QED BY <1>1, <1>11, <2>2 DEF Complete, ItemTypes
  <1>12. DeadlinePasses \/ DeadlineTimer \/ Cancel \/ Refill \/ Done => ItemTypes'
    BY <1>2 DEF DeadlinePasses, DeadlineTimer, Cancel, Refill, Done, vars, account,
       items
  <1>13. ASSUME NEW d \in Dirs PROVE Move(d) => ItemTypes'
    BY <1>2 DEF Move, account, items
  <1> QED BY <1>3, <1>4, <1>5, <1>6, <1>7, <1>8, <1>9, <1>10, <1>11, <1>12, <1>13
             DEF Next

LEMMA TypeNext == ASSUME TypeOK, Next, Indexed' PROVE TypeOK'
  <1>1. CallTypes' /\ ItemTypes' /\ FlagTypes'
    BY CallTypesNext, ItemTypesNext, FlagTypesNext
  <1>2. nextIndex' \in 1..(N + Concurrency + 1)
    <2> DEFINE Back == {w \in Workers' : at'[w] = Returned}
    <2>1. config' \in Configs
      BY <1>1 DEF CallTypes
    <2>2. Workers' \subseteq AllWorkers /\ IsFiniteSet(AllWorkers) /\ Cardinality(AllWorkers) = Concurrency
      <3>1. config'.parallel \in BOOLEAN
        BY <2>1, CommandToolsAssumption
      <3> QED BY Bounds, NIsPositive, TheWorkers DEF Workers, AllWorkers, TypeOK
    <2>3. Cardinality(Back) \in Nat /\ Cardinality(Back) <= Concurrency
      BY <2>2, FS_Subset, FS_CardinalityType
    <2>4. nextIndex' <= N + 1 + Cardinality(Back)
      BY DEF Indexed
    <2> HIDE DEF Back
    <2>5. PICK n \in Nat : n = nextIndex' /\ n >= 1
      BY <1>1 DEF ItemTypes
    <2>6. n <= N + 1 + Cardinality(Back)
      BY <2>4, <2>5
    <2>7. n \in 1..(N + Concurrency + 1)
      BY <2>3, <2>5, <2>6, NIsPositive, Bounds
    <2> QED BY <2>5, <2>7
  <1> QED BY <1>1, <1>2 DEF CallTypes, ItemTypes, FlagTypes, TypeOK

-----------------------------------------------------------------------------
(* The theorems.                                                           *)

LEMMA NextInv == ASSUME Inv, Next PROVE Inv'
  <1>1. TypeOK /\ Rated /\ Audits /\ Batched
    BY DEF Inv
  <1>2. Batched'
    BY <1>1, BatchedNext
  <1>3. TypeOK'
    BY <1>1, <1>2, TypeNext DEF Batched
  <1> QED BY <1>2, <1>3, RatedNext, AuditsNext DEF Inv

LEMMA StutterInv == ASSUME Inv, UNCHANGED vars PROVE Inv'
  <1> USE DEF vars, calls, account, items
  <1>1. TypeOK'
    BY DEF Inv, TypeOK
  <1>2. Audits'
    BY DEF Inv, Audits, AuditNamesTheDirectory
  <1>3. Rated'
    BY DEF Inv, Rated, Paid, PaidByBatch, Cost, IsWatch
  <1>4. Batched'
    BY BatchedStays DEF Inv
  <1> QED BY <1>1, <1>2, <1>3, <1>4 DEF Inv

LEMMA InvHolds == Spec => []Inv
  <1>1. Inv /\ [Next]_vars => Inv'
    BY NextInv, StutterInv
  <1> QED BY <1>1, InitInv, PTL DEF Spec

\* Every part of the calls, the bucket, the account and the batch keeps its type:
\* among the rest, the account never counts more than its budget
\* (src/src/hardening-contract.ts:296).
THEOREM TypeCorrect == Spec => []TypeOK
  <1>1. Inv => TypeOK
    BY DEF Inv
  <1> QED BY <1>1, InvHolds, PTL

\* The report of a batch is complete and truthful, for any number of commands and
\* workers (src/src/tools/command.ts:705).
THEOREM ReportIsFaithful == Spec => []ReportFaithful
  <1>1. Inv => ReportFaithful
    BY DEF Inv, Batched
  <1> QED BY <1>1, InvHolds, PTL

\* The output of a batch exceeds its budget by no more than one command of each
\* worker (src/src/tools/command.ts:697).
THEOREM OverrunIsBounded == Spec => []OverrunBounded
  <1>1. ASSUME Inv PROVE OverrunBounded
    <2>1. TypeOK /\ Overrun
      BY <1>1 DEF Inv, Batched
    <2>2. PICK R \in SUBSET Workers : Produced <= used + Cardinality(R) * MaxCommandOutput
      BY <2>1 DEF Overrun
    <2>3. /\ Cardinality(Workers) \in Nat /\ Cardinality(R) \in Nat
          /\ Cardinality(R) <= Cardinality(Workers)
      BY <2>1, TheWorkers, FS_Subset, FS_CardinalityType DEF TypeOK
    <2>4. /\ MaxOutput \in Nat /\ MaxCommandOutput \in Nat /\ used \in Nat /\ used <= MaxOutput
      BY <2>1, Bounds DEF TypeOK
    <2>5. PICK extra \in Nat : Cardinality(Workers) = Cardinality(R) + extra
      <3>1. Cardinality(Workers) - Cardinality(R) \in Nat
        BY <2>3
      <3> QED BY <2>3, <3>1
    <2>6. Cardinality(Workers) * MaxCommandOutput
            = Cardinality(R) * MaxCommandOutput + extra * MaxCommandOutput
      BY <2>3, <2>4, <2>5
    <2>7. PICK p \in Nat, q \in Nat :
             p = Cardinality(R) * MaxCommandOutput /\ q = extra * MaxCommandOutput
      BY <2>3, <2>4
    <2>8. Produced \in Nat
      <3>1. output \in [Commands -> Nat]
        BY <2>1 DEF TypeOK
      <3>2. 1 \in Commands
        BY NIsPositive DEF Commands
      <3> QED BY <3>1, TotalIs, NIsPositive DEF Sums, Produced
    <2>9. Produced <= MaxOutput + (p + q)
      BY <2>2, <2>4, <2>7, <2>8
    <2> QED BY <2>6, <2>7, <2>9 DEF OverrunBounded
  <1> QED BY <1>1, InvHolds, PTL

\* What a token is asked of never exceeds what the bucket held and time has added,
\* whatever the number of calls that are admitted at once: execute_command, and a
\* batch by its commands in mode per_command, else as one
\* (src/src/ratelimit.ts:21).
THEOREM RateIsHeld == Spec => []RateHolds
  <1>1. ASSUME Inv PROVE RateHolds
    <2>1. TypeOK /\ Rated
      BY <1>1 DEF Inv
    <2> DEFINE Through == {c \in Singles : ~IsWatch(c) /\ stage[c] \in Admitted}
    <2>2. Through \subseteq Paid /\ IsFiniteSet(Paid)
      BY Bounds, FS_Subset DEF Paid
    <2> HIDE DEF Through
    <2>3. /\ Cardinality(Paid) \in Nat /\ Cardinality(Through) \in Nat
          /\ Cardinality(Through) <= Cardinality(Paid)
      BY <2>2, FS_Subset, FS_CardinalityType
    <2>4. /\ PaidByBatch \in Nat /\ tokens \in Nat /\ refills \in Nat /\ Burst \in Nat
      BY <2>1, Bounds, CostOf DEF TypeOK, PaidByBatch, Calls
    <2>5. Cardinality(Through) + PaidByBatch <= Burst + refills
      BY <2>1, <2>3, <2>4 DEF Rated
    <2> QED BY <2>1, <2>5 DEF RateHolds, PaidByBatch, Through
  <1> QED BY <1>1, InvHolds, PTL

\* The audit entry of a single command that has run to its end names the
\* directory in which it ran (src/src/tools/command.ts:129).
THEOREM AuditsNameTheDirectory == Spec => []AuditNamesTheDirectory
  <1>1. Inv => AuditNamesTheDirectory
    BY DEF Inv, Audits
  <1> QED BY <1>1, InvHolds, PTL
-----------------------------------------------------------------------------

\* What an account of the own process, or of another one, has to show of r.
Landed(r) == IF Active(r) THEN written[r] ELSE size[r]
Shown(r)  == IF ledger[r] = None THEN 0 ELSE ledger[r]

\* Where an append stands says what its counters are.
Appends ==
    \A r \in Stagings :
        /\ status[r] = "none" <=> owner[r] = None
        /\ Active(r) => owner[r] \in alive /\ written[r] <= size[r] /\ size[r] <= reserved[r]
        /\ status[r] \in {"none", "gone"} => size[r] = 0
        /\ status[r] = "none" => written[r] = 0
        /\ status[r] \in {"none", "idle"} \cup Reserving => reserved[r] = written[r]
        /\ status[r] \in Reserving => reserved[r] < MaxWrites
        /\ status[r] = "writing" => size[r] = written[r] /\ reserved[r] = written[r] + 1
        /\ status[r] = "marking" => size[r] = reserved[r] /\ reserved[r] = written[r] + 1

\* Whoever holds the lock to measure goes by what is cached, if anything is.
Measuring ==
    /\ \A r \in Stagings : status[r] \in Reserving <=> lock = r
    /\ lock # None => cache[owner[lock]] \in {None, measure}

\* A process counts its own bytes once they are marked, and those of the others
\* as long as they are promised: in the size that it goes by, or in the ledger.
Covered(q, r) ==
    Account(q) # None =>
        IF owner[r] = q THEN Landed(r) <= Account(q)[r]
        ELSE Promised(r) <= Account(q)[r] + Shown(r)

Accounted == gaps \subseteq {"sync"} => \A q \in alive, r \in Stagings : Covered(q, r)

QuotaInv ==
    QuotaTypeOK /\ Appends /\ Measuring /\ Accounted /\ LedgerConservative /\ CapacityKept

-----------------------------------------------------------------------------
(* The numbers that the actions change.                                    *)
LEMMA QuotaNumbers ==
    ASSUME QuotaTypeOK, NEW r \in Stagings
    PROVE  /\ size[r] \in Nat /\ reserved[r] \in Nat /\ written[r] \in Nat /\ measure[r] \in Nat
           /\ ledger[r] \in Nat \cup {None} /\ None \notin Nat /\ r # None
           /\ Shown(r) \in Nat
           /\ \A q \in Procs : /\ q # None
                               /\ Account(q) # None => Account(q) \in Sizes
  <1>1. /\ size \in Sizes /\ reserved \in Sizes /\ written \in Sizes /\ measure \in Sizes
        /\ ledger[r] \in 0..MaxWrites \cup {None}
    BY DEF QuotaTypeOK, Entries
  <1>2. \A q \in Procs : cache[q] \in Sizes \cup {None}
    BY DEF QuotaTypeOK
  <1> QED BY <1>1, <1>2, ConstantsAssumption DEF Sizes, Shown, Account

LEMMA PromisedNumbers ==
    ASSUME QuotaTypeOK, Appends, NEW r \in Stagings
    PROVE  /\ Active(r) => Promised(r) = reserved[r]
           /\ ~Active(r) => Promised(r) = size[r]
           /\ Promised(r) \in 0..MaxWrites /\ Landed(r) \in Nat
           /\ Active(r) => Outstanding(r) = reserved[r] - written[r]
           /\ ~Active(r) => Outstanding(r) = 0
           /\ Outstanding(r) \in 0..MaxWrites
  <1>1. /\ size[r] \in 0..MaxWrites /\ reserved[r] \in 0..MaxWrites /\ written[r] \in 0..MaxWrites
        /\ MaxWrites \in Nat
    BY ConstantsAssumption DEF QuotaTypeOK, Sizes
  <1> QED BY <1>1 DEF Appends, Promised, Landed, Outstanding

-----------------------------------------------------------------------------
(* Sums, as sets of bytes.                                                 *)
LEMMA BytesFinite ==
    ASSUME NEW S \in SUBSET Stagings, NEW f, DOMAIN f = S
    PROVE  IsFiniteSet(Bytes(f)) /\ TotalBytes(f) \in Nat
  <1>1. IsFiniteSet(S) /\ IsFiniteSet(1..MaxWrites)
    <2>1. MaxWrites \in Int /\ 1 \in Int /\ IsFiniteSet(Stagings)
      BY ConstantsAssumption
    <2> QED BY <2>1, FS_Subset, FS_Interval
  <1>2. IsFiniteSet(S \X (1..MaxWrites))
    BY <1>1, FS_Product
  <1>3. Bytes(f) \subseteq S \X (1..MaxWrites)
    BY DEF Bytes
  <1> QED BY <1>2, <1>3, FS_Subset, FS_CardinalityType DEF TotalBytes

LEMMA LessInTotal ==
    ASSUME NEW f \in [Stagings -> Nat], NEW g \in [Stagings -> Nat], \A r \in Stagings : f[r] <= g[r]
    PROVE  TotalBytes(f) <= TotalBytes(g)
  <1>1. Bytes(f) \subseteq Bytes(g)
    BY ConstantsAssumption DEF Bytes
  <1> QED BY <1>1, BytesFinite, FS_Subset DEF TotalBytes

LEMMA OneMoreInTotal ==
    ASSUME NEW f \in [Stagings -> Nat], NEW g \in [Stagings -> Nat], NEW r \in Stagings,
           g = [f EXCEPT ![r] = @ + 1]
    PROVE  TotalBytes(g) <= TotalBytes(f) + 1
  <1>1. Bytes(g) \subseteq Bytes(f) \cup {<<r, f[r] + 1>>}
    BY ConstantsAssumption DEF Bytes
  <1>2. IsFiniteSet(Bytes(f)) /\ Cardinality(Bytes(f)) \in Nat
    BY BytesFinite, FS_CardinalityType
  <1>3. /\ IsFiniteSet(Bytes(f) \cup {<<r, f[r] + 1>>})
        /\ Cardinality(Bytes(f) \cup {<<r, f[r] + 1>>}) <= Cardinality(Bytes(f)) + 1
    <2> DEFINE B == Bytes(f)
    <2>1. PICK x : x = <<r, f[r] + 1>>
      OBVIOUS
    <2>2. IsFiniteSet(B \cup {x}) /\ Cardinality(B \cup {x}) \in {Cardinality(B), Cardinality(B) + 1}
      <3> HIDE DEF B
      <3> QED BY <1>2, FS_AddElement DEF B
    <2> QED BY <1>2, <2>1, <2>2
  <1>4. Cardinality(Bytes(g)) <= Cardinality(Bytes(f) \cup {<<r, f[r] + 1>>})
    BY <1>1, <1>3, FS_Subset
  <1>5. Cardinality(Bytes(g)) \in Nat /\ Cardinality(Bytes(f) \cup {<<r, f[r] + 1>>}) \in Nat
    BY <1>3, BytesFinite, FS_CardinalityType DEF TotalBytes
  <1> QED BY <1>2, <1>3, <1>4, <1>5 DEF TotalBytes

\* Two amounts are a lower bound of a third one, where they overlap counted twice.
LEMMA SumInTotal ==
    ASSUME NEW S \in SUBSET Stagings,
           NEW f \in [Stagings -> Nat], NEW g \in [Stagings -> Nat],
           NEW h \in [S -> Nat], NEW k \in [Stagings \ S -> Nat],
           \A r \in Stagings : f[r] <= MaxWrites,
           \A r \in S : f[r] <= g[r] + h[r],
           \A r \in Stagings \ S : f[r] <= g[r] + k[r]
    PROVE  TotalBytes(f) <= TotalBytes(g) + TotalBytes(h) + TotalBytes(k)
  <1> DEFINE Over == Bytes(f) \ Bytes(g)
             Rest == Bytes(h) \cup Bytes(k)
             move == [b \in Over |-> <<b[1], b[2] - g[b[1]]>>]
  <1>1. /\ IsFiniteSet(Bytes(f)) /\ IsFiniteSet(Bytes(g)) /\ IsFiniteSet(Bytes(h)) /\ IsFiniteSet(Bytes(k))
        /\ Cardinality(Bytes(f)) \in Nat /\ Cardinality(Bytes(g)) \in Nat
        /\ Cardinality(Bytes(h)) \in Nat /\ Cardinality(Bytes(k)) \in Nat
    BY BytesFinite, FS_CardinalityType
  <1>2. /\ IsFiniteSet(Rest) /\ Cardinality(Rest) \in Nat
        /\ Cardinality(Rest) <= Cardinality(Bytes(h)) + Cardinality(Bytes(k))
    <2>1. Cardinality(Bytes(h) \cap Bytes(k)) \in Nat
      BY <1>1, FS_Intersection, FS_CardinalityType
    <2>2. Cardinality(Rest) = Cardinality(Bytes(h)) + Cardinality(Bytes(k))
                              - Cardinality(Bytes(h) \cap Bytes(k))
      BY <1>1, FS_Union
    <2>3. IsFiniteSet(Rest) /\ Cardinality(Rest) \in Nat
      BY <1>1, FS_Union, FS_CardinalityType
    <2> HIDE DEF Rest
    <2> QED BY <1>1, <2>1, <2>2, <2>3
  <1>3. \A b \in Over : /\ b[1] \in Stagings /\ b[2] \in 1..MaxWrites /\ b = <<b[1], b[2]>>
                        /\ g[b[1]] < b[2] /\ b[2] <= f[b[1]]
    BY ConstantsAssumption DEF Bytes
  <1>4. \A b \in Over : move[b] \in Rest
    <2> SUFFICES ASSUME NEW b \in Over PROVE <<b[1], b[2] - g[b[1]]>> \in Rest
      OBVIOUS
    <2>1. b[2] - g[b[1]] \in 1..MaxWrites
      BY <1>3, ConstantsAssumption
    <2>2. CASE b[1] \in S
      BY <1>3, <2>1, <2>2 DEF Bytes
    <2>3. CASE b[1] \notin S
      BY <1>3, <2>1, <2>3 DEF Bytes
    <2> QED BY <2>2, <2>3
  <1>5. \A a, b \in Over : move[a] = move[b] => a = b
    <2> SUFFICES ASSUME NEW a \in Over, NEW b \in Over,
                        <<a[1], a[2] - g[a[1]]>> = <<b[1], b[2] - g[b[1]]>>
                 PROVE  a = b
      OBVIOUS
    <2>1. a[1] = b[1] /\ a[2] - g[a[1]] = b[2] - g[b[1]]
      OBVIOUS
    <2>2. a[2] = b[2]
      <3>1. a[2] \in Nat /\ b[2] \in Nat /\ g[b[1]] \in Nat
        BY <1>3, ConstantsAssumption
      <3> QED BY <2>1, <3>1
    <2> QED BY <1>3, <2>1, <2>2
  <1>6. move \in Injection(Over, Rest)
    BY <1>4, <1>5 DEF Injection, IsInjective
  <1>7. IsFiniteSet(Over) /\ Cardinality(Over) \in Nat /\ Cardinality(Over) <= Cardinality(Rest)
    BY <1>2, <1>6, FS_Injection, FS_CardinalityType
  <1>8. Cardinality(Bytes(f)) <= Cardinality(Bytes(g)) + Cardinality(Over)
    <2>1. Bytes(f) = (Bytes(f) \cap Bytes(g)) \cup Over
      OBVIOUS
    <2>2. Cardinality(Over) = Cardinality(Bytes(f)) - Cardinality(Bytes(f) \cap Bytes(g))
      BY <1>1, FS_Difference
    <2>3. Cardinality(Bytes(f) \cap Bytes(g)) \in Nat
          /\ Cardinality(Bytes(f) \cap Bytes(g)) <= Cardinality(Bytes(g))
      BY <1>1, FS_Intersection, FS_CardinalityType
    <2> QED BY <1>1, <1>7, <2>2, <2>3
  <1> QED BY <1>1, <1>2, <1>7, <1>8 DEF TotalBytes

-----------------------------------------------------------------------------
(* What a step keeps that promises no more than before.                    *)
LEMMA CapacityStays ==
    ASSUME QuotaTypeOK, Appends, QuotaTypeOK', Appends', CapacityKept, gaps \subseteq gaps',
           \A r \in Stagings : Promised(r)' <= Promised(r)
    PROVE  CapacityKept'
  <1> DEFINE P == [r \in Stagings |-> Promised(r)]
  <1>1. P \in [Stagings -> Nat] /\ P' \in [Stagings -> Nat]
    <2>1. \A r \in Stagings : Promised(r) \in Nat
      BY PromisedNumbers
    <2>2. (\A r \in Stagings : Promised(r) \in Nat)'
      <3> SUFFICES ASSUME NEW r \in Stagings PROVE Promised(r)' \in Nat
        OBVIOUS
      <3>1. /\ size'[r] \in Nat /\ reserved'[r] \in Nat
        BY DEF QuotaTypeOK, Sizes
      <3> QED BY <3>1 DEF Promised
    <2> QED BY <2>1, <2>2
  <1>2. \A r \in Stagings : P'[r] <= P[r]
    OBVIOUS
  <1>3. TotalBytes(P') <= TotalBytes(P) /\ TotalBytes(P') \in Nat /\ TotalBytes(P) \in Nat
    <2> HIDE DEF P
    <2>1. DOMAIN P = Stagings /\ DOMAIN P' = Stagings
      BY <1>1
    <2> QED BY <1>1, <1>2, <2>1, LessInTotal, BytesFinite
  <1>4. gaps' \subseteq {"sync"} => TotalBytes(P) <= MaxTotal
    BY DEF CapacityKept
  <1>5. gaps' \subseteq {"sync"} => TotalBytes(P') <= MaxTotal
    BY <1>3, <1>4, ConstantsAssumption
  <1> QED BY <1>5 DEF CapacityKept, TotalBytes, Bytes

\* What a step keeps for a process and an entry, whose account it does not change
\* or drops, and of which no more is promised or marked than before.
LEMMA CoverStays ==
    ASSUME QuotaTypeOK, Appends, NEW q \in Procs, NEW r \in Stagings, Covered(q, r),
           Account(q)' \in {None, Account(q)}, owner'[r] = owner[r], ledger'[r] = ledger[r],
           Promised(r)' <= Promised(r), Promised(r)' \in Nat,
           owner[r] = q => Landed(r)' <= Landed(r) /\ Landed(r)' \in Nat
    PROVE  Covered(q, r)'
  <1> SUFFICES ASSUME Account(q)' # None
               PROVE  IF owner[r] = q THEN Landed(r)' <= Account(q)'[r]
                      ELSE Promised(r)' <= Account(q)'[r] + Shown(r)'
    BY DEF Covered
  <1>1. Account(q)' = Account(q) /\ Shown(r)' = Shown(r)
    BY DEF Shown
  <1>2. Account(q)[r] \in Nat /\ Shown(r) \in Nat /\ Promised(r) \in Nat /\ Landed(r) \in Nat
    BY <1>1, QuotaNumbers, PromisedNumbers, ConstantsAssumption DEF Sizes
  <1> QED BY <1>1, <1>2 DEF Covered

\* What a step keeps that takes nothing out of the ledger.
LEMMA LedgerStays ==
    ASSUME QuotaTypeOK, Appends, LedgerConservative, gaps \subseteq gaps', ledger' = ledger,
           \A r \in Stagings : Outstanding(r)' <= Outstanding(r) /\ Outstanding(r)' \in Nat
    PROVE  LedgerConservative'
  <1> SUFFICES ASSUME gaps \cap {"lapsed", "ledger"} = {}, NEW r \in Stagings, Outstanding(r)' > 0
               PROVE  ledger[r] # None /\ ledger[r] >= Outstanding(r)'
    BY DEF LedgerConservative
  <1>1. Outstanding(r) \in Nat /\ ledger[r] \in Nat \cup {None}
    BY PromisedNumbers, QuotaNumbers
  <1> QED BY <1>1 DEF LedgerConservative

-----------------------------------------------------------------------------
(* The initial state.                                                      *)
LEMMA QuotaInitInv == QuotaInit => QuotaInv
  <1> SUFFICES ASSUME QuotaInit PROVE QuotaInv
    OBVIOUS
  <1> USE DEF QuotaInit
  <1>1. QuotaTypeOK
    BY ConstantsAssumption DEF QuotaTypeOK, Empty, NoEntries, Sizes, Entries
  <1>2. Appends /\ Measuring
    BY ConstantsAssumption DEF Appends, Measuring, Empty, Active, InUse, Reserving
  <1>3. Accounted
    BY ConstantsAssumption DEF Accounted, Covered, Account
  <1>4. \A r \in Stagings : ~Active(r) /\ size[r] = 0
    BY DEF Active, InUse, Reserving, Empty
  <1>5. LedgerConservative
    BY <1>4 DEF LedgerConservative, Outstanding
  <1>6. CapacityKept
    <2>1. [r \in Stagings |-> Promised(r)] = Empty
      BY <1>4 DEF Promised, Empty
    <2>2. Bytes(Empty) = {}
      BY ConstantsAssumption DEF Bytes, Empty
    <2> QED BY <2>1, <2>2, FS_EmptySet, ConstantsAssumption DEF CapacityKept, TotalBytes
  <1> QED BY <1>1, <1>2, <1>3, <1>5, <1>6 DEF QuotaInv

(* Steps that only move an append, or end one.                             *)
LEMMA SmallStepInv ==
    ASSUME QuotaInv, NEW r \in Stagings,
           Create(owner'[r], r) \/ ReserveTimesOut(r) \/ Write(r) \/ WriteFails(r) \/ Mark(r)
           \/ Discard(r) \/ DiscardFails(r) \/ Finalize(r)
    PROVE  QuotaInv'
  <1> USE DEF QuotaInv, resVars, syncVars
  <1>0. /\ size[r] \in Nat /\ reserved[r] \in Nat /\ written[r] \in Nat /\ None \notin Nat /\ r # None
        /\ size[r] \in 0..MaxWrites /\ reserved[r] \in 0..MaxWrites /\ written[r] \in 0..MaxWrites
    BY QuotaNumbers DEF QuotaTypeOK, Sizes
  <1>1. QuotaTypeOK'
    <2>1. /\ status' \in [Stagings -> InUse \cup Left \cup {"none", "gone"}]
          /\ owner' \in [Stagings -> Procs \cup {None}] /\ alive' \subseteq Procs
      BY DEF Create, ReserveTimesOut, Write, WriteFails, Mark, Discard, DiscardFails,
         Finalize,
             QuotaTypeOK, InUse, Reserving, Left
    <2>2. size' \in Sizes /\ reserved' \in Sizes /\ written' \in Sizes /\ measure' \in Sizes
      BY <1>0, ConstantsAssumption DEF Create, ReserveTimesOut, Write, WriteFails, Mark,
         Discard, DiscardFails, Finalize,
             QuotaTypeOK, Sizes, Appends, Active, InUse
    <2>3. /\ lock' \in Stagings \cup {None} /\ cache' \in [Procs -> Sizes \cup {None}]
          /\ ledger' \in Entries
      BY DEF Create, ReserveTimesOut, Write, WriteFails, Mark, Discard, DiscardFails,
         Finalize,
             QuotaTypeOK, Invalidate
    <2>4. dirty' \in [Procs -> SUBSET Stagings] /\ timer' \subseteq Procs
      BY DEF Create, ReserveTimesOut, Write, WriteFails, Mark, Discard, DiscardFails,
         Finalize,
             QuotaTypeOK, Schedule, Appends, Active, InUse
    <2>5. gaps' \subseteq Gaps
      <3>1. Overlap(r) \subseteq Gaps
        BY DEF Overlap, Gaps
      <3> QED BY <3>1 DEF Create, ReserveTimesOut, Write, WriteFails, Mark, Discard,
                 DiscardFails,
                 Finalize, QuotaTypeOK
    <2>6. faults' \in 0..MaxFaults
      BY ConstantsAssumption DEF Create, ReserveTimesOut, Write, WriteFails, Mark, Discard,
         DiscardFails, Finalize, QuotaTypeOK, Fault
    <2> QED BY <2>1, <2>2, <2>3, <2>4, <2>5, <2>6 DEF QuotaTypeOK
  <1>2. /\ UNCHANGED <<alive, lock, measure, ledger>> /\ gaps \subseteq gaps'
        /\ \A s \in Stagings : s # r => /\ status'[s] = status[s] /\ owner'[s] = owner[s]
                                        /\ size'[s] = size[s] /\ reserved'[s] = reserved[s]
                                        /\ written'[s] = written[s]
    <2>1. CASE Create(owner'[r], r) \/ Write(r) \/ Mark(r)
      BY <2>1 DEF Create, Write, Mark, QuotaTypeOK, Sizes
    <2>2. CASE Discard(r) \/ Finalize(r)
      BY <2>2 DEF Discard, Finalize, QuotaTypeOK, Sizes
    <2>3. CASE ReserveTimesOut(r) \/ WriteFails(r) \/ DiscardFails(r)
      BY <2>3 DEF ReserveTimesOut, WriteFails, DiscardFails, QuotaTypeOK
    <2> QED BY <2>1, <2>2, <2>3
  <1>n. status[r] \notin Reserving /\ status'[r] \notin Reserving
    <2>1. lock = None => status[r] \notin Reserving
      BY <1>0 DEF Measuring
    <2> QED BY <2>1 DEF Create, ReserveTimesOut, Write, WriteFails, Mark, Discard,
               DiscardFails,
               Finalize, Reserving, QuotaTypeOK
  <1>3. /\ Create(owner'[r], r) \/ owner' = owner
        /\ Create(owner'[r], r) => lock = None /\ status[r] = "none"
        /\ cache' = cache \/ cache' = [cache EXCEPT ![owner'[r]] = None]
    BY DEF Create, ReserveTimesOut, Write, WriteFails, Mark, Discard, DiscardFails,
       Finalize,
           Invalidate
  <1>4. Appends'
    <2> SUFFICES ASSUME NEW s \in Stagings
                 PROVE  /\ status'[s] = "none" <=> owner'[s] = None
                        /\ Active(s)' => /\ owner'[s] \in alive' /\ written'[s] <= size'[s]
                                         /\ size'[s] <= reserved'[s]
                        /\ status'[s] \in {"none", "gone"} => size'[s] = 0
                        /\ status'[s] = "none" => written'[s] = 0
                        /\ status'[s] \in {"none", "idle"} \cup Reserving => reserved'[s] = written'[s]
                        /\ status'[s] \in Reserving => reserved'[s] < MaxWrites
                        /\ status'[s] = "writing" => size'[s] = written'[s] /\ reserved'[s] = written'[s] + 1
                        /\ status'[s] = "marking" => size'[s] = reserved'[s] /\ reserved'[s] = written'[s] + 1
      BY DEF Appends
    <2>1. CASE s # r
      BY <1>2, <2>1 DEF Appends, Active
    <2>2. CASE s = r /\ Create(owner'[r], r)
      BY <1>0, <2>2, ConstantsAssumption DEF Create, Appends, Active, InUse, Reserving,
         QuotaTypeOK
    <2>3. CASE s = r /\ (ReserveTimesOut(r) \/ WriteFails(r) \/ DiscardFails(r))
      BY <1>0, <2>3 DEF ReserveTimesOut, WriteFails, DiscardFails, Appends, Active, InUse,
         Reserving, QuotaTypeOK
    <2>4. CASE s = r /\ Write(r)
      <3>1. size'[r] = size[r] + 1 /\ status'[r] = "marking"
        BY <2>4 DEF Write, QuotaTypeOK, Sizes
      <3> QED BY <1>0, <2>4, <3>1 DEF Write, Appends, Active, InUse, Reserving
    <2>m. CASE s = r /\ Mark(r)
      <3>1. written'[r] = written[r] + 1 /\ status'[r] = "idle"
        BY <2>m DEF Mark, QuotaTypeOK, Sizes
      <3> QED BY <1>0, <2>m, <3>1 DEF Mark, Appends, Active, InUse, Reserving
    <2>5. CASE s = r /\ (Discard(r) \/ Finalize(r))
      BY <1>0, <2>5 DEF Discard, Finalize, Appends, Active, InUse, Reserving, QuotaTypeOK,
         Sizes
    <2> QED BY <2>1, <2>2, <2>3, <2>4, <2>m, <2>5
  <1>5. Measuring'
    <2>1. \A s \in Stagings : status'[s] \in Reserving <=> lock' = s
      BY <1>2, <1>n DEF Measuring
    <2>2. lock # None => owner'[lock] = owner[lock] /\ owner[lock] \in Procs
      <3>1. ASSUME lock # None PROVE lock \in Stagings /\ owner[lock] # None
        BY <3>1, ConstantsAssumption DEF Measuring, Appends, Active, InUse, Reserving,
           QuotaTypeOK
      <3> QED BY <1>3, <3>1 DEF QuotaTypeOK
    <2> QED BY <1>2, <1>3, <2>1, <2>2 DEF Measuring, QuotaTypeOK
  <1>6. \A q \in Procs : Account(q)' \in {None, Account(q)}
    BY <1>0, <1>2, <1>3 DEF Account, QuotaTypeOK
  <1>7. \A s \in Stagings : /\ Promised(s)' <= Promised(s) /\ Promised(s)' \in Nat
                            /\ Outstanding(s)' <= Outstanding(s) /\ Outstanding(s)' \in Nat
    <2> SUFFICES ASSUME NEW s \in Stagings
                 PROVE  /\ Promised(s)' <= Promised(s) /\ Promised(s)' \in Nat
                        /\ Outstanding(s)' <= Outstanding(s) /\ Outstanding(s)' \in Nat
      OBVIOUS
    <2>1. CASE s # r
      BY <1>2, <2>1, PromisedNumbers DEF Promised, Outstanding, Active
    <2>2. CASE s = r
      <3>1. CASE Create(owner'[r], r)
        BY <1>0, <2>2, <3>1 DEF Create, Appends, Promised, Outstanding, Active, QuotaTypeOK
      <3>2. CASE ReserveTimesOut(r) \/ WriteFails(r) \/ DiscardFails(r)
        BY <1>0, <2>2, <3>2 DEF ReserveTimesOut, WriteFails, DiscardFails, Promised,
           Outstanding,
           Active, InUse, Reserving, QuotaTypeOK, Appends
      <3>3. CASE Write(r)
        <4>1. size'[r] = size[r] + 1 /\ status'[r] = "marking"
          BY <3>3 DEF Write, QuotaTypeOK, Sizes
        <4> QED BY <1>0, <2>2, <3>3, <4>1 DEF Write, Appends, Promised, Outstanding,
                   Active, InUse
      <3>4. CASE Mark(r)
        <4>1. written'[r] = written[r] + 1 /\ status'[r] = "idle"
          BY <3>4 DEF Mark, QuotaTypeOK, Sizes
        <4> QED BY <1>0, <2>2, <3>4, <4>1 DEF Mark, Appends, Promised, Outstanding, Active,
                   InUse
      <3>5. CASE Discard(r) \/ Finalize(r)
        BY <1>0, <2>2, <3>5 DEF Discard, Finalize, Promised, Outstanding,
           Active, InUse, Reserving, QuotaTypeOK, Sizes, Appends
      <3> QED BY <3>1, <3>2, <3>3, <3>4, <3>5
    <2> QED BY <2>1, <2>2
  <1>8. Accounted'
    <2> SUFFICES ASSUME gaps' \subseteq {"sync"}, NEW q \in alive, NEW s \in Stagings
                 PROVE  Covered(q, s)'
      BY <1>2 DEF Accounted
    <2>1. Covered(q, s) /\ q \in Procs
      BY <1>2 DEF Accounted, QuotaTypeOK
    <2>2. CASE s # r
      BY <1>2, <1>6, <1>7, <2>1, <2>2, CoverStays, PromisedNumbers DEF Landed, Active
    <2>3. CASE s = r /\ Create(owner'[r], r)
      <3>1. Promised(r)' = 0 /\ Landed(r)' = 0
        BY <1>0, <2>3 DEF Create, Appends, Promised, Landed, Active, QuotaTypeOK
      <3>2. Account(q)' # None => Account(q)'[r] \in Nat /\ Shown(r)' \in Nat
        <4>1. Account(q) # None => Account(q)[r] \in Nat
          BY <2>1, QuotaNumbers, ConstantsAssumption DEF Sizes
        <4>2. Shown(r)' = Shown(r) /\ Shown(r) \in Nat
          BY <1>2, QuotaNumbers DEF Shown
        <4> QED BY <1>6, <2>1, <4>1, <4>2
      <3> QED BY <2>3, <3>1, <3>2 DEF Covered
    <2>4. CASE s = r /\ Mark(r)
      <3>1. written'[r] = written[r] + 1 /\ Landed(r)' = size[r]
        BY <1>0, <2>4 DEF Mark, QuotaTypeOK, Sizes, Landed, Active, InUse, Appends
      <3>2. CASE owner[r] # q
        BY <1>2, <1>6, <1>7, <2>1, <2>4, <3>2, CoverStays DEF Mark
      <3>3. CASE owner[r] = q /\ Account(q)' # None
        <4>1. cache'[q] = None
          BY <2>1, <2>4, <3>3 DEF Mark, Invalidate, QuotaTypeOK
        <4>2. lock # None /\ owner[lock] = q /\ Account(q)' = measure
          BY <2>4, <3>3, <4>1 DEF Account, Mark
        <4>3. size[r] <= measure[r]
          BY <1>0, <2>4, <3>3, <4>2, QuotaNumbers DEF Mark, Overlap
        <4> QED BY <2>4, <3>1, <3>3, <4>2, <4>3 DEF Covered, Mark
      <3> QED BY <2>4, <3>2, <3>3 DEF Covered, Mark
    <2>5. CASE s = r /\ ~Create(owner'[r], r) /\ ~Mark(r)
      <3>1. Landed(r)' <= Landed(r) /\ Landed(r)' \in Nat
        BY <1>0, <1>1, <2>5 DEF Write, WriteFails, ReserveTimesOut, Discard, DiscardFails,
           Finalize,
           Landed, Active, InUse, Reserving, QuotaTypeOK, Sizes, Appends
      <3> QED BY <1>2, <1>3, <1>6, <1>7, <2>1, <2>5, <3>1, CoverStays
    <2> QED BY <2>2, <2>3, <2>4, <2>5
  <1>9. LedgerConservative' /\ CapacityKept'
    BY <1>1, <1>2, <1>4, <1>7, LedgerStays, CapacityStays
  <1> QED BY <1>1, <1>4, <1>5, <1>8, <1>9
-----------------------------------------------------------------------------
(* Reading and writing the ledger.                                         *)

\* What is read of it covers what is promised, unless bytes have left the accounts.
LEMMA ReadCovers ==
    ASSUME QuotaInv, gaps \subseteq {"sync"}, NEW lapsed, NEW rs,
           Opened(Read(lapsed), rs) \subseteq {"sync"},
           NEW q \in alive, Account(q) # None, NEW r \in Stagings, owner[r] # q
    PROVE  /\ Promised(r) <= Account(q)[r] + IF Read(lapsed)[r] = None THEN 0 ELSE Read(lapsed)[r]
           /\ r \in rs => Landed(r) <= Account(q)[r]
  <1> USE DEF QuotaInv
  <1>0. /\ Account(q)[r] \in Nat /\ Shown(r) \in Nat /\ Promised(r) \in Nat /\ Landed(r) \in Nat
        /\ size[r] \in Nat /\ reserved[r] \in Nat /\ written[r] \in Nat
        /\ ledger[r] \in Nat \cup {None}
    <2>1. q \in Procs /\ MaxWrites \in Nat
      BY ConstantsAssumption DEF QuotaTypeOK
    <2> QED BY <2>1, QuotaNumbers, PromisedNumbers DEF Sizes
  <1>1. r \in rs \/ Read(lapsed)[r] # ledger[r] => Landed(r) <= Account(q)[r]
    <2>1. SUFFICES ASSUME r \in rs \/ Read(lapsed)[r] # ledger[r] PROVE ~Behind(r)
      BY <1>0 DEF Behind, Landed
    <2> QED BY <2>1 DEF Opened
  <1>2. CASE Read(lapsed)[r] = ledger[r]
    BY <1>0, <1>1, <1>2 DEF Accounted, Covered, Shown
  <1>3. CASE Read(lapsed)[r] # ledger[r]
    <2>1. Read(lapsed)[r] = None /\ ledger[r] # None
      BY <1>3 DEF Read
    <2>2. Active(r) => Outstanding(r) = 0
      <3>1. Active(r) => owner[r] \in alive /\ Outstanding(r) \in Nat
        BY PromisedNumbers, ConstantsAssumption DEF Appends
      <3> QED BY <2>1, <3>1 DEF Opened
    <2>3. Promised(r) = Landed(r)
      BY <1>0, <2>2, PromisedNumbers DEF Landed
    <2> QED BY <1>0, <1>1, <1>3, <2>1, <2>3
  <1> QED BY <1>2, <1>3

\* The entries of rs are rewritten after they have been read, for all or none of them.
LEMMA LedgerWritten ==
    ASSUME QuotaInv, NEW lapsed, NEW rs \in SUBSET Stagings, gaps \subseteq gaps',
           \/ "ledger" \in gaps'
           \/ /\ Opened(Read(lapsed), rs) \subseteq gaps'
              /\ \A r \in Stagings :
                    ledger'[r] = IF r \notin rs THEN Read(lapsed)[r]
                                 ELSE IF Active(r) THEN reserved'[r] - written[r] ELSE None,
           UNCHANGED <<alive, owner, size, written>>,
           \A q \in alive : Account(q)' \in {None, Account(q)},
           \A r \in Stagings : /\ Active(r)' <=> Active(r)
                               /\ reserved'[r] = reserved[r]
                                  \/ (r \in rs /\ Active(r) /\ reserved'[r] = reserved[r] + 1)
    PROVE  Accounted' /\ LedgerConservative'
  <1> USE DEF QuotaInv
  <1>0. ASSUME NEW r \in Stagings
        PROVE  /\ size[r] \in Nat /\ reserved[r] \in Nat /\ written[r] \in Nat
               /\ Active(r) => written[r] <= size[r] /\ size[r] <= reserved[r] /\ owner[r] \in alive
               /\ Promised(r) = IF Active(r) THEN reserved[r] ELSE size[r]
               /\ Promised(r)' = IF Active(r) THEN reserved'[r] ELSE size[r]
               /\ Outstanding(r)' = IF Active(r) THEN reserved'[r] - written[r] ELSE 0
               /\ Landed(r)' = Landed(r)
               /\ None \notin Nat /\ ledger[r] \in Nat \cup {None}
    <2>1. /\ size[r] \in Nat /\ reserved[r] \in Nat /\ written[r] \in Nat
          /\ None \notin Nat /\ ledger[r] \in Nat \cup {None}
      BY QuotaNumbers
    <2>2. Active(r) => written[r] <= size[r] /\ size[r] <= reserved[r] /\ owner[r] \in alive
      BY DEF Appends
    <2> QED BY <2>1, <2>2 DEF Promised, Outstanding, Landed
  <1>1. Accounted'
    <2> SUFFICES ASSUME gaps' \subseteq {"sync"}, NEW q \in alive, NEW r \in Stagings, Account(q)' # None
                 PROVE  IF owner[r] = q THEN Landed(r)' <= Account(q)'[r]
                        ELSE Promised(r)' <= Account(q)'[r] + Shown(r)'
      BY DEF Accounted, Covered
    <2>1. /\ gaps \subseteq {"sync"} /\ Opened(Read(lapsed), rs) \subseteq {"sync"}
          /\ Account(q)' = Account(q)
          /\ ledger'[r] = IF r \notin rs THEN Read(lapsed)[r]
                          ELSE IF Active(r) THEN reserved'[r] - written[r] ELSE None
      OBVIOUS
    <2>2. CASE owner[r] = q
      BY <1>0, <2>1, <2>2 DEF Accounted, Covered
    <2>3. CASE owner[r] # q
      <3>1. /\ Promised(r) <= Account(q)[r] + IF Read(lapsed)[r] = None THEN 0 ELSE Read(lapsed)[r]
            /\ r \in rs => Landed(r) <= Account(q)[r]
        BY <2>1, <2>3, ReadCovers
      <3>2. Account(q)[r] \in Nat
        <4>1. q \in Procs
          BY DEF QuotaTypeOK
        <4> QED BY <2>1, <4>1, QuotaNumbers, ConstantsAssumption DEF Sizes
      <3>3. CASE r \in rs
        BY <1>0, <2>1, <3>1, <3>2, <3>3 DEF Shown, Landed
      <3>4. CASE r \notin rs
        <4>1. ledger'[r] = Read(lapsed)[r] /\ Read(lapsed)[r] \in Nat \cup {None}
          BY <1>0, <2>1, <3>4 DEF Read
        <4>2. Promised(r)' = Promised(r)
          BY <1>0, <3>4
        <4> QED BY <1>0, <2>1, <2>3, <3>1, <3>2, <4>1, <4>2 DEF Shown
      <3> QED BY <2>3, <3>3, <3>4
    <2> QED BY <2>2, <2>3
  <1>2. LedgerConservative'
    <2> SUFFICES ASSUME gaps' \cap {"lapsed", "ledger"} = {}, NEW r \in Stagings, Outstanding(r)' > 0
                 PROVE  ledger'[r] # None /\ ledger'[r] >= Outstanding(r)'
      BY DEF LedgerConservative
    <2>1. /\ Active(r) /\ "lapsed" \notin Opened(Read(lapsed), rs)
          /\ ledger'[r] = IF r \notin rs THEN Read(lapsed)[r] ELSE reserved'[r] - written[r]
      BY <1>0
    <2>2. CASE r \in rs
      BY <1>0, <2>1, <2>2
    <2>3. CASE r \notin rs
      <3>1. Outstanding(r) = Outstanding(r)' /\ reserved'[r] = reserved[r]
        BY <1>0, <2>1, <2>3 DEF Outstanding
      <3>2. ledger[r] # None /\ ledger[r] >= Outstanding(r)
        BY <3>1 DEF LedgerConservative
      <3>3. Read(lapsed)[r] # None
        BY <1>0, <2>1, <3>1, <3>2 DEF Opened
      <3> QED BY <2>1, <2>3, <3>1, <3>2, <3>3 DEF Read
    <2> QED BY <2>2, <2>3
  <1> QED BY <1>1, <1>2
-----------------------------------------------------------------------------
(* The steps under the lock.                                               *)
LEMMA ReserveInv ==
    ASSUME QuotaInv, NEW r \in Stagings, Reserve(r)
    PROVE  QuotaInv'
  <1> USE DEF QuotaInv, resVars, syncVars
  <1>1. /\ status[r] = "idle" /\ lock = None /\ lock' = r /\ r # None /\ reserved[r] < MaxWrites
        /\ owner[r] \in alive /\ owner[r] \in Procs
        /\ status' = [status EXCEPT ![r] = IF cache[owner[r]] = None THEN "scanning" ELSE "measured"]
        /\ measure' = IF cache[owner[r]] = None THEN size ELSE cache[owner[r]]
        /\ UNCHANGED <<alive, owner, size, reserved, written, cache, ledger, syncVars, gaps, faults>>
    BY QuotaNumbers DEF Reserve, Appends, Active, InUse, QuotaTypeOK
  <1>2. \A s \in Stagings : /\ Active(s)' <=> Active(s)
                            /\ s # r => status'[s] = status[s]
                            /\ status'[r] \in Reserving
    BY <1>1 DEF Active, InUse, Reserving, QuotaTypeOK
  <1>3. \A s \in Stagings : Promised(s)' = Promised(s) /\ Outstanding(s)' = Outstanding(s)
                            /\ Landed(s)' = Landed(s)
    BY <1>1, <1>2 DEF Promised, Outstanding, Landed
  <1>4. QuotaTypeOK'
    <2>1. status' \in [Stagings -> InUse \cup Left \cup {"none", "gone"}]
      BY <1>1 DEF QuotaTypeOK, InUse, Reserving
    <2>2. measure' \in Sizes
      BY <1>1 DEF QuotaTypeOK
    <2> QED BY <1>1, <2>1, <2>2 DEF QuotaTypeOK
  <1>5. Appends'
    BY <1>1, <1>2 DEF Appends, Reserving
  <1>6. Measuring'
    <2>1. \A s \in Stagings : status[s] \notin Reserving
      BY <1>1, QuotaNumbers DEF Measuring
    <2>2. \A s \in Stagings : status'[s] \in Reserving <=> lock' = s
      BY <1>1, <1>2, <2>1
    <2> QED BY <1>1, <2>2 DEF Measuring
  <1>7. Accounted'
    <2> SUFFICES ASSUME gaps \subseteq {"sync"}, NEW q \in alive, NEW s \in Stagings PROVE Covered(q, s)'
      BY <1>1 DEF Accounted
    <2>1. Covered(q, s) /\ q \in Procs
      BY DEF Accounted, QuotaTypeOK
    <2>2. CASE owner[r] # q \/ cache[q] # None
      <3>1. Account(q)' = Account(q)
        BY <1>1, <2>2 DEF Account
      <3> QED BY <1>1, <1>3, <2>1, <3>1 DEF Covered, Shown
    <2>3. CASE owner[r] = q /\ cache[q] = None
      <3>1. Account(q)' = size
        BY <1>1, <2>3 DEF Account
      <3>2. /\ size[s] \in Nat /\ written[s] \in Nat /\ reserved[s] \in Nat /\ ledger[s] \in Nat \cup {None}
            /\ Active(s) => written[s] <= size[s]
        BY QuotaNumbers DEF Appends
      <3>3. Landed(s) <= size[s]
        BY <3>2 DEF Landed
      <3>4. Promised(s) <= size[s] + Shown(s)
        BY <3>2, PromisedNumbers DEF Shown, LedgerConservative
      <3> QED BY <1>1, <1>3, <3>1, <3>3, <3>4 DEF Covered, Shown
    <2> QED BY <2>2, <2>3
  <1>8. LedgerConservative'
    BY <1>1, <1>3 DEF LedgerConservative
  <1>9. CapacityKept'
    BY <1>1, <1>3, <1>4, <1>5, CapacityStays, PromisedNumbers
  <1> QED BY <1>4, <1>5, <1>6, <1>7, <1>8, <1>9

LEMMA ScanEndsInv == QuotaInv /\ ScanEnds => QuotaInv'
  <1> SUFFICES ASSUME QuotaInv, ScanEnds PROVE QuotaInv'
    OBVIOUS
  <1> USE DEF QuotaInv, resVars, syncVars
  <1>1. /\ lock \in Stagings /\ status[lock] = "scanning" /\ owner[lock] \in alive /\ owner[lock] \in Procs
        /\ UNCHANGED <<alive, owner, size, reserved, written, lock, ledger, syncVars, gaps, faults>>
        /\ status' = [status EXCEPT ![lock] = "measured"]
        /\ measure' \in Sizes /\ cache' = [cache EXCEPT ![owner[lock]] = measure']
        /\ \A r \in Stagings : measure'[r] \in measure[r]..size[r]
    BY DEF ScanEnds, Appends, Active, InUse, Reserving, QuotaTypeOK
  <1>2. \A s \in Stagings : /\ Active(s)' <=> Active(s)
                            /\ s # lock => status'[s] = status[s]
                            /\ status'[lock] \in Reserving
    BY <1>1 DEF Active, InUse, Reserving, QuotaTypeOK
  <1>3. \A s \in Stagings : Promised(s)' = Promised(s) /\ Outstanding(s)' = Outstanding(s)
                            /\ Landed(s)' = Landed(s)
    BY <1>1, <1>2 DEF Promised, Outstanding, Landed
  <1>4. QuotaTypeOK'
    <2>1. status' \in [Stagings -> InUse \cup Left \cup {"none", "gone"}]
      BY <1>1 DEF QuotaTypeOK, InUse, Reserving
    <2>2. cache' \in [Procs -> Sizes \cup {None}]
      BY <1>1 DEF QuotaTypeOK
    <2> QED BY <1>1, <2>1, <2>2 DEF QuotaTypeOK
  <1>5. Appends'
    BY <1>1, <1>2 DEF Appends, Reserving
  <1>6. Measuring'
    <2>1. cache'[owner[lock]] = measure'
      BY <1>1 DEF QuotaTypeOK
    <2> QED BY <1>1, <1>2, <2>1 DEF Measuring, Reserving
  <1>7. Accounted'
    <2> SUFFICES ASSUME gaps \subseteq {"sync"}, NEW q \in alive, NEW s \in Stagings PROVE Covered(q, s)'
      BY <1>1 DEF Accounted
    <2>1. Covered(q, s) /\ q \in Procs
      BY DEF Accounted, QuotaTypeOK
    <2>2. CASE owner[lock] # q
      <3>1. Account(q)' = Account(q)
        BY <1>1, <2>1, <2>2 DEF Account, QuotaTypeOK
      <3> QED BY <1>1, <1>3, <2>1, <3>1 DEF Covered, Shown
    <2>3. CASE owner[lock] = q
      <3>1. Account(q)' = measure' /\ Account(q) = measure /\ Account(q) # None
        <4>1. measure # None /\ lock # None
          BY <1>1, QuotaNumbers, ConstantsAssumption DEF QuotaTypeOK
        <4> QED BY <1>1, <2>3, <4>1 DEF Account
      <3>2. /\ measure[s] \in Nat /\ measure'[s] \in Nat /\ measure[s] <= measure'[s]
            /\ Shown(s) \in Nat /\ Promised(s) \in Nat /\ Landed(s) \in Nat /\ size[s] \in Nat
        BY <1>1, QuotaNumbers, PromisedNumbers
      <3> QED BY <1>1, <1>3, <2>1, <3>1, <3>2 DEF Covered, Shown
    <2> QED BY <2>2, <2>3
  <1>8. LedgerConservative'
    BY <1>1, <1>3 DEF LedgerConservative
  <1>9. CapacityKept'
    BY <1>1, <1>3, <1>4, <1>5, CapacityStays, PromisedNumbers
  <1> QED BY <1>4, <1>5, <1>6, <1>7, <1>8, <1>9
LEMMA WrittenType ==
    ASSUME QuotaTypeOK, NEW new \in Entries, NEW opened \in SUBSET Gaps, WriteLedger(new, opened)
    PROVE  /\ ledger' \in Entries /\ gaps' \subseteq Gaps /\ faults' \in 0..MaxFaults
           /\ gaps \subseteq gaps'
           /\ "ledger" \in gaps' \/ (ledger' = new /\ opened \subseteq gaps')
  <1>1. NoEntries \in Entries
    BY DEF NoEntries, Entries
  <1>2. Fault => faults' \in 0..MaxFaults
    BY ConstantsAssumption DEF QuotaTypeOK, Fault
  <1> QED BY <1>1, <1>2 DEF WriteLedger, QuotaTypeOK, Gaps

LEMMA ReadType ==
    ASSUME QuotaTypeOK, NEW lapsed, NEW rs
    PROVE  Read(lapsed) \in Entries /\ Opened(Read(lapsed), rs) \subseteq Gaps
  BY DEF QuotaTypeOK, Read, Entries, Opened, Gaps

\* A reservation that is admitted has been counted with all that is promised.
LEMMA AdmitInv == QuotaInv /\ Admit => QuotaInv'
  <1> SUFFICES ASSUME QuotaInv, Admit PROVE QuotaInv'
    OBVIOUS
  <1> USE DEF QuotaInv, resVars, syncVars
  <1>1. PICK lapsed \in Lapsed :
            /\ lock # None /\ status[lock] = "measured"
            /\ \/ /\ Fits(Read(lapsed))
                  /\ reserved' = [reserved EXCEPT ![lock] = @ + 1]
                  /\ status' = [status EXCEPT ![lock] = "writing"]
                  /\ WriteLedger([Read(lapsed) EXCEPT ![lock] = Outstanding(lock) + 1],
                                 Opened(Read(lapsed), {lock}))
               \/ /\ ~Fits(Read(lapsed))
                  /\ status' = [status EXCEPT ![lock] = "failed"]
                  /\ WriteLedger(Read(lapsed), Opened(Read(lapsed), {}))
                  /\ UNCHANGED reserved
            /\ lock' = None /\ measure' = Empty
            /\ UNCHANGED <<alive, owner, size, written, cache, syncVars>>
    BY DEF Admit
  <1>2. /\ lock \in Stagings /\ owner[lock] \in alive /\ owner[lock] \in Procs /\ Active(lock)
        /\ reserved[lock] = written[lock] /\ Outstanding(lock) = 0
        /\ reserved[lock] \in Nat /\ size[lock] \in Nat /\ written[lock] \in Nat
        /\ written[lock] <= size[lock] /\ size[lock] <= reserved[lock]
        /\ cache[owner[lock]] \in {None, measure} /\ reserved[lock] < MaxWrites
    <2>1. lock \in Stagings
      BY <1>1 DEF QuotaTypeOK
    <2>2. Active(lock) /\ status[lock] \in Reserving
      BY <1>1, <2>1 DEF Active, InUse, Reserving
    <2> QED BY <1>1, <2>1, <2>2, QuotaNumbers, PromisedNumbers DEF Appends, QuotaTypeOK,
               Measuring
  <1>w. /\ ledger' \in Entries /\ gaps' \subseteq Gaps /\ faults' \in 0..MaxFaults
        /\ gaps \subseteq gaps'
        /\ \/ /\ Fits(Read(lapsed)) /\ reserved' = [reserved EXCEPT ![lock] = @ + 1]
              /\ \/ "ledger" \in gaps'
                 \/ /\ ledger' = [Read(lapsed) EXCEPT ![lock] = Outstanding(lock) + 1]
                    /\ Opened(Read(lapsed), {lock}) \subseteq gaps'
           \/ /\ reserved' = reserved
              /\ \/ "ledger" \in gaps'
                 \/ ledger' = Read(lapsed) /\ Opened(Read(lapsed), {}) \subseteq gaps'
    <2>1. /\ Read(lapsed) \in Entries /\ Opened(Read(lapsed), {}) \in SUBSET Gaps
          /\ Opened(Read(lapsed), {lock}) \in SUBSET Gaps
      BY ReadType
    <2>2. [Read(lapsed) EXCEPT ![lock] = Outstanding(lock) + 1] \in Entries
      BY <1>2, <2>1, ConstantsAssumption DEF Entries
    <2>3. \/ WriteLedger([Read(lapsed) EXCEPT ![lock] = Outstanding(lock) + 1],
                         Opened(Read(lapsed), {lock}))
          \/ WriteLedger(Read(lapsed), Opened(Read(lapsed), {}))
      BY <1>1
    <2> QED BY <1>1, <2>1, <2>2, <2>3, WrittenType
  <1>3. \A s \in Stagings : /\ Active(s)' <=> Active(s)
                            /\ s # lock => status'[s] = status[s] /\ reserved'[s] = reserved[s]
                            /\ status'[lock] \notin Reserving
    BY <1>1, <1>2 DEF Active, InUse, Reserving, QuotaTypeOK, Sizes
  <1>4. QuotaTypeOK'
    <2>1. status' \in [Stagings -> InUse \cup Left \cup {"none", "gone"}]
      BY <1>1 DEF QuotaTypeOK, InUse, Reserving
    <2>2. reserved' \in Sizes /\ measure' \in Sizes
      <3>1. reserved[lock] + 1 \in 0..MaxWrites
        BY <1>2, ConstantsAssumption
      <3> QED BY <1>1, <1>2, <3>1, ConstantsAssumption DEF QuotaTypeOK, Sizes, Empty
    <2> QED BY <1>1, <1>w, <2>1, <2>2 DEF QuotaTypeOK
  <1>5. Appends'
    <2> SUFFICES ASSUME NEW s \in Stagings
                 PROVE  /\ status'[s] = "none" <=> owner'[s] = None
                        /\ Active(s)' => /\ owner'[s] \in alive' /\ written'[s] <= size'[s]
                                         /\ size'[s] <= reserved'[s]
                        /\ status'[s] \in {"none", "gone"} => size'[s] = 0
                        /\ status'[s] = "none" => written'[s] = 0
                        /\ status'[s] \in {"none", "idle"} \cup Reserving => reserved'[s] = written'[s]
                        /\ status'[s] \in Reserving => reserved'[s] < MaxWrites
                        /\ status'[s] = "writing" => size'[s] = written'[s] /\ reserved'[s] = written'[s] + 1
                        /\ status'[s] = "marking" => size'[s] = reserved'[s] /\ reserved'[s] = written'[s] + 1
      BY DEF Appends
    <2>1. CASE s # lock
      BY <1>1, <1>3, <2>1 DEF Appends
    <2>2. CASE s = lock
      <3>1. \/ status'[lock] = "writing" /\ reserved'[lock] = reserved[lock] + 1
            \/ status'[lock] = "failed" /\ reserved'[lock] = reserved[lock]
        BY <1>1, <1>2 DEF QuotaTypeOK, Sizes
      <3> QED BY <1>1, <1>2, <2>2, <3>1, ConstantsAssumption DEF Reserving
    <2> QED BY <2>1, <2>2
  <1>6. Measuring'
    <2>1. \A s \in Stagings : status'[s] \notin Reserving /\ s # None
      BY <1>3, QuotaNumbers DEF Measuring
    <2> QED BY <1>1, <2>1 DEF Measuring
  <1>7. \A q \in alive : Account(q)' \in {None, Account(q)}
    BY <1>1, <1>2 DEF Account
  <1>8. Accounted' /\ LedgerConservative'
    <2>1. CASE reserved' = [reserved EXCEPT ![lock] = @ + 1]
          /\ \/ "ledger" \in gaps'
             \/ /\ ledger' = [Read(lapsed) EXCEPT ![lock] = Outstanding(lock) + 1]
                /\ Opened(Read(lapsed), {lock}) \subseteq gaps'
      <3> DEFINE rs == {lock}
      <3>1. \A r \in Stagings : r \notin rs => reserved'[r] = reserved[r]
        BY <1>3
      <3>2. reserved'[lock] = reserved[lock] + 1
        BY <1>2, <2>1 DEF QuotaTypeOK, Sizes
      <3>3. \/ "ledger" \in gaps'
            \/ /\ Opened(Read(lapsed), rs) \subseteq gaps'
               /\ \A r \in Stagings :
                    ledger'[r] = IF r \notin rs THEN Read(lapsed)[r]
                                 ELSE IF Active(r) THEN reserved'[r] - written[r] ELSE None
        <4>1. reserved'[lock] - written[lock] = Outstanding(lock) + 1
          BY <1>2, <3>2
        <4>2. CASE /\ ledger' = [Read(lapsed) EXCEPT ![lock] = Outstanding(lock) + 1]
                   /\ Opened(Read(lapsed), {lock}) \subseteq gaps'
          <5>1. DOMAIN Read(lapsed) = Stagings
            BY DEF Read
          <5> QED BY <1>2, <4>1, <4>2, <5>1
        <4> QED BY <2>1, <4>2
      <3>4. \A r \in Stagings : /\ Active(r)' <=> Active(r)
                                /\ reserved'[r] = reserved[r]
                                   \/ (r \in rs /\ Active(r) /\ reserved'[r] = reserved[r] + 1)
        BY <1>2, <1>3, <3>1, <3>2
      <3> HIDE DEF rs
      <3>5. rs \in SUBSET Stagings
        BY <1>2 DEF rs
      <3> QED BY <1>1, <1>7, <1>w, <3>3, <3>4, <3>5, LedgerWritten
    <2>2. CASE reserved' = reserved
          /\ \/ "ledger" \in gaps'
             \/ ledger' = Read(lapsed) /\ Opened(Read(lapsed), {}) \subseteq gaps'
      <3>1. PICK rs \in SUBSET Stagings : rs = {}
        OBVIOUS
      <3>2. \/ "ledger" \in gaps'
            \/ /\ Opened(Read(lapsed), rs) \subseteq gaps'
               /\ \A r \in Stagings :
                    ledger'[r] = IF r \notin rs THEN Read(lapsed)[r]
                                 ELSE IF Active(r) THEN reserved'[r] - written[r] ELSE None
        BY <2>2, <3>1
      <3> QED BY <1>1, <1>3, <1>7, <1>w, <2>2, <3>2, LedgerWritten
    <2> QED BY <1>1, <1>w, <2>1, <2>2
  <1>9. CapacityKept'
    <2>1. CASE reserved' = reserved
      BY <1>1, <1>3, <1>4, <1>5, <1>w, <2>1, CapacityStays, PromisedNumbers DEF Promised
    <2>2. CASE /\ Fits(Read(lapsed)) /\ reserved' = [reserved EXCEPT ![lock] = @ + 1]
               /\ gaps' \subseteq {"sync"} /\ Opened(Read(lapsed), {lock}) \subseteq gaps'
      <3> DEFINE own  == {r \in Stagings : owner[r] = owner[lock]}
                 held == [r \in own |-> Outstanding(r)]
                 read == [r \in Stagings \ own |->
                            IF Read(lapsed)[r] = None THEN 0 ELSE Read(lapsed)[r]]
                 P    == [r \in Stagings |-> Promised(r)]
      <3>1. TotalBytes(measure) + TotalBytes(read) + TotalBytes(held) + 1 <= MaxTotal
        BY <2>2 DEF Fits
      <3>2. /\ P \in [Stagings -> Nat] /\ measure \in [Stagings -> Nat]
            /\ held \in [own -> Nat] /\ read \in [Stagings \ own -> Nat]
            /\ own \in SUBSET Stagings
        <4>1. \A r \in Stagings : /\ Promised(r) \in Nat /\ measure[r] \in Nat /\ Outstanding(r) \in Nat
                                 /\ Read(lapsed)[r] \in Nat \cup {None}
          BY QuotaNumbers, PromisedNumbers, ConstantsAssumption DEF Read
        <4> QED BY <4>1 DEF QuotaTypeOK, Sizes
      <3>3. Account(owner[lock]) = measure /\ measure # None
        BY <1>1, ConstantsAssumption DEF Account, QuotaTypeOK
      <3>4. \A r \in own : P[r] <= measure[r] + held[r]
        <4> SUFFICES ASSUME NEW r \in Stagings, owner[r] = owner[lock]
                     PROVE  Promised(r) <= measure[r] + Outstanding(r)
          OBVIOUS
        <4>1. Landed(r) <= measure[r]
          BY <1>1, <1>2, <1>w, <2>2, <3>3 DEF Accounted, Covered
        <4>2. /\ size[r] \in Nat /\ reserved[r] \in Nat /\ written[r] \in Nat /\ measure[r] \in Nat
          BY QuotaNumbers
        <4> QED BY <4>1, <4>2, PromisedNumbers DEF Landed
      <3>5. \A r \in Stagings \ own : P[r] <= measure[r] + read[r]
        <4> SUFFICES ASSUME NEW r \in Stagings, owner[r] # owner[lock]
                     PROVE  Promised(r) <= measure[r] + IF Read(lapsed)[r] = None THEN 0 ELSE Read(lapsed)[r]
          OBVIOUS
        <4> QED BY <1>2, <1>w, <2>2, <3>3, ReadCovers
      <3>6. \A r \in Stagings : P[r] <= MaxWrites
        BY PromisedNumbers, ConstantsAssumption
      <3>l. PICK l \in Stagings : l = lock
        BY <1>2
      <3>7. P' = [P EXCEPT ![l] = @ + 1]
        <4>1. \A r \in Stagings : r # l => Promised(r)' = Promised(r)
          BY <1>1, <1>3, <3>l DEF Promised
        <4>2. Promised(l)' = Promised(l) + 1
          <5>1. reserved'[l] = reserved[l] + 1
            BY <1>2, <2>2, <3>l DEF QuotaTypeOK, Sizes
          <5>2. size'[l] = size[l] /\ Active(l)' /\ Active(l)
            BY <1>1, <1>2, <1>3, <3>l
          <5>3. Promised(l) = reserved[l]
            BY <5>2, PromisedNumbers
          <5>4. Promised(l)' = reserved'[l]
            BY <1>2, <3>l, <5>1, <5>2 DEF Promised
          <5> QED BY <5>1, <5>3, <5>4
        <4>3. P' = [r \in Stagings |-> Promised(r)']
          OBVIOUS
        <4>4. [P EXCEPT ![l] = @ + 1]
                = [r \in Stagings |-> IF r = l THEN Promised(l) + 1 ELSE Promised(r)]
          OBVIOUS
        <4> HIDE DEF P
        <4> QED BY <4>1, <4>2, <4>3, <4>4
      <3>8. P' \in [Stagings -> Nat]
        <4> HIDE DEF P
        <4>1. P[l] + 1 \in Nat
          BY <3>2
        <4> QED BY <3>2, <3>7, <4>1
      <3> HIDE DEF own, held, read, P
      <3>9. TotalBytes(P) <= TotalBytes(measure) + TotalBytes(held) + TotalBytes(read)
        BY <3>2, <3>4, <3>5, <3>6, SumInTotal
      <3>10. TotalBytes(P') <= TotalBytes(P) + 1
        BY <3>2, <3>7, <3>8, OneMoreInTotal
      <3>11. /\ TotalBytes(P) \in Nat /\ TotalBytes(P') \in Nat /\ TotalBytes(measure) \in Nat
             /\ TotalBytes(held) \in Nat /\ TotalBytes(read) \in Nat
        <4>1. /\ DOMAIN P = Stagings /\ DOMAIN P' = Stagings /\ DOMAIN measure = Stagings
              /\ DOMAIN held = own /\ DOMAIN read = Stagings \ own
          BY <3>2, <3>8
        <4> QED BY <3>2, <4>1, BytesFinite
      <3>12. TotalBytes(P') <= MaxTotal
        BY <3>1, <3>9, <3>10, <3>11, ConstantsAssumption
      <3> QED BY <3>12 DEF CapacityKept, P, TotalBytes, Bytes
    <2> QED BY <1>w, <2>1, <2>2 DEF CapacityKept
  <1> QED BY <1>4, <1>5, <1>6, <1>8, <1>9
LEMMA SyncWritesInv ==
    ASSUME QuotaInv, NEW p \in Procs, SyncWrites(p)
    PROVE  QuotaInv'
  <1> USE DEF QuotaInv, resVars, syncVars
  <1>1. PICK lapsed \in Lapsed :
            /\ p \in timer /\ lock = None
            /\ timer' = timer \ {p} /\ dirty' = [dirty EXCEPT ![p] = {}]
            /\ WriteLedger([r \in Stagings |-> IF r \in dirty[p] THEN Entry(r) ELSE Read(lapsed)[r]],
                           Opened(Read(lapsed), dirty[p]))
            /\ UNCHANGED <<alive, resVars, lock, measure, cache>>
    BY DEF SyncWrites
  <1> DEFINE new == [r \in Stagings |-> IF r \in dirty[p] THEN Entry(r) ELSE Read(lapsed)[r]]
  <1>2. /\ ledger' \in Entries /\ gaps' \subseteq Gaps /\ faults' \in 0..MaxFaults
        /\ gaps \subseteq gaps'
        /\ "ledger" \in gaps' \/ (ledger' = new /\ Opened(Read(lapsed), dirty[p]) \subseteq gaps')
    <2>1. Read(lapsed) \in Entries /\ Opened(Read(lapsed), dirty[p]) \in SUBSET Gaps
      BY ReadType
    <2>2. new \in Entries
      BY <2>1, PromisedNumbers DEF Entries, Entry
    <2> HIDE DEF new
    <2> QED BY <1>1, <2>1, <2>2, WrittenType DEF new
  <1>3. QuotaTypeOK'
    BY <1>1, <1>2 DEF QuotaTypeOK
  <1>4. Appends' /\ Measuring'
    BY <1>1 DEF Appends, Measuring, Active
  <1>5. Accounted' /\ LedgerConservative'
    <2>1. dirty[p] \in SUBSET Stagings
      BY DEF QuotaTypeOK
    <2>2. \A r \in Stagings : Active(r) => Outstanding(r) = reserved[r] - written[r]
      BY PromisedNumbers
    <2>3. \/ "ledger" \in gaps'
          \/ /\ Opened(Read(lapsed), dirty[p]) \subseteq gaps'
             /\ \A r \in Stagings :
                    ledger'[r] = IF r \notin dirty[p] THEN Read(lapsed)[r]
                                 ELSE IF Active(r) THEN reserved'[r] - written[r] ELSE None
      BY <1>1, <1>2, <2>2 DEF Entry
    <2>4. /\ UNCHANGED <<alive, owner, size, written>>
          /\ \A q \in alive : Account(q)' \in {None, Account(q)}
          /\ \A r \in Stagings : (Active(r)' <=> Active(r)) /\ reserved'[r] = reserved[r]
      BY <1>1 DEF Account, Active
    <2> QED BY <1>2, <2>1, <2>3, <2>4, LedgerWritten
  <1>6. CapacityKept'
    BY <1>1, <1>2, <1>3, <1>4, CapacityStays, PromisedNumbers DEF Promised, Active
  <1> QED BY <1>3, <1>4, <1>5, <1>6

\* cleanup, which measures the disk under the lock.
LEMMA CleanupInv ==
    ASSUME QuotaInv, NEW p \in Procs, Cleanup(p)
    PROVE  QuotaInv'
  <1> USE DEF QuotaInv, resVars, syncVars
  <1>1. PICK rs \in SUBSET {r \in Stagings : status[r] \in Left} :
            /\ p \in alive /\ lock = None
            /\ status' = [r \in Stagings |-> IF r \in rs THEN "gone" ELSE status[r]]
            /\ size' = [r \in Stagings |-> IF r \in rs THEN 0 ELSE size[r]]
            /\ cache' = [cache EXCEPT ![p] = size']
            /\ UNCHANGED <<alive, owner, reserved, written, lock, measure, ledger, syncVars, gaps, faults>>
    BY DEF Cleanup
  <1>2. ASSUME NEW r \in Stagings
        PROVE  /\ Active(r)' <=> Active(r)
               /\ status'[r] \in Reserving <=> status[r] \in Reserving
               /\ r \in rs => size'[r] = 0 /\ status'[r] = "gone" /\ ~Active(r) /\ status[r] # "none"
               /\ r \notin rs => size'[r] = size[r] /\ status'[r] = status[r]
    BY <1>1 DEF Active, InUse, Reserving, Left
  <1>3. ASSUME NEW r \in Stagings
        PROVE  /\ Promised(r)' <= Promised(r) /\ Promised(r)' \in Nat /\ Outstanding(r)' = Outstanding(r)
               /\ Landed(r)' <= Landed(r) /\ Landed(r)' \in Nat
               /\ gaps \subseteq {"sync"} =>
                      Landed(r)' <= size'[r] /\ Promised(r)' <= size'[r] + Shown(r)
               /\ size'[r] \in Nat
    <2>1. /\ size[r] \in Nat /\ reserved[r] \in Nat /\ written[r] \in Nat /\ Shown(r) \in Nat
          /\ Active(r) => written[r] <= size[r]
          /\ size'[r] \in {0, size[r]} /\ (Active(r) => size'[r] = size[r])
          /\ ledger[r] \in Nat \cup {None}
      BY <1>2, QuotaNumbers DEF Appends
    <2>2. /\ Promised(r)' = IF Active(r) THEN reserved[r] ELSE size'[r]
          /\ Outstanding(r)' = Outstanding(r) /\ Landed(r)' = IF Active(r) THEN written[r] ELSE size'[r]
      BY <1>1, <1>2, <2>1 DEF Promised, Outstanding, Landed, Appends
    <2>3. /\ Active(r) => Promised(r) = reserved[r] /\ Outstanding(r) = reserved[r] - written[r]
          /\ ~Active(r) => Promised(r) = size[r]
      BY PromisedNumbers
    <2>4. gaps \subseteq {"sync"} => Outstanding(r) <= Shown(r)
      BY <2>1, PromisedNumbers DEF LedgerConservative, Shown
    <2>5. CASE Active(r)
      BY <2>1, <2>2, <2>3, <2>4, <2>5 DEF Landed, Appends
    <2>6. CASE ~Active(r)
      BY <2>1, <2>2, <2>3, <2>6 DEF Landed
    <2> QED BY <2>5, <2>6
  <1>4. QuotaTypeOK'
    <2>1. status' \in [Stagings -> InUse \cup Left \cup {"none", "gone"}]
      BY <1>1 DEF QuotaTypeOK
    <2>2. size' \in Sizes
      BY <1>1, ConstantsAssumption DEF QuotaTypeOK, Sizes
    <2>3. cache' \in [Procs -> Sizes \cup {None}]
      BY <1>1, <2>2 DEF QuotaTypeOK
    <2> QED BY <1>1, <2>1, <2>2, <2>3 DEF QuotaTypeOK
  <1>5. Appends'
    <2> SUFFICES ASSUME NEW s \in Stagings
                 PROVE  /\ status'[s] = "none" <=> owner[s] = None
                        /\ Active(s)' => /\ owner[s] \in alive /\ written[s] <= size'[s]
                                         /\ size'[s] <= reserved[s]
                        /\ status'[s] \in {"none", "gone"} => size'[s] = 0
                        /\ status'[s] = "none" => written[s] = 0
                        /\ status'[s] \in {"none", "idle"} \cup Reserving => reserved[s] = written[s]
                        /\ status'[s] \in Reserving => reserved[s] < MaxWrites
                        /\ status'[s] = "writing" => size'[s] = written[s] /\ reserved[s] = written[s] + 1
                        /\ status'[s] = "marking" => size'[s] = reserved[s] /\ reserved[s] = written[s] + 1
      BY <1>1 DEF Appends
    <2>1. CASE s \in rs
      BY <1>2, <2>1 DEF Appends, Reserving
    <2>2. CASE s \notin rs
      BY <1>2, <2>2 DEF Appends
    <2> QED BY <2>1, <2>2
  <1>6. Measuring'
    BY <1>1, <1>2 DEF Measuring
  <1>7. Accounted'
    <2> SUFFICES ASSUME gaps \subseteq {"sync"}, NEW q \in alive, NEW s \in Stagings PROVE Covered(q, s)'
      BY <1>1 DEF Accounted
    <2>1. Covered(q, s) /\ q \in Procs
      BY DEF Accounted, QuotaTypeOK
    <2>2. CASE q # p
      <3>1. Account(q)' = Account(q)
        BY <1>1, <2>1, <2>2 DEF Account, QuotaTypeOK
      <3> QED BY <1>1, <1>3, <2>1, <3>1, CoverStays
    <2>3. CASE q = p
      <3>1. Account(q)' = size'
        BY <1>1, <2>1, <2>3 DEF Account, QuotaTypeOK
      <3>2. Shown(s)' = Shown(s)
        BY <1>1 DEF Shown
      <3> QED BY <1>1, <1>3, <3>1, <3>2 DEF Covered
    <2> QED BY <2>2, <2>3
  <1>8. LedgerConservative'
    BY <1>1, <1>3 DEF LedgerConservative
  <1>9. CapacityKept'
    BY <1>1, <1>3, <1>4, <1>5, CapacityStays
  <1> QED BY <1>4, <1>5, <1>6, <1>7, <1>8, <1>9

LEMMA CrashInv ==
    ASSUME QuotaInv, NEW p \in Procs, Crash(p)
    PROVE  QuotaInv'
  <1> USE DEF QuotaInv, resVars, syncVars
  <1>1. /\ p \in alive /\ alive' = alive \ {p}
        /\ status' = [r \in Stagings |-> IF owner[r] = p /\ Active(r) THEN "orphan" ELSE status[r]]
        /\ \/ lock # None /\ owner[lock] = p /\ lock' = None /\ measure' = Empty
           \/ ~(lock # None /\ owner[lock] = p) /\ UNCHANGED <<lock, measure>>
        /\ cache' = [cache EXCEPT ![p] = None]
        /\ dirty' = [dirty EXCEPT ![p] = {}] /\ timer' = timer \ {p}
        /\ \/ UNCHANGED <<ledger, gaps>>
           \/ ledger' = NoEntries /\ gaps' = gaps \cup {"ledger"}
        /\ UNCHANGED <<owner, size, reserved, written>>
        /\ faults' \in 0..MaxFaults
    BY ConstantsAssumption DEF Crash, Invalidate, Fault, QuotaTypeOK
  <1>2. ASSUME NEW r \in Stagings
        PROVE  /\ owner[r] = p => ~Active(r)' /\ status'[r] \notin Reserving \cup {"idle", "writing", "marking"}
               /\ owner[r] # p => status'[r] = status[r]
               /\ status'[r] # status[r] => status'[r] = "orphan" /\ Active(r)
    BY <1>1 DEF Active, InUse, Reserving
  <1>3. ASSUME NEW r \in Stagings
        PROVE  /\ Promised(r)' <= Promised(r) /\ Promised(r)' \in Nat
               /\ Outstanding(r)' <= Outstanding(r) /\ Outstanding(r)' \in Nat
               /\ owner[r] # p => Landed(r)' = Landed(r) /\ Landed(r)' \in Nat
    <2>1. /\ size[r] \in Nat /\ reserved[r] \in Nat /\ written[r] \in Nat /\ Outstanding(r) \in Nat
          /\ Active(r) => written[r] <= size[r] /\ size[r] <= reserved[r]
          /\ Landed(r) \in Nat
      BY QuotaNumbers, PromisedNumbers, ConstantsAssumption DEF Appends
    <2>2. CASE owner[r] # p
      BY <1>1, <1>2, <2>1, <2>2 DEF Promised, Outstanding, Landed, Active
    <2>3. CASE owner[r] = p
      BY <1>1, <1>2, <2>1, <2>3 DEF Promised, Outstanding
    <2> QED BY <2>2, <2>3
  <1>4. QuotaTypeOK'
    <2>1. status' \in [Stagings -> InUse \cup Left \cup {"none", "gone"}]
      BY <1>1 DEF QuotaTypeOK, Left
    <2>2. lock' \in Stagings \cup {None} /\ measure' \in Sizes
      BY <1>1, ConstantsAssumption DEF QuotaTypeOK, Sizes, Empty
    <2>3. ledger' \in Entries /\ gaps' \subseteq Gaps
      BY <1>1 DEF QuotaTypeOK, Entries, NoEntries, Gaps
    <2>4. cache' \in [Procs -> Sizes \cup {None}] /\ dirty' \in [Procs -> SUBSET Stagings]
      BY <1>1 DEF QuotaTypeOK
    <2> QED BY <1>1, <2>1, <2>2, <2>3, <2>4 DEF QuotaTypeOK
  <1>5. Appends'
    <2> SUFFICES ASSUME NEW s \in Stagings
                 PROVE  /\ status'[s] = "none" <=> owner[s] = None
                        /\ Active(s)' => /\ owner[s] \in alive' /\ written[s] <= size[s]
                                         /\ size[s] <= reserved[s]
                        /\ status'[s] \in {"none", "gone"} => size[s] = 0
                        /\ status'[s] = "none" => written[s] = 0
                        /\ status'[s] \in {"none", "idle"} \cup Reserving => reserved[s] = written[s]
                        /\ status'[s] \in Reserving => reserved[s] < MaxWrites
                        /\ status'[s] = "writing" => size[s] = written[s] /\ reserved[s] = written[s] + 1
                        /\ status'[s] = "marking" => size[s] = reserved[s] /\ reserved[s] = written[s] + 1
      BY <1>1 DEF Appends
    <2>1. CASE status'[s] = status[s]
      BY <1>1, <1>2, <2>1 DEF Appends, Active
    <2>2. CASE status'[s] # status[s]
      <3>1. status'[s] = "orphan" /\ Active(s)
        BY <1>2, <2>2
      <3> QED BY <3>1 DEF Appends, Active, InUse, Reserving
    <2> QED BY <2>1, <2>2
  <1>6. Measuring'
    <2>1. \A r \in Stagings : owner[r] = p => status'[r] \notin Reserving
      BY <1>2
    <2>2. \A r \in Stagings : owner[r] # p => status'[r] = status[r]
      BY <1>2
    <2>3. CASE lock # None /\ owner[lock] = p /\ lock' = None
      BY <1>1, <2>1, <2>2, <2>3, QuotaNumbers DEF Measuring
    <2>4. CASE ~(lock # None /\ owner[lock] = p) /\ UNCHANGED <<lock, measure>>
      <3>1. lock # None => lock \in Stagings /\ owner[lock] # p /\ owner[lock] \in Procs
        BY <2>4 DEF QuotaTypeOK, Measuring, Appends, Active, InUse, Reserving
      <3>2. \A r \in Stagings : status'[r] \in Reserving <=> lock' = r
        BY <2>1, <2>2, <2>4, QuotaNumbers DEF Measuring
      <3> QED BY <1>1, <2>4, <3>1, <3>2 DEF Measuring, QuotaTypeOK
    <2> QED BY <1>1, <2>3, <2>4
  <1>7. Accounted'
    <2> SUFFICES ASSUME gaps' \subseteq {"sync"}, NEW q \in alive \ {p}, NEW s \in Stagings
                 PROVE  Covered(q, s)'
      BY <1>1 DEF Accounted
    <2>0. ledger' = ledger /\ gaps' = gaps
      BY <1>1
    <2>1. Covered(q, s) /\ q \in Procs
      BY <2>0 DEF Accounted, QuotaTypeOK
    <2>2. Account(q)' = Account(q)
      BY <1>1, <2>1 DEF Account, QuotaTypeOK
    <2> QED BY <1>1, <1>3, <2>0, <2>1, <2>2, CoverStays
  <1>8. LedgerConservative'
    BY <1>1, <1>3, LedgerStays DEF LedgerConservative
  <1>9. CapacityKept'
    BY <1>1, <1>3, <1>4, <1>5, CapacityStays
  <1> QED BY <1>4, <1>5, <1>6, <1>7, <1>8, <1>9

LEMMA OtherQuotaInv ==
    ASSUME QuotaInv,
           (\E p \in Procs : SyncFails(p) \/ CacheExpires(p)) \/ UNCHANGED quotaVars
    PROVE  QuotaInv'
  <1> USE DEF QuotaInv, resVars, syncVars, quotaVars
  <1>1. /\ UNCHANGED <<alive, owner, status, size, reserved, written, lock, measure, ledger>>
        /\ gaps \subseteq gaps'
        /\ cache' = cache \/ \E p \in Procs : cache' = [cache EXCEPT ![p] = None]
    BY DEF SyncFails, CacheExpires, Invalidate
  <1>2. QuotaTypeOK'
    <2>1. timer' \subseteq Procs /\ dirty' = dirty
      BY DEF SyncFails, CacheExpires, QuotaTypeOK
    <2>2. gaps' \subseteq Gaps
      BY DEF SyncFails, CacheExpires, QuotaTypeOK, Gaps
    <2>3. faults' \in 0..MaxFaults
      BY ConstantsAssumption DEF SyncFails, CacheExpires, QuotaTypeOK, Fault
    <2>4. cache' \in [Procs -> Sizes \cup {None}]
      BY <1>1 DEF QuotaTypeOK
    <2> QED BY <1>1, <2>1, <2>2, <2>3, <2>4 DEF QuotaTypeOK
  <1>3. Appends'
    BY <1>1 DEF Appends, Active
  <1>4. \A q \in Procs : cache'[q] \in {None, cache[q]}
    BY <1>1 DEF QuotaTypeOK
  <1>5. Measuring'
    <2>1. lock # None => owner[lock] \in Procs
      BY DEF QuotaTypeOK, Measuring, Appends, Active, InUse, Reserving
    <2> QED BY <1>1, <1>4, <2>1 DEF Measuring
  <1>6. \A r \in Stagings : /\ Promised(r)' = Promised(r) /\ Outstanding(r)' = Outstanding(r)
                            /\ Landed(r)' = Landed(r)
    BY <1>1 DEF Promised, Outstanding, Landed, Active
  <1>7. \A r \in Stagings : Promised(r) \in Nat /\ Outstanding(r) \in Nat /\ Landed(r) \in Nat
    BY PromisedNumbers, ConstantsAssumption
  <1>8. Accounted'
    <2> SUFFICES ASSUME gaps \subseteq {"sync"}, NEW q \in alive, NEW s \in Stagings
                 PROVE  Covered(q, s)'
      BY <1>1 DEF Accounted
    <2>1. Covered(q, s) /\ q \in Procs
      BY DEF Accounted, QuotaTypeOK
    <2>2. Account(q)' \in {None, Account(q)}
      BY <1>1, <1>4, <2>1 DEF Account
    <2> QED BY <1>1, <1>6, <1>7, <2>1, <2>2, CoverStays
  <1>9. LedgerConservative' /\ CapacityKept'
    BY <1>1, <1>2, <1>3, <1>6, <1>7, LedgerStays, CapacityStays
  <1> QED BY <1>2, <1>3, <1>5, <1>8, <1>9

LEMMA QuotaNextInv == QuotaInv /\ [QuotaNext]_quotaVars => QuotaInv'
  <1> SUFFICES ASSUME QuotaInv, [QuotaNext]_quotaVars PROVE QuotaInv'
    OBVIOUS
  <1>1. ASSUME NEW p \in Procs, NEW r \in Stagings, Create(p, r) PROVE QuotaInv'
    <2>1. owner'[r] = p
      BY <1>1 DEF Create, QuotaInv, QuotaTypeOK
    <2> QED BY <1>1, <2>1, SmallStepInv
  <1>2. ASSUME NEW r \in Stagings, Append(r) PROVE QuotaInv'
    BY <1>2, ReserveInv, SmallStepInv DEF Append
  <1>3. ASSUME NEW r \in Stagings, Discard(r) \/ DiscardFails(r) \/ Finalize(r) PROVE QuotaInv'
    BY <1>3, SmallStepInv
  <1>4. ASSUME NEW p \in Procs,
               SyncWrites(p) \/ SyncFails(p) \/ Cleanup(p) \/ CacheExpires(p) \/ Crash(p)
        PROVE  QuotaInv'
    BY <1>4, SyncWritesInv, CleanupInv, CrashInv, OtherQuotaInv
  <1> QED BY <1>1, <1>2, <1>3, <1>4, ScanEndsInv, AdmitInv, OtherQuotaInv DEF QuotaNext

LEMMA QuotaInvHolds == QuotaSpec => []QuotaInv
  BY QuotaInitInv, QuotaNextInv, PTL DEF QuotaSpec

\* Reservations, caches and ledger keep their types: among the rest, nothing is
\* reserved or written beyond what an append asked for
\* (src/src/temp-manager.ts:378).
THEOREM QuotaTypeCorrect == QuotaSpec => []QuotaTypeOK
  <1>1. QuotaInv => QuotaTypeOK
    BY DEF QuotaInv
  <1> QED BY <1>1, QuotaInvHolds, PTL

\* What the ledger shows other processes is at least what a living reservation
\* still holds, for any number of processes, however late its synchronisation
\* comes (src/src/temp-manager.ts:476).
THEOREM LedgerNeverShort == QuotaSpec => []LedgerConservative
  <1>1. QuotaInv => LedgerConservative
    BY DEF QuotaInv
  <1> QED BY <1>1, QuotaInvHolds, PTL

\* All processes together neither hold nor have promised more than the capacity
\* of the temp root, as long as bytes have left the accounts in none of the other
\* ways (src/src/temp-manager.ts:391).
THEOREM CapacityHolds == QuotaSpec => []CapacityKept
  <1>1. QuotaInv => CapacityKept
    BY DEF QuotaInv
  <1> QED BY <1>1, QuotaInvHolds, PTL
=============================================================================
