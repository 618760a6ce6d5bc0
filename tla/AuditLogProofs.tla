---------------------------- MODULE AuditLogProofs ----------------------------
(***************************************************************************)
(* Proofs of the safety of AuditLog, for every size of the queue, the file *)
(* and the trail, and every number of entries, failures and flushes.       *)
(*                                                                         *)
(* The order of the trail is kept because everything that is queued or in  *)
(* a batch is newer than everything on disk; that the newest entry is      *)
(* never deleted, because a drain that tidies up has just appended         *)
(* something.  What is recorded is accounted for because the queue that an *)
(* append empties holds the batch and what came during the append.         *)
(***************************************************************************)
EXTENDS AuditLog, SequenceTheorems, TLAPS

Queued == ToSet(queue)

\* What is known of the entries that are queued, in a batch or on disk.
Known == Queued \cup ToSet(batch) \cup OnDisk \subseteq 1..recorded

InOrder ==
    /\ \A i \in 0..Rotations : Increasing(trail[i])
    /\ \A i, j \in 0..Rotations : i < j =>
          \A old \in ToSet(trail[j]), new \in ToSet(trail[i]) : old < new
    /\ Increasing(queue) /\ Increasing(batch)
    /\ \A old \in OnDisk, new \in Queued \cup ToSet(batch) : old < new

NewestKept == \A old \in trimmed : \E new \in OnDisk : old < new

\* A drain has something to write, and what came meanwhile is late.
Drained ==
    /\ drain = "path" => queue # <<>>
    /\ drain = "append" => batch # <<>> /\ Queued \subseteq ToSet(batch) \cup late
    /\ drain = "tidy" => trail[0] # <<>>

\* What a drain will not write is on its way without it.
Moving ==
    queue # <<>> /\ drain \notin {"path", "append"} =>
        flushTimer \/ retryTimer \/ writeScheduled

AskedKnown == \A f \in Flushers : report[f].asked <= recorded

\* What a clean flush was asked to write is no longer in memory.
CleanFlushIsGone ==
    \A f \in Flushers : flusher[f] = "idle" /\ report[f].clean =>
        \A e \in 1..report[f].asked : e \notin ToSet(queue)

Inv == /\ TypeOK /\ Known /\ InOrder /\ NewestKept /\ Drained /\ Moving /\ AskedKnown
       /\ Accounted /\ CleanFlushIsGone
-----------------------------------------------------------------------------
(* The elements of sequences of entries, and their order.                  *)

LEMMA Elements ==
    ASSUME NEW S, NEW s \in Seq(S)
    PROVE  /\ Len(s) \in Nat
           /\ ToSet(s) = {s[i] : i \in 1..Len(s)}
           /\ ToSet(s) \subseteq S
           /\ \A i \in 1..Len(s) : s[i] \in S
           /\ s = <<>> <=> Len(s) = 0
           /\ s = <<>> => ToSet(s) = {}
  BY DEF ToSet

LEMMA NoElements == <<>> \in Seq(Entries) /\ ToSet(<<>>) = {} /\ Increasing(<<>>)
  BY DEF ToSet, Increasing

LEMMA AppendElements ==
    ASSUME NEW S \in SUBSET Nat, NEW s \in Seq(S), NEW e \in S
    PROVE  /\ Append(s, e) \in Seq(S) /\ Len(Append(s, e)) = Len(s) + 1
           /\ ToSet(Append(s, e)) = ToSet(s) \cup {e}
           /\ Increasing(s) /\ (\A x \in ToSet(s) : x < e) => Increasing(Append(s, e))
  <1> DEFINE t == Append(s, e)
  <1>1. /\ t \in Seq(S) /\ Len(t) = Len(s) + 1 /\ Len(s) \in Nat
        /\ \A i \in 1..Len(s) : t[i] = s[i]
        /\ t[Len(s) + 1] = e
    OBVIOUS
  <1>2. ToSet(s) = {s[i] : i \in 1..Len(s)} /\ ToSet(t) = {t[i] : i \in 1..Len(t)}
    BY <1>1, Elements
  <1>3. DOMAIN s = 1..Len(s) /\ DOMAIN t = 1..Len(t)
    OBVIOUS
  <1>4. 1..Len(t) = 1..Len(s) \cup {Len(s) + 1}
    OBVIOUS
  <1>5. ToSet(t) = ToSet(s) \cup {e}
    BY <1>2
  <1>6. ASSUME Increasing(s), \A x \in ToSet(s) : x < e PROVE Increasing(t)
    <2> SUFFICES ASSUME NEW i \in 1..Len(t), NEW j \in 1..Len(t), i < j PROVE t[i] < t[j]
      BY DEF Increasing
    <2>1. i \in 1..Len(s)
      OBVIOUS
    <2>2. CASE j = Len(s) + 1
      BY <1>2, <1>6, <2>2
    <2>3. CASE j \in 1..Len(s)
      BY <1>6, <2>3 DEF Increasing
    <2> QED BY <2>2, <2>3
  <1> QED BY <1>5, <1>6

LEMMA ConcatElements ==
    ASSUME NEW S \in SUBSET Nat, NEW s \in Seq(S), NEW t \in Seq(S)
    PROVE  /\ s \o t \in Seq(S) /\ Len(s \o t) = Len(s) + Len(t)
           /\ ToSet(s \o t) = ToSet(s) \cup ToSet(t)
           /\ Increasing(s) /\ Increasing(t) /\ (\A x \in ToSet(s), y \in ToSet(t) : x < y)
                 => Increasing(s \o t)
  <1> DEFINE u == s \o t
  <1>1. /\ u \in Seq(S) /\ Len(u) = Len(s) + Len(t) /\ Len(s) \in Nat /\ Len(t) \in Nat
        /\ \A i \in 1..Len(u) : u[i] = IF i <= Len(s) THEN s[i] ELSE t[i - Len(s)]
    OBVIOUS
  <1>2. /\ ToSet(s) = {s[i] : i \in 1..Len(s)} /\ ToSet(t) = {t[i] : i \in 1..Len(t)}
        /\ ToSet(u) = {u[i] : i \in 1..Len(u)}
    BY <1>1, Elements
  <1>3. DOMAIN s = 1..Len(s) /\ DOMAIN t = 1..Len(t) /\ DOMAIN u = 1..Len(u)
    OBVIOUS
  <1>4. /\ \A i \in 1..Len(s) : i \in 1..Len(u) /\ u[i] = s[i]
        /\ \A i \in 1..Len(t) : Len(s) + i \in 1..Len(u) /\ u[Len(s) + i] = t[i]
        /\ \A i \in 1..Len(u) : i \in 1..Len(s) \/ i - Len(s) \in 1..Len(t)
    OBVIOUS
  <1>5. ToSet(u) \subseteq ToSet(s) \cup ToSet(t)
    BY <1>2
  <1>6. ToSet(s) \cup ToSet(t) \subseteq ToSet(u)
    BY <1>2, <1>4
  <1>7. ASSUME Increasing(s), Increasing(t), \A x \in ToSet(s), y \in ToSet(t) : x < y
        PROVE  Increasing(u)
    <2> SUFFICES ASSUME NEW i \in 1..Len(u), NEW j \in 1..Len(u), i < j PROVE u[i] < u[j]
      BY DEF Increasing
    <2>1. CASE j <= Len(s)
      BY <1>7, <2>1 DEF Increasing
    <2>2. CASE i > Len(s)
      BY <1>7, <2>2 DEF Increasing
    <2>3. CASE i <= Len(s) /\ j > Len(s)
      <3>1. u[i] \in ToSet(s) /\ u[j] \in ToSet(t)
        BY <1>2, <2>3
      <3> QED BY <3>1, <1>7
    <2> QED BY <2>1, <2>2, <2>3
  <1> QED BY <1>5, <1>6, <1>7

(* A sequence without its first k elements.                                *)
LEMMA SuffixElements ==
    ASSUME NEW S \in SUBSET Nat, NEW s \in Seq(S), NEW k \in 0..Len(s)
    PROVE  LET t == SubSeq(s, k + 1, Len(s))
           IN  /\ t \in Seq(S) /\ Len(t) = Len(s) - k
               /\ ToSet(t) \subseteq ToSet(s)
               /\ ToSet(SubSeq(s, 1, k)) \cup ToSet(t) = ToSet(s)
               /\ Increasing(s) => Increasing(t)
               /\ k < Len(s) => t # <<>> /\ s[Len(s)] \in ToSet(t)
  <1> DEFINE t == SubSeq(s, k + 1, Len(s))
             h == SubSeq(s, 1, k)
  <1>1. Len(s) \in Nat /\ k \in Nat /\ \A i \in 1..Len(s) : s[i] \in S
    <2>1. Len(s) \in Nat /\ \A i \in 1..Len(s) : s[i] \in S
      OBVIOUS
    <2> QED OBVIOUS
  <1>2. t \in Seq(S) /\ Len(t) = Len(s) - k /\ \A i \in 1..Len(t) : t[i] = s[k + i]
    <2>1. \A i \in k + 1..Len(s) : s[i] \in S
      OBVIOUS
    <2> QED OBVIOUS
  <1>3. h \in Seq(S) /\ Len(h) = k /\ \A i \in 1..Len(h) : h[i] = s[i]
    <2>1. \A i \in 1..k : s[i] \in S
      OBVIOUS
    <2> QED OBVIOUS
  <1> HIDE DEF t, h
  <1>4. /\ ToSet(s) = {s[i] : i \in 1..Len(s)} /\ ToSet(t) = {t[i] : i \in 1..Len(t)}
        /\ ToSet(h) = {h[i] : i \in 1..Len(h)} /\ (t = <<>> => Len(t) = 0)
    <2>1. ToSet(s) = {s[i] : i \in 1..Len(s)}
      BY Elements
    <2>2. ToSet(t) = {t[i] : i \in 1..Len(t)} /\ (t = <<>> => Len(t) = 0)
      BY <1>2, Elements
    <2>3. ToSet(h) = {h[i] : i \in 1..Len(h)}
      BY <1>3, Elements
    <2> QED BY <2>1, <2>2, <2>3
  <1>5. DOMAIN s = 1..Len(s) /\ DOMAIN t = 1..Len(t)
    OBVIOUS
  <1>6. ToSet(t) \subseteq ToSet(s) /\ ToSet(h) \subseteq ToSet(s)
    <2>1. \A i \in 1..Len(t) : k + i \in 1..Len(s)
      BY <1>2
    <2>2. \A i \in 1..Len(h) : i \in 1..Len(s)
      BY <1>3
    <2> QED BY <1>2, <1>3, <1>4, <2>1, <2>2
  <1>7. ToSet(s) \subseteq ToSet(h) \cup ToSet(t)
    <2> SUFFICES ASSUME NEW i \in 1..Len(s) PROVE s[i] \in ToSet(h) \cup ToSet(t)
      BY <1>4
    <2>1. CASE i <= k
      BY <1>3, <1>4, <2>1
    <2>2. CASE i > k
      <3>1. i - k \in 1..Len(t) /\ t[i - k] = s[i]
        BY <1>2, <2>2
      <3> QED BY <3>1, <1>4
    <2> QED BY <2>1, <2>2
  <1>8. ASSUME Increasing(s) PROVE Increasing(t)
    <2> SUFFICES ASSUME NEW i \in 1..Len(t), NEW j \in 1..Len(t), i < j PROVE t[i] < t[j]
      BY DEF Increasing
    <2>1. k + i \in 1..Len(s) /\ k + j \in 1..Len(s) /\ k + i < k + j
      BY <1>2
    <2>2. s[k + i] < s[k + j]
      BY <1>8, <2>1 DEF Increasing
    <2> QED BY <1>2, <2>2
  <1>9. ASSUME k < Len(s) PROVE t # <<>> /\ s[Len(s)] \in ToSet(t)
    <2>1. Len(t) \in 1..Len(t) /\ k + Len(t) = Len(s)
      BY <1>2, <1>9
    <2>2. t[Len(t)] = s[Len(s)]
      BY <1>2, <2>1
    <2>3. t # <<>>
      BY <2>1
    <2> QED BY <1>4, <2>2, <2>3
  <1> QED BY <1>6, <1>7, <1>8, <1>9 DEF t, h
-----------------------------------------------------------------------------
LEMMA Facts ==
    ASSUME TypeOK
    PROVE  /\ Entries \in SUBSET Nat /\ recorded \in 0..MaxRecords /\ MaxRecords \in Nat
           /\ Rotations \in Nat \ {0}
           /\ queue \in Seq(Entries) /\ batch \in Seq(Entries)
           /\ \A i \in 0..Rotations : trail[i] \in Seq(Entries)
           /\ DOMAIN trail = 0..Rotations
  BY ConstantsAssumption DEF TypeOK, Entries

(* Most steps leave the entries where they are, a drain that ends forgets  *)
(* its batch.                                                              *)
LEMMA SameEntries ==
    ASSUME Inv, UNCHANGED <<queueVars, trail, trimmed>>, batch' \in {batch, <<>>}
    PROVE  Known' /\ InOrder' /\ NewestKept' /\ Accounted'
  <1> USE DEF queueVars
  <1>1. ToSet(batch') \subseteq ToSet(batch) /\ (Increasing(batch) => Increasing(batch'))
    BY NoElements
  <1>2. OnDisk' = OnDisk /\ Queued' = Queued
    BY DEF OnDisk, Queued
  <1>3. Known'
    BY <1>1, <1>2 DEF Inv, Known
  <1>4. InOrder'
    BY <1>1, <1>2 DEF Inv, InOrder
  <1>5. NewestKept' /\ Accounted'
    BY <1>2 DEF Inv, NewestKept, Accounted
  <1> QED BY <1>3, <1>4, <1>5

LEMMA InitInv == Init => Inv
  <1> SUFFICES ASSUME Init PROVE Inv
    OBVIOUS
  <1>1. TypeOK
    <2>1. /\ 0 \in 0..MaxRecords /\ 0 \in 0..MaxFailures /\ 0 \in 0..FailedThreshold
          /\ QueueMax >= 0
      BY ConstantsAssumption DEF FailedThreshold
    <2>2. <<>> \in Seq(Entries) /\ Len(<<>>) = 0
      OBVIOUS
    <2>3. queue \in Seq(Entries) /\ Len(queue) <= QueueMax /\ batch \in Seq(Entries)
      BY <2>1 DEF Init
    <2>4. trail \in [0..Rotations -> Seq(Entries)]
      BY DEF Init
    <2>5. /\ report \in [Flushers -> [clean : BOOLEAN, asked : 0..MaxRecords]]
          /\ flusher \in [Flushers -> {"idle", "queued", "running", "looping"}]
      BY <2>1 DEF Init
    <2>6. /\ dropped \subseteq Entries /\ trimmed \subseteq Entries /\ late \subseteq Entries
          /\ recorded \in 0..MaxRecords /\ size \in Int
          /\ failures \in 0..FailedThreshold /\ failed \in 0..MaxFailures
      BY <2>1 DEF Init
    <2>7. /\ {flushTimer, retryTimer, writeScheduled} \subseteq BOOLEAN
          /\ path \in {"unresolved", "resolved", "rejected"}
          /\ drain \in {"idle", "path", "append", "tidy"}
      BY DEF Init
    <2> QED BY <2>3, <2>4, <2>5, <2>6, <2>7 DEF TypeOK
  <1>2. Queued = {} /\ ToSet(batch) = {} /\ OnDisk = {} /\ trimmed = {} /\ recorded = 0
    BY NoElements DEF Init, Queued, OnDisk
  <1>3. Known /\ NewestKept /\ Accounted /\ AskedKnown /\ CleanFlushIsGone
    BY <1>2 DEF Init, Known, NewestKept, Accounted, AskedKnown, CleanFlushIsGone
  <1>4. InOrder
    BY <1>2 DEF Init, InOrder, Increasing
  <1>5. Drained /\ Moving
    BY DEF Init, Drained, Moving
  <1> QED BY <1>1, <1>3, <1>4, <1>5 DEF Inv
-----------------------------------------------------------------------------
(* What record() does with the queue: the new entry is the newest, and the *)
(* oldest ones are counted as dropped.                                     *)
LEMMA RecordQueue ==
    ASSUME Inv, Record
    PROVE  /\ queue' \in Seq(Entries) /\ Len(queue') <= QueueMax /\ queue' # <<>>
           /\ Queued' \subseteq Queued \cup {recorded + 1}
           /\ Queued \cup {recorded + 1} \subseteq Queued' \cup dropped'
           /\ dropped \subseteq dropped' /\ dropped' \subseteq Entries
           /\ Increasing(queue')
  <1> DEFINE e == recorded + 1
             longer == Append(queue, e)
             over == IF Len(longer) > QueueMax THEN Len(longer) - QueueMax ELSE 0
  <1>1. /\ Entries \in SUBSET Nat /\ e \in Entries /\ queue \in Seq(Entries)
        /\ Len(queue) \in Nat /\ Len(queue) <= QueueMax /\ QueueMax \in Nat \ {0}
        /\ dropped \subseteq Entries
    <2>1. e \in Entries
      BY Facts DEF Inv, Record, Entries
    <2>2. Len(queue) \in Nat
      OBVIOUS
    <2> QED BY <2>1, Facts, ConstantsAssumption DEF Inv, TypeOK
  <1>2. \A x \in Queued : x < e
    BY Facts DEF Inv, Known
  <1> HIDE DEF e
  <1>3. /\ longer \in Seq(Entries) /\ Len(longer) = Len(queue) + 1
        /\ ToSet(longer) = Queued \cup {e} /\ Increasing(longer)
    BY <1>1, <1>2, AppendElements DEF Inv, InOrder, Queued
  <1>4. over \in 0..Len(longer) /\ over < Len(longer) /\ Len(longer) - over <= QueueMax
    BY <1>1
  <1>5. queue' = SubSeq(longer, over + 1, Len(longer))
        /\ dropped' = dropped \cup ToSet(SubSeq(longer, 1, over))
    BY DEF Record, e
  <1> HIDE DEF longer, over
  <1>6. /\ queue' \in Seq(Entries) /\ Len(queue') = Len(longer) - over
        /\ ToSet(queue') \subseteq ToSet(longer)
        /\ ToSet(SubSeq(longer, 1, over)) \cup ToSet(queue') = ToSet(longer)
        /\ Increasing(queue') /\ queue' # <<>>
    BY <1>1, <1>3, <1>4, <1>5, SuffixElements
  <1>7. ToSet(longer) \subseteq Entries
    BY <1>3, Elements
  <1> QED BY <1>1, <1>3, <1>4, <1>5, <1>6, <1>7 DEF e, Queued

LEMMA RecordInv == Inv /\ Record => Inv'
  <1> SUFFICES ASSUME Inv, Record PROVE Inv'
    OBVIOUS
  <1> USE DEF Record, flushVars, diskVars
  <1>0. /\ recorded \in Nat /\ MaxRecords \in Nat /\ recorded' = recorded + 1
        /\ recorded' \in 0..MaxRecords /\ recorded' \in Entries
        /\ OnDisk' = OnDisk /\ UNCHANGED <<trail, batch, trimmed, report, flusher, drain>>
    BY Facts DEF Inv, OnDisk, Entries
  <1>1. TypeOK'
    <2>1. late' \subseteq Entries /\ flushTimer' \in BOOLEAN
      BY <1>0 DEF Inv, TypeOK
    <2>2. queue' \in Seq(Entries) /\ Len(queue') <= QueueMax /\ dropped' \subseteq Entries
      BY RecordQueue
    <2> QED BY <1>0, <2>2 DEF Inv, TypeOK
  <1>2. Known'
    BY <1>0, RecordQueue DEF Inv, Known
  <1>3. InOrder'
    <2>1. \A old \in OnDisk', new \in Queued' \cup ToSet(batch') : old < new
      <3> SUFFICES ASSUME NEW old \in OnDisk, NEW new \in Queued' \cup ToSet(batch)
                   PROVE  old < new
        BY <1>0
      <3>1. old \in 1..recorded
        BY DEF Inv, Known
      <3>2. CASE new = recorded + 1
        BY <1>0, <3>1, <3>2
      <3>3. CASE new # recorded + 1
        BY <3>3, RecordQueue DEF Inv, InOrder
      <3> QED BY <3>2, <3>3
    <2> QED BY <2>1, RecordQueue DEF Inv, InOrder
  <1>4. NewestKept'
    BY <1>0 DEF Inv, NewestKept
  <1>5. Drained'
    <2>1. drain = "append" => Queued' \subseteq ToSet(batch) \cup late'
      BY RecordQueue DEF Inv, Drained
    <2> QED BY RecordQueue DEF Inv, Drained
  <1>6. Moving'
    BY DEF Moving
  <1>7. AskedKnown'
    BY DEF Inv, TypeOK, AskedKnown
  <1>8. Accounted'
    <2> SUFFICES ASSUME NEW e \in 1..recorded + 1
                 PROVE  e \in ToSet(queue') \cup OnDisk \cup trimmed \cup dropped' \cup late'
      BY <1>0 DEF Accounted
    <2>1. late \subseteq late'
      OBVIOUS
    <2>2. CASE e = recorded + 1
      BY <2>2, RecordQueue DEF Queued
    <2>3. CASE e \in 1..recorded
      <3>1. e \in Queued \cup OnDisk \cup trimmed \cup dropped \cup late
        BY <2>3 DEF Inv, Accounted, Queued
      <3> QED BY <3>1, RecordQueue DEF Queued
    <2> QED BY <1>0, <2>2, <2>3
  <1>9. CleanFlushIsGone'
    <2> SUFFICES ASSUME NEW f \in Flushers, flusher[f] = "idle", report[f].clean,
                        NEW e \in 1..report[f].asked
                 PROVE  e \notin Queued'
      BY DEF CleanFlushIsGone, Queued
    <2>1. e \notin Queued
      BY DEF Inv, CleanFlushIsGone, Queued
    <2>2. e # recorded + 1
      BY DEF Inv, TypeOK, AskedKnown
    <2> QED BY <2>1, <2>2, RecordQueue
  <1> QED BY <1>1, <1>2, <1>3, <1>4, <1>5, <1>6, <1>7, <1>8, <1>9 DEF Inv
-----------------------------------------------------------------------------
LEMMA TimersInv == Inv /\ (FlushTimer \/ RetryTimer) => Inv'
  <1> SUFFICES ASSUME Inv, FlushTimer \/ RetryTimer PROVE Inv'
    OBVIOUS
  <1> USE DEF FlushTimer, RetryTimer, queueVars, flushVars, diskVars
  <1>1. TypeOK'
    BY DEF Inv, TypeOK
  <1>2. Known' /\ InOrder' /\ NewestKept' /\ Accounted'
    BY SameEntries
  <1>3. Drained'
    BY DEF Inv, Drained, Queued
  <1>4. Moving'
    BY DEF Moving
  <1>5. AskedKnown' /\ CleanFlushIsGone'
    BY DEF Inv, AskedKnown, CleanFlushIsGone
  <1> QED BY <1>1, <1>2, <1>3, <1>4, <1>5 DEF Inv

LEMMA DrainStartsInv == Inv /\ DrainStarts => Inv'
  <1> SUFFICES ASSUME Inv, DrainStarts PROVE Inv'
    OBVIOUS
  <1> USE DEF DrainStarts, queueVars, diskVars
  <1>1. TypeOK'
    BY DEF Inv, TypeOK
  <1>2. Known' /\ InOrder' /\ NewestKept' /\ Accounted'
    BY SameEntries
  <1>3. Drained' /\ Moving'
    BY DEF Drained, Moving
  <1>4. AskedKnown'
    BY DEF Inv, AskedKnown
  <1>5. CleanFlushIsGone'
    BY DEF Inv, CleanFlushIsGone
  <1> QED BY <1>1, <1>2, <1>3, <1>4, <1>5 DEF Inv

(* A drain that fails leaves the queue to the retry timer.                 *)
LEMMA FailsInv == Inv /\ (MkdirFails \/ MigrationFails \/ PathRejected \/ AppendFails) => Inv'
  <1> SUFFICES ASSUME Inv, MkdirFails \/ MigrationFails \/ PathRejected \/ AppendFails PROVE Inv'
    OBVIOUS
  <1>1. /\ WriteFails /\ UNCHANGED <<trail, trimmed>>
        /\ path' \in {"unresolved", "resolved", "rejected"} /\ failed' \in 0..MaxFailures
        /\ size' \in Int
    <2>1. \A s \in Seq(Entries) : Len(s) \in Nat
      OBVIOUS
    <2>2. KnownSize \in Int
      BY DEF KnownSize, Inv, TypeOK
    <2>3. /\ size \in Int /\ failed \in 0..MaxFailures
          /\ path \in {"unresolved", "resolved", "rejected"}
      BY DEF Inv, TypeOK
    <2>4. Fault => failed' \in 0..MaxFailures
      BY <2>3, ConstantsAssumption DEF Fault
    <2>5. CASE MkdirFails
      BY <2>3, <2>4, <2>5 DEF MkdirFails
    <2>6. CASE MigrationFails
      BY <2>3, <2>4, <2>6 DEF MigrationFails
    <2>7. CASE PathRejected
      BY <2>3, <2>7 DEF PathRejected, diskVars
    <2>8. CASE AppendFails
      BY <2>2, <2>3, <2>4, <2>8 DEF AppendFails
    <2> QED BY <2>5, <2>6, <2>7, <2>8
  <1> USE DEF WriteFails, Released, queueVars
  <1>2. TypeOK'
    BY <1>1 DEF Inv, TypeOK, FailedThreshold
  <1>3. Known' /\ InOrder' /\ NewestKept' /\ Accounted'
    BY <1>1, SameEntries
  <1>4. Drained' /\ Moving'
    BY <1>1 DEF Drained, Moving
  <1>5. AskedKnown'
    BY <1>1 DEF Inv, AskedKnown
  <1>6. CleanFlushIsGone'
    BY <1>1 DEF Inv, CleanFlushIsGone
  <1> QED BY <1>2, <1>3, <1>4, <1>5, <1>6 DEF Inv

LEMMA PathResolvesInv == Inv /\ PathResolves => Inv'
  <1> SUFFICES ASSUME Inv, PathResolves PROVE Inv'
    OBVIOUS
  <1> USE DEF PathResolves, queueVars, flushVars
  <1>1. TypeOK'
    BY DEF Inv, TypeOK
  <1>2. OnDisk' = OnDisk /\ Queued' = Queued /\ ToSet(batch') = Queued
    BY DEF OnDisk, Queued
  <1>3. Known' /\ NewestKept' /\ Accounted'
    BY <1>2 DEF Inv, Known, NewestKept, Accounted
  <1>4. InOrder'
    BY <1>2 DEF Inv, InOrder
  <1>5. Drained' /\ Moving'
    BY <1>2 DEF Inv, Drained, Moving
  <1>6. AskedKnown' /\ CleanFlushIsGone'
    BY DEF Inv, AskedKnown, CleanFlushIsGone
  <1> QED BY <1>1, <1>3, <1>4, <1>5, <1>6 DEF Inv

(* The batch, newer than the disk, becomes the end of the file.            *)
LEMMA AppendSucceedsInv == Inv /\ AppendSucceeds => Inv'
  <1> SUFFICES ASSUME Inv, AppendSucceeds PROVE Inv'
    OBVIOUS
  <1> USE DEF AppendSucceeds, flushVars
  <1>1. /\ Entries \in SUBSET Nat /\ batch \in Seq(Entries) /\ 0 \in 0..Rotations
        /\ \A i \in 0..Rotations : trail[i] \in Seq(Entries)
    BY Facts DEF Inv
  <1>2. /\ trail'[0] = trail[0] \o batch
        /\ \A i \in 0..Rotations : i # 0 => trail'[i] = trail[i]
        /\ trail[0] \in Seq(Entries) /\ ToSet(trail[0]) \subseteq OnDisk
    BY <1>1 DEF Inv, TypeOK, OnDisk
  <1>3. /\ trail'[0] \in Seq(Entries) /\ ToSet(trail'[0]) = ToSet(trail[0]) \cup ToSet(batch)
        /\ Len(trail'[0]) = Len(trail[0]) + Len(batch)
        /\ Increasing(trail'[0])
    <2>1. /\ \A x \in ToSet(trail[0]), y \in ToSet(batch) : x < y
          /\ Increasing(trail[0]) /\ Increasing(batch)
      BY <1>1, <1>2 DEF Inv, InOrder
    <2>2. /\ trail[0] \o batch \in Seq(Entries)
          /\ ToSet(trail[0] \o batch) = ToSet(trail[0]) \cup ToSet(batch)
          /\ Len(trail[0] \o batch) = Len(trail[0]) + Len(batch)
          /\ Increasing(trail[0] \o batch)
      BY <1>1, <2>1, ConcatElements
    <2> QED BY <1>2, <2>2
  <1>4. trail'[0] # <<>>
    <2>1. /\ Len(trail[0]) \in Nat /\ Len(batch) \in Nat /\ Len(batch) # 0
          /\ (trail'[0] = <<>> => Len(trail'[0]) = 0)
      BY DEF Inv, Drained
    <2> QED BY <1>3, <2>1
  <1>5. OnDisk' = OnDisk \cup ToSet(batch)
    BY <1>1, <1>2, <1>3 DEF OnDisk
  <1>6. Queued' = {} /\ ToSet(batch') = {} /\ Increasing(queue') /\ Increasing(batch')
    BY NoElements DEF Queued
  <1>7. TypeOK'
    <2>1. trail' \in [0..Rotations -> Seq(Entries)]
      BY <1>3 DEF Inv, TypeOK
    <2>2. size' \in Int
      OBVIOUS
    <2>3. queue' \in Seq(Entries) /\ batch' \in Seq(Entries) /\ Len(queue') <= QueueMax
      BY ConstantsAssumption
    <2> QED BY <2>1, <2>3 DEF Inv, TypeOK, FailedThreshold
  <1>8. Known'
    BY <1>5, <1>6 DEF Inv, Known
  <1>9. InOrder'
    <2>1. \A i \in 0..Rotations : Increasing(trail'[i])
      BY <1>3 DEF Inv, InOrder
    <2>2. ASSUME NEW i \in 0..Rotations, NEW j \in 0..Rotations, i < j,
                 NEW old \in ToSet(trail'[j]), NEW new \in ToSet(trail'[i])
          PROVE  old < new
      <3>1. j # 0 /\ old \in ToSet(trail[j]) /\ old \in OnDisk
        BY <2>2 DEF OnDisk
      <3>2. CASE new \in ToSet(trail[i])
        BY <2>2, <3>2 DEF Inv, InOrder
      <3>3. CASE new \in ToSet(batch)
        BY <3>1, <3>3 DEF Inv, InOrder
      <3> QED BY <1>3, <3>2, <3>3
    <2> QED BY <1>6, <2>1, <2>2 DEF InOrder
  <1>10. NewestKept'
    BY <1>5 DEF Inv, NewestKept
  <1>11. Drained' /\ Moving'
    BY <1>4 DEF Drained, Moving
  <1>12. AskedKnown'
    BY DEF Inv, AskedKnown
  <1>13. Accounted'
    BY <1>5 DEF Inv, Accounted, Drained, Queued
  <1>14. CleanFlushIsGone'
    BY <1>6 DEF CleanFlushIsGone
  <1> QED BY <1>7, <1>8, <1>9, <1>10, <1>11, <1>12, <1>13, <1>14 DEF Inv
-----------------------------------------------------------------------------
(* What a rotation makes of the trail: every generation is where it was or *)
(* one further, or empty; two never hold the same one.                     *)
LEMMA RotatedIs ==
    ASSUME TypeOK, NEW stuck, NEW i \in 0..Rotations
    PROVE  /\ \/ Rotated(stuck)[i] = <<>>
              \/ Rotated(stuck)[i] = trail[i] /\ ~Moves(i, stuck)
              \/ i > 0 /\ Rotated(stuck)[i] = trail[i - 1] /\ Moves(i - 1, stuck)
           /\ Rotated(stuck) \in [0..Rotations -> Seq(Entries)]
  <1>1. \A k \in 0..Rotations : k > 0 => k - 1 \in 0..Rotations
    BY Facts
  <1>2. Rotated(stuck)[i] = IF i > 0 /\ Moves(i - 1, stuck) THEN trail[i - 1]
                            ELSE IF i \in {1, Rotations} \/ Moves(i, stuck) THEN <<>>
                            ELSE trail[i]
    BY DEF Rotated
  <1>3. Rotated(stuck) \in [0..Rotations -> Seq(Entries)]
    BY Facts DEF Rotated
  <1> QED BY <1>2, <1>3

(* A rotation keeps the order and, of a file that is not empty, the file.  *)
LEMMA RotatedInOrder ==
    ASSUME Inv, NEW stuck
    PROVE  LET R == Rotated(stuck)
           IN  /\ R \in [0..Rotations -> Seq(Entries)]
               /\ \A i \in 0..Rotations : Increasing(R[i]) /\ ToSet(R[i]) \subseteq OnDisk
               /\ \A i, j \in 0..Rotations : i < j =>
                     \A old \in ToSet(R[j]), new \in ToSet(R[i]) : old < new
               /\ trail[0] # <<>> => R[0] = trail[0] \/ R[1] = trail[0]
  <1> DEFINE R == Rotated(stuck)
  <1>0. /\ Rotations \in Nat \ {0} /\ 0 \in 0..Rotations /\ 1 \in 0..Rotations
        /\ \A k \in 0..Rotations : ToSet(trail[k]) \subseteq OnDisk /\ Increasing(trail[k])
    BY Facts DEF Inv, InOrder, OnDisk
  <1>1. \A i \in 0..Rotations :
           \/ R[i] = <<>>
           \/ R[i] = trail[i] /\ ~Moves(i, stuck)
           \/ i > 0 /\ R[i] = trail[i - 1] /\ Moves(i - 1, stuck)
    BY RotatedIs DEF Inv
  <1>2. R \in [0..Rotations -> Seq(Entries)]
    BY <1>0, RotatedIs DEF Inv
  <1>3. trail[0] # <<>> => R[0] = trail[0] \/ R[1] = trail[0]
    BY <1>0 DEF Rotated
  <1> HIDE DEF R
  <1>4. ASSUME NEW i \in 0..Rotations PROVE Increasing(R[i]) /\ ToSet(R[i]) \subseteq OnDisk
    <2>1. i > 0 => i - 1 \in 0..Rotations
      BY <1>0
    <2> QED BY <1>0, <1>1, NoElements
  <1>5. ASSUME NEW i \in 0..Rotations, NEW j \in 0..Rotations, i < j,
               NEW old \in ToSet(R[j]), NEW new \in ToSet(R[i])
        PROVE  old < new
    <2>1. R[i] # <<>> /\ R[j] # <<>>
      BY NoElements
    <2>2. PICK a \in 0..Rotations : /\ R[i] = trail[a]
                                    /\ \/ a = i /\ ~Moves(i, stuck)
                                       \/ a = i - 1
      BY <1>0, <1>1, <2>1
    <2>3. PICK b \in 0..Rotations : /\ R[j] = trail[b]
                                    /\ \/ b = j
                                       \/ b = j - 1 /\ Moves(j - 1, stuck)
      BY <1>0, <1>1, <2>1
    <2>4. a < b
      <3>1. CASE a = i - 1 \/ b = j
        BY <1>5, <2>2, <2>3
      <3>2. CASE a = i /\ ~Moves(i, stuck) /\ b = j - 1 /\ Moves(j - 1, stuck)
        <4>1. j - 1 # i
          BY <3>2
        <4> QED BY <1>5, <3>2
      <3> QED BY <2>2, <2>3, <3>1, <3>2
    <2> QED BY <2>2, <2>3, <2>4 DEF Inv, InOrder
  <1> QED BY <1>2, <1>3, <1>4, <1>5 DEF R

(* A compaction keeps the end of the file.                                 *)
LEMMA CompactedIs ==
    ASSUME NEW file \in Seq(Entries)
    PROVE  /\ Compacted(file) \in Seq(Entries)
           /\ ToSet(Compacted(file)) \subseteq ToSet(file)
           /\ Increasing(file) => Increasing(Compacted(file))
           /\ file # <<>> => Compacted(file) # <<>> /\ file[Len(file)] \in ToSet(Compacted(file))
  <1>1. /\ Len(file) \in Nat /\ EntriesMax \in Nat \ {0} /\ Entries \in SUBSET Nat
        /\ (file # <<>> => Len(file) > 0) /\ ToSet(file) = {file[i] : i \in 1..Len(file)}
    BY Elements, ConstantsAssumption DEF Entries
  <1>2. CASE Len(file) <= EntriesMax
    <2>1. Compacted(file) = file
      BY <1>2 DEF Compacted
    <2>2. file # <<>> => file[Len(file)] \in ToSet(file)
      BY <1>1
    <2> QED BY <2>1, <2>2
  <1>3. CASE Len(file) > EntriesMax
    <2> DEFINE k == Len(file) - EntriesMax
    <2>1. k \in 0..Len(file) /\ k < Len(file)
      BY <1>1, <1>3
    <2>2. Compacted(file) = SubSeq(file, k + 1, Len(file))
      BY <1>1, <1>3 DEF Compacted
    <2> HIDE DEF k
    <2> QED BY <1>1, <2>1, <2>2, SuffixElements
  <1> QED BY <1>1, <1>2, <1>3

(* The end of the newest file survives what a drain tidies up.             *)
LEMMA TidyTrail ==
    ASSUME Inv, Tidy
    PROVE  /\ trail' \in [0..Rotations -> Seq(Entries)]
           /\ OnDisk' \subseteq OnDisk
           /\ \A i \in 0..Rotations : Increasing(trail'[i])
           /\ \A i, j \in 0..Rotations : i < j =>
                 \A old \in ToSet(trail'[j]), new \in ToSet(trail'[i]) : old < new
           /\ trimmed' = trimmed \cup (OnDisk \ OnDisk')
           /\ size' \in Int
           /\ trail[0][Len(trail[0])] \in OnDisk'
  <1>0. /\ Rotations \in Nat \ {0} /\ 0 \in 0..Rotations /\ 1 \in 0..Rotations
        /\ trail[0] # <<>> /\ trail \in [0..Rotations -> Seq(Entries)]
        /\ \A i \in 0..Rotations : Increasing(trail[i]) /\ ToSet(trail[i]) \subseteq OnDisk
        /\ size \in Int
    BY Facts DEF Tidy, Inv, Drained, InOrder, OnDisk, TypeOK
  <1>1. PICK stuck \in SUBSET (0..Rotations - 1), compacts \in BOOLEAN :
            LET rotates == size > FileMax
                rotated == IF rotates THEN Rotated(stuck) ELSE trail
                file    == IF compacts THEN Compacted(rotated[0]) ELSE rotated[0]
            IN  /\ trail' = [rotated EXCEPT ![0] = file]
                /\ size' = IF file # rotated[0] THEN Len(file) ELSE IF rotates THEN 0 ELSE size
    BY DEF Tidy
  <1> DEFINE rotated == IF size > FileMax THEN Rotated(stuck) ELSE trail
             file == IF compacts THEN Compacted(rotated[0]) ELSE rotated[0]
             newest == trail[0][Len(trail[0])]
  <1>2. /\ rotated \in [0..Rotations -> Seq(Entries)]
        /\ \A i \in 0..Rotations : Increasing(rotated[i]) /\ ToSet(rotated[i]) \subseteq OnDisk
        /\ rotated[0] = trail[0] \/ rotated[1] = trail[0]
    <2>1. CASE size > FileMax
      BY <1>0, RotatedInOrder
    <2>2. CASE ~(size > FileMax)
      BY <1>0, <2>2
    <2> QED BY <2>1, <2>2
  <1>3. \A i, j \in 0..Rotations : i < j =>
           \A old \in ToSet(rotated[j]), new \in ToSet(rotated[i]) : old < new
    <2>1. CASE size > FileMax
      BY <2>1, RotatedInOrder
    <2>2. CASE ~(size > FileMax)
      BY <2>2 DEF Inv, InOrder
    <2> QED BY <2>1, <2>2
  <1>4. trail' = [rotated EXCEPT ![0] = file]
    BY <1>1
  <1>5. size' \in {Len(file), 0, size}
    BY <1>1
  <1> HIDE DEF rotated
  <1>6. /\ file \in Seq(Entries) /\ ToSet(file) \subseteq ToSet(rotated[0]) /\ Increasing(file)
        /\ rotated[0] # <<>> => rotated[0][Len(rotated[0])] \in ToSet(file)
    <2>1. rotated[0] \in Seq(Entries) /\ Increasing(rotated[0])
      BY <1>0, <1>2
    <2>2. CASE compacts
      BY <2>1, CompactedIs
    <2>3. CASE ~compacts
      <3>1. rotated[0] # <<>> => rotated[0][Len(rotated[0])] \in ToSet(rotated[0])
        <4>1. /\ Len(rotated[0]) \in Nat /\ (Len(rotated[0]) = 0 => rotated[0] = <<>>)
              /\ ToSet(rotated[0]) = {rotated[0][i] : i \in 1..Len(rotated[0])}
          BY <2>1, Elements
        <4> QED BY <4>1
      <3> QED BY <2>1, <2>3, <3>1
    <2> QED BY <2>2, <2>3
  <1> HIDE DEF file
  <1>7. trail'[0] = file /\ \A i \in 0..Rotations : i # 0 => trail'[i] = rotated[i]
    BY <1>0, <1>2, <1>4
  <1>8. trail' \in [0..Rotations -> Seq(Entries)]
    BY <1>2, <1>4, <1>6
  <1>9. \A i \in 0..Rotations : ToSet(trail'[i]) \subseteq ToSet(rotated[i]) /\ Increasing(trail'[i])
    BY <1>2, <1>6, <1>7
  <1>10. OnDisk' \subseteq OnDisk
    <2>1. \A i \in 0..Rotations : ToSet(trail'[i]) \subseteq OnDisk
      BY <1>2, <1>9
    <2> QED BY <2>1 DEF OnDisk
  <1>11. \A i, j \in 0..Rotations : i < j =>
            \A old \in ToSet(trail'[j]), new \in ToSet(trail'[i]) : old < new
    BY <1>3, <1>9
  <1>12. trimmed' = trimmed \cup (OnDisk \ OnDisk')
    BY DEF Tidy, OnDisk
  <1>13. size' \in Int
    BY <1>0, <1>5
  <1>14. newest \in OnDisk'
    <2>1. CASE rotated[0] = trail[0]
      BY <1>0, <1>6, <1>7, <2>1 DEF OnDisk
    <2>2. CASE rotated[1] = trail[0]
      <3>1. trail'[1] = trail[0]
        BY <1>0, <1>7, <2>2
      <3>2. newest \in ToSet(trail[0])
        <4>1. /\ Len(trail[0]) \in Nat /\ (Len(trail[0]) = 0 => trail[0] = <<>>)
              /\ ToSet(trail[0]) = {trail[0][i] : i \in 1..Len(trail[0])}
          BY <1>0, Elements
        <4> QED BY <1>0, <4>1
      <3> QED BY <1>0, <3>1, <3>2 DEF OnDisk
    <2> QED BY <1>2, <2>1, <2>2
  <1> QED BY <1>8, <1>9, <1>10, <1>11, <1>12, <1>13, <1>14

(* Nothing on disk is newer than the end of the newest file.               *)
LEMMA NewestIsLast ==
    ASSUME Inv, trail[0] # <<>>, NEW old \in OnDisk
    PROVE  old <= trail[0][Len(trail[0])]
  <1> DEFINE n == Len(trail[0])
  <1>1. /\ trail[0] \in Seq(Entries) /\ n \in Nat \ {0} /\ DOMAIN trail[0] = 1..n
        /\ ToSet(trail[0]) = {trail[0][i] : i \in 1..n}
        /\ \A i \in 1..n : trail[0][i] \in Nat
    <2>1. trail[0] \in Seq(Entries) /\ Entries \in SUBSET Nat
      BY Facts DEF Inv
    <2>2. DOMAIN trail[0] = 1..n
      OBVIOUS
    <2>3. /\ n \in Nat /\ (n = 0 => trail[0] = <<>>)
          /\ ToSet(trail[0]) = {trail[0][i] : i \in 1..n}
          /\ \A i \in 1..n : trail[0][i] \in Entries
      BY <2>1, Elements
    <2> HIDE DEF n
    <2>4. n # 0
      BY <2>3
    <2> QED BY <2>1, <2>2, <2>3
  <1>2. trail[0][n] \in ToSet(trail[0])
    BY <1>1
  <1>3. PICK i \in 0..Rotations : old \in ToSet(trail[i])
    BY DEF OnDisk
  <1>4. CASE i = 0
    <2>1. PICK k \in 1..n : old = trail[0][k]
      BY <1>1, <1>3, <1>4
    <2>2. k < n => trail[0][k] < trail[0][n]
      BY Facts DEF Inv, InOrder, Increasing
    <2> QED BY <1>1, <2>1, <2>2
  <1>5. CASE i # 0
    <2>1. old < trail[0][n]
      BY <1>2, <1>3, <1>5, Facts DEF Inv, InOrder
    <2>2. old \in Nat
      BY DEF Inv, Known
    <2> QED BY <1>1, <2>1, <2>2
  <1> QED BY <1>4, <1>5

LEMMA TidyInv == Inv /\ Tidy => Inv'
  <1> SUFFICES ASSUME Inv, Tidy PROVE Inv'
    OBVIOUS
  <1>0. /\ UNCHANGED <<queueVars, failures, flushTimer, retryTimer, writeScheduled, batch, report,
                       path, failed>>
        /\ drain = "tidy" /\ drain' = "idle" /\ flusher' = Released
    BY DEF Tidy
  <1> USE DEF queueVars
  <1>1. TypeOK'
    <2>1. OnDisk \subseteq Entries
      BY Facts DEF Inv, Known, Entries
    <2>2. trimmed' \subseteq Entries
      BY <2>1, TidyTrail DEF Inv, TypeOK
    <2>3. flusher' \in [Flushers -> {"idle", "queued", "running", "looping"}]
      BY <1>0 DEF Inv, TypeOK, Released
    <2> QED BY <1>0, <2>2, <2>3, TidyTrail DEF Inv, TypeOK
  <1>2. Queued' = Queued /\ OnDisk' \subseteq OnDisk
    BY <1>0, TidyTrail DEF Queued
  <1>3. Known'
    BY <1>0, <1>2 DEF Inv, Known
  <1>4. InOrder'
    BY <1>0, <1>2, TidyTrail DEF Inv, InOrder
  <1>5. NewestKept'
    <2> DEFINE newest == trail[0][Len(trail[0])]
    <2>1. newest \in OnDisk' /\ newest \in OnDisk /\ trail[0] # <<>>
      BY <1>0, TidyTrail DEF Inv, Drained
    <2>2. \A old \in OnDisk : old <= newest /\ old \in Nat
      BY <2>1, NewestIsLast DEF Inv, Known
    <2> HIDE DEF newest
    <2>3. ASSUME NEW old \in trimmed PROVE old < newest
      <3>1. PICK new \in OnDisk : old < new
        BY DEF Inv, NewestKept
      <3>2. old \in Nat
        BY Facts DEF Inv, TypeOK
      <3> QED BY <2>1, <2>2, <3>1, <3>2
    <2>4. ASSUME NEW old \in OnDisk \ OnDisk' PROVE old < newest
      BY <2>1, <2>2
    <2> QED BY <2>1, <2>3, <2>4, TidyTrail DEF NewestKept
  <1>6. Drained'
    BY <1>0 DEF Drained
  <1>7. Moving'
    BY <1>0 DEF Inv, Moving
  <1>8. AskedKnown'
    BY <1>0 DEF Inv, AskedKnown
  <1>9. Accounted'
    BY <1>0, TidyTrail DEF Inv, Accounted
  <1>10. CleanFlushIsGone'
    BY <1>0 DEF Inv, CleanFlushIsGone, Released
  <1> QED BY <1>1, <1>3, <1>4, <1>5, <1>6, <1>7, <1>8, <1>9, <1>10 DEF Inv
-----------------------------------------------------------------------------
(* A flush changes nothing but its own report, timers and schedules.       *)
LEMMA FlushInv ==
    ASSUME Inv, NEW f \in Flushers, Flush(f)
    PROVE  Inv'
  <1> USE DEF Flush, queueVars, diskVars
  <1>0. /\ recorded \in 0..MaxRecords /\ recorded' = recorded /\ flusher[f] = "idle"
        /\ report \in [Flushers -> [clean : BOOLEAN, asked : 0..MaxRecords]]
        /\ flusher \in [Flushers -> {"idle", "queued", "running", "looping"}]
        /\ \E c \in BOOLEAN : /\ report' = [report EXCEPT ![f] = [clean |-> c, asked |-> recorded]]
                              /\ c => queue = <<>>
        /\ flusher' = flusher \/ flusher' = [flusher EXCEPT ![f] = "queued"]
    BY DEF Inv, TypeOK
  <1>1. TypeOK'
    <2>1. PICK c \in BOOLEAN : report' = [report EXCEPT ![f] = [clean |-> c, asked |-> recorded]]
      OBVIOUS
    <2>2. /\ report' \in [Flushers -> [clean : BOOLEAN, asked : 0..MaxRecords]]
          /\ flusher' \in [Flushers -> {"idle", "queued", "running", "looping"}]
      <3> HIDE DEF Flush
      <3>1. [clean |-> c, asked |-> recorded] \in [clean : BOOLEAN, asked : 0..MaxRecords]
        BY <1>0
      <3> QED BY <1>0
    <2>3. flushTimer' \in BOOLEAN /\ retryTimer' \in BOOLEAN /\ writeScheduled' \in BOOLEAN
      BY DEF Inv, TypeOK
    <2> QED BY <2>2 DEF Inv, TypeOK
  <1>2. Known' /\ InOrder' /\ NewestKept' /\ Accounted'
    BY SameEntries
  <1>3. Drained'
    BY DEF Inv, Drained, Queued
  <1>4. Moving'
    BY DEF Moving
  <1>5. report'[f].asked = recorded
        /\ (flusher'[f] = "idle" /\ report'[f].clean => queue = <<>>)
        /\ \A g \in Flushers : g # f => report'[g] = report[g] /\ flusher'[g] = flusher[g]
    BY <1>0
  <1>6. AskedKnown'
    BY <1>0 DEF Inv, AskedKnown
  <1>7. CleanFlushIsGone'
    <2> SUFFICES ASSUME NEW g \in Flushers, flusher'[g] = "idle", report'[g].clean,
                        NEW e \in 1..report'[g].asked
                 PROVE  e \notin ToSet(queue)
      BY DEF CleanFlushIsGone
    <2>1. CASE g = f
      BY <1>5, <2>1, NoElements
    <2>2. CASE g # f
      BY <1>5, <2>2 DEF Inv, CleanFlushIsGone
    <2> QED BY <2>1, <2>2
  <1> QED BY <1>1, <1>2, <1>3, <1>4, <1>6, <1>7 DEF Inv

LEMMA FlushLoopsInv ==
    ASSUME Inv, NEW f \in Flushers, FlushLoops(f)
    PROVE  Inv'
  <1> USE DEF FlushLoops, queueVars, diskVars
  <1>0. PICK deadline \in BOOLEAN : Loop(f, deadline)
    OBVIOUS
  <1>a. PICK empty \in BOOLEAN : empty = (queue = <<>>)
    OBVIOUS
  <1>b. /\ report \in [Flushers -> [clean : BOOLEAN, asked : 0..MaxRecords]]
        /\ flusher \in [Flushers -> {"idle", "queued", "running", "looping"}]
    BY DEF Inv, TypeOK
  <1>c. \/ report' = report /\ flusher' = [flusher EXCEPT ![f] = "queued"]
        \/ /\ report' = [report EXCEPT ![f].clean = empty]
           /\ flusher' = [flusher EXCEPT ![f] = "idle"]
    BY <1>0, <1>a DEF Loop
  <1>1. TypeOK'
    <2>1. report' \in [Flushers -> [clean : BOOLEAN, asked : 0..MaxRecords]]
      BY <1>b, <1>c
    <2>2. /\ flusher' \in [Flushers -> {"idle", "queued", "running", "looping"}]
          /\ flushTimer' \in BOOLEAN /\ retryTimer' \in BOOLEAN /\ writeScheduled' \in BOOLEAN
      BY DEF Loop, Inv, TypeOK
    <2> QED BY <2>1, <2>2 DEF Inv, TypeOK
  <1>2. Known' /\ InOrder' /\ NewestKept' /\ Accounted'
    BY SameEntries
  <1>3. Drained'
    BY DEF Inv, Drained, Queued
  <1>4. Moving'
    BY DEF Loop, Inv, Moving
  <1>5. report'[f].asked = report[f].asked
        /\ (flusher'[f] = "idle" /\ report'[f].clean => queue = <<>>)
        /\ \A g \in Flushers : g # f => report'[g] = report[g] /\ flusher'[g] = flusher[g]
    <2>1. CASE report' = report /\ flusher' = [flusher EXCEPT ![f] = "queued"]
      BY <1>b, <2>1
    <2>2. CASE /\ report' = [report EXCEPT ![f].clean = empty]
               /\ flusher' = [flusher EXCEPT ![f] = "idle"]
      <3>1. report'[f].clean = empty /\ report'[f].asked = report[f].asked
        BY <1>b, <2>2
      <3> QED BY <1>a, <1>b, <2>2, <3>1
    <2> QED BY <1>c, <2>1, <2>2
  <1>6. AskedKnown'
    BY <1>5 DEF Inv, AskedKnown
  <1>7. CleanFlushIsGone'
    <2> SUFFICES ASSUME NEW g \in Flushers, flusher'[g] = "idle", report'[g].clean,
                        NEW e \in 1..report'[g].asked
                 PROVE  e \notin ToSet(queue)
      BY DEF CleanFlushIsGone
    <2>1. CASE g = f
      BY <1>5, <2>1, NoElements
    <2>2. CASE g # f
      BY <1>5, <2>2 DEF Inv, CleanFlushIsGone
    <2> QED BY <2>1, <2>2
  <1> QED BY <1>1, <1>2, <1>3, <1>4, <1>6, <1>7 DEF Inv

LEMMA StutterInv == Inv /\ UNCHANGED vars => Inv'
  <1> SUFFICES ASSUME Inv, UNCHANGED vars PROVE Inv'
    OBVIOUS
  <1> USE DEF vars, queueVars, flushVars, diskVars
  <1>1. TypeOK'
    BY DEF Inv, TypeOK
  <1>2. Known' /\ InOrder' /\ NewestKept' /\ Accounted'
    BY SameEntries
  <1>3. Drained' /\ Moving' /\ AskedKnown'
    BY DEF Inv, Drained, Moving, AskedKnown, Queued
  <1>4. CleanFlushIsGone'
    BY DEF Inv, CleanFlushIsGone
  <1> QED BY <1>1, <1>2, <1>3, <1>4 DEF Inv

LEMMA NextInv == Inv /\ [Next]_vars => Inv'
  <1> SUFFICES ASSUME Inv, [Next]_vars PROVE Inv'
    OBVIOUS
  <1>1. CASE Record
    BY <1>1, RecordInv
  <1>2. CASE FlushTimer \/ RetryTimer
    BY <1>2, TimersInv
  <1>3. CASE DrainStarts
    BY <1>3, DrainStartsInv
  <1>4. CASE MkdirFails \/ MigrationFails \/ PathRejected \/ AppendFails
    BY <1>4, FailsInv
  <1>5. CASE PathResolves
    BY <1>5, PathResolvesInv
  <1>6. CASE AppendSucceeds
    BY <1>6, AppendSucceedsInv
  <1>7. CASE Tidy
    BY <1>7, TidyInv
  <1>8. CASE \E f \in Flushers : Flush(f) \/ FlushLoops(f)
    BY <1>8, FlushInv, FlushLoopsInv
  <1>9. CASE UNCHANGED vars
    BY <1>9, StutterInv
  <1> QED BY <1>1, <1>2, <1>3, <1>4, <1>5, <1>6, <1>7, <1>8, <1>9 DEF Next

LEMMA InvHolds == Spec => []Inv
  BY InitInv, NextInv, PTL DEF Spec
-----------------------------------------------------------------------------
\* The queue never exceeds its limit and every part of the log keeps its type
\* (record and drainOnce, src/src/audit.ts).
THEOREM TypeCorrect == Spec => []TypeOK
  <1>1. Inv => TypeOK
    BY DEF Inv
  <1> QED BY <1>1, InvHolds, PTL

\* No recorded entry is lost but by the ways the log admits to, and what is
\* queued is always on its way to the disk (record, flush, drainOnce and
\* recordWriteFailure, src/src/audit.ts).
THEOREM EntriesAreKept == Spec => []EntriesKept
  <1>1. Inv => EntriesKept
    BY DEF Inv, EntriesKept, NeverStranded, Moving
  <1> QED BY <1>1, InvHolds, PTL

\* Whatever renames and compactions fail, the trail is in the order of the
\* calls of record, nothing is written twice, and the newest entry is never
\* what rotation or compaction deletes (rotateIfNeeded and compact,
\* src/src/audit.ts).
THEOREM TrailIsInOrder == Spec => []TrailInOrder
  <1>1. Inv => TrailInOrder
    <2> SUFFICES ASSUME Inv PROVE TrailInOrder
      OBVIOUS
    <2>1. \A e \in Queued : e \notin OnDisk
      <3> SUFFICES ASSUME NEW e \in Queued, e \in OnDisk PROVE FALSE
        OBVIOUS
      <3>1. e < e /\ e \in Nat
        BY DEF Inv, InOrder, Known
      <3> QED BY <3>1
    <2> QED BY <2>1 DEF Inv, InOrder, NewestKept, TrailInOrder, Queued
  <1> QED BY <1>1, InvHolds, PTL

\* A flush that reports clean returns with everything that was recorded before
\* it was called on disk, deleted since by a limit, or swept away by an append
\* that was in flight when it was recorded (flush, src/src/audit.ts).
THEOREM CleanFlushMeansWritten == Spec => []CleanFlushIsWritten
  <1>1. Inv => CleanFlushIsWritten
    <2> SUFFICES ASSUME Inv, NEW f \in Flushers, flusher[f] = "idle", report[f].clean,
                        NEW e \in 1..report[f].asked
                 PROVE  /\ e \in OnDisk \cup trimmed \cup dropped \cup late
                        /\ e \notin ToSet(queue)
      BY DEF CleanFlushIsWritten
    <2>1. e \in 1..recorded
      BY DEF Inv, AskedKnown, TypeOK
    <2>2. e \notin ToSet(queue)
      BY DEF Inv, CleanFlushIsGone
    <2> QED BY <2>1, <2>2 DEF Inv, Accounted
  <1> QED BY <1>1, InvHolds, PTL
=============================================================================
