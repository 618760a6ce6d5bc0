---------------------------- MODULE StateMigration ----------------------------
(***************************************************************************)
(* The migration of session.json and audit.jsonl from the directory of an  *)
(* older version to the state directory (src/src/state-dir.ts), which every *)
(* server runs before it serves, under the file lock of LockLease.         *)
(*                                                                         *)
(* A caller is the start of one server; a step is one operation of the     *)
(* file system, or reads that a fingerprint guards.  A trail is a sequence *)
(* of lines, and a file that does not exist is None.  Servers that have    *)
(* started write to the state directory, and one of the older version may  *)
(* go on appending to its trail and saving its session: neither takes the  *)
(* lock.  Symbolic links and things that are not files are left out.       *)
(***************************************************************************)
EXTENDS Naturals, Sequences, SequencesExt

CONSTANTS
  Callers, TakeoverOnCorrupt, TakeoverOnDeadOwner, Heartbeats, NoFile, MaxFaults, \* of LockLease
  OldLines, NewLines,   \* lines that the older and the newer version write
  Torn,                 \* a line that cannot be parsed
  None                  \* the file does not exist

Lines == OldLines \cup NewLines \cup {Torn}

VARIABLES file, pc, prevFence, fence, beat, beatFence, judged, takers, abandoned, faults \* of LockLease

Lease == INSTANCE LockLease

\* The lock is taken without heartbeats, from dead owners, never for an empty
\* file (src/src/state-dir.ts:234).
ASSUME MigrationAssumption ==
  /\ OldLines \cap NewLines = {} /\ Torn \notin OldLines \cup NewLines
  /\ None \notin {"old", "resaved", "new", "torn"} /\ None \notin Seq(Lines)
  /\ ~Heartbeats /\ TakeoverOnDeadOwner /\ ~TakeoverOnCorrupt
  /\ Lease!ConstantsAssumption

VARIABLES
  oldSession, session,  \* session.json in the old and in the new directory
  oldTrail, trail,      \* audit.jsonl in the old and in the new directory
  step,                 \* where the transaction of each caller is
  taken,                \* the old session as a caller has read it
  read,                 \* the two trails as a caller has read them
  outcome,              \* of each caller: "none", "migrated" or "failed"
  \* History.
  inherited,            \* whether there was an old session at the start
  inheritedLines,       \* the lines of the old trail at the start
  overwritten,          \* a session of the new version was replaced by the old
  recreated,            \* an old session was saved where a start had found no session
  written,              \* all lines of both trails
  unguarded             \* those written after a caller has looked for the last time

leaseVars == <<file, pc, prevFence, fence, beat, beatFence, judged, takers, abandoned, faults>>
files     == <<oldSession, session, oldTrail, trail>>
history   == <<inherited, inheritedLines, overwritten, recreated, written, unguarded>>
vars      == <<leaseVars, files, step, taken, read, outcome, history>>

Steps == {"session", "session-read", "session-checked", "session-renamed",
          "trail", "trail-read", "trail-checked", "trail-renamed", "end"}

\* What a session.json holds: "resaved" is what an older server saved later.
Sessions == {None, "old", "resaved", "new", "torn"}

LinesOf(t) == IF t = None THEN {} ELSE ToSet(t)
Present == LinesOf(oldTrail) \cup LinesOf(trail)

IsTrail(t) == t = None \/ t \in Seq(Lines)

TypeOK ==
  /\ Lease!TypeOK
  /\ {oldSession, session} \subseteq Sessions /\ taken \in [Callers -> Sessions]
  /\ IsTrail(oldTrail) /\ IsTrail(trail)
  /\ step \in [Callers -> Steps] /\ outcome \in [Callers -> {"none", "migrated", "failed"}]
  /\ \A c \in Callers : IsTrail(read[c].old) /\ IsTrail(read[c].new)
  /\ {inherited, overwritten, recreated} \subseteq BOOLEAN /\ inheritedLines \subseteq Lines
  /\ written \subseteq Lines /\ unguarded \subseteq written

Init ==
  /\ Lease!Init
  /\ oldSession \in {None, "old", "torn"} /\ session \in {None, "new"}
  /\ \E o \in OldLines : oldTrail \in {None, <<o>>, <<o, Torn>>}
  /\ \E n \in NewLines : trail \in {None, <<n>>}
  /\ step = [c \in Callers |-> "session"]
  /\ read = [c \in Callers |-> [old |-> None, new |-> None]]
  /\ outcome = [c \in Callers |-> "none"]
  /\ taken = [c \in Callers |-> None]
  /\ inherited = (oldSession = "old") /\ inheritedLines = LinesOf(oldTrail)
  /\ overwritten = FALSE /\ recreated = FALSE
  /\ written = Present /\ unguarded = {}

Running(c) == pc[c] = "held" /\ outcome[c] = "none"
Goto(c, s) == step' = [step EXCEPT ![c] = s]
Takes(c, s) == taken' = [taken EXCEPT ![c] = s]
Reads(c, old, new) == read' = [read EXCEPT ![c] = [old |-> old, new |-> new]]

\* What a transaction has read goes with it.
Forgets(c) == Takes(c, None) /\ Reads(c, None, None)

\* Mutant of Throws: the failure is logged, and the server starts.
ThrowsQuietly(c) ==
  /\ outcome' = [outcome EXCEPT ![c] = "migrated"]
  /\ Goto(c, "end")
  /\ Forgets(c)
  /\ UNCHANGED <<files, history>>

\* The transaction throws: the lock is released and the server does not start.
Throws(c) ==
  /\ outcome' = [outcome EXCEPT ![c] = "failed"]
  /\ Goto(c, "end")
  /\ Forgets(c)
  /\ UNCHANGED <<files, history>>

-------------------------------------------------------------------------------
(* session.json *)

\* Mutant of LookAtSession: an existing session does not matter.
LookAtSessionOnce(c) ==
  /\ Running(c) /\ step[c] = "session"
  /\ IF oldSession = "torn" THEN Throws(c)
     ELSE IF oldSession = None
     THEN Goto(c, "trail") /\ UNCHANGED <<files, taken, read, outcome, history>>
     ELSE /\ Goto(c, "session-read") /\ Takes(c, oldSession)
          /\ UNCHANGED <<files, read, outcome, history>>
  /\ UNCHANGED leaseVars

\* Where both exist the new one is kept, if both can be parsed.
LookAtSession(c) ==
  /\ Running(c) /\ step[c] = "session"
  /\ IF oldSession = "torn" THEN Throws(c)
     ELSE IF oldSession = None \/ session # None
     THEN Goto(c, "trail") /\ UNCHANGED <<files, taken, read, outcome, history>>
     ELSE /\ Goto(c, "session-read") /\ Takes(c, oldSession)
          /\ UNCHANGED <<files, read, outcome, history>>
  /\ UNCHANGED leaseVars

\* The old session must still be the one that was read. Whether the new one
\* still does not exist is not asked again.
CheckSession(c) ==
  /\ Running(c) /\ step[c] = "session-read"
  /\ IF oldSession # taken[c] THEN Throws(c)
     ELSE Goto(c, "session-checked") /\ UNCHANGED <<files, taken, read, outcome, history>>
  /\ UNCHANGED leaseVars

RenameSession(c) ==
  /\ Running(c) /\ step[c] = "session-checked"
  /\ session' = taken[c]
  /\ overwritten' = (overwritten \/ session = "new")
  /\ Goto(c, "session-renamed")
  /\ UNCHANGED <<leaseVars, oldSession, oldTrail, trail, taken, read, outcome,
                 inherited, inheritedLines, recreated, written, unguarded>>

\* The new file is read back; then the old one goes, whatever it holds now.
UnlinkSession(c) ==
  /\ Running(c) /\ step[c] = "session-renamed"
  /\ IF session # taken[c] \/ oldSession = None THEN Throws(c)
     ELSE /\ oldSession' = None /\ Takes(c, None) /\ Goto(c, "trail")
          /\ UNCHANGED <<session, oldTrail, trail, read, outcome, history>>
  /\ UNCHANGED leaseVars

-------------------------------------------------------------------------------
(* audit.jsonl *)

Parses(t) == t = None \/ Torn \notin ToSet(t)

\* The lines of a trail that are not among some others.
Without(t, others) ==
  LET upTo[i \in 0..Len(t)] ==
        IF i = 0 THEN <<>>
        ELSE IF t[i] \in others THEN upTo[i - 1] ELSE Append(upTo[i - 1], t[i])
  IN upTo[Len(t)]

\* Old lines first, then those of the new trail that are not among them.
Merged(old, new) == IF new = None THEN old ELSE old \o Without(new, ToSet(old))

ReadTrail(c) ==
  /\ Running(c) /\ step[c] = "trail"
  /\ IF oldTrail = None
     THEN /\ outcome' = [outcome EXCEPT ![c] = "migrated"] /\ Goto(c, "end")
          /\ UNCHANGED <<files, taken, read, history>>
     ELSE IF ~Parses(oldTrail) \/ ~Parses(trail) THEN Throws(c)
     ELSE /\ Reads(c, oldTrail, trail)
          /\ Goto(c, "trail-read")
          /\ UNCHANGED <<files, taken, outcome, history>>
  /\ UNCHANGED leaseVars

\* The staging file is written, and the fingerprints are compared; that of the
\* new trail only if there was one.
\* Mutant of CheckTrail: the fingerprint of the old trail is not compared.
CheckTrailOfTarget(c) ==
  /\ Running(c) /\ step[c] = "trail-read"
  /\ IF read[c].new # None /\ trail # read[c].new
     THEN Throws(c)
     ELSE Goto(c, "trail-checked") /\ UNCHANGED <<files, taken, read, outcome, history>>
  /\ UNCHANGED leaseVars

CheckTrail(c) ==
  /\ Running(c) /\ step[c] = "trail-read"
  /\ IF oldTrail # read[c].old \/ (read[c].new # None /\ trail # read[c].new)
     THEN Throws(c)
     ELSE Goto(c, "trail-checked") /\ UNCHANGED <<files, taken, read, outcome, history>>
  /\ UNCHANGED leaseVars

RenameTrail(c) ==
  /\ Running(c) /\ step[c] = "trail-checked"
  /\ trail' = Merged(read[c].old, read[c].new)
  /\ Goto(c, "trail-renamed")
  /\ UNCHANGED <<leaseVars, oldSession, session, oldTrail, taken, read, outcome, history>>

\* A copy is compared with what was read, a merged trail must only be parsable.
UnlinkTrail(c) ==
  /\ Running(c) /\ step[c] = "trail-renamed"
  /\ IF (read[c].new = None /\ trail # read[c].old) \/ ~Parses(trail) \/ oldTrail = None
     THEN Throws(c)
     ELSE /\ oldTrail' = None
          /\ outcome' = [outcome EXCEPT ![c] = "migrated"] /\ Goto(c, "end") /\ Forgets(c)
          /\ UNCHANGED <<oldSession, session, trail, history>>
  /\ UNCHANGED leaseVars

\* An operation of the file system fails: the staging file is removed.
StepFails(c) ==
  /\ Running(c) /\ faults < MaxFaults
  /\ faults' = faults + 1
  /\ Throws(c)
  /\ UNCHANGED <<file, pc, prevFence, fence, beat, beatFence, judged, takers, abandoned>>

-------------------------------------------------------------------------------
(* The lock, the servers that run, and the older version *)

Ends(c) ==
  /\ outcome[c] # "none"
  /\ Lease!Finish(c)
  /\ UNCHANGED <<files, step, taken, read, outcome, history>>

Locks(c) ==
  /\ \/ Lease!Start(c) \/ Lease!Read(c) \/ Lease!Create(c) \/ Lease!Fill(c)
     \/ Lease!Replace(c) \/ Lease!Retry(c) \/ Lease!Verify(c) \/ Lease!Remove(c)
  /\ UNCHANGED <<files, step, taken, read, outcome, history>>

LockFails(c) ==
  /\ \/ Lease!TimesOut(c) \/ Lease!FillFails(c)
     \/ Lease!RenameFails(c) \/ Lease!RemoveFails(c)
  /\ UNCHANGED <<files, step, taken, read, outcome, history>>

\* The process of a start dies, and what it has read with it.
Crashes(c) ==
  /\ Lease!Crash(c)
  /\ Goto(c, "end") /\ Forgets(c)
  /\ UNCHANGED <<files, outcome, history>>

Serves(c) == pc[c] = "done" /\ outcome[c] = "migrated"

Extended(t, l) == IF t = None THEN <<l>> ELSE Append(t, l)

\* Callers that will replace the new trail without a further look at it: a copy
\* does not ask again whether the new trail still does not exist.
ReplacesTrail(c) ==
  Running(c) /\ (step[c] = "trail-checked" \/ (step[c] = "trail-read" /\ read[c].new = None))

\* Callers that will remove the old trail without a further look at it.
RemovesTrail(c) == Running(c) /\ step[c] \in {"trail-checked", "trail-renamed"}

\* Callers that have dealt with the sessions and go on, or serve.
SeenSessions(c) ==
  \/ outcome[c] = "migrated"
  \/ Running(c) /\ step[c] \notin {"session", "session-read", "session-checked"}

Writes(l, isLate) ==
  /\ written' = written \cup {l}
  /\ unguarded' = IF isLate THEN unguarded \cup {l} ELSE unguarded

\* A server of the new version writes its trail and saves its session.
ServerAppends(c, l) ==
  /\ Serves(c) /\ l \notin written
  /\ trail' = Extended(trail, l) /\ Writes(l, \E d \in Callers : ReplacesTrail(d))
  /\ UNCHANGED <<leaseVars, oldSession, session, oldTrail, step, taken, read, outcome,
                 inherited, inheritedLines, overwritten, recreated>>

ServerSaves(c) ==
  /\ Serves(c) /\ session # "new"
  /\ session' = "new"
  /\ UNCHANGED <<leaseVars, oldSession, oldTrail, trail, step, taken, read, outcome, history>>

\* A server of the older version is still running.
OlderAppends(l) ==
  /\ l \notin written
  /\ oldTrail' = Extended(oldTrail, l) /\ Writes(l, \E c \in Callers : RemovesTrail(c))
  /\ UNCHANGED <<leaseVars, oldSession, session, trail, step, taken, read, outcome,
                 inherited, inheritedLines, overwritten, recreated>>

\* It saves its session again, and so makes a file that a start has moved anew.
OlderSaves ==
  /\ oldSession # "resaved"
  /\ oldSession' = "resaved"
  /\ recreated' = (\/ recreated
                   \/ oldSession = None /\ session = None /\ \E c \in Callers : SeenSessions(c))
  /\ UNCHANGED <<leaseVars, session, oldTrail, trail, step, taken, read, outcome,
                 inherited, inheritedLines, overwritten, written, unguarded>>

Next ==
  \/ \E c \in Callers : \/ Locks(c) \/ LockFails(c) \/ Crashes(c) \/ Ends(c)
                        \/ LookAtSession(c) \/ CheckSession(c) \/ RenameSession(c)
                        \/ UnlinkSession(c) \/ ReadTrail(c) \/ CheckTrail(c)
                        \/ RenameTrail(c) \/ UnlinkTrail(c) \/ StepFails(c)
                        \/ ServerSaves(c)
  \/ \E c \in Callers, l \in NewLines : ServerAppends(c, l)
  \/ \E l \in OldLines : OlderAppends(l)
  \/ OlderSaves

Spec == Init /\ [][Next]_vars

-------------------------------------------------------------------------------
(* Properties *)

\* At most one caller has taken over the lock of another: of two that take over
\* the same dead lock, both run their transactions (see LockLease).
OneTakeover == \A c, d \in takers : c = d

\* A line that was ever written is in one of the two trails, whatever crashes or
\* fails, and although servers append while the trails are merged: exempt are
\* lines written after the fingerprints were compared, and two concurrent
\* transactions (src/src/state-dir.ts:391-404).
NoLineLost == OneTakeover => written \ unguarded \subseteq Present

\* No line is twice in the new trail, and old lines come before new ones, also
\* if a crash between the rename and the removal has the merge done again, or
\* two callers do it (src/src/state-dir.ts:358-360).
TrailMerged ==
  trail # None =>
    /\ \A i, j \in 1..Len(trail) : i # j => trail[i] # trail[j]
    /\ \A i, j \in 1..Len(trail) : i < j /\ trail[i] \in NewLines => trail[j] \in NewLines

\* The merged trail holds every line, once and in order (mergeAuditJsonl).
TrailKept == NoLineLost /\ TrailMerged

\* A session that the new version has saved is never replaced by the old one,
\* whatever starts, saves of both versions, crashes and failures come between
\* (src/src/state-dir.ts:304: the target is authoritative): exempt are two
\* concurrent transactions, and an older server that has saved its session again
\* after a start had found none in either directory (SessionNeverReplaced).
NewSessionKept == OneTakeover /\ ~recreated => ~overwritten

\* What state-dir.ts:304 says without that exemption. It is false: a start that
\* found the target absent (state-dir.ts:300) renames over the session that the
\* server has saved since (state-dir.ts:276).
SessionNeverReplaced == OneTakeover => ~overwritten

\* A server that serves has, in its own directory, a session if the older version
\* had one, and every line that the older trail held, however many starts it took,
\* wherever those crashed or failed, and however many locks were taken over: a
\* start that finds less fails (src/src/state-dir.ts:120).
ServesOnMigratedState ==
  (\E c \in Callers : Serves(c)) =>
    (inherited => session # None) /\ inheritedLines \subseteq LinesOf(trail)
===============================================================================
