--------------------------- MODULE ArchivesProofs ---------------------------
(***************************************************************************)
(* Proofs about the transfers of Archives and Downloads, for every number  *)
(* of calls, of names, of retries and of bytes, with all other file tools  *)
(* around them; and about the cache of results in front of these.          *)
(***************************************************************************)
EXTENDS Archives, TLAPS

Answers    == {"ok", "failed"}
Early      == {"start", "resolve", "consent"}
FilePcs    == Early \cup Answers \cup {"lookup", "look", "relook", "native", "store", "stage",
                                       "inplace", "filling", "change", "stat", "settle"}
DownloadPcs == Early \cup Answers \cup {"hop", "waiting", "open", "stream", "place", "backoff"}
ExtractPcs  == Early \cup Answers \cup {"manifest", "reopen", "members", "clear", "move"}
UsingPcs    == {"stream", "place", "members", "clear", "move"}

Fields == {"kind", "pc", "on", "spell", "existed", "seen", "complete", "during", "over",
           "refused", "stamp", "hop", "tries", "got", "used", "written", "todo", "placed", "zip", "shared"}

\* What a variable is made of, as far as the proofs go into it.
Shape ==
    /\ call = [c \in Calls |-> call[c]]
    /\ \A c \in Calls : DOMAIN call[c] = Fields
    /\ files \in [Names -> Content]
    /\ staging = [name \in DOMAIN staging |-> staging[name]]
    /\ \A name \in DOMAIN staging :
          /\ DOMAIN staging[name] = {"by", "items", "whole", "stuck"}
          /\ staging[name].stuck \in BOOLEAN

Fits(c) ==
    /\ call[c].kind \in Kinds
    /\ call[c].pc \in IF Is(c, {"download_file"}) THEN DownloadPcs
                      ELSE IF Is(c, {"extract_archive"}) THEN ExtractPcs ELSE FilePcs
    /\ call[c].got \in Nat /\ call[c].used \in Nat /\ call[c].written \in Nat

Using(c)  == call[c].pc \in UsingPcs
NameOf(c) == IF Is(c, {"extract_archive"}) THEN StagingDir(c) ELSE DownloadName(c)

\* What a download has written is in what its attempts have come to.
Counted(c) ==
    Is(c, {"download_file"}) =>
        /\ call[c].written <= MaxBytes
        /\ call[c].pc \notin Answers => call[c].written <= call[c].used + call[c].got

\* Two that use one name know it.
Apart ==
    \A c, d \in Calls :
        c # d /\ Using(c) /\ Using(d) /\ NameOf(c) = NameOf(d) => call[c].shared /\ call[d].shared

\* What lies in staging is in use.
Claimed ==
    \A name \in DOMAIN staging :
        staging[name].stuck \/ \E c \in Calls : Using(c) /\ NameOf(c) = name

\* A staging file of its own is that of the call, and whole when it is placed.
OwnFile(c) ==
    /\ call[c].pc \in {"stream", "place"} /\ ~call[c].shared /\ DownloadName(c) \in DOMAIN staging
    => /\ staging[DownloadName(c)].by = c
       /\ call[c].pc = "place" => staging[DownloadName(c)].whole

\* A staging directory of its own holds what has been extracted, and then every
\* member lies there or has been placed.
OwnDir(c) ==
    Is(c, {"extract_archive"}) /\ ~call[c].shared =>
        /\ call[c].pc = "members" =>
              /\ StagingDir(c) \in DOMAIN staging
              /\ call[c].todo \subseteq Members
              /\ staging[StagingDir(c)].items = Members \ call[c].todo
        /\ call[c].pc \in {"clear", "move"} => call[c].placed \cup call[c].todo = Members
        /\ call[c].pc = "move" => call[c].on \in call[c].todo
        /\ call[c].pc \in Early \cup {"manifest", "reopen", "members"} => call[c].placed = {}
        /\ call[c].pc = "ok" => call[c].placed = Members
        /\ (\E n \in Names : files[n].by = c) =>
              /\ call[c].pc \in {"clear", "move"} \cup Answers
              /\ call[c].placed \cup call[c].todo = Members

\* A part of a file is not that of a download.
NoPart ==
    \A n \in Names : LET w == files[n].by
                     IN w # "init" /\ files[n].is = "part"
                           => call[w].kind # "download_file" \/ call[w].shared

OfCall(c) == Fits(c) /\ Counted(c) /\ OwnFile(c) /\ OwnDir(c)

Inv == Shape /\ Apart /\ Claimed /\ NoPart /\ \A c \in Calls : OfCall(c)
-----------------------------------------------------------------------------
(* The records of the calls.                                               *)

\* Call c goes on, and nothing of what the proofs are about changes of it but the
\* place; of the others nothing changes.
Only(c) ==
    /\ call' = [d \in Calls |-> call'[d]]
    /\ \A d \in Calls \ {c} : call'[d] = call[d]
    /\ DOMAIN call'[c] = Fields
    /\ call'[c].kind = call[c].kind /\ call'[c].shared = call[c].shared
    /\ call'[c].written = call[c].written
    /\ call'[c].placed = call[c].placed /\ call'[c].todo = call[c].todo

Same(c) == call'[c].used = call[c].used /\ call'[c].got = call[c].got

Forgets(c) == call'[c].used = 0 /\ call'[c].got = 0

LEMMA GotoIs ==
    ASSUME Shape, NEW c \in Calls, NEW pc, Goto(c, pc) PROVE Only(c) /\ call'[c].pc = pc /\ Same(c)
  BY DEF Goto, Shape, Only, Same, Fields

LEMMA SeeIs ==
    ASSUME Shape, NEW c \in Calls, NEW v, NEW b, NEW pc, See(c, v, b, pc)
    PROVE  Only(c) /\ call'[c].pc = pc /\ Same(c)
  BY DEF See, Shape, Only, Same, Fields

LEMMA AnswerIs ==
    ASSUME Shape, NEW c \in Calls, NEW pc, Answer(c, pc) PROVE Only(c) /\ call'[c].pc = pc /\ Forgets(c)
  BY DEF Answer, Answered, Call0, Shape, Only, Forgets, Fields

LEMMA InvalidateIs ==
    ASSUME Shape, NEW c \in Calls, NEW keys, Invalidate(c, keys)
    PROVE  Only(c) /\ call'[c].pc = "ok" /\ Forgets(c) /\ UNCHANGED <<files, staging>>
  <1> DEFINE r == [Answered(call[c], "ok") EXCEPT !.during = Active \ {c}]
  <1>1. call' = [call EXCEPT ![c] = r] /\ UNCHANGED <<files, staging>>
    BY DEF Invalidate
  <1>2. /\ DOMAIN r = Fields /\ r.pc = "ok" /\ r.used = 0 /\ r.got = 0
        /\ r.kind = call[c].kind /\ r.shared = call[c].shared /\ r.written = call[c].written
        /\ r.placed = call[c].placed /\ r.todo = call[c].todo
    BY DEF Answered, Call0, Fields
  <1> HIDE DEF r
  <1>3. /\ call' = [d \in Calls |-> call'[d]] /\ call'[c] = r
        /\ \A d \in Calls \ {c} : call'[d] = call[d]
    BY <1>1 DEF Shape
  <1> QED BY <1>1, <1>2, <1>3 DEF Only, Forgets

-----------------------------------------------------------------------------
(* The file tools.                                                         *)

\* Call c writes some names, as a call that is no transfer does.
Writes(c) ==
    /\ files' \in [Names -> Content]
    /\ \A n \in Names : files'[n] = files[n] \/ (call[c].kind \notin Transfers /\ files'[n].by = c)

LEMMA PutIs ==
    ASSUME Shape, NEW c \in Calls, NEW how \in {"whole", "part", "gone"}, NEW n,
           files' = [files EXCEPT ![n] = Put(c, how)] \/ UNCHANGED files, call[c].kind \notin Transfers
    PROVE  Writes(c)
  BY DEF Shape, Put, Content, Writes

\* Where a transfer is before it begins, and where it may go from there.
Begins(c) == IF Is(c, {"download_file"}) THEN {"hop"} ELSE {"manifest"}

\* A step of a call that neither uses nor takes a staging name.
FileFrame(c) ==
    /\ Only(c)
    /\ IF Is(c, Transfers)
       THEN call[c].pc \in Early /\ call'[c].pc \in Early \cup {"failed"} \cup Begins(c)
       ELSE call[c].pc \in FilePcs /\ call'[c].pc \in FilePcs
    /\ Same(c) \/ (Forgets(c) /\ call'[c].pc \in Answers)
    /\ Writes(c) /\ UNCHANGED staging

LEMMA NoWrite == ASSUME Shape, NEW c \in Calls, UNCHANGED files PROVE Writes(c)
  BY DEF Shape, Writes

LEMMA StartIs == ASSUME Shape, NEW c \in Calls, Fits(c), Start(c) PROVE FileFrame(c)
  <1>1. Only(c) /\ Same(c)
    BY DEF Start, Shape, Only, Same, Fields
  <1>2. call[c].pc = "start" /\ call'[c].pc = IF Is(c, Readers) THEN "lookup" ELSE "resolve"
    BY DEF Start, At, Shape
  <1>3. Is(c, Transfers) => ~Is(c, Readers)
    BY DEF Is, Readers, Transfers
  <1> QED BY <1>1, <1>2, <1>3, NoWrite DEF Start, FileFrame, Early, FilePcs

LEMMA ResolveIs == ASSUME Shape, NEW c \in Calls, Fits(c), Resolve(c) PROVE FileFrame(c)
  <1>1. call[c].pc = "resolve" /\ Writes(c) /\ UNCHANGED staging
    BY NoWrite DEF Resolve, At
  <1>2. CASE Answer(c, "failed")
    BY <1>1, <1>2, AnswerIs DEF FileFrame, Early, FilePcs, Answers
  <1>3. CASE call' = [call EXCEPT ![c].existed = Exists(call[c].on), ![c].pc = "consent"]
    <2>1. Only(c) /\ Same(c) /\ call'[c].pc = "consent"
      BY <1>3 DEF Shape, Only, Same, Fields
    <2> QED BY <1>1, <2>1 DEF FileFrame, Early, FilePcs
  <1> QED BY <1>2, <1>3 DEF Resolve

LEMMA ConsentIs == ASSUME Shape, NEW c \in Calls, Fits(c), Consent(c) PROVE FileFrame(c)
  <1>1. call[c].pc = "consent" /\ Writes(c) /\ UNCHANGED staging
    BY NoWrite DEF Consent, At
  <1>2. CASE Answer(c, "failed")
    BY <1>1, <1>2, AnswerIs DEF FileFrame, Early, FilePcs, Answers
  <1>3. CASE Goto(c, NextAfterConsent(c))
    <2>1. NextAfterConsent(c) \in IF Is(c, Transfers) THEN Begins(c)
                                  ELSE {"stage", "inplace", "change"}
      BY DEF NextAfterConsent, Is, Transfers, Begins
    <2> HIDE DEF NextAfterConsent
    <2> QED BY <1>1, <1>3, <2>1, GotoIs DEF FileFrame, Early, FilePcs
  <1> QED BY <1>2, <1>3 DEF Consent

\* The places of a call that is no transfer and has begun.
FileOnly == FilePcs \ (Early \cup Answers)

(* A place that transfers do not have.                                     *)
LEMMA NotTransfer ==
    ASSUME NEW c \in Calls, Fits(c), call[c].pc \in FileOnly PROVE call[c].kind \notin Transfers
  BY DEF Fits, FileOnly, FilePcs, DownloadPcs, ExtractPcs, Is, Transfers

(* One that goes on from there.                                            *)
LEMMA GoesOn ==
    ASSUME Shape, NEW c \in Calls, Fits(c), call[c].pc \in FileOnly, NEW pc \in FilePcs,
           Goto(c, pc) \/ (\E v, b : See(c, v, b, pc)) \/ (Answer(c, pc) /\ pc \in Answers),
           Writes(c), UNCHANGED staging
    PROVE  FileFrame(c)
  <1>1. Only(c) /\ call'[c].pc = pc /\ (Same(c) \/ (Forgets(c) /\ pc \in Answers))
    <2>1. CASE Goto(c, pc)
      BY <2>1, GotoIs
    <2>2. ASSUME NEW v, NEW b, See(c, v, b, pc) PROVE Only(c) /\ call'[c].pc = pc /\ Same(c)
      BY <2>2, SeeIs
    <2>3. CASE Answer(c, pc) /\ pc \in Answers
      BY <2>3, AnswerIs
    <2> QED BY <2>1, <2>2, <2>3
  <1> QED BY <1>1, NotTransfer DEF FileFrame, FileOnly, Is

LEMMA ReadStepIs == ASSUME Shape, NEW c \in Calls, Fits(c), ReadStep(c) PROVE FileFrame(c)
  <1>1. call[c].pc \in FileOnly /\ UNCHANGED <<files, staging>>
    BY DEF ReadStep, LookupHit, LookupMiss, LookFails, ReadFileStat, ReadFileLines,
       FileInfo, ListNames, ListSizes, SearchWithFd, SearchWithGrep, NativeSearchFiles,
       NativeGrepContent, Store, Looks, NativeFinds, At, FileOnly, FilePcs, Early,
       Answers
  <1>2. \E pc \in {"look", "relook", "native", "store", "ok", "failed"} :
           Goto(c, pc) \/ (\E v, b : See(c, v, b, pc)) \/ (Answer(c, pc) /\ pc \in Answers)
    BY DEF ReadStep, LookupHit, LookupMiss, LookFails, ReadFileStat, ReadFileLines,
       FileInfo, ListNames, ListSizes, SearchWithFd, SearchWithGrep, NativeSearchFiles,
       NativeGrepContent, Store, NativeFinds, EngineFinds, Answers
  <1> QED BY <1>1, <1>2, GoesOn, NoWrite DEF FilePcs, Answers

(* One that is done with its work drops its keys.                          *)
LEMMA Drops ==
    ASSUME Shape, NEW c \in Calls, Fits(c), call[c].pc \in FileOnly, NEW keys, Invalidate(c, keys)
    PROVE  FileFrame(c)
  <1>1. Only(c) /\ call'[c].pc = "ok" /\ Forgets(c) /\ Writes(c) /\ UNCHANGED staging
    BY InvalidateIs, NoWrite
  <1> QED BY <1>1, NotTransfer DEF FileFrame, FileOnly, FilePcs, Answers, Is

LEMMA WriteStepIs == ASSUME Shape, NEW c \in Calls, Fits(c), WriteStep(c) PROVE FileFrame(c)
  <1>1. CASE Resolve(c) \/ Consent(c)
    BY <1>1, ResolveIs, ConsentIs
  <1>2. CASE \E keys : call[c].pc \in {"stat", "settle", "change"} /\ Invalidate(c, keys)
    BY <1>2, Drops DEF FileOnly, FilePcs, Early, Answers
  <1> DEFINE Goes == \E pc \in FilePcs : Goto(c, pc) \/ (Answer(c, pc) /\ pc \in Answers)
             From(pc) == call[c].pc = pc /\ pc \in FileOnly /\ call[c].kind \notin Transfers
  <1>3. CASE call[c].pc \in FileOnly /\ Goes /\ UNCHANGED staging /\ Writes(c)
    BY <1>3, GoesOn
  <1>0. \A pc \in FileOnly : call[c].pc = pc => From(pc)
    BY NotTransfer
  <1>4. CASE Stage(c)
    <2>0. From("stage")
      BY <1>0, <1>4 DEF Stage, At, FileOnly, FilePcs, Early, Answers
    <2>1. \/ Answer(c, "failed") /\ UNCHANGED files
          \/ files' = [files EXCEPT ![call[c].on] = Put(c, "whole")] /\ Goto(c, "stat")
          \/ UNCHANGED files /\ Goto(c, "inplace")
      BY <1>4 DEF Stage
    <2>2. Writes(c)
      BY <2>0, <2>1 DEF Shape, Put, Content, Writes
    <2>3. Goes /\ UNCHANGED staging
      <3>1. {"failed", "stat", "inplace"} \subseteq FilePcs /\ "failed" \in Answers
        BY DEF FilePcs, Answers
      <3> QED BY <1>4, <3>1 DEF Stage
    <2> QED BY <1>3, <2>0, <2>2, <2>3
  <1>5. CASE InPlace(c)
    <2>0. From("inplace")
      BY <1>0, <1>5 DEF InPlace, At, FileOnly, FilePcs, Early, Answers
    <2>1. \/ Answer(c, "failed") /\ UNCHANGED files
          \/ files' = [files EXCEPT ![call[c].on] = Put(c, "part")] /\ Goto(c, "filling")
      BY <1>5 DEF InPlace
    <2>2. Writes(c)
      BY <2>0, <2>1 DEF Shape, Put, Content, Writes
    <2>3. Goes /\ UNCHANGED staging
      <3>1. {"failed", "filling"} \subseteq FilePcs /\ "failed" \in Answers
        BY DEF FilePcs, Answers
      <3> QED BY <1>5, <3>1 DEF InPlace
    <2> QED BY <1>3, <2>0, <2>2, <2>3
  <1>6. CASE Filled(c)
    <2>0. From("filling")
      BY <1>0, <1>6 DEF Filled, At, FileOnly, FilePcs, Early, Answers
    <2>1. Goes /\ UNCHANGED staging
      BY <1>6 DEF Filled, FilePcs, Answers
    <2>2. Writes(c)
      BY <1>6, <2>0 DEF Filled, Shape, Put, Content, Writes
    <2> QED BY <1>3, <2>0, <2>1, <2>2
  <1>7. CASE ChangeFails(c)
    <2>1. Writes(c) /\ Goes /\ UNCHANGED staging
      BY <1>7, NoWrite DEF ChangeFails, FilePcs, Answers
    <2> QED BY <1>3, <1>7, <2>1 DEF ChangeFails, At, FileOnly, FilePcs, Early, Answers
  <1>8. CASE DeletePath(c) \/ MakeDirectory(c)
    <2>0. From("change")
      BY <1>0, <1>8 DEF DeletePath, MakeDirectory, Changes, At, FileOnly, FilePcs,
         Early, Answers
    <2>1. \E how \in {"whole", "gone"} :
             \/ files' = [files EXCEPT ![call[c].on] = Put(c, how)] /\ Goto(c, "settle")
             \/ files' = [files EXCEPT ![Target] = Put(c, how)] /\ Answer(c, "ok")
      BY <1>8 DEF DeletePath, MakeDirectory, Changes
    <2>2. Writes(c)
      BY <2>0, <2>1 DEF Shape, Put, Content, Writes
    <2>3. Goes /\ UNCHANGED staging
      <3>1. {"settle", "ok"} \subseteq FilePcs /\ "ok" \in Answers
        BY DEF FilePcs, Answers
      <3> QED BY <1>8, <3>1 DEF DeletePath, MakeDirectory, Changes
    <2> QED BY <1>3, <2>0, <2>2, <2>3
  <1>9. CASE Move(c)
    <2>1. call[c].pc \in FileOnly /\ UNCHANGED staging /\ Goto(c, "settle") /\ "settle" \in FilePcs
      BY <1>9 DEF Move, Changes, At, FileOnly, FilePcs, Early, Answers
    <2>2. files' = [files EXCEPT ![Target] = Put(c, "whole"), ![Source] = Put(c, "gone")]
      BY <1>9 DEF Move, Changes
    <2>3. Writes(c)
      BY <2>1, <2>2, NotTransfer DEF Shape, Put, Content, Writes
    <2> QED BY <2>1, <2>3, GoesOn
  <1>10. CASE StatThenSettle(c)
    <2>1. CASE Answer(c, "failed") /\ UNCHANGED <<files, cache, staging>>
      <3>1. call[c].pc \in FileOnly
        BY <1>10 DEF StatThenSettle, At, FileOnly, FilePcs, Early, Answers
      <3> QED BY <1>3, <2>1, <3>1, NoWrite DEF FilePcs, Answers
    <2> QED BY <1>2, <1>10, <2>1 DEF StatThenSettle, At
  <1>11. CASE Settle(c)
    BY <1>2, <1>11 DEF Settle, At
  <1>12. CASE CacheInvalidate(c)
    <2>1. call[c].pc = "change" /\ \E keys : Invalidate(c, keys)
      <3> HIDE DEF Invalidate
      <3> QED BY <1>12 DEF CacheInvalidate, At
    <2> QED BY <1>2, <2>1
  <1> QED BY <1>1, <1>4, <1>5, <1>6, <1>7, <1>8, <1>9, <1>10, <1>11, <1>12 DEF WriteStep

LEMMA FileStepIs == ASSUME Shape, NEW c \in Calls, Fits(c), FileStep(c) PROVE FileFrame(c)
  BY StartIs, ReadStepIs, WriteStepIs DEF FileStep
-----------------------------------------------------------------------------
(* What a step of one call leaves of the others.                           *)

\* Another call learns at most that it shares its name.
Others(c) ==
    \A d \in Calls \ {c} : call'[d] = call[d] \/ call'[d] = [call[d] EXCEPT !.shared = TRUE]

\* It writes files of its own, and no part of a download.
OwnParts(c) ==
    \A n \in Names :
        \/ files'[n] = files[n]
        \/ /\ files'[n].by = c
           /\ files'[n].is = "part" => call[c].kind # "download_file" \/ call'[c].shared

\* Either staging is none of its business, ...
Aside(c) == UNCHANGED staging /\ ~Using(c) /\ ~Using(c)'

\* ... or it changes one name, which it uses, takes or clears.
Handles(c, name) ==
    /\ \A x : x # name => (x \in DOMAIN staging' <=> x \in DOMAIN staging)
    /\ \A x \in DOMAIN staging : x # name => staging'[x] = staging[x]
    /\ \A d \in Calls \ {c} : Using(d) /\ NameOf(d) = name => call'[d].shared /\ call'[c].shared
    /\ name \in DOMAIN staging' => staging'[name].stuck \/ (Using(c)' /\ NameOf(c)' = name)
    /\ Using(c) => NameOf(c) = name
    /\ Using(c)' => NameOf(c)' = name

LEMMA OtherIs ==
    ASSUME Shape, NEW c \in Calls, Others(c), NEW d \in Calls \ {c}
    PROVE  /\ call'[d].kind = call[d].kind /\ call'[d].pc = call[d].pc /\ call'[d].on = call[d].on
           /\ call'[d].stamp = call[d].stamp /\ call'[d].hop = call[d].hop
           /\ call'[d].got = call[d].got /\ call'[d].used = call[d].used
           /\ call'[d].written = call[d].written /\ call'[d].todo = call[d].todo
           /\ call'[d].placed = call[d].placed /\ (call[d].shared => call'[d].shared)
           /\ (Using(d)' <=> Using(d)) /\ NameOf(d)' = NameOf(d)
           /\ StagingDir(d)' = StagingDir(d) /\ DownloadName(d)' = DownloadName(d)
           /\ \A kinds : Is(d, kinds)' <=> Is(d, kinds)
  <1>1. DOMAIN call[d] = Fields
    BY DEF Shape
  <1>2. CASE call'[d] = call[d]
    BY <1>2 DEF Using, NameOf, StagingDir, DownloadName, Is
  <1>3. CASE call'[d] = [call[d] EXCEPT !.shared = TRUE]
    BY <1>3 DEF Using, NameOf, StagingDir, DownloadName, Is
  <1> QED BY <1>2, <1>3 DEF Others

(* Whatever stays with another call that has its name for itself.          *)
LEMMA OtherKept ==
    ASSUME Inv, NEW c \in Calls, Others(c), OwnParts(c),
           Aside(c) \/ \E name : Handles(c, name),
           NEW d \in Calls \ {c}
    PROVE  OfCall(d)'
  <1>1. Shape /\ OfCall(d)
    BY DEF Inv
  <1>2. Fits(d)' /\ Counted(d)'
    BY <1>1, OtherIs DEF OfCall, Fits, Counted
  <1>3. ASSUME Using(d), ~call'[d].shared
        PROVE  /\ NameOf(d) \in DOMAIN staging' <=> NameOf(d) \in DOMAIN staging
               /\ NameOf(d) \in DOMAIN staging => staging'[NameOf(d)] = staging[NameOf(d)]
    BY <1>3 DEF Aside, Handles
  <1>4. OwnFile(d)'
    <2>1. call[d].pc \in {"stream", "place"} => Using(d) /\ NameOf(d) = DownloadName(d)
      BY <1>1 DEF OfCall, Fits, Using, UsingPcs, NameOf, Is, ExtractPcs, Early, Answers
    <2> QED BY <1>1, <1>3, <2>1, OtherIs DEF OfCall, OwnFile
  <1>5. OwnDir(d)'
    <2>1. Is(d, {"extract_archive"}) /\ call[d].pc = "members" => Using(d) /\ NameOf(d) = StagingDir(d)
      BY DEF Using, UsingPcs, NameOf
    <2>2. \A n \in Names : files'[n].by = d => files[n].by = d
      BY DEF OwnParts
    <2> QED BY <1>1, <1>3, <2>1, <2>2, OtherIs DEF OfCall, OwnDir
  <1> QED BY <1>2, <1>4, <1>5 DEF OfCall
(* So a step is looked at for its own call alone.                          *)
LEMMA StepKept ==
    ASSUME Inv, NEW c \in Calls, Shape', OfCall(c)', Others(c), OwnParts(c),
           call'[c].kind = call[c].kind, call[c].shared => call'[c].shared,
           Aside(c) \/ \E name : Handles(c, name)
    PROVE  Inv'
  <1>1. Shape /\ Apart /\ Claimed /\ NoPart
    BY DEF Inv
  <1>2. \A d \in Calls \ {c} :
            /\ Using(d)' <=> Using(d)
            /\ NameOf(d)' = NameOf(d)
            /\ call[d].shared => call'[d].shared
            /\ call'[d].kind = call[d].kind
    BY <1>1, OtherIs
  <1>3. \A d \in Calls : OfCall(d)'
    BY OtherKept
  <1>4. Apart'
    <2>1. ASSUME NEW d \in Calls \ {c}, Using(c)', Using(d)', NameOf(c)' = NameOf(d)'
          PROVE  call'[c].shared /\ call'[d].shared
      BY <1>2, <2>1 DEF Aside, Handles
    <2>2. ASSUME NEW d \in Calls \ {c}, NEW e \in Calls \ {c}, d # e, Using(d)', Using(e)',
                 NameOf(d)' = NameOf(e)'
          PROVE  call'[d].shared /\ call'[e].shared
      BY <1>1, <1>2, <2>2 DEF Apart
    <2> QED BY <2>1, <2>2 DEF Apart
  <1>5. Claimed'
    <2>1. CASE Aside(c)
      BY <1>1, <1>2, <2>1 DEF Aside, Claimed
    <2>2. ASSUME NEW name, Handles(c, name) PROVE Claimed'
      <3>1. ASSUME NEW x \in DOMAIN staging', x # name, ~staging'[x].stuck
            PROVE  \E d \in Calls : Using(d)' /\ NameOf(d)' = x
        <4>1. x \in DOMAIN staging /\ staging'[x] = staging[x]
          BY <2>2, <3>1 DEF Handles
        <4>2. PICK d \in Calls : Using(d) /\ NameOf(d) = x
          BY <1>1, <3>1, <4>1 DEF Claimed
        <4>3. d # c
          BY <2>2, <3>1, <4>2 DEF Handles
        <4> QED BY <1>2, <4>2, <4>3
      <3>2. name \in DOMAIN staging' => staging'[name].stuck \/ (Using(c)' /\ NameOf(c)' = name)
        BY <2>2 DEF Handles
      <3> QED BY <3>1, <3>2 DEF Claimed
    <2> QED BY <2>1, <2>2
  <1>6. NoPart'
    <2>1. \A n \in Names : files[n].by \in Calls \cup {"init"}
      BY <1>1 DEF Shape, Content
    <2>2. ASSUME NEW n \in Names, files'[n].by # "init", files'[n].is = "part"
          PROVE  call'[files'[n].by].kind # "download_file" \/ call'[files'[n].by].shared
      <3>1. CASE files'[n] = files[n]
        BY <1>1, <1>2, <2>1, <2>2, <3>1 DEF NoPart
      <3>2. CASE files'[n] # files[n]
        BY <2>2, <3>2 DEF OwnParts
      <3> QED BY <3>1, <3>2
    <2> QED BY <2>2 DEF NoPart
  <1> QED BY <1>3, <1>4, <1>5, <1>6 DEF Inv

LEMMA FileStepInv == ASSUME Inv, NEW c \in Calls, FileStep(c) PROVE Inv'
  <1>1. Shape /\ OfCall(c)
    BY DEF Inv
  <1>2. FileFrame(c)
    BY <1>1, FileStepIs DEF OfCall
  <1>3. Shape'
    BY <1>1, <1>2 DEF FileFrame, Shape, Only, Writes
  <1>4. Is(c, Transfers) <=> Is(c, {"download_file"}) \/ Is(c, {"extract_archive"})
    BY DEF Is, Transfers
  <1>5. ~Using(c) /\ ~Using(c)'
    BY <1>2 DEF FileFrame, Using, UsingPcs, Early, FilePcs, Answers, Begins
  <1>6. Fits(c)'
    BY <1>1, <1>2 DEF FileFrame, OfCall, Fits, Only, Same, Forgets, Is, Begins,
       Transfers, Answers, DownloadPcs, ExtractPcs
  <1>7. Counted(c)'
    BY <1>1, <1>2, <1>4 DEF FileFrame, OfCall, Counted, Early, Only, Same, Is, Answers
  <1>8. OwnFile(c)'
    BY <1>5 DEF OwnFile, Using, UsingPcs
  <1>9. OwnDir(c)'
    BY <1>1, <1>2, <1>4 DEF FileFrame, OfCall, OwnDir, Only, Writes, Is, Early, Begins,
       Answers
  <1>10. Others(c) /\ OwnParts(c) /\ Aside(c)
    BY <1>2, <1>5 DEF FileFrame, Only, Writes, Others, OwnParts, Aside, Transfers
  <1> QED BY <1>2, <1>3, <1>6, <1>7, <1>8, <1>9, <1>10, StepKept DEF FileFrame, Only,
             OfCall
-----------------------------------------------------------------------------
(* The downloads.                                                          *)

\* A step of call c alone.
OwnStep(c) ==
    /\ call' = [d \in Calls |-> call'[d]]
    /\ \A d \in Calls \ {c} : call'[d] = call[d]
    /\ DOMAIN call'[c] = Fields
    /\ call'[c].kind = call[c].kind /\ call'[c].shared = call[c].shared

(* The end of an attempt, which is tried again or not.                     *)
LEMMA EndedIs ==
    ASSUME NEW r, DOMAIN r = Fields, NEW over, NEW e, e = Ended(r, over)
    PROVE  /\ DOMAIN e = Fields /\ e.kind = r.kind /\ e.shared = r.shared /\ e.written = r.written
           /\ \/ e.pc = "failed" /\ e.used = 0 /\ e.got = 0
              \/ e.pc = "backoff" /\ e.used = r.used /\ e.got = r.got
  <1> DEFINE v == r.over \/ over
  <1>1. e = IF r.tries < MaxRetries THEN [r EXCEPT !.pc = "backoff", !.over = v] ELSE Answered(r, "failed")
    BY DEF Ended
  <1> HIDE DEF v
  <1> QED BY <1>1 DEF Answered, Call0, Fields

LEMMA FailsIs ==
    ASSUME Shape, NEW c \in Calls, Fits(c), NEW over, Fails(c, over)
    PROVE  /\ OwnStep(c) /\ call'[c].written = call[c].written
           /\ \/ call'[c].pc = "failed" /\ call'[c].used = 0 /\ call'[c].got = 0
              \/ /\ call'[c].pc = "backoff"
                 /\ call'[c].used = call[c].used + call[c].got /\ call'[c].got = 0
  <1> DEFINE r == [call[c] EXCEPT !.used = Charged(c), !.got = 0]
  <1>1. /\ DOMAIN r = Fields /\ r.kind = call[c].kind /\ r.shared = call[c].shared
        /\ r.written = call[c].written /\ r.got = 0 /\ r.used = call[c].used + call[c].got
    BY DEF Shape, Charged
  <1>2. call' = [call EXCEPT ![c] = Ended(r, over)]
    BY DEF Fails
  <1>3. /\ call'[c] = Ended(r, over) /\ call' = [d \in Calls |-> call'[d]]
        /\ \A d \in Calls \ {c} : call'[d] = call[d]
    BY <1>2 DEF Shape
  <1> HIDE DEF r
  <1>4. /\ DOMAIN call'[c] = Fields /\ call'[c].kind = r.kind /\ call'[c].shared = r.shared
        /\ call'[c].written = r.written
        /\ \/ call'[c].pc = "failed" /\ call'[c].used = 0 /\ call'[c].got = 0
           \/ call'[c].pc = "backoff" /\ call'[c].used = r.used /\ call'[c].got = r.got
    BY <1>1, <1>3, EndedIs
  <1> QED BY <1>1, <1>3, <1>4 DEF OwnStep

LEMMA RefusesIs ==
    ASSUME Shape, NEW c \in Calls, Refuses(c)
    PROVE  /\ OwnStep(c) /\ call'[c].written = call[c].written
           /\ \/ call'[c].pc = "failed" /\ call'[c].used = 0 /\ call'[c].got = 0
              \/ call'[c].pc = "backoff" /\ call'[c].used = call[c].used /\ call'[c].got = call[c].got
  <1> DEFINE r == [call[c] EXCEPT !.refused = TRUE]
  <1>1. /\ DOMAIN r = Fields /\ r.kind = call[c].kind /\ r.shared = call[c].shared
        /\ r.written = call[c].written /\ r.got = call[c].got /\ r.used = call[c].used
    BY DEF Shape
  <1>2. PICK over : call' = [call EXCEPT ![c] = Ended(r, over)]
    BY DEF Refuses
  <1>3. /\ call'[c] = Ended(r, over) /\ call' = [d \in Calls |-> call'[d]]
        /\ \A d \in Calls \ {c} : call'[d] = call[d]
    BY <1>2 DEF Shape
  <1> HIDE DEF r
  <1>4. /\ DOMAIN call'[c] = Fields /\ call'[c].kind = r.kind /\ call'[c].shared = r.shared
        /\ call'[c].written = r.written
        /\ \/ call'[c].pc = "failed" /\ call'[c].used = 0 /\ call'[c].got = 0
           \/ call'[c].pc = "backoff" /\ call'[c].used = r.used /\ call'[c].got = r.got
    BY <1>1, <1>3, EndedIs
  <1> QED BY <1>1, <1>3, <1>4 DEF OwnStep

\* Where a download has no staging file.
NoFilePcs == {"hop", "waiting", "open", "backoff"}

(* A step between such places, or to the end.                              *)
LEMMA WaitsInv ==
    ASSUME Inv, NEW c \in Calls, Is(c, {"download_file"}), call[c].pc \in NoFilePcs,
           OwnStep(c), call'[c].written = call[c].written, UNCHANGED <<files, staging>>,
           call'[c].pc \in NoFilePcs \cup {"failed"},
           call'[c].used \in Nat /\ call'[c].got \in Nat,
           call'[c].pc = "failed" \/ call'[c].used + call'[c].got = call[c].used + call[c].got
    PROVE  Inv'
  <1> USE DEF NoFilePcs
  <1>1. Shape /\ OfCall(c)
    BY DEF Inv
  <1>2. Shape'
    BY <1>1 DEF OwnStep, Shape
  <1>3. Fits(c)' /\ Counted(c)'
    BY <1>1 DEF OwnStep, OfCall, Fits, Counted, Is, DownloadPcs, Answers
  <1>4. OwnFile(c)' /\ OwnDir(c)'
    BY DEF OwnStep, OwnFile, OwnDir, Is
  <1>5. Others(c) /\ OwnParts(c) /\ Aside(c)
    BY DEF OwnStep, Others, OwnParts, Aside, Using, UsingPcs
  <1> QED BY <1>2, <1>3, <1>4, <1>5, StepKept DEF OwnStep, OfCall

LEMMA FailedHere ==
    ASSUME Inv, NEW c \in Calls, Is(c, {"download_file"}), call[c].pc \in NoFilePcs,
           Refuses(c) \/ (\E over : Fails(c, over)), UNCHANGED <<files, staging>>
    PROVE  Inv'
  <1>1. Shape /\ Fits(c) /\ call[c].used \in Nat /\ call[c].got \in Nat
    BY DEF Inv, OfCall, Fits
  <1>2. /\ OwnStep(c) /\ call'[c].written = call[c].written
        /\ \/ call'[c].pc = "failed" /\ call'[c].used = 0 /\ call'[c].got = 0
           \/ /\ call'[c].pc = "backoff" /\ call'[c].used \in Nat /\ call'[c].got \in Nat
              /\ call'[c].used + call'[c].got = call[c].used + call[c].got
    <2>1. ASSUME NEW over, Fails(c, over)
          PROVE  /\ OwnStep(c) /\ call'[c].written = call[c].written
                 /\ \/ call'[c].pc = "failed" /\ call'[c].used = 0 /\ call'[c].got = 0
                    \/ /\ call'[c].pc = "backoff" /\ call'[c].used \in Nat /\ call'[c].got \in Nat
                       /\ call'[c].used + call'[c].got = call[c].used + call[c].got
      BY <1>1, <2>1, FailsIs
    <2>2. ASSUME Refuses(c)
          PROVE  /\ OwnStep(c) /\ call'[c].written = call[c].written
                 /\ \/ call'[c].pc = "failed" /\ call'[c].used = 0 /\ call'[c].got = 0
                    \/ /\ call'[c].pc = "backoff" /\ call'[c].used \in Nat /\ call'[c].got \in Nat
                       /\ call'[c].used + call'[c].got = call[c].used + call[c].got
      BY <1>1, <2>2, RefusesIs
    <2> QED BY <2>1, <2>2
  <1> QED BY <1>1, <1>2, WaitsInv DEF NoFilePcs

LEMMA NoFileInv ==
    ASSUME Inv, NEW c \in Calls,
           \/ Backoff(c) \/ HopUrlRefused(c) \/ HopTargetRefused(c) \/ HopUnresolved(c) \/ HopOver(c)
           \/ Request(c) \/ RequestFails(c) \/ Response(c)
    PROVE  Inv'
  <1>1. Shape /\ Fits(c) /\ call[c].used \in Nat /\ call[c].got \in Nat
    BY DEF Inv, OfCall, Fits
  <1>2. Is(c, {"download_file"}) /\ call[c].pc \in NoFilePcs /\ UNCHANGED <<files, staging>>
    BY DEF Backoff, HopUrlRefused, HopTargetRefused, HopUnresolved, HopOver, Request,
       RequestFails, Response, DownloadStep, At, NoFilePcs
  <1>3. ASSUME Refuses(c) \/ \E over : Fails(c, over) PROVE Inv'
    BY <1>2, <1>3, FailedHere
  <1>4. CASE HopUrlRefused(c)
    BY <1>3, <1>4 DEF HopUrlRefused
  <1>5. CASE HopTargetRefused(c)
    BY <1>3, <1>5 DEF HopTargetRefused
  <1>6. CASE HopUnresolved(c) \/ RequestFails(c)
    BY <1>3, <1>6 DEF HopUnresolved, RequestFails
  <1>7. CASE HopOver(c)
    BY <1>3, <1>7 DEF HopOver
  <1>8. ASSUME OwnStep(c), call'[c].pc \in NoFilePcs, call'[c].written = call[c].written,
               call'[c].used = call[c].used, call'[c].got = call[c].got
        PROVE  Inv'
    BY <1>1, <1>2, <1>8, WaitsInv
  <1>9. CASE Backoff(c)
    BY <1>1, <1>8, <1>9 DEF Backoff, Shape, OwnStep, Fields, NoFilePcs
  <1>10. CASE Request(c)
    <2>1. PICK t : call' = [call EXCEPT ![c].pc = "waiting", ![c].stamp = t]
      BY <1>10 DEF Request
    <2> QED BY <1>1, <1>8, <2>1 DEF Shape, OwnStep, Fields, NoFilePcs
  <1>11. CASE Response(c)
    <2>1. CASE call' = [call EXCEPT ![c].pc = "hop", ![c].hop = @ + 1]
      BY <1>1, <1>8, <2>1 DEF Shape, OwnStep, Fields, NoFilePcs
    <2>2. CASE Goto(c, "open")
      BY <1>1, <1>8, <2>2 DEF Goto, Shape, OwnStep, Fields, NoFilePcs
    <2> QED BY <1>3, <1>11, <2>1, <2>2 DEF Response
  <1> QED BY <1>4, <1>5, <1>6, <1>7, <1>9, <1>10, <1>11
-----------------------------------------------------------------------------
(* Staging.                                                                *)

StagingShape ==
    /\ staging = [name \in DOMAIN staging |-> staging[name]]
    /\ \A name \in DOMAIN staging :
          /\ DOMAIN staging[name] = {"by", "items", "whole", "stuck"}
          /\ staging[name].stuck \in BOOLEAN

\* Nothing changes but what lies under a name.
OnlyAt(name) ==
    /\ \A x : x # name => (x \in DOMAIN staging' <=> x \in DOMAIN staging)
    /\ \A x \in DOMAIN staging : x # name => staging'[x] = staging[x]

LEMMA TakenIs ==
    ASSUME Shape, NEW c, NEW name, NEW items,
           staging' = Added(name, c, items)
    PROVE  /\ StagingShape' /\ OnlyAt(name) /\ name \in DOMAIN staging'
           /\ staging'[name].by = c /\ staging'[name].items = items
  <1> DEFINE r == [by |-> c, items |-> items, whole |-> FALSE, stuck |-> FALSE]
  <1>1. staging' = [x \in {name} \cup DOMAIN staging |-> IF x = name THEN r ELSE staging[x]]
    BY DEF Added
  <1>2. DOMAIN r = {"by", "items", "whole", "stuck"} /\ r.stuck = FALSE /\ r.by = c /\ r.items = items
    OBVIOUS
  <1> HIDE DEF r
  <1> QED BY <1>1, <1>2 DEF Shape, StagingShape, OnlyAt

LEMMA CleanedIs ==
    ASSUME Shape, NEW name, CleanupStaging(name)
    PROVE  /\ StagingShape' /\ OnlyAt(name)
           /\ name \in DOMAIN staging' => staging'[name].stuck
  BY DEF Shape, StagingShape, OnlyAt, CleanupStaging, Removed, Restrict

\* Two records agree, but for whether the name is shared.
SameBut(r, s) ==
    /\ r.kind = s.kind /\ r.pc = s.pc /\ r.on = s.on /\ r.stamp = s.stamp /\ r.hop = s.hop
    /\ r.got = s.got /\ r.used = s.used /\ r.written = s.written
    /\ r.todo = s.todo /\ r.placed = s.placed

LEMMA SharingIs ==
    ASSUME NEW calls, NEW c \in Calls, NEW name, NEW users \in SUBSET Calls,
           \A d \in Calls : DOMAIN calls[d] = Fields,
           call' = Sharing(calls, c, name, users)
    PROVE  /\ call' = [d \in Calls |-> call'[d]]
           /\ \A d \in Calls :
                 /\ DOMAIN call'[d] = Fields
                 /\ call'[d] = calls[d] \/ call'[d] = [calls[d] EXCEPT !.shared = TRUE]
                 /\ SameBut(call'[d], calls[d])
                 /\ calls[d].shared => call'[d].shared
                 /\ users # {} \/ name \in DOMAIN staging => \A e \in users \cup {c} : call'[e].shared
  BY DEF Sharing, SameBut

(* A download does not meet an extraction under a name.                    *)
LEMMA NamesDiffer ==
    ASSUME Inv, NEW d \in Calls, Using(d)
    PROVE  /\ \A c \in Calls : NameOf(d) = DownloadName(c) => d \in UsersOf(DownloadName(c))
           /\ \A t : NameOf(d) = <<"extract", Archive, t, 0>> =>
                        d \in DirUsersOf(<<"extract", Archive, t, 0>>)
  <1>1. Fits(d)
    BY DEF Inv, OfCall
  <1>2. CASE Is(d, {"extract_archive"})
    BY <1>1, <1>2 DEF Using, UsingPcs, NameOf, StagingDir, DownloadName, DirUsersOf,
       Fits, ExtractPcs, Early, Answers, Is
  <1>3. CASE ~Is(d, {"extract_archive"})
    BY <1>1, <1>3 DEF Using, UsingPcs, NameOf, DownloadName, UsersOf, Fits, DownloadPcs,
       FilePcs, Early, Answers
  <1> QED BY <1>2, <1>3
(* One that uses a name, and goes on with it or clears it.                 *)
LEMMA UserHandles ==
    ASSUME Inv, NEW c \in Calls, Using(c), OwnStep(c), OnlyAt(NameOf(c)),
           Using(c)' => NameOf(c)' = NameOf(c),
           Using(c)' \/ (NameOf(c) \in DOMAIN staging' => staging'[NameOf(c)].stuck)
    PROVE  Handles(c, NameOf(c)) /\ Others(c)
  <1>1. \A d \in Calls \ {c} : Using(d) /\ NameOf(d) = NameOf(c) => call[d].shared /\ call[c].shared
    BY DEF Inv, Apart
  <1> QED BY <1>1 DEF OwnStep, OnlyAt, Handles, Others

\* A download that streams or places.
LEMMA FileUser ==
    ASSUME Inv, NEW c \in Calls, Is(c, {"download_file"}), call[c].pc \in {"stream", "place"}
    PROVE  Using(c) /\ NameOf(c) = DownloadName(c)
  BY DEF Is, Using, UsingPcs, NameOf

LEMMA ShapeKept ==
    ASSUME Shape, NEW c \in Calls, OwnStep(c), files' \in [Names -> Content], StagingShape'
    PROVE  Shape'
  BY DEF Shape, OwnStep, StagingShape

LEMMA StagingKept == ASSUME Shape, UNCHANGED staging PROVE StagingShape' /\ \A name : OnlyAt(name)
  BY DEF Shape, StagingShape, OnlyAt

(* The end of an attempt that had its staging file.                        *)
LEMMA DroppedInv ==
    ASSUME Inv, NEW c \in Calls, Is(c, {"download_file"}), call[c].pc \in {"stream", "place"},
           OwnStep(c), call'[c].written = call[c].written,
           \/ call'[c].pc \in Answers /\ call'[c].used = 0 /\ call'[c].got = 0
           \/ /\ call'[c].pc = "backoff" /\ call'[c].used \in Nat /\ call'[c].got = 0
              /\ call'[c].used >= call[c].used + call[c].got,
           files' \in [Names -> Content], OwnParts(c), StagingShape', OnlyAt(DownloadName(c)),
           DownloadName(c) \in DOMAIN staging' => staging'[DownloadName(c)].stuck
    PROVE  Inv'
  <1>1. Shape /\ OfCall(c)
    BY DEF Inv
  <1>2. Shape'
    BY <1>1, ShapeKept
  <1>3. call'[c].pc \in Answers \cup {"backoff"}
    OBVIOUS
  <1>4. Fits(c)' /\ Counted(c)'
    BY <1>1 DEF OwnStep, OfCall, Fits, Counted, Is, DownloadPcs, Answers
  <1>5. OwnFile(c)' /\ OwnDir(c)' /\ ~Using(c)'
    BY DEF OwnStep, OwnFile, OwnDir, Is, Using, UsingPcs, Answers
  <1>6. Handles(c, NameOf(c)) /\ Others(c)
    BY <1>5, FileUser, UserHandles
  <1> QED BY <1>2, <1>4, <1>5, <1>6, StepKept DEF OwnStep, OfCall

LEMMA ChunkInv == ASSUME Inv, NEW c \in Calls, Chunk(c) PROVE Inv'
  <1>1. Shape /\ OfCall(c)
    BY DEF Inv
  <1>2. /\ Is(c, {"download_file"}) /\ call[c].pc = "stream" /\ UNCHANGED <<files, staging>>
        /\ call[c].used + call[c].got + 1 <= MaxBytes
    BY DEF Chunk, DownloadStep, At, FitsBudget
  <1>3. /\ OwnStep(c) /\ call'[c].got = call[c].got + 1 /\ call'[c].written = call[c].written + 1
        /\ call'[c].used = call[c].used /\ call'[c].pc = call[c].pc /\ DownloadName(c)' = DownloadName(c)
    BY <1>1 DEF Chunk, Shape, OwnStep, Fields, DownloadName
  <1>4. Fits(c)' /\ Counted(c)'
    BY <1>1, <1>2, <1>3, DownloadsAssumption DEF OwnStep, OfCall, Fits, Counted, Is,
       Answers
  <1>5. OwnFile(c)' /\ OwnDir(c)'
    BY <1>1, <1>2, <1>3 DEF OfCall, OwnStep, OwnFile, OwnDir, Is
  <1>6. Shape' /\ OnlyAt(NameOf(c))
    BY <1>1, <1>2, <1>3, ShapeKept, StagingKept DEF Shape
  <1>7. Using(c) /\ NameOf(c)' = NameOf(c) /\ Using(c)'
    BY <1>2, <1>3, FileUser DEF NameOf, Is, Using, OwnStep
  <1>8. Handles(c, NameOf(c)) /\ Others(c)
    BY <1>3, <1>6, <1>7, UserHandles
  <1> QED BY <1>2, <1>3, <1>4, <1>5, <1>6, <1>8, StepKept DEF OwnStep, OfCall, OwnParts

LEMMA StreamFailsInv == ASSUME Inv, NEW c \in Calls, StreamFails(c) PROVE Inv'
  <1>1. Shape /\ Fits(c)
    BY DEF Inv, OfCall
  <1>2. /\ Is(c, {"download_file"}) /\ call[c].pc = "stream" /\ UNCHANGED files
        /\ CleanupStaging(DownloadName(c))
    BY DEF StreamFails, DownloadStep, At
  <1>3. PICK over \in BOOLEAN, more \in {0, 1} :
            call' = [call EXCEPT ![c] = Ended([@ EXCEPT !.used = Charged(c) + more, !.got = 0], over)]
    BY DEF StreamFails
  <1> DEFINE r == [call[c] EXCEPT !.used = Charged(c) + more, !.got = 0]
  <1>4. /\ DOMAIN r = Fields /\ r.kind = call[c].kind /\ r.shared = call[c].shared
        /\ r.written = call[c].written /\ r.got = 0 /\ r.used = call[c].used + call[c].got + more
    BY <1>1 DEF Shape, Charged
  <1>5. /\ call'[c] = Ended(r, over) /\ call' = [d \in Calls |-> call'[d]]
        /\ \A d \in Calls \ {c} : call'[d] = call[d]
    BY <1>1, <1>3 DEF Shape
  <1> HIDE DEF r
  <1>6. /\ DOMAIN call'[c] = Fields /\ call'[c].kind = r.kind /\ call'[c].shared = r.shared
        /\ call'[c].written = r.written
        /\ \/ call'[c].pc = "failed" /\ call'[c].used = 0 /\ call'[c].got = 0
           \/ call'[c].pc = "backoff" /\ call'[c].used = r.used /\ call'[c].got = r.got
    BY <1>4, <1>5, EndedIs
  <1>7. OwnStep(c) /\ call'[c].written = call[c].written
    BY <1>4, <1>5, <1>6 DEF OwnStep
  <1>8. \/ call'[c].pc \in Answers /\ call'[c].used = 0 /\ call'[c].got = 0
        \/ /\ call'[c].pc = "backoff" /\ call'[c].used \in Nat /\ call'[c].got = 0
           /\ call'[c].used >= call[c].used + call[c].got
    BY <1>1, <1>4, <1>6 DEF Answers, Fits
  <1>9. files' \in [Names -> Content] /\ OwnParts(c)
    BY <1>1, <1>2 DEF Shape, OwnParts
  <1> QED BY <1>1, <1>2, <1>7, <1>8, <1>9, CleanedIs, DroppedInv

LEMMA PlaceInv == ASSUME Inv, NEW c \in Calls, Place(c) PROVE Inv'
  <1> DEFINE name == DownloadName(c)
  <1>1. Shape /\ OfCall(c) /\ Fits(c)
    BY DEF Inv, OfCall
  <1>2. Is(c, {"download_file"}) /\ call[c].pc = "place" /\ call[c].kind = "download_file"
    BY DEF Place, DownloadStep, At, Is
  <1>3. CASE /\ name \in DOMAIN staging
             /\ files' = [files EXCEPT ![call[c].on] = Put(c, IF staging[name].whole THEN "whole" ELSE "part")]
             /\ staging' = Removed(name)
             /\ Answer(c, "ok")
    <2>1. Only(c) /\ Forgets(c) /\ call'[c].pc = "ok"
      BY <1>1, <1>3, AnswerIs
    <2>2. OwnStep(c) /\ call'[c].written = call[c].written
      BY <2>1 DEF OwnStep, Only
    <2>3. ~call[c].shared => staging[name].whole
      BY <1>1, <1>2, <1>3 DEF OfCall, OwnFile
    <2>4. files' \in [Names -> Content]
      BY <1>1, <1>3 DEF Shape, Put, Content
    <2>5. OwnParts(c)
      BY <1>3, <2>1, <2>3 DEF OwnParts, Put, Only
    <2>6. CleanupStaging(name)
      BY <1>3 DEF CleanupStaging
    <2>7. StagingShape' /\ OnlyAt(name) /\ (name \in DOMAIN staging' => staging'[name].stuck)
      BY <1>1, <2>6, CleanedIs
    <2> QED BY <1>2, <2>1, <2>2, <2>4, <2>5, <2>7, DroppedInv DEF Forgets, Answers
  <1>4. CASE Fails(c, FALSE) /\ CleanupStaging(name) /\ UNCHANGED files
    <2>1. files' \in [Names -> Content] /\ OwnParts(c)
      BY <1>1, <1>4 DEF Shape, OwnParts
    <2>2. /\ OwnStep(c) /\ call'[c].written = call[c].written
          /\ \/ call'[c].pc = "failed" /\ call'[c].used = 0 /\ call'[c].got = 0
             \/ /\ call'[c].pc = "backoff"
                /\ call'[c].used = call[c].used + call[c].got /\ call'[c].got = 0
      BY <1>1, <1>4, FailsIs
    <2>3. \/ call'[c].pc \in Answers /\ call'[c].used = 0 /\ call'[c].got = 0
          \/ /\ call'[c].pc = "backoff" /\ call'[c].used \in Nat /\ call'[c].got = 0
             /\ call'[c].used >= call[c].used + call[c].got
      BY <1>1, <2>2 DEF Answers, Fits
    <2>4. StagingShape' /\ OnlyAt(name) /\ (name \in DOMAIN staging' => staging'[name].stuck)
      BY <1>1, <1>4, CleanedIs
    <2> QED BY <1>2, <2>1, <2>2, <2>3, <2>4, DroppedInv
  <1> QED BY <1>3, <1>4 DEF Place

LEMMA StreamEndsInv == ASSUME Inv, NEW c \in Calls, StreamEnds(c) PROVE Inv'
  <1> DEFINE name == DownloadName(c)
  <1>1. Shape /\ OfCall(c)
    BY DEF Inv
  <1>2. /\ Is(c, {"download_file"}) /\ call[c].pc = "stream" /\ UNCHANGED files
        /\ staging' = IF name \in DOMAIN staging /\ staging[name].by = c
                      THEN [staging EXCEPT ![name].whole = TRUE] ELSE staging
    BY DEF StreamEnds, DownloadStep, At
  <1>3. /\ OwnStep(c) /\ call'[c].got = 0 /\ call'[c].used = call[c].used + call[c].got
        /\ call'[c].written = call[c].written /\ call'[c].pc = "place" /\ name' = name
    BY <1>1 DEF StreamEnds, Shape, OwnStep, Fields, DownloadName, Charged
  <1>4. Fits(c)' /\ Counted(c)'
    BY <1>1, <1>2, <1>3 DEF OwnStep, OfCall, Fits, Counted, Is, DownloadPcs, Answers
  <1>5. StagingShape' /\ OnlyAt(name) /\ DOMAIN staging' = DOMAIN staging
    BY <1>1, <1>2 DEF Shape, StagingShape, OnlyAt
  <1>6. OwnFile(c)' /\ OwnDir(c)'
    <2>1. OwnDir(c)'
      BY <1>2, <1>3 DEF OwnDir, Is, OwnStep
    <2>2. ASSUME ~call'[c].shared, name \in DOMAIN staging' PROVE staging'[name].by = c /\ staging'[name].whole
      <3>1. staging[name].by = c /\ name \in DOMAIN staging
        BY <1>1, <1>2, <1>3, <2>2 DEF OfCall, OwnFile, OwnStep
      <3>2. DOMAIN staging[name] = {"by", "items", "whole", "stuck"}
        BY <1>1, <3>1 DEF Shape
      <3> QED BY <1>2, <3>1, <3>2
    <2> QED BY <1>3, <2>1, <2>2 DEF OwnFile
  <1>7. Shape'
    BY <1>1, <1>2, <1>3, <1>5, ShapeKept DEF Shape
  <1>8. Using(c) /\ NameOf(c) = name /\ NameOf(c)' = name /\ Using(c)'
    BY <1>2, <1>3 DEF NameOf, Is, Using, UsingPcs, OwnStep
  <1>9. Handles(c, NameOf(c)) /\ Others(c)
    BY <1>3, <1>5, <1>8, UserHandles
  <1> QED BY <1>2, <1>3, <1>4, <1>6, <1>7, <1>9, StepKept DEF OwnStep, OfCall, OwnParts

(* A call of its own accord leaves a name alone, or takes it: what is its  *)
(* use of it, if any, is shared with all who use it.                       *)
LEMMA TakerHandles ==
    ASSUME Inv, NEW c \in Calls, ~Using(c), Others(c), NEW name, OnlyAt(name),
           \A d \in Calls \ {c} : Using(d) /\ NameOf(d) = name => call'[d].shared /\ call'[c].shared,
           IF Using(c)' THEN NameOf(c)' = name
           ELSE name \in DOMAIN staging' => staging'[name].stuck
    PROVE  Handles(c, name)
  BY DEF OnlyAt, Handles

LEMMA OpenInv == ASSUME Inv, NEW c \in Calls, Open(c) PROVE Inv'
  <1> DEFINE name  == DownloadName(c)
             users == UsersOf(name)
  <1>1. Shape /\ OfCall(c) /\ Fits(c)
    BY DEF Inv, OfCall
  <1>2. Is(c, {"download_file"}) /\ call[c].pc = "open" /\ UNCHANGED files /\ ~Using(c)
    BY DEF Open, DownloadStep, At, Using, UsingPcs
  <1>3. users \in SUBSET Calls /\ c \notin users
    BY <1>2 DEF UsersOf
  <1>4. \A d \in Calls : Using(d) /\ NameOf(d) = name => d \in users
    BY NamesDiffer
  <1>5. files' \in [Names -> Content] /\ OwnParts(c)
    BY <1>1, <1>2 DEF Shape, OwnParts
  <1>6. ASSUME NEW calls, call' = Sharing(calls, c, name, users),
               calls = [d \in Calls |-> calls[d]], DOMAIN calls[c] = Fields,
               \A d \in Calls \ {c} : calls[d] = call[d],
               calls[c].kind = call[c].kind, calls[c].shared = call[c].shared,
               calls[c].written = call[c].written,
               \/ calls[c].pc = "failed" /\ calls[c].used = 0 /\ calls[c].got = 0
               \/ /\ calls[c].pc \in {"stream", "backoff"}
                  /\ calls[c].used = call[c].used /\ calls[c].got = call[c].got,
               StagingShape', OnlyAt(name),
               calls[c].pc = "stream" =>
                   /\ calls[c].on = call[c].on /\ calls[c].stamp = call[c].stamp /\ calls[c].hop = call[c].hop
                   /\ staging'[name].by = c,
               calls[c].pc # "stream" /\ name \in DOMAIN staging' => staging'[name].stuck
        PROVE  Inv'
    <2>1. \A d \in Calls : DOMAIN calls[d] = Fields
      BY <1>1, <1>6 DEF Shape
    <2>2. /\ call' = [d \in Calls |-> call'[d]]
          /\ \A d \in Calls :
                /\ DOMAIN call'[d] = Fields
                /\ call'[d] = calls[d] \/ call'[d] = [calls[d] EXCEPT !.shared = TRUE]
                /\ SameBut(call'[d], calls[d])
                /\ calls[d].shared => call'[d].shared
                /\ users # {} \/ name \in DOMAIN staging => \A e \in users \cup {c} : call'[e].shared
      <3> HIDE DEF name, users
      <3> QED BY <1>3, <1>6, <2>1, SharingIs
    <2> HIDE DEF users
    <2>3. /\ call'[c].kind = call[c].kind /\ call'[c].written = call[c].written
          /\ call[c].shared => call'[c].shared
          /\ \/ call'[c].pc = "failed" /\ call'[c].used = 0 /\ call'[c].got = 0
             \/ /\ call'[c].pc \in {"stream", "backoff"}
                /\ call'[c].used = call[c].used /\ call'[c].got = call[c].got
          /\ call'[c].pc = calls[c].pc
          /\ call'[c].pc = "stream" => name' = name
      <3>1. SameBut(call'[c], calls[c]) /\ (calls[c].shared => call'[c].shared)
        BY <2>2
      <3>2. call'[c].pc = "stream" => name' = name
        <4> SUFFICES ASSUME call'[c].pc = "stream" PROVE name' = name
          OBVIOUS
        <4>1. calls[c].pc = "stream"
          BY <3>1 DEF SameBut
        <4>2. calls[c].on = call[c].on /\ calls[c].stamp = call[c].stamp /\ calls[c].hop = call[c].hop
          BY <1>6, <4>1
        <4>3. call'[c].on = call[c].on /\ call'[c].stamp = call[c].stamp /\ call'[c].hop = call[c].hop
          BY <3>1, <4>2 DEF SameBut
        <4> QED BY <4>3 DEF DownloadName
      <3> HIDE DEF name
      <3>3. /\ call'[c].kind = call[c].kind /\ call'[c].written = call[c].written
            /\ call[c].shared => call'[c].shared
            /\ call'[c].pc = calls[c].pc
        BY <1>6, <3>1 DEF SameBut
      <3>4. \/ call'[c].pc = "failed" /\ call'[c].used = 0 /\ call'[c].got = 0
            \/ /\ call'[c].pc \in {"stream", "backoff"}
               /\ call'[c].used = call[c].used /\ call'[c].got = call[c].got
        BY <1>6, <3>1 DEF SameBut
      <3> QED BY <3>2, <3>3, <3>4
    <2>4. Others(c)
      BY <1>6, <2>2 DEF Others
    <2>5. Shape'
      BY <1>5, <1>6, <2>2 DEF Shape, StagingShape
    <2>6. Fits(c)' /\ Counted(c)'
      BY <1>1, <1>2, <2>3 DEF OfCall, Fits, Counted, Is, DownloadPcs, Answers
    <2>7. OwnFile(c)' /\ OwnDir(c)'
      BY <1>2, <1>6, <2>3 DEF OwnFile, OwnDir, Is
    <2>8. IF Using(c)' THEN NameOf(c)' = name ELSE name \in DOMAIN staging' => staging'[name].stuck
      BY <1>2, <1>6, <2>3 DEF Using, UsingPcs, NameOf, Is
    <2>9. \A d \in Calls \ {c} : Using(d) /\ NameOf(d) = name => call'[d].shared /\ call'[c].shared
      BY <1>4, <2>2
    <2>10. Handles(c, name)
      BY <1>2, <1>6, <2>4, <2>8, <2>9, TakerHandles
    <2> QED BY <1>5, <2>3, <2>4, <2>5, <2>6, <2>7, <2>10, StepKept DEF OfCall
  <1>7. CASE /\ staging' = Added(name, c, {})
             /\ call' = Sharing([call EXCEPT ![c].pc = "stream"], c, name, users)
    BY <1>1, <1>6, <1>7, TakenIs DEF Shape, Fields
  <1>8. ASSUME NEW over, CleanupStaging(name),
               call' = Sharing([call EXCEPT ![c] = Ended(@, over)], c, name, users)
        PROVE  Inv'
    <2> DEFINE e == Ended(call[c], over)
    <2>1. /\ DOMAIN e = Fields /\ e.kind = call[c].kind /\ e.shared = call[c].shared /\ e.written = call[c].written
          /\ \/ e.pc = "failed" /\ e.used = 0 /\ e.got = 0
             \/ e.pc = "backoff" /\ e.used = call[c].used /\ e.got = call[c].got
      BY <1>1, EndedIs DEF Shape
    <2>2. [call EXCEPT ![c] = Ended(@, over)] = [call EXCEPT ![c] = e]
      OBVIOUS
    <2> HIDE DEF e, name, users
    <2>3. call' = Sharing([call EXCEPT ![c] = e], c, name, users)
      BY <1>8, <2>2
    <2>4. StagingShape' /\ OnlyAt(name) /\ (name \in DOMAIN staging' => staging'[name].stuck)
      BY <1>1, <1>8, CleanedIs
    <2>5. /\ [call EXCEPT ![c] = e][c] = e
          /\ \A d \in Calls \ {c} : [call EXCEPT ![c] = e][d] = call[d]
          /\ [call EXCEPT ![c] = e] = [d \in Calls |-> [call EXCEPT ![c] = e][d]]
      BY <1>1 DEF Shape
    <2> QED BY <1>6, <2>1, <2>3, <2>4, <2>5
  <1>9. CASE (\E over \in BOOLEAN : Fails(c, over)) /\ UNCHANGED staging
    BY <1>2, <1>9, FailedHere DEF NoFilePcs
  <1> QED BY <1>7, <1>8, <1>9 DEF Open

LEMMA DownloadInv == ASSUME Inv, NEW c \in Calls, DownloadStepOf(c) PROVE Inv'
  BY NoFileInv, OpenInv, ChunkInv, StreamFailsInv, StreamEndsInv, PlaceInv
     DEF DownloadStepOf
-----------------------------------------------------------------------------
(* The extractions.                                                        *)

DirPcs == {"members", "clear", "move"}

LEMMA DirUser ==
    ASSUME Inv, NEW c \in Calls, Is(c, {"extract_archive"}), call[c].pc \in DirPcs
    PROVE  Using(c) /\ NameOf(c) = StagingDir(c)
  BY DEF Using, UsingPcs, NameOf, DirPcs

(* A step of one that has no directory, or is refused one.                 *)
LEMMA NoDirInv ==
    ASSUME Inv, NEW c \in Calls, Is(c, {"extract_archive"}), call[c].pc \in {"manifest", "reopen"},
           UNCHANGED <<files, staging>>, Only(c),
           \/ Same(c) /\ call'[c].pc = "reopen"
           \/ Forgets(c) /\ call'[c].pc = "failed"
    PROVE  Inv'
  <1>1. Shape /\ OfCall(c) /\ ~Is(c, {"download_file"})
    BY DEF Inv, Is
  <1>2. Shape'
    BY <1>1 DEF Only, Shape
  <1>3. Fits(c)' /\ Counted(c)'
    BY <1>1 DEF OfCall, Fits, Counted, Only, Same, Forgets, Is, ExtractPcs, Answers
  <1>4. OwnFile(c)'
    BY DEF OwnFile
  <1>5. OwnDir(c)'
    BY <1>1 DEF OfCall, OwnDir, Only, Answers
  <1>6. Others(c) /\ OwnParts(c) /\ Aside(c)
    BY DEF Only, Others, OwnParts, Aside, Using, UsingPcs
  <1> QED BY <1>2, <1>3, <1>4, <1>5, <1>6, StepKept DEF Only, OfCall

LEMMA ManifestInv == ASSUME Inv, NEW c \in Calls, ReadManifest(c) PROVE Inv'
  <1>1. Shape
    BY DEF Inv
  <1>2. Is(c, {"extract_archive"}) /\ call[c].pc = "manifest" /\ UNCHANGED <<files, staging>>
    BY DEF ReadManifest, ExtractStep, At
  <1>3. CASE Answer(c, "failed")
    BY <1>1, <1>2, <1>3, AnswerIs, NoDirInv
  <1>4. CASE call' = [call EXCEPT ![c].pc = "reopen", ![c].zip = files[Archive]]
    <2>1. Only(c) /\ Same(c) /\ call'[c].pc = "reopen"
      BY <1>1, <1>4 DEF Shape, Only, Same, Fields
    <2> QED BY <1>2, <2>1, NoDirInv
  <1> QED BY <1>3, <1>4 DEF ReadManifest

LEMMA ReopenInv == ASSUME Inv, NEW c \in Calls, Reopen(c) PROVE Inv'
  <1>1. Shape /\ OfCall(c) /\ ~Using(c)
    BY DEF Inv, Reopen, ExtractStep, At, Using, UsingPcs
  <1>2. Is(c, {"extract_archive"}) /\ call[c].pc = "reopen" /\ UNCHANGED files
    BY DEF Reopen, ExtractStep, At
  <1>3. CASE Answer(c, "failed") /\ UNCHANGED staging
    BY <1>1, <1>2, <1>3, AnswerIs, NoDirInv
  <1>4. ASSUME NEW t, NEW name, name = <<"extract", Archive, t, 0>>,
               call' = Sharing([call EXCEPT ![c].pc = "members", ![c].stamp = t, ![c].todo = Members],
                               c, name, DirUsersOf(name)),
               staging' = IF name \in DOMAIN staging THEN staging ELSE Added(name, c, {})
        PROVE  Inv'
    <2> DEFINE mine  == [call EXCEPT ![c].pc = "members", ![c].stamp = t, ![c].todo = Members]
               users == DirUsersOf(name)
    <2>1. users \in SUBSET Calls
      BY DEF DirUsersOf
    <2>2. /\ \A d \in Calls : DOMAIN mine[d] = Fields
          /\ \A d \in Calls \ {c} : mine[d] = call[d]
          /\ mine[c].kind = call[c].kind /\ mine[c].shared = call[c].shared
          /\ mine[c].written = call[c].written /\ mine[c].used = call[c].used /\ mine[c].got = call[c].got
          /\ mine[c].placed = call[c].placed
          /\ mine[c].pc = "members" /\ mine[c].stamp = t /\ mine[c].todo = Members
      BY <1>1 DEF Shape
    <2>3. \A d \in Calls : Using(d) /\ NameOf(d) = name => d \in users
      BY <1>4, NamesDiffer
    <2>4. call' = Sharing(mine, c, name, users)
      BY <1>4
    <2> HIDE DEF mine, users
    <2>5. /\ call' = [d \in Calls |-> call'[d]]
          /\ \A d \in Calls :
                /\ DOMAIN call'[d] = Fields
                /\ call'[d] = mine[d] \/ call'[d] = [mine[d] EXCEPT !.shared = TRUE]
                /\ SameBut(call'[d], mine[d])
                /\ mine[d].shared => call'[d].shared
                /\ users # {} \/ name \in DOMAIN staging => \A e \in users \cup {c} : call'[e].shared
      BY <2>1, <2>2, <2>4, SharingIs
    <2>6. SameBut(call'[c], mine[c]) /\ (call[c].shared => call'[c].shared)
      BY <2>2, <2>5
    <2>7. /\ call'[c].kind = call[c].kind /\ call'[c].written = call[c].written
          /\ call'[c].used = call[c].used /\ call'[c].got = call[c].got
          /\ call'[c].placed = call[c].placed
          /\ call'[c].pc = "members" /\ call'[c].stamp = t /\ call'[c].todo = Members
      BY <2>2, <2>6 DEF SameBut
    <2>8. StagingDir(c)' = name /\ Using(c)' /\ NameOf(c)' = name
      BY <1>2, <1>4, <2>7 DEF StagingDir, Using, UsingPcs, NameOf, Is
    <2>9. /\ StagingShape' /\ OnlyAt(name) /\ name \in DOMAIN staging'
          /\ name \notin DOMAIN staging => staging'[name].items = {}
      <3>1. CASE name \in DOMAIN staging
        BY <1>1, <1>4, <3>1, StagingKept
      <3>2. CASE name \notin DOMAIN staging
        BY <1>1, <1>4, <3>2, TakenIs
      <3> QED BY <3>1, <3>2
    <2>10. Shape' /\ Others(c) /\ OwnParts(c)
      BY <1>1, <1>2, <2>2, <2>5, <2>9 DEF Shape, StagingShape, Others, OwnParts
    <2>11. Fits(c)' /\ Counted(c)' /\ OwnFile(c)'
      BY <1>1, <1>2, <2>7 DEF OfCall, Fits, Counted, OwnFile, Is, ExtractPcs, Answers
    <2>12. OwnDir(c)'
      <3>1. ASSUME ~call'[c].shared
            PROVE  /\ staging'[name].items = {} /\ call[c].placed = {}
                   /\ \A n \in Names : files[n].by # c
        <4>1. name \notin DOMAIN staging
          BY <2>5, <3>1
        <4> QED BY <1>1, <1>2, <2>6, <2>9, <3>1, <4>1 DEF OfCall, OwnDir, Answers
      <3> QED BY <1>2, <2>7, <2>8, <2>9, <3>1 DEF OwnDir
    <2>13. \A d \in Calls \ {c} : Using(d) /\ NameOf(d) = name => call'[d].shared /\ call'[c].shared
      BY <2>3, <2>5
    <2>14. Handles(c, name)
      BY <1>1, <2>8, <2>9, <2>10, <2>13, TakerHandles
    <2> QED BY <2>6, <2>7, <2>10, <2>11, <2>12, <2>14, StepKept DEF OfCall
  <1> QED BY <1>3, <1>4 DEF Reopen

(* A step of one that has a directory: it goes on with it, or removes it.  *)
LEMMA DirStepInv ==
    ASSUME Inv, NEW c \in Calls, Is(c, {"extract_archive"}), call[c].pc \in DirPcs,
           OwnStep(c), OwnParts(c), files' \in [Names -> Content],
           StagingShape', OnlyAt(StagingDir(c)),
           call'[c].used \in Nat /\ call'[c].got \in Nat /\ call'[c].written \in Nat,
           \/ call'[c].pc \in DirPcs /\ call'[c].stamp = call[c].stamp
           \/ /\ call'[c].pc \in Answers
              /\ StagingDir(c) \in DOMAIN staging' => staging'[StagingDir(c)].stuck,
           OwnDir(c)'
    PROVE  Inv'
  <1>1. Shape /\ OfCall(c) /\ Using(c) /\ NameOf(c) = StagingDir(c)
    BY DirUser DEF Inv
  <1>2. Shape'
    BY <1>1, ShapeKept
  <1>3. Fits(c)' /\ Counted(c)'
    BY <1>1 DEF OwnStep, OfCall, Fits, Counted, Is, ExtractPcs, DirPcs
  <1>4. OwnFile(c)'
    BY DEF OwnFile, DirPcs, Answers
  <1>5. Handles(c, NameOf(c)) /\ Others(c)
    <2>1. CASE call'[c].pc \in DirPcs /\ call'[c].stamp = call[c].stamp
      <3>1. Using(c)' /\ NameOf(c)' = NameOf(c)
        BY <2>1 DEF OwnStep, Using, UsingPcs, DirPcs, NameOf, StagingDir, Is
      <3> QED BY <1>1, <3>1, UserHandles
    <2>2. CASE /\ call'[c].pc \in Answers
               /\ StagingDir(c) \in DOMAIN staging' => staging'[StagingDir(c)].stuck
      <3>1. ~Using(c)'
        BY <2>2 DEF Using, UsingPcs, Answers
      <3> QED BY <1>1, <2>2, <3>1, UserHandles
    <2> QED BY <2>1, <2>2
  <1> QED BY <1>2, <1>3, <1>4, <1>5, StepKept DEF OwnStep, OfCall

(* It ends.                                                                *)
LEMMA DirEndsInv ==
    ASSUME Inv, NEW c \in Calls, Is(c, {"extract_archive"}), call[c].pc \in DirPcs,
           UNCHANGED files, CleanupStaging(StagingDir(c)),
           NEW pc \in Answers, Answer(c, pc), pc = "ok" => call[c].pc = "clear" /\ call[c].todo = {}
    PROVE  Inv'
  <1>1. Shape /\ OfCall(c) /\ ~Is(c, {"download_file"})
    BY DEF Inv, Is
  <1>2. Only(c) /\ call'[c].pc = pc /\ Forgets(c)
    BY <1>1, AnswerIs
  <1>3. OwnStep(c) /\ OwnParts(c) /\ files' \in [Names -> Content]
    BY <1>1, <1>2 DEF Only, OwnStep, OwnParts, Shape
  <1>4. /\ StagingShape' /\ OnlyAt(StagingDir(c))
        /\ StagingDir(c) \in DOMAIN staging' => staging'[StagingDir(c)].stuck
    BY <1>1, CleanedIs
  <1>5. call'[c].used \in Nat /\ call'[c].got \in Nat /\ call'[c].written \in Nat
    BY <1>1, <1>2 DEF OfCall, Fits, Counted, Only, Forgets
  <1>6. OwnDir(c)'
    BY <1>1, <1>2 DEF OfCall, OwnDir, Only, Answers, Early
  <1> QED BY <1>2, <1>3, <1>4, <1>5, <1>6, DirStepInv

LEMMA MemberInv == ASSUME Inv, NEW c \in Calls, ExtractMember(c) PROVE Inv'
  <1> DEFINE name == StagingDir(c)
  <1>1. Shape /\ OfCall(c)
    BY DEF Inv
  <1>2. Is(c, {"extract_archive"}) /\ call[c].pc = "members" /\ UNCHANGED files
    BY DEF ExtractMember, ExtractStep, At
  <1>3. PICK m \in call[c].todo, bytes \in 1..MaxExpanded :
            /\ call[c].used + bytes <= MaxExpanded
            /\ staging' = IF name \in DOMAIN staging
                          THEN [staging EXCEPT ![name].items = @ \cup {m}]
                          ELSE Added(name, c, {m})
            /\ call' = [call EXCEPT ![c].todo = @ \ {m}, ![c].used = @ + bytes]
    BY DEF ExtractMember, MemberFits
  <1>4. /\ OwnStep(c) /\ call'[c].pc = "members" /\ call'[c].stamp = call[c].stamp
        /\ call'[c].todo = call[c].todo \ {m} /\ call'[c].placed = call[c].placed
        /\ call'[c].used = call[c].used + bytes /\ call'[c].written = call[c].written
        /\ call'[c].got = call[c].got
    <2> DEFINE r == [call[c] EXCEPT !.todo = @ \ {m}, !.used = @ + bytes]
    <2>1. call' = [call EXCEPT ![c] = r] /\ DOMAIN call[c] = Fields
      BY <1>1, <1>3 DEF Shape
    <2>2. /\ DOMAIN r = Fields /\ r.kind = call[c].kind /\ r.shared = call[c].shared
          /\ r.pc = call[c].pc /\ r.stamp = call[c].stamp /\ r.got = call[c].got
          /\ r.todo = call[c].todo \ {m} /\ r.placed = call[c].placed
          /\ r.used = call[c].used + bytes /\ r.written = call[c].written
      BY <2>1 DEF Fields
    <2> HIDE DEF r
    <2>3. /\ call' = [d \in Calls |-> call'[d]] /\ call'[c] = r
          /\ \A d \in Calls \ {c} : call'[d] = call[d]
      BY <1>1, <2>1 DEF Shape
    <2> QED BY <1>2, <2>2, <2>3 DEF OwnStep
  <1>5. call'[c].used \in Nat /\ call'[c].got \in Nat /\ call'[c].written \in Nat
    <2>1. bytes \in Nat
      BY <1>3, ArchivesAssumption
    <2> QED BY <1>1, <1>4, <2>1 DEF OfCall, Fits
  <1>6. /\ StagingShape' /\ OnlyAt(name)
        /\ name \in DOMAIN staging =>
              name \in DOMAIN staging' /\ staging'[name].items = staging[name].items \cup {m}
    <2>1. CASE name \in DOMAIN staging
      BY <1>1, <1>3, <2>1 DEF Shape, StagingShape, OnlyAt
    <2>2. CASE name \notin DOMAIN staging
      BY <1>1, <1>3, <2>2, TakenIs
    <2> QED BY <2>1, <2>2
  <1>7. OwnDir(c)'
    <2>1. name' = name
      BY <1>4 DEF StagingDir
    <2>2. ASSUME ~call[c].shared
          PROVE  /\ name \in DOMAIN staging /\ call[c].todo \subseteq Members
                 /\ staging[name].items = Members \ call[c].todo
                 /\ call[c].placed = {} /\ \A n \in Names : files[n].by # c
      BY <1>1, <1>2, <2>2 DEF OfCall, OwnDir, Answers
    <2>3. ASSUME ~call[c].shared
          PROVE  /\ name \in DOMAIN staging' /\ call'[c].todo \subseteq Members
                 /\ staging'[name].items = Members \ call'[c].todo
      <3> HIDE DEF name
      <3>1. /\ name \in DOMAIN staging' /\ call'[c].todo \subseteq Members
            /\ staging'[name].items = (Members \ call[c].todo) \cup {m} /\ m \in Members
        BY <1>4, <1>6, <2>2, <2>3
      <3> QED BY <1>4, <3>1
    <2> QED BY <1>2, <1>4, <2>1, <2>2, <2>3 DEF OwnDir, OwnStep
  <1>8. OwnParts(c) /\ files' \in [Names -> Content]
    BY <1>1, <1>2 DEF OwnParts, Shape
  <1> QED BY <1>2, <1>4, <1>5, <1>6, <1>7, <1>8, DirStepInv DEF DirPcs

LEMMA AllExtractedInv == ASSUME Inv, NEW c \in Calls, AllExtracted(c) PROVE Inv'
  <1> DEFINE name == StagingDir(c)
  <1>1. Shape /\ OfCall(c)
    BY DEF Inv
  <1>2. Is(c, {"extract_archive"}) /\ call[c].pc = "members" /\ call[c].todo = {} /\ UNCHANGED files
    BY DEF AllExtracted, ExtractStep, At
  <1>3. CASE /\ name \in DOMAIN staging /\ UNCHANGED staging
             /\ call' = [call EXCEPT ![c].pc = "clear", ![c].todo = staging[name].items]
    <2>1. /\ OwnStep(c) /\ call'[c].pc = "clear" /\ call'[c].stamp = call[c].stamp
          /\ call'[c].todo = staging[name].items /\ call'[c].placed = call[c].placed
          /\ call'[c].used = call[c].used /\ call'[c].written = call[c].written
          /\ call'[c].got = call[c].got
      BY <1>1, <1>3 DEF Shape, OwnStep, Fields
    <2>2. call'[c].used \in Nat /\ call'[c].got \in Nat /\ call'[c].written \in Nat
      BY <1>1, <1>2, <2>1 DEF OfCall, Fits, Counted, Answers
    <2>3. OwnDir(c)'
      BY <1>1, <1>2, <2>1 DEF OfCall, OwnDir, OwnStep
    <2>4. /\ StagingShape' /\ OnlyAt(name) /\ OwnParts(c) /\ files' \in [Names -> Content]
      BY <1>1, <1>2, <1>3, StagingKept DEF OwnParts, Shape
    <2> QED BY <1>2, <2>1, <2>2, <2>3, <2>4, DirStepInv DEF DirPcs
  <1>4. CASE ExtractFails(c)
    BY <1>2, <1>4, DirEndsInv DEF ExtractFails, DirPcs, Answers
  <1> QED BY <1>3, <1>4 DEF AllExtracted

LEMMA ClearEntryInv == ASSUME Inv, NEW c \in Calls, ClearEntry(c) PROVE Inv'
  <1>1. Shape /\ OfCall(c)
    BY DEF Inv
  <1>2. Is(c, {"extract_archive"}) /\ call[c].pc = "clear" /\ UNCHANGED staging
    BY DEF ClearEntry, ExtractStep, At
  <1>3. PICK m \in call[c].todo :
            /\ UNCHANGED files \/ files' = [files EXCEPT ![m] = Put(c, "gone")]
            /\ call' = [call EXCEPT ![c].pc = "move", ![c].on = m]
    BY DEF ClearEntry
  <1>4. /\ OwnStep(c) /\ call'[c].pc = "move" /\ call'[c].stamp = call[c].stamp
        /\ call'[c].on = m
        /\ call'[c].todo = call[c].todo /\ call'[c].placed = call[c].placed
        /\ call'[c].used = call[c].used /\ call'[c].written = call[c].written
        /\ call'[c].got = call[c].got
    <2> DEFINE r == [call[c] EXCEPT !.pc = "move", !.on = m]
    <2>1. call' = [call EXCEPT ![c] = r] /\ DOMAIN call[c] = Fields
      BY <1>1, <1>3 DEF Shape
    <2>2. /\ DOMAIN r = Fields /\ r.kind = call[c].kind /\ r.shared = call[c].shared
          /\ r.pc = "move" /\ r.on = m /\ r.stamp = call[c].stamp /\ r.got = call[c].got
          /\ r.todo = call[c].todo /\ r.placed = call[c].placed
          /\ r.used = call[c].used /\ r.written = call[c].written
      BY <2>1 DEF Fields
    <2> HIDE DEF r
    <2>3. /\ call' = [d \in Calls |-> call'[d]] /\ call'[c] = r
          /\ \A d \in Calls \ {c} : call'[d] = call[d]
      BY <1>1, <2>1 DEF Shape
    <2> QED BY <2>2, <2>3 DEF OwnStep
  <1>5. call'[c].used \in Nat /\ call'[c].got \in Nat /\ call'[c].written \in Nat
    BY <1>1, <1>2, <1>4 DEF OfCall, Fits, Counted, Answers
  <1>6. OwnDir(c)'
    BY <1>1, <1>2, <1>4 DEF OfCall, OwnDir, OwnStep, Early
  <1>7. OwnParts(c) /\ files' \in [Names -> Content]
    BY <1>1, <1>3 DEF OwnParts, Shape, Put, Content
  <1>8. StagingShape' /\ OnlyAt(StagingDir(c))
    BY <1>1, <1>2, StagingKept
  <1> QED BY <1>2, <1>4, <1>5, <1>6, <1>7, <1>8, DirStepInv DEF DirPcs

LEMMA MoveEntryInv == ASSUME Inv, NEW c \in Calls, MoveEntry(c) PROVE Inv'
  <1> DEFINE name == StagingDir(c)
             m    == call[c].on
  <1>1. Shape /\ OfCall(c)
    BY DEF Inv
  <1>2. Is(c, {"extract_archive"}) /\ call[c].pc = "move"
    BY DEF MoveEntry, ExtractStep, At
  <1>3. CASE /\ name \in DOMAIN staging
             /\ files' = [files EXCEPT ![m] = Put(c, "whole")]
             /\ staging' = [staging EXCEPT ![name].items = @ \ {m}]
             /\ call' = [call EXCEPT ![c].pc = "clear", ![c].todo = @ \ {m}, ![c].placed = @ \cup {m}]
    <2>1. /\ OwnStep(c) /\ call'[c].pc = "clear" /\ call'[c].stamp = call[c].stamp
          /\ call'[c].todo = call[c].todo \ {m} /\ call'[c].placed = call[c].placed \cup {m}
          /\ call'[c].used = call[c].used /\ call'[c].written = call[c].written
          /\ call'[c].got = call[c].got
      BY <1>1, <1>3 DEF Shape, OwnStep
    <2>2. call'[c].used \in Nat /\ call'[c].got \in Nat /\ call'[c].written \in Nat
      BY <1>1, <1>2, <2>1 DEF OfCall, Fits, Counted, Answers
    <2>3. OwnDir(c)'
      BY <1>1, <1>2, <2>1 DEF OfCall, OwnDir, OwnStep, Early
    <2>4. OwnParts(c) /\ files' \in [Names -> Content]
      BY <1>1, <1>3 DEF OwnParts, Shape, Put, Content
    <2>5. StagingShape' /\ OnlyAt(name)
      BY <1>1, <1>3 DEF Shape, StagingShape, OnlyAt
    <2> QED BY <1>2, <2>1, <2>2, <2>3, <2>4, <2>5, DirStepInv DEF DirPcs
  <1>4. CASE ExtractFails(c) /\ UNCHANGED files
    BY <1>2, <1>4, DirEndsInv DEF ExtractFails, DirPcs, Answers
  <1> QED BY <1>3, <1>4 DEF MoveEntry

LEMMA ExtractInv == ASSUME Inv, NEW c \in Calls, ExtractStepOf(c) PROVE Inv'
  <1>1. CASE MemberFails(c)
    BY <1>1, DirEndsInv DEF MemberFails, ExtractFails, ExtractStep, At, DirPcs, Answers
  <1>2. CASE Extracted(c)
    BY <1>2, DirEndsInv DEF Extracted, ExtractStep, At, DirPcs, Answers
  <1> QED BY <1>1, <1>2, ManifestInv, ReopenInv, MemberInv, AllExtractedInv,
             ClearEntryInv, MoveEntryInv DEF ExtractStepOf
-----------------------------------------------------------------------------
(* The whole.                                                              *)

LEMMA InitInv == Init => Inv
  <1> SUFFICES ASSUME Init PROVE Inv
    OBVIOUS
  <1>1. PICK plan \in Plans : call = [c \in Calls |-> Call0(plan[c])]
    BY DEF Init
  <1>2. \A c \in Calls : plan[c] \in Kinds
    BY FileToolsAssumption
  <1>3. \A c \in Calls :
            /\ DOMAIN call[c] = Fields /\ call[c].kind = plan[c]
            /\ call[c].pc = IF plan[c] = "idle" THEN "ok" ELSE "start"
            /\ call[c].got = 0 /\ call[c].used = 0 /\ call[c].written = 0
            /\ call[c].placed = {}
    BY <1>1 DEF Call0, Fields
  <1>4. files \in [Names -> Content] /\ \A n \in Names : files[n].by = "init"
    BY DEF Init, Put, Content
  <1>5. staging = <<>> /\ DOMAIN staging = {}
    BY DEF Init
  <1>6. Shape
    BY <1>1, <1>3, <1>4, <1>5 DEF Shape
  <1>7. \A c \in Calls : ~Using(c)
    BY <1>3 DEF Using, UsingPcs
  <1>8. Apart /\ Claimed /\ NoPart
    BY <1>4, <1>5, <1>7 DEF Apart, Claimed, NoPart
  <1>9. ASSUME NEW c \in Calls PROVE OfCall(c)
    <2>1. Fits(c)
      BY <1>2, <1>3 DEF Fits, DownloadPcs, ExtractPcs, FilePcs, Early, Answers
    <2>2. Counted(c)
      BY <1>3, DownloadsAssumption DEF Counted
    <2>3. OwnFile(c)
      BY <1>3 DEF OwnFile
    <2>4. OwnDir(c)
      BY <1>3, <1>4, FileToolsAssumption DEF OwnDir, Is
    <2> QED BY <2>1, <2>2, <2>3, <2>4 DEF OfCall
  <1> QED BY <1>6, <1>8, <1>9 DEF Inv

LEMMA StutterInv == ASSUME Inv, UNCHANGED fileVars PROVE Inv'
  BY DEF fileVars, Inv, Shape, Apart, Claimed, NoPart, OfCall, Fits, Counted, OwnFile,
     OwnDir, Is, Using, NameOf, StagingDir, DownloadName

LEMMA InvHolds == Spec => []Inv
  <1>1. Init => Inv
    BY InitInv
  <1>2. Inv /\ [Next]_fileVars => Inv'
    BY FileStepInv, DownloadInv, ExtractInv, StutterInv DEF Next, CallStep, AllAnswered
  <1> QED BY <1>1, <1>2, PTL DEF Spec

(* What the attempts of a download write together stays within its budget, *)
(* whatever each of them ended with: every failure is tried again, refused *)
(* and cancelled ones too (src/src/network-policy.ts:528,                  *)
(* src/src/adaptive.ts:41).                                                *)
THEOREM BudgetIsShared == Spec => []BudgetShared
  <1>1. Inv => BudgetShared
    BY DEF Inv, OfCall, Counted, BudgetShared
  <1> QED BY <1>1, InvHolds, PTL

(* All failing paths clean staging: what lies there belongs to a transfer  *)
(* that runs, or its removal was tried and failed                          *)
(* (src/src/network-policy.ts:8, src/src/zip-policy.ts:7).                 *)
THEOREM StagingIsCleaned == Spec => []NoStagingLeft
  <1>1. Inv => NoStagingLeft
    <2> SUFFICES ASSUME Inv, NEW name \in DOMAIN staging, ~staging[name].stuck
                 PROVE  \E c \in Active : name = IF Is(c, {"extract_archive"}) THEN StagingDir(c)
                                                 ELSE DownloadName(c)
      BY DEF NoStagingLeft
    <2>1. PICK c \in Calls : Using(c) /\ NameOf(c) = name
      BY DEF Inv, Claimed
    <2>2. c \in Active
      BY <2>1 DEF Using, UsingPcs, Active
    <2> QED BY <2>1, <2>2 DEF NameOf
  <1> QED BY <1>1, InvHolds, PTL

(* Only a body that has come whole replaces a file; an extraction that     *)
(* succeeded has placed every member, and one that failed before the last  *)
(* was extracted has touched nothing -- for calls whose staging name was   *)
(* their own (src/src/network-policy.ts:349, src/src/zip-policy.ts:465).   *)
THEOREM TransfersAreWhole == Spec => []TransfersWhole
  <1>1. Inv => TransfersWhole
    <2> SUFFICES ASSUME Inv PROVE TransfersWhole
      OBVIOUS
    <2>1. NoPart /\ \A c \in Calls : OwnDir(c)
      BY DEF Inv, OfCall
    <2> QED BY <2>1 DEF NoPart, OwnDir, TransfersWhole, At
  <1> QED BY <1>1, InvHolds, PTL

-----------------------------------------------------------------------------
(* The cache.                                                              *)

ReaderPcs == {"lookup", "look", "relook", "native", "store"}
Saw(seen, n) == {x[2] : x \in {y \in seen : y[1] = n}}

Excused(n, key, by) ==
    LET w == files[n].by
    IN /\ w # "init"
       /\ ~Promised(call[w].kind, n, key) \/ call[w].pc # "ok" \/ by \in call[w].during

Agrees(seen, n, key, by) == Saw(seen, n) = {files[n]} \/ Excused(n, key, by)

Looking(c) ==
    /\ call[c].pc \in ReaderPcs => Is(c, Readers) /\ call[c].on \in Names
    /\ call[c].pc = "relook" /\ Is(c, {"read_file"}) => call[c].complete

Reading(c) ==
    call[c].pc \in {"relook", "store"} /\ call[c].complete =>
        \A n \in Subject(call[c].kind, call[c].on) : Agrees(call[c].seen, n, Key(c), c)

Touching(c) ==
    Is(c, {"copy", "move", "delete_path"}) /\ call[c].pc \notin Answers =>
        /\ Is(c, {"move"}) /\ call[c].pc # "start" => call[c].on = Target
        /\ \A n \in Names : files[n].by = c =>
              call[c].pc # "start" /\ (n = call[c].on \/ (Is(c, {"move"}) /\ n = Source))

Entered(e) ==
    /\ Subject(e.key.tool, e.key.on) \subseteq Names
    /\ \A n \in Subject(e.key.tool, e.key.on) : Agrees(e.seen, n, e.key, e.by)

CacheInv ==
    /\ \A c \in Calls : Looking(c) /\ Reading(c) /\ Touching(c)
    /\ \A e \in cache : Entered(e)

\* The fields of a call that the cache has to do with.
SameCall(c) ==
    /\ call'[c].kind = call[c].kind /\ call'[c].pc = call[c].pc /\ call'[c].on = call[c].on
    /\ call'[c].spell = call[c].spell /\ call'[c].seen = call[c].seen
    /\ call'[c].complete = call[c].complete /\ call'[c].during = call[c].during

\* A step of call c: what it writes is its own.
Turn(c) ==
    /\ \A d \in Calls \ {c} : SameCall(d)
    /\ call'[c].kind = call[c].kind
    /\ \A n \in Names : files'[n] = files[n] \/ files'[n].by = c

Changers == {"write_file", "append", "copy", "move", "delete_path"}

(* What agrees with the files still does, unless it is an answer that it   *)
(* was promised to be dropped with.                                        *)
LEMMA AgreesStill ==
    ASSUME Shape, NEW c \in Calls, Turn(c), NEW seen, NEW n \in Names, NEW key, NEW by,
           Agrees(seen, n, key, by),
           \/ ~Promised(call[c].kind, n, key) \/ call'[c].pc # "ok" \/ by \in call'[c].during
           \/ files'[n].by # c
    PROVE  Agrees(seen, n, key, by)'
  <1> DEFINE w == files[n].by
  <1>1. w \in Calls \cup {"init"} /\ "init" \notin Calls
    BY FileToolsAssumption DEF Shape, Content
  <1>2. CASE files'[n].by = c
    BY <1>1, <1>2 DEF Turn, Agrees, Excused
  <1>3. CASE files'[n].by # c
    <2>1. files'[n] = files[n] /\ w # c
      BY <1>3 DEF Turn
    <2>2. CASE Saw(seen, n) = {files[n]}
      BY <2>1, <2>2 DEF Agrees
    <2>3. CASE Excused(n, key, by)
      <3>1. w \in Calls \ {c} /\ SameCall(w)
        BY <1>1, <2>1, <2>3 DEF Excused, Turn
      <3> QED BY <2>1, <3>1 DEF Excused, SameCall, Agrees
    <2> QED BY <2>2, <2>3 DEF Agrees
  <1> QED BY <1>2, <1>3

(* So the calls that do not move on keep what they have.                   *)
LEMMA OtherReads ==
    ASSUME Shape, CacheInv, NEW c \in Calls, Turn(c), NEW d \in Calls \ {c},
           call'[c].pc = "ok" /\ call[c].kind \in Changers => Active \ {c} \subseteq call'[c].during
    PROVE  Looking(d)' /\ Reading(d)' /\ Touching(d)'
  <1>1. Looking(d) /\ Reading(d) /\ Touching(d) /\ SameCall(d)
    BY DEF CacheInv, Turn
  <1>2. Looking(d)'
    BY <1>1 DEF Looking, SameCall, Is
  <1>3. Touching(d)'
    BY <1>1 DEF Touching, SameCall, Is, Turn
  <1>4. Reading(d)'
    <2>1. PICK seen, key : seen = call[d].seen /\ key = Key(d)
      OBVIOUS
    <2>2. seen = call'[d].seen /\ key = Key(d)'
      BY <1>1, <2>1 DEF Key, SameCall, Is
    <2>3. ASSUME call[d].pc \in {"relook", "store"}, call[d].complete,
                 NEW n \in Subject(call[d].kind, call[d].on)
          PROVE  Agrees(seen, n, key, d)'
      <3>1. n \in Names
        BY <1>1, <2>3 DEF Looking, ReaderPcs, Subject
      <3>2. Agrees(seen, n, key, d)
        BY <1>1, <2>1, <2>3 DEF Reading
      <3>3. d \in Active
        BY <2>3 DEF Active
      <3>4. ~Promised(call[c].kind, n, key) \/ call'[c].pc # "ok" \/ d \in call'[c].during
        BY <3>3 DEF Promised, Changers
      <3> QED BY <3>1, <3>2, <3>4, AgreesStill
    <2> QED BY <1>1, <2>2, <2>3 DEF Reading, SameCall
  <1> QED BY <1>2, <1>3, <1>4

\* When one that changes files has answered, who runs is told, and no answer is
\* left that it promised to drop.
Tells(c) ==
    call'[c].pc = "ok" /\ call[c].kind \in Changers =>
        /\ Active \ {c} \subseteq call'[c].during
        /\ \A e \in cache', n \in Names : files'[n].by = c => ~Promised(call[c].kind, n, e.key)

LEMMA TurnKept ==
    ASSUME Shape, CacheInv, NEW c \in Calls, Turn(c), Tells(c),
           Looking(c)', Reading(c)', Touching(c)',
           \A e \in cache' : e \in cache \/ Entered(e)'
    PROVE  CacheInv'
  <1>1. \A d \in Calls : Looking(d)' /\ Reading(d)' /\ Touching(d)'
    BY OtherReads DEF Tells
  <1>2. ASSUME NEW e \in cache', e \in cache PROVE Entered(e)'
    <2>1. PICK seen, key, by : seen = e.seen /\ key = e.key /\ by = e.by
      OBVIOUS
    <2>2. /\ Subject(key.tool, key.on) \subseteq Names
          /\ \A n \in Subject(key.tool, key.on) : Agrees(seen, n, key, by)
      BY <1>2, <2>1 DEF CacheInv, Entered
    <2>3. ASSUME NEW n \in Subject(key.tool, key.on) PROVE Agrees(seen, n, key, by)'
      <3>1. n \in Names /\ Agrees(seen, n, key, by)
        BY <2>2
      <3>2. \/ ~Promised(call[c].kind, n, key) \/ call'[c].pc # "ok" \/ files'[n].by # c
        BY <2>1, <3>1 DEF Tells, Promised, Changers
      <3> QED BY <3>1, <3>2, AgreesStill
    <2> QED BY <2>1, <2>2, <2>3 DEF Entered
  <1> QED BY <1>1, <1>2 DEF CacheInv

(* A call that is answered has nothing more to say.                        *)
LEMMA AnsweredKept ==
    ASSUME NEW c \in Calls, call'[c].pc \in Answers PROVE Looking(c)' /\ Reading(c)' /\ Touching(c)'
  BY DEF Looking, Reading, Touching, Answers, ReaderPcs

(* The transfers do not touch the cache.                                   *)
LEMMA TransferKept ==
    ASSUME Inv, Inv', CacheInv, NEW c \in Calls, Is(c, Transfers), Turn(c), UNCHANGED cache
    PROVE  CacheInv'
  <1>1. call'[c].kind \in Transfers
    BY DEF Is, Turn
  <1>2. call'[c].pc \notin ReaderPcs
    BY <1>1 DEF Inv, OfCall, Fits, Is, Transfers, DownloadPcs, ExtractPcs, Early,
       Answers, ReaderPcs
  <1>3. Looking(c)' /\ Reading(c)' /\ Touching(c)'
    BY <1>1, <1>2 DEF Looking, Reading, Touching, Is, Transfers, ReaderPcs
  <1>4. Tells(c)
    BY DEF Tells, Is, Transfers, Changers
  <1> QED BY <1>3, <1>4, TurnKept DEF Inv

(* What the file tools do to their own call.                               *)
LEMMA FileTurn == ASSUME Shape, NEW c \in Calls, Fits(c), FileStep(c) PROVE Turn(c)
  <1>1. FileFrame(c)
    BY FileStepIs
  <1> QED BY <1>1 DEF FileFrame, Only, Writes, Turn, SameCall

LEMMA SawView ==
    ASSUME NEW names, NEW n \in names PROVE Saw(View(names), n) = {files[n]}
  <1>1. ASSUME NEW x \in Saw(View(names), n) PROVE x = files[n]
    BY DEF Saw, View
  <1>2. <<n, files[n]>> \in View(names)
    BY DEF View
  <1>3. files[n] \in Saw(View(names), n)
    BY <1>2 DEF Saw
  <1> QED BY <1>1, <1>3

LEMMA SawMore ==
    ASSUME NEW seen, NEW names, NEW n, Saw(seen, n) = {files[n]}
    PROVE  Saw(seen \cup View(names), n) = {files[n]}
  <1>1. ASSUME NEW x \in Saw(seen \cup View(names), n) PROVE x = files[n]
    <2>1. PICK y \in seen \cup View(names) : y[1] = n /\ x = y[2]
      BY DEF Saw
    <2>2. y \in seen => x \in Saw(seen, n)
      BY <2>1 DEF Saw
    <2>3. y \in View(names) => x = files[n]
      BY <2>1 DEF View
    <2> QED BY <2>2, <2>3
  <1>2. files[n] \in Saw(seen \cup View(names), n)
    <2>1. PICK y \in seen : y[1] = n /\ files[n] = y[2]
      BY DEF Saw
    <2> QED BY DEF Saw
  <1> QED BY <1>1, <1>2

\* Where a step leaves what the cache has to do with.
Leaves(c, pc) ==
    /\ call'[c].pc = pc /\ call'[c].kind = call[c].kind /\ call'[c].on = call[c].on
    /\ call'[c].spell = call[c].spell

LEMMA GotoLeaves ==
    ASSUME Shape, NEW c \in Calls, NEW pc, Goto(c, pc)
    PROVE  Leaves(c, pc) /\ call'[c].seen = call[c].seen /\ call'[c].complete = call[c].complete
  BY DEF Goto, Shape, Leaves, Fields

LEMMA SeeLeaves ==
    ASSUME Shape, NEW c \in Calls, NEW v, NEW b, NEW pc, See(c, v, b, pc)
    PROVE  Leaves(c, pc) /\ call'[c].seen = v /\ call'[c].complete = b
  BY DEF See, Shape, Leaves

LEMMA StartKept == ASSUME Inv, CacheInv, NEW c \in Calls, Start(c) PROVE CacheInv'
  <1>1. Shape /\ Fits(c) /\ Touching(c)
    BY DEF Inv, OfCall, CacheInv
  <1>2. Turn(c)
    BY <1>1, FileTurn DEF FileStep
  <1>3. PICK n \in Targets(call[c].kind) :
            /\ call'[c].on = n /\ call'[c].kind = call[c].kind
            /\ call'[c].pc = IF Is(c, Readers) THEN "lookup" ELSE "resolve"
    BY <1>1 DEF Start, Shape
  <1>4. UNCHANGED <<files, cache>> /\ call[c].pc = "start"
    BY DEF Start, At
  <1>5. Looking(c)'
    <2>1. Is(c, Readers) => n = Target /\ n \in Names
      BY FileToolsAssumption DEF Targets, Is, Readers
    <2> QED BY <1>3, <2>1 DEF Looking, Is, ReaderPcs
  <1>6. Reading(c)' /\ Tells(c)
    BY <1>3 DEF Reading, Tells
  <1>7. Touching(c)'
    <2>1. Is(c, {"move"}) => n = Target
      BY DEF Targets, Is
    <2> QED BY <1>1, <1>3, <1>4, <2>1 DEF Touching, Is, Answers
  <1> QED BY <1>1, <1>2, <1>4, <1>5, <1>6, <1>7, TurnKept

(* One that only looks, and so has only to keep what it sees.              *)
LEMMA LookKept ==
    ASSUME Inv, CacheInv, NEW c \in Calls, ReadStep(c), NEW pc, Leaves(c, pc), pc # "ok",
           pc = "relook" /\ Is(c, {"read_file"}) => call'[c].complete,
           Reading(c)', cache' \subseteq cache
    PROVE  CacheInv'
  <1>1. Shape /\ Fits(c) /\ Looking(c)
    BY DEF Inv, OfCall, CacheInv
  <1>2. Turn(c)
    BY <1>1, FileTurn DEF FileStep
  <1>3. Is(c, Readers) /\ call[c].on \in Names
    BY <1>1 DEF Looking, ReadStep, LookupHit, LookupMiss, LookFails, ReadFileStat,
       ReadFileLines, FileInfo, ListNames, ListSizes, SearchWithFd, SearchWithGrep,
       NativeSearchFiles, NativeGrepContent, Store, Looks, At, ReaderPcs
  <1>4. Looking(c)' /\ Touching(c)' /\ Tells(c)
    BY <1>3 DEF Leaves, Looking, Touching, Tells, Is, Readers
  <1> QED BY <1>1, <1>2, <1>4, TurnKept

LEMMA SeenAll ==
    ASSUME NEW c \in Calls, NEW names,
           Names \subseteq names \/ (names = {call[c].on} /\ Is(c, OfOneFile)),
           Looking(c), call[c].pc \in ReaderPcs,
           NEW pc, NEW b, See(c, View(names), b, pc), Shape, UNCHANGED files
    PROVE  Reading(c)'
  <1>1. Leaves(c, pc) /\ call'[c].seen = View(names)
    BY SeeLeaves
  <1>2. Subject(call[c].kind, call[c].on) \subseteq names
    BY DEF Subject, Looking, Is
  <1>3. ASSUME NEW n \in Subject(call[c].kind, call[c].on) PROVE Saw(call'[c].seen, n) = {files'[n]}
    BY <1>1, <1>2, SawView
  <1> QED BY <1>1, <1>3 DEF Reading, Leaves, Agrees

LEMMA SeenMore ==
    ASSUME NEW c \in Calls, NEW names, Reading(c), Looking(c), call[c].pc = "relook", NEW pc, NEW b,
           b => call[c].complete, See(c, call[c].seen \cup View(names), b, pc),
           Shape, UNCHANGED files
    PROVE  Reading(c)'
  <1>1. Leaves(c, pc) /\ call'[c].seen = call[c].seen \cup View(names) /\ call'[c].complete = b
    BY SeeLeaves
  <1>2. \A d \in Calls \ {c} : call'[d] = call[d]
    BY DEF See, Shape
  <1>3. \A d \in Calls : call'[d].kind = call[d].kind
    BY <1>1, <1>2 DEF Leaves
  <1>4. PICK key, seen : key = Key(c) /\ seen = call[c].seen \cup View(names) /\ key = Key(c)'
    BY <1>1 DEF Key, Leaves, Is
  <1>5. ASSUME call[c].complete, NEW n \in Subject(call[c].kind, call[c].on)
        PROVE  Agrees(seen, n, key, c)'
    <2>1. Agrees(call[c].seen, n, key, c) /\ n \in Names
      BY <1>4, <1>5 DEF Reading, Looking, ReaderPcs, Subject
    <2>2. CASE Saw(call[c].seen, n) = {files[n]}
      <3>1. Saw(seen, n) = {files[n]}
        BY <1>4, <2>2, SawMore
      <3> QED BY <3>1 DEF Agrees
    <2>3. CASE Excused(n, key, c)
      <3>1. files[n].by \in Calls
        BY <2>1, <2>3 DEF Excused, Shape, Content
      <3>2. ~Promised(call[c].kind, n, key)
        BY DEF Looking, ReaderPcs, Is, Readers, Promised
      <3> QED BY <1>2, <1>3, <2>3, <3>1, <3>2 DEF Agrees, Excused
    <2> QED BY <2>1, <2>2, <2>3 DEF Agrees
  <1> QED BY <1>1, <1>4, <1>5 DEF Reading, Leaves

(* One that is answered, and has not changed files, or has failed.         *)
LEMMA EndKept ==
    ASSUME Inv, CacheInv, NEW c \in Calls, FileStep(c), NEW pc \in Answers, Answer(c, pc),
           pc = "ok" => call[c].kind \notin Changers, cache' \subseteq cache
    PROVE  CacheInv'
  <1>1. Shape /\ Turn(c)
    BY FileTurn DEF Inv, OfCall
  <1>2. call'[c].pc = pc
    BY <1>1, AnswerIs
  <1>3. Tells(c)
    BY <1>2 DEF Tells
  <1> QED BY <1>1, <1>2, <1>3, AnsweredKept, TurnKept

LEMMA StoreKept == ASSUME Inv, CacheInv, NEW c \in Calls, Store(c) PROVE CacheInv'
  <1>1. Shape /\ Turn(c)
    BY FileTurn DEF Inv, OfCall, FileStep, ReadStep
  <1>2. PICK pc \in Answers : Answer(c, pc)
    BY DEF Store, Answers
  <1>3. call[c].pc = "store" /\ Is(c, Readers) /\ call[c].on \in Names /\ Reading(c)
    BY DEF Store, At, CacheInv, Looking, ReaderPcs
  <1>4. call'[c].pc = pc /\ (pc = "ok" => call[c].kind \notin Changers)
    BY <1>1, <1>2, <1>3, AnswerIs DEF Is, Readers, Changers
  <1>5. CASE cache' = cache
    BY <1>2, <1>4, <1>5, EndKept DEF FileStep, ReadStep
  <1> DEFINE new == [key |-> Key(c), seen |-> call[c].seen, by |-> c]
  <1>6. CASE call[c].complete /\ CacheSet(new)
    <2>1. \A e \in cache' : e \in cache \/ e = new
      BY <1>6 DEF CacheSet, Without
    <2>2. PICK key, seen : key = Key(c) /\ seen = call[c].seen
      OBVIOUS
    <2>3. Subject(key.tool, key.on) = Subject(call[c].kind, call[c].on)
      BY <2>2 DEF Subject, Key, Is
    <2>4. Subject(key.tool, key.on) \subseteq Names
      BY <1>3, <2>3 DEF Subject
    <2>5. ASSUME NEW n \in Subject(key.tool, key.on) PROVE Agrees(seen, n, key, c)'
      <3>1. Agrees(seen, n, key, c) /\ n \in Names
        BY <1>3, <1>6, <2>2, <2>3, <2>4 DEF Reading
      <3>2. ~Promised(call[c].kind, n, key)
        BY <1>3 DEF Promised, Is, Readers
      <3> QED BY <1>1, <3>1, <3>2, AgreesStill
    <2>6. \A e : e = new => Entered(e)'
      BY <2>2, <2>4, <2>5 DEF Entered
    <2>7. Tells(c)
      BY <1>4 DEF Tells
    <2> HIDE DEF new
    <2> QED BY <1>1, <1>4, <2>1, <2>6, <2>7, AnsweredKept, TurnKept
  <1> QED BY <1>5, <1>6 DEF Store, Keep

LEMMA ReadKept == ASSUME Inv, CacheInv, NEW c \in Calls, ReadStep(c) PROVE CacheInv'
  <1>1. Shape /\ Looking(c) /\ Reading(c) /\ FileStep(c)
    BY DEF Inv, CacheInv, FileStep
  <1>2. CASE Store(c)
    BY <1>2, StoreKept
  <1>3. CASE ~Store(c)
    <2>1. call[c].pc \in ReaderPcs /\ UNCHANGED files /\ cache' \subseteq cache
      BY <1>3 DEF ReadStep, LookupHit, LookupMiss, LookFails, ReadFileStat,
         ReadFileLines, FileInfo, ListNames, ListSizes, SearchWithFd, SearchWithGrep,
         NativeSearchFiles, NativeGrepContent, NativeFinds, Looks, At, ReaderPcs,
         Without
    <2>2. Is(c, Readers)
      BY <1>1, <2>1 DEF Looking
    <2>3. \A pc \in Answers : Answer(c, pc) => CacheInv'
      BY <1>1, <2>1, <2>2, EndKept DEF Is, Readers, Changers
    \* What the step has seen, and how far it believes that.
    <2> DEFINE Sees(v, b, pc) ==
                 See(c, v, b, pc) /\ pc # "ok" /\ (pc = "relook" /\ Is(c, {"read_file"}) => b)
    <2>4. ASSUME NEW b, NEW pc, NEW names, Sees(View(names), b, pc),
                 names = Names \/ (names = {call[c].on} /\ Is(c, OfOneFile))
          PROVE  CacheInv'
      BY <1>1, <2>1, <2>4, SeenAll, SeeLeaves, LookKept
    <2>5. ASSUME NEW b, NEW pc, NEW names, Sees(call[c].seen \cup View(names), b, pc),
                 call[c].pc = "relook", b => call[c].complete
          PROVE  CacheInv'
      BY <1>1, <2>1, <2>5, SeenMore, SeeLeaves, LookKept
    <2>6. ASSUME NEW v, NEW b, NEW pc, Sees(v, b, pc), pc \in {"relook", "store"} => ~b
          PROVE  CacheInv'
      <3>1. Leaves(c, pc) /\ call'[c].complete = b
        BY <1>1, <2>6, SeeLeaves
      <3>2. Reading(c)'
        BY <2>6, <3>1 DEF Reading, Leaves
      <3> QED BY <2>1, <2>6, <3>1, <3>2, LookKept
    <2>7. CASE LookupMiss(c)
      <3>1. Leaves(c, "look")
        BY <1>1, <2>7, GotoLeaves DEF LookupMiss
      <3>2. Reading(c)'
        BY <3>1 DEF Reading, Leaves
      <3> QED BY <2>1, <3>1, <3>2, LookKept
    <2>8. CASE LookupHit(c) \/ LookFails(c)
      BY <2>3, <2>8 DEF LookupHit, LookFails, Answers
    <2>9. CASE ReadFileStat(c) \/ FileInfo(c)
      <3>1. Is(c, OfOneFile) /\ \E pc \in {"relook", "store"} : See(c, View({call[c].on}), TRUE, pc)
        BY <2>9 DEF ReadFileStat, FileInfo, Looks, Is, OfOneFile
      <3> QED BY <2>4, <3>1
    <2>10. CASE ReadFileLines(c)
      <3>1. call[c].pc = "relook" /\ Is(c, {"read_file"}) /\ call[c].complete
        BY <1>1, <2>10 DEF ReadFileLines, At, Looking
      <3> QED BY <2>3, <2>5, <2>10, <3>1 DEF ReadFileLines, Answers
    <2>11. CASE ListNames(c)
      <3>1. ~Is(c, {"read_file"})
        BY <2>11 DEF ListNames, Looks, Is
      <3> QED BY <2>4, <2>6, <2>11, <3>1 DEF ListNames
    <2>12. CASE ListSizes(c)
      <3>1. call[c].pc = "relook" /\ ~Is(c, {"read_file"})
        BY <2>12 DEF ListSizes, At, Is
      <3>2. \E names : See(c, call[c].seen \cup View(names), call[c].complete, "store")
        BY <2>12 DEF ListSizes
      <3> QED BY <2>5, <3>1, <3>2
    <2>13. CASE SearchWithFd(c) \/ SearchWithGrep(c)
      BY <2>4, <2>6, <2>13 DEF SearchWithFd, SearchWithGrep, EngineFinds
    <2>14. CASE NativeSearchFiles(c) \/ NativeGrepContent(c)
      BY <2>3, <2>4, <2>6, <2>14 DEF NativeSearchFiles, NativeGrepContent, NativeFinds,
         Answers
    <2> QED BY <1>3, <2>7, <2>8, <2>9, <2>10, <2>11, <2>12, <2>13, <2>14 DEF ReadStep
  <1> QED BY <1>2, <1>3

(* A writer that goes on: what it has written lies where it will look.     *)
WriterPcs == {"resolve", "consent", "hop", "manifest", "stage", "inplace", "filling",
              "change", "stat", "settle"}

InPlaceOf(c) ==
    \A n \in Names : files'[n] = files[n] \/ n = call[c].on \/ (Is(c, {"move"}) /\ n = Source)

LEMMA WriterKept ==
    ASSUME Inv, CacheInv, NEW c \in Calls, FileStep(c), call[c].pc \in WriterPcs,
           NEW pc \in WriterPcs, Leaves(c, pc), InPlaceOf(c), UNCHANGED cache
    PROVE  CacheInv'
  <1>1. Shape /\ Turn(c) /\ Touching(c)
    BY FileTurn DEF Inv, OfCall, CacheInv
  <1>2. Looking(c)' /\ Reading(c)' /\ Tells(c)
    BY DEF Leaves, Looking, Reading, Tells, ReaderPcs, WriterPcs
  <1>3. Touching(c)'
    BY <1>1 DEF Touching, Leaves, Is, WriterPcs, Answers, InPlaceOf
  <1> QED BY <1>1, <1>2, <1>3, TurnKept

(* One that has done its work drops what it promised to drop.              *)
LEMMA DroppedKept ==
    ASSUME Inv, CacheInv, NEW c \in Calls, FileStep(c), NEW keys, Invalidate(c, keys),
           call[c].kind \in Changers => keys = Dropped(c), call[c].pc \notin Answers
    PROVE  CacheInv'
  <1>1. Shape /\ Turn(c) /\ Touching(c)
    BY FileTurn DEF Inv, OfCall, CacheInv
  <1>2. call'[c].pc = "ok" /\ cache' = Without(keys) /\ UNCHANGED files
    BY <1>1, InvalidateIs DEF Invalidate
  <1>3. call'[c].during = Active \ {c}
    BY <1>1 DEF Invalidate, Answered, Call0, Shape
  <1>4. ASSUME NEW e \in cache, NEW n \in Names, files[n].by = c, call[c].kind \in Changers,
               Promised(call[c].kind, n, e.key)
        PROVE  e.key \in keys
    <2>1. e.key.spell = "plain" /\ keys = Dropped(c)
      BY <1>4 DEF Promised
    <2>2. CASE Is(c, {"write_file", "append"})
      BY <2>1, <2>2 DEF Dropped, KeysWithDirectory, Is
    <2>3. CASE Is(c, {"copy", "move", "delete_path"})
      <3>1. e.key.on = n
        BY <1>4, <2>3 DEF Promised, Is
      <3>2. n = call[c].on \/ (Is(c, {"copy", "move"}) /\ n = Source)
        BY <1>1, <1>4, <2>3 DEF Touching, Is
      <3>3. e.key \in KeysWith(n)
        BY <2>1, <3>1 DEF KeysWith
      <3>4. ~Is(c, {"write_file", "append"})
        BY <2>3 DEF Is
      <3>5. CASE Is(c, {"copy", "move"})
        <4>1. Dropped(c) = KeysWith(Source) \cup KeysWith(call[c].on)
          BY <3>5 DEF Dropped, Is
        <4> QED BY <2>1, <3>2, <3>3, <4>1
      <3>6. CASE ~Is(c, {"copy", "move"})
        <4>1. Dropped(c) = KeysWith(call[c].on)
          BY <2>3, <3>6 DEF Dropped, Is
        <4> QED BY <2>1, <3>2, <3>3, <3>6, <4>1
      <3> QED BY <3>5, <3>6
    <2> QED BY <1>4, <2>2, <2>3 DEF Is, Changers
  <1>5. Tells(c) /\ cache' \subseteq cache
    BY <1>2, <1>3, <1>4 DEF Tells, Without
  <1>6. Looking(c)' /\ Reading(c)' /\ Touching(c)'
    BY <1>2, AnsweredKept DEF Answers
  <1> QED BY <1>1, <1>5, <1>6, TurnKept

LEMMA WriteKept == ASSUME Inv, CacheInv, NEW c \in Calls, WriteStep(c) PROVE CacheInv'
  <1>1. Shape /\ Touching(c) /\ FileStep(c)
    BY DEF Inv, CacheInv, FileStep
  <1>2. CASE Answer(c, "failed") /\ UNCHANGED cache
    BY <1>1, <1>2, EndKept DEF Answers
  <1>3. ASSUME NEW pc \in WriterPcs, Goto(c, pc), call[c].pc \in WriterPcs, InPlaceOf(c),
               UNCHANGED cache
        PROVE  CacheInv'
    BY <1>1, <1>3, GotoLeaves, WriterKept
  <1>4. UNCHANGED files => InPlaceOf(c)
    BY DEF InPlaceOf
  <1>5. \A how : files' = [files EXCEPT ![call[c].on] = how] => InPlaceOf(c)
    BY DEF InPlaceOf
  <1>6. CASE Resolve(c)
    <2>1. CASE call' = [call EXCEPT ![c].existed = Exists(call[c].on), ![c].pc = "consent"]
      <3>1. Leaves(c, "consent")
        BY <1>1, <2>1 DEF Shape, Leaves, Fields
      <3>2. UNCHANGED <<files, cache>> /\ call[c].pc \in WriterPcs /\ "consent" \in WriterPcs
        BY <1>6 DEF Resolve, At, WriterPcs
      <3> QED BY <1>1, <1>4, <3>1, <3>2, WriterKept
    <2> QED BY <1>2, <1>6, <2>1 DEF Resolve
  <1>7. CASE Consent(c)
    <2>1. NextAfterConsent(c) \in WriterPcs
      BY DEF NextAfterConsent, WriterPcs
    <2>2. call[c].pc \in WriterPcs /\ UNCHANGED <<files, cache>>
      BY <1>7 DEF Consent, At, WriterPcs
    <2> HIDE DEF NextAfterConsent
    <2> QED BY <1>2, <1>3, <1>4, <1>7, <2>1, <2>2 DEF Consent
  <1>8. CASE Stage(c) \/ InPlace(c) \/ Filled(c)
    <2>1. call[c].pc \in WriterPcs /\ UNCHANGED cache
      BY <1>8 DEF Stage, InPlace, Filled, At, WriterPcs
    <2>2. UNCHANGED files \/ \E how : files' = [files EXCEPT ![call[c].on] = how]
      BY <1>8 DEF Stage, InPlace, Filled
    <2>3. Answer(c, "failed") \/ \E pc \in {"stat", "inplace", "filling", "settle"} : Goto(c, pc)
      BY <1>8 DEF Stage, InPlace, Filled
    <2>4. {"stat", "inplace", "filling", "settle"} \subseteq WriterPcs
      BY DEF WriterPcs
    <2> QED BY <1>2, <1>3, <1>4, <1>5, <2>1, <2>2, <2>3, <2>4
  <1>9. CASE ChangeFails(c)
    BY <1>2, <1>9 DEF ChangeFails
  <1>10. CASE Move(c) \/ DeletePath(c)
    <2>1. call[c].pc = "change" /\ UNCHANGED cache /\ Goto(c, "settle")
      BY <1>10 DEF Move, DeletePath, Changes, At
    <2>2. {"change", "settle"} \subseteq WriterPcs
      BY DEF WriterPcs
    <2>3. CASE Move(c)
      <3>1. Is(c, {"move"})
        BY <2>3 DEF Move, Changes
      <3>2. call[c].on = Target
        BY <1>1, <2>1, <3>1 DEF Touching, Is, Answers
      <3> QED BY <1>1, <2>3, <3>2, <1>3, <2>1, <2>2 DEF Move, Changes, Shape, InPlaceOf
    <2>4. CASE DeletePath(c)
      <3>1. InPlaceOf(c)
        BY <1>5, <2>4 DEF DeletePath, Changes
      <3> QED BY <1>3, <2>1, <2>2, <3>1
    <2> QED BY <1>10, <2>3, <2>4
  <1>11. CASE MakeDirectory(c)
    <2>1. Answer(c, "ok") /\ call[c].kind \notin Changers /\ UNCHANGED cache
      BY <1>11 DEF MakeDirectory, Changes, Is, Changers
    <2> QED BY <1>1, <2>1, EndKept DEF Answers
  <1>12. CASE StatThenSettle(c)
    <2>1. CASE Invalidate(c, Dropped(c))
      <3>1. call[c].pc = "stat"
        BY <1>12 DEF StatThenSettle, At
      <3> QED BY <1>1, <2>1, <3>1, DroppedKept DEF Answers
    <2> QED BY <1>2, <1>12, <2>1 DEF StatThenSettle
  <1>13. CASE Settle(c)
    <2>1. call[c].pc = "settle" /\ Invalidate(c, Dropped(c))
      BY <1>13 DEF Settle, At
    <2> QED BY <1>1, <2>1, DroppedKept DEF Answers
  <1>14. CASE CacheInvalidate(c)
    <2>1. call[c].pc = "change" /\ call[c].kind \notin Changers
      BY <1>14 DEF CacheInvalidate, At, Is, Changers
    <2>2. PICK keys : Invalidate(c, keys)
      <3> HIDE DEF Invalidate
      <3> QED BY <1>14 DEF CacheInvalidate
    <2> QED BY <1>1, <2>1, <2>2, DroppedKept DEF Answers
  <1> QED BY <1>6, <1>7, <1>8, <1>9, <1>10, <1>11, <1>12, <1>13, <1>14 DEF WriteStep

(* A transfer changes its own record, and at most tells others that they   *)
(* share its name.                                                         *)
OwnRecord(c) ==
    (\A d \in Calls \ {c} : SameCall(d)) /\ call'[c].kind = call[c].kind

LEMMA OwnStepOwns ==
    ASSUME NEW c \in Calls, OwnStep(c) \/ Only(c) PROVE OwnRecord(c)
  BY DEF OwnStep, Only, OwnRecord, SameCall

LEMMA RecordOwns ==
    ASSUME Shape, NEW c \in Calls, NEW r, r.kind = call[c].kind, call' = [call EXCEPT ![c] = r]
    PROVE  OwnRecord(c)
  BY DEF OwnRecord, SameCall

LEMMA SharingOwns ==
    ASSUME Shape, NEW c \in Calls, NEW r, DOMAIN r = Fields, r.kind = call[c].kind,
           NEW name, NEW users, call' = Sharing([call EXCEPT ![c] = r], c, name, users)
    PROVE  OwnRecord(c)
  <1> DEFINE calls == [call EXCEPT ![c] = r]
  <1>1. /\ \A d \in Calls : DOMAIN calls[d] = Fields
        /\ \A d \in Calls \ {c} : calls[d] = call[d]
        /\ calls[c] = r
    BY DEF Shape
  <1> HIDE DEF calls
  <1>2. \A d \in Calls : call'[d] = calls[d] \/ call'[d] = [calls[d] EXCEPT !.shared = TRUE]
    BY DEF Sharing, calls
  <1>3. ASSUME NEW d \in Calls
        PROVE  /\ call'[d].kind = calls[d].kind /\ call'[d].pc = calls[d].pc
               /\ call'[d].on = calls[d].on /\ call'[d].spell = calls[d].spell
               /\ call'[d].seen = calls[d].seen /\ call'[d].complete = calls[d].complete
               /\ call'[d].during = calls[d].during
    <2>1. DOMAIN calls[d] = Fields
      BY <1>1
    <2>2. CASE call'[d] = calls[d]
      BY <2>2
    <2>3. CASE call'[d] = [calls[d] EXCEPT !.shared = TRUE]
      BY <2>1, <2>3 DEF Fields
    <2> QED BY <1>2, <2>3
  <1>4. \A d \in Calls \ {c} : SameCall(d)
    <2>1. ASSUME NEW d \in Calls \ {c} PROVE SameCall(d)
      <3>1. calls[d] = call[d] /\ d \in Calls
        BY <1>1
      <3>2. /\ call'[d].kind = calls[d].kind /\ call'[d].pc = calls[d].pc
            /\ call'[d].on = calls[d].on /\ call'[d].spell = calls[d].spell
            /\ call'[d].seen = calls[d].seen /\ call'[d].complete = calls[d].complete
            /\ call'[d].during = calls[d].during
        BY <1>3, <3>1
      <3> QED BY <3>1, <3>2 DEF SameCall
    <2> QED BY <2>1
  <1>5. call'[c].kind = call[c].kind
    BY <1>1, <1>3
  <1> QED BY <1>4, <1>5 DEF OwnRecord

LEMMA DownloadTurn ==
    ASSUME Inv, NEW c \in Calls, DownloadStepOf(c)
    PROVE  Turn(c) /\ Is(c, Transfers) /\ UNCHANGED cache
  <1>1. Is(c, Transfers) /\ UNCHANGED cache
    BY DEF DownloadStepOf, Backoff, HopUrlRefused, HopTargetRefused, HopUnresolved, HopOver,
       Request, RequestFails, Response, Open, Chunk, StreamFails, StreamEnds, Place,
       DownloadStep, Is, Transfers
  <1>2. Shape /\ Fits(c)
    BY DEF Inv, OfCall
  <1>3. \A n \in Names : files'[n] = files[n] \/ files'[n].by = c
    <2>1. CASE Place(c)
      <3>1. CASE UNCHANGED files
        BY <3>1
      <3>2. ASSUME NEW m, NEW how, files' = [files EXCEPT ![m] = Put(c, how)], NEW n \in Names
            PROVE  files'[n] = files[n] \/ files'[n].by = c
        BY <3>2 DEF Put
      <3>3. UNCHANGED files \/ \E m, how : files' = [files EXCEPT ![m] = Put(c, how)]
        BY <2>1 DEF Place
      <3> QED BY <3>2, <3>3
    <2>2. CASE ~Place(c)
      BY <2>2 DEF DownloadStepOf, Backoff, HopUrlRefused, HopTargetRefused, HopUnresolved,
         HopOver, Request, RequestFails, Response, Open, Chunk, StreamFails, StreamEnds
    <2> QED BY <2>1, <2>2
  <1>4. OwnRecord(c)
    <2>1. ASSUME NEW over, Fails(c, over) PROVE OwnRecord(c)
      BY <1>2, <2>1, FailsIs, OwnStepOwns
    <2>2. ASSUME NEW r, DOMAIN r = Fields, r.kind = call[c].kind, NEW over
          PROVE  DOMAIN Ended(r, over) = Fields /\ Ended(r, over).kind = call[c].kind
      BY <2>2, EndedIs
    <2>3. DOMAIN call[c] = Fields
      BY <1>2 DEF Shape
    <2>4. CASE HopUnresolved(c) \/ HopOver(c) \/ RequestFails(c)
      <3>1. \E over : Fails(c, over)
        <4> HIDE DEF Fails
        <4> QED BY <2>4 DEF HopUnresolved, HopOver, RequestFails
      <3> QED BY <2>1, <3>1
    <2>5. CASE HopUrlRefused(c) \/ HopTargetRefused(c)
      BY <1>2, <2>1, <2>5, RefusesIs, OwnStepOwns DEF HopUrlRefused, HopTargetRefused
    <2>6. CASE Backoff(c) \/ Chunk(c) \/ StreamEnds(c)
      BY <1>2, <2>6 DEF Backoff, Chunk, StreamEnds, Shape, OwnRecord, SameCall, Fields
    <2>7. CASE Request(c)
      <3>1. PICK t : call' = [call EXCEPT ![c].pc = "waiting", ![c].stamp = t]
        BY <2>7 DEF Request
      <3> QED BY <1>2, <3>1 DEF Shape, OwnRecord, SameCall, Fields
    <2>8. CASE Response(c)
      <3>1. CASE call' = [call EXCEPT ![c].pc = "hop", ![c].hop = @ + 1]
        BY <1>2, <3>1 DEF Shape, OwnRecord, SameCall, Fields
      <3> QED BY <1>2, <2>1, <2>8, <3>1, GotoIs, OwnStepOwns DEF Response
    <2>9. CASE StreamFails(c)
      <3>1. PICK over \in BOOLEAN, more \in {0, 1} :
               call' = [call EXCEPT ![c] = Ended([@ EXCEPT !.used = Charged(c) + more, !.got = 0], over)]
        BY <2>9 DEF StreamFails
      <3> DEFINE r == [call[c] EXCEPT !.used = Charged(c) + more, !.got = 0]
      <3>2. DOMAIN r = Fields /\ r.kind = call[c].kind
        BY <2>3
      <3>3. call' = [call EXCEPT ![c] = Ended(r, over)]
        BY <3>1
      <3> HIDE DEF r
      <3> QED BY <1>2, <2>2, <3>2, <3>3, RecordOwns
    <2>10. CASE Place(c)
      BY <1>2, <2>1, <2>10, AnswerIs, OwnStepOwns DEF Place
    <2>11. CASE Open(c)
      <3> DEFINE name == DownloadName(c)
                 users == UsersOf(name)
      <3>1. CASE call' = Sharing([call EXCEPT ![c].pc = "stream"], c, name, users)
        <4> DEFINE r == [call[c] EXCEPT !.pc = "stream"]
        <4>1. DOMAIN r = Fields /\ r.kind = call[c].kind /\ [call EXCEPT ![c].pc = "stream"] = [call EXCEPT ![c] = r]
          BY <2>3
        <4> HIDE DEF r, name, users
        <4> QED BY <1>2, <3>1, <4>1, SharingOwns
      <3>2. ASSUME NEW over,
                   call' = Sharing([call EXCEPT ![c] = Ended(@, over)], c, name, users)
            PROVE  OwnRecord(c)
        <4> DEFINE r == Ended(call[c], over)
        <4>1. DOMAIN r = Fields /\ r.kind = call[c].kind
          BY <2>2, <2>3
        <4>2. [call EXCEPT ![c] = Ended(@, over)] = [call EXCEPT ![c] = r]
          OBVIOUS
        <4> HIDE DEF r, name, users
        <4> QED BY <1>2, <3>2, <4>1, <4>2, SharingOwns
      <3> HIDE DEF users
      <3> QED BY <2>1, <2>11, <3>1, <3>2 DEF Open, users
    <2> QED BY <2>4, <2>5, <2>6, <2>7, <2>8, <2>9, <2>10, <2>11 DEF DownloadStepOf
  <1> QED BY <1>1, <1>3, <1>4 DEF Turn, OwnRecord

LEMMA ExtractTurn ==
    ASSUME Inv, NEW c \in Calls, ExtractStepOf(c)
    PROVE  Turn(c) /\ Is(c, Transfers) /\ UNCHANGED cache
  <1>1. Is(c, Transfers) /\ UNCHANGED cache
    BY DEF ExtractStepOf, ReadManifest, Reopen, ExtractMember, MemberFails,
       AllExtracted, ClearEntry, MoveEntry, Extracted, ExtractStep, Is, Transfers
  <1>2. Shape /\ DOMAIN call[c] = Fields
    BY DEF Inv, Shape
  <1>3. \A n \in Names : files'[n] = files[n] \/ files'[n].by = c
    <2>1. CASE ClearEntry(c) \/ MoveEntry(c)
      <3>1. UNCHANGED files \/ \E m, how : files' = [files EXCEPT ![m] = Put(c, how)]
        BY <2>1 DEF ClearEntry, MoveEntry
      <3> QED BY <1>2, <3>1 DEF Shape, Put
    <2>2. CASE ~(ClearEntry(c) \/ MoveEntry(c))
      BY <2>2 DEF ExtractStepOf, ReadManifest, Reopen, ExtractMember, MemberFails,
         AllExtracted, Extracted
    <2> QED BY <2>1, <2>2
  <1>4. OwnRecord(c)
    <2>1. \A pc : Answer(c, pc) => OwnRecord(c)
      BY <1>2, AnswerIs, OwnStepOwns
    <2>2. CASE ReadManifest(c)
      <3>1. CASE call' = [call EXCEPT ![c].pc = "reopen", ![c].zip = files[Archive]]
        BY <1>2, <3>1 DEF Shape, OwnRecord, SameCall, Fields
      <3> QED BY <2>1, <2>2, <3>1 DEF ReadManifest
    <2>3. CASE ExtractMember(c)
      <3>1. PICK todo, used : call' = [call EXCEPT ![c].todo = todo, ![c].used = used]
        BY <2>3 DEF ExtractMember
      <3> QED BY <1>2, <3>1 DEF Shape, OwnRecord, SameCall, Fields
    <2>4. CASE ClearEntry(c)
      <3>1. PICK m : call' = [call EXCEPT ![c].pc = "move", ![c].on = m]
        BY <2>4 DEF ClearEntry
      <3> QED BY <1>2, <3>1 DEF Shape, OwnRecord, SameCall, Fields
    <2>5. CASE MoveEntry(c)
      <3>1. ASSUME NEW todo, NEW placed,
                   call' = [call EXCEPT ![c].pc = "clear", ![c].todo = todo, ![c].placed = placed]
            PROVE  OwnRecord(c)
        BY <1>2, <3>1 DEF Shape, OwnRecord, SameCall
      <3>2. Answer(c, "failed") \/ \E todo, placed :
               call' = [call EXCEPT ![c].pc = "clear", ![c].todo = todo, ![c].placed = placed]
        BY <2>5 DEF MoveEntry, ExtractFails
      <3> QED BY <2>1, <3>1, <3>2
    <2>6. CASE AllExtracted(c)
      <3>1. ASSUME NEW todo, call' = [call EXCEPT ![c].pc = "clear", ![c].todo = todo]
            PROVE  OwnRecord(c)
        BY <1>2, <3>1 DEF Shape, OwnRecord, SameCall, Fields
      <3>2. Answer(c, "failed") \/ \E todo : call' = [call EXCEPT ![c].pc = "clear", ![c].todo = todo]
        BY <2>6 DEF AllExtracted, ExtractFails
      <3> QED BY <2>1, <3>1, <3>2
    <2>7. CASE MemberFails(c) \/ Extracted(c)
      BY <2>1, <2>7 DEF MemberFails, Extracted, ExtractFails
    <2>8. CASE Reopen(c)
      <3>1. ASSUME NEW t, NEW name, NEW users,
                   call' = Sharing([call EXCEPT ![c].pc = "members", ![c].stamp = t, ![c].todo = Members],
                                   c, name, users)
            PROVE  OwnRecord(c)
        <4> DEFINE r == [call[c] EXCEPT !.pc = "members", !.stamp = t, !.todo = Members]
        <4>1. /\ DOMAIN r = Fields /\ r.kind = call[c].kind
              /\ [call EXCEPT ![c].pc = "members", ![c].stamp = t, ![c].todo = Members] = [call EXCEPT ![c] = r]
          BY <1>2 DEF Fields
        <4> HIDE DEF r
        <4> QED BY <1>2, <3>1, <4>1, SharingOwns
      <3>2. \/ Answer(c, "failed")
            \/ \E t, name, users :
                  call' = Sharing([call EXCEPT ![c].pc = "members", ![c].stamp = t, ![c].todo = Members],
                                  c, name, users)
        BY <2>8 DEF Reopen
      <3> QED BY <2>1, <3>1, <3>2
    <2> QED BY <2>2, <2>3, <2>4, <2>5, <2>6, <2>7, <2>8 DEF ExtractStepOf
  <1> QED BY <1>1, <1>3, <1>4 DEF Turn, OwnRecord

LEMMA CacheNext == Inv /\ CacheInv /\ Inv' /\ [Next]_fileVars => CacheInv'
  <1> SUFFICES ASSUME Inv, CacheInv, Inv', [Next]_fileVars PROVE CacheInv'
    OBVIOUS
  <1>1. ASSUME NEW c \in Calls, FileStep(c) PROVE CacheInv'
    BY <1>1, StartKept, ReadKept, WriteKept DEF FileStep
  <1>2. ASSUME NEW c \in Calls, DownloadStepOf(c) \/ ExtractStepOf(c) PROVE CacheInv'
    BY <1>2, DownloadTurn, ExtractTurn, TransferKept
  <1>3. CASE UNCHANGED fileVars
    <2>1. files' = files /\ cache' = cache /\ call' = call
      BY <1>3 DEF fileVars
    <2>2. ASSUME NEW c \in Calls PROVE Looking(c)' /\ Touching(c)' /\ Key(c)' = Key(c)
      BY <2>1 DEF CacheInv, Looking, Touching, Is, Key
    <2>3. ASSUME NEW seen, NEW n, NEW key, NEW by, Agrees(seen, n, key, by)
          PROVE  Agrees(seen, n, key, by)'
      BY <2>1, <2>3 DEF Agrees, Excused
    <2>4. ASSUME NEW c \in Calls PROVE Reading(c)'
      <3>1. PICK seen, key : seen = call[c].seen /\ key = Key(c)
        OBVIOUS
      <3>2. Reading(c) /\ seen = call'[c].seen /\ key = Key(c)'
        BY <2>1, <2>2, <3>1 DEF CacheInv
      <3> QED BY <2>1, <3>1, <3>2 DEF Reading, Agrees, Excused
    <2>5. ASSUME NEW e \in cache PROVE Entered(e)'
      BY <2>3 DEF CacheInv, Entered
    <2> QED BY <2>1, <2>2, <2>4, <2>5 DEF CacheInv
  <1> QED BY <1>1, <1>2, <1>3 DEF Next, CallStep, AllAnswered

LEMMA CacheInit == Init => CacheInv
  <1> SUFFICES ASSUME Init PROVE CacheInv
    OBVIOUS
  <1>1. cache = {} /\ \A n \in Names : files[n].by = "init"
    BY DEF Init, Put
  <1>2. \A c \in Calls : call[c].pc \in {"start", "ok"}
    BY DEF Init, Call0
  <1>3. "init" \notin Calls
    BY FileToolsAssumption
  <1>4. \A c \in Calls : Looking(c) /\ Reading(c)
    BY <1>2 DEF Looking, Reading, ReaderPcs
  <1>5. \A c \in Calls : Touching(c)
    BY <1>1, <1>2, <1>3 DEF Touching, Answers
  <1> QED BY <1>1, <1>4, <1>5 DEF CacheInv

(* A result in the cache agrees with the files it speaks of, unless the    *)
(* last change of such a file was made by a tool that promises nothing, is *)
(* not acknowledged, or was acknowledged while the reader still ran        *)
(* (src/src/wrap.ts:141, src/src/tools/files.ts:253).                      *)
THEOREM CacheAgrees == Spec => []CachedTruth
  <1>1. CacheInv => CachedTruth
    BY DEF CacheInv, Entered, Agrees, Excused, Saw, CachedTruth
  <1> QED BY <1>1, InvHolds, CacheInit, CacheNext, PTL DEF Spec
=============================================================================
