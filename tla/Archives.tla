------------------------------ MODULE Archives ------------------------------
(***************************************************************************)
(* extract_archive: src/src/tools/archive.ts and src/src/zip-policy.ts.    *)
(*                                                                         *)
(* The manifest is read and checked in full; then the archive is opened    *)
(* again, every member is inflated into a staging directory of the output, *)
(* and what lies there is moved over the old entries one by one.  The name *)
(* of the staging directory is the millisecond.                            *)
(***************************************************************************)
EXTENDS Downloads

CONSTANT MaxExpanded    \* MCP_ARCHIVE_MAX_EXPANDED_BYTES

ASSUME ArchivesAssumption == MaxExpanded \in Nat

Members == Names \ {Archive}
StagingDir(c) == <<"extract", Archive, call[c].stamp, 0>>
ExtractStep(c, pc) == At(c, pc) /\ Is(c, {"extract_archive"})

(* What a zip is: the archive of the beginning, or one that was compressed *)
(* or downloaded and is whole.                                             *)
IsZip(content) == /\ content.is = "whole"
                  /\ content.by # "init" =>
                        call[content.by].kind \in {"compress_archive", "download_file"}

(* A failure removes the staging directory and all it holds.               *)
ExtractFails(c) == Answer(c, "failed") /\ CleanupStaging(StagingDir(c))

-----------------------------------------------------------------------------

(* readManifest: members, names, kinds and budgets; nothing is written.    *)
ReadManifest(c) ==
    /\ ExtractStep(c, "manifest")
    /\ \/ Answer(c, "failed")
       \/ /\ IsZip(files[Archive])
          /\ call' = [call EXCEPT ![c].pc = "reopen", ![c].zip = files[Archive]]
    /\ UNCHANGED <<files, cache, staging>>

DirUsersOf(name) == {d \in Calls : call[d].pc \in {"members", "clear", "move"} /\ StagingDir(d) = name}

(* extractArchive opens the file again and makes the staging directory,    *)
(* or takes the one that is there.                                         *)
Reopen(c) ==
    /\ ExtractStep(c, "reopen")
    /\ \/ Answer(c, "failed") /\ UNCHANGED staging
       \/ /\ Exists(Archive)
          /\ \E t \in 1..MaxStamp :
                LET name == <<"extract", Archive, t, 0>>
                    mine == [call EXCEPT ![c].pc = "members", ![c].stamp = t, ![c].todo = Members]
                IN /\ call' = Sharing(mine, c, name, DirUsersOf(name))
                   /\ staging' = IF name \in DOMAIN staging THEN staging ELSE Added(name, c, {})
    /\ UNCHANGED <<files, cache>>

(* extractMember: header, name and bounds are compared with the manifest;  *)
(* the bytes that really come are counted, whatever the manifest declared, *)
(* and one over the budget is not written.  The file is created            *)
(* exclusively.  A directory that a call which shares it has removed comes *)
(* back with the mkdir before it.                                          *)
MemberFits(c, bytes) == call[c].used + bytes <= MaxExpanded

ExtractMember(c) ==
    LET name == StagingDir(c)
    IN /\ ExtractStep(c, "members")
       /\ \E m \in call[c].todo, bytes \in 1..MaxExpanded :
             /\ MemberFits(c, bytes)
             /\ name \in DOMAIN staging => m \notin staging[name].items
             /\ staging' = IF name \in DOMAIN staging
                           THEN [staging EXCEPT ![name].items = @ \cup {m}]
                           ELSE Added(name, c, {m})
             /\ call' = [call EXCEPT ![c].todo = @ \ {m}, ![c].used = @ + bytes]
       /\ UNCHANGED <<files, cache>>

(* Mutant of MemberFails: the member is left out.                          *)
MemberSkipped(c) ==
    /\ ExtractStep(c, "members")
    /\ \E m \in call[c].todo : call' = [call EXCEPT ![c].todo = @ \ {m}]
    /\ UNCHANGED <<files, cache, staging>>

(* One that cannot be extracted as the manifest says, or the signal, seen  *)
(* before each member, ends the call.                                      *)
MemberFails(c) ==
    /\ ExtractStep(c, "members")
    /\ call[c].todo # {}
    /\ ExtractFails(c)
    /\ UNCHANGED <<files, cache>>

(* readdir of the staging directory: what is to be placed.                 *)
AllExtracted(c) ==
    LET name == StagingDir(c)
    IN /\ ExtractStep(c, "members")
       /\ call[c].todo = {}
       /\ \/ /\ name \in DOMAIN staging
             /\ call' = [call EXCEPT ![c].pc = "clear", ![c].todo = staging[name].items]
             /\ UNCHANGED staging
          \/ ExtractFails(c)
       /\ UNCHANGED <<files, cache>>

(* The old entry is removed (a failure of that is ignored), the new one    *)
(* renamed into its place; between the two there is none.                  *)
ClearEntry(c) ==
    /\ ExtractStep(c, "clear")
    /\ \E m \in call[c].todo :
          /\ \/ UNCHANGED files
             \/ Exists(m) /\ files' = [files EXCEPT ![m] = Put(c, "gone")]
          /\ call' = [call EXCEPT ![c].pc = "move", ![c].on = m]
    /\ UNCHANGED <<cache, staging>>

MoveEntry(c) ==
    LET name == StagingDir(c)
        m == call[c].on
    IN /\ ExtractStep(c, "move")
       /\ UNCHANGED cache
       /\ \/ /\ name \in DOMAIN staging /\ m \in staging[name].items
             /\ files' = [files EXCEPT ![m] = Put(c, "whole")]
             /\ staging' = [staging EXCEPT ![name].items = @ \ {m}]
             /\ call' = [call EXCEPT ![c].pc = "clear", ![c].todo = @ \ {m}, ![c].placed = @ \cup {m}]
          \/ ExtractFails(c) /\ UNCHANGED files

Extracted(c) ==
    /\ ExtractStep(c, "clear")
    /\ call[c].todo = {}
    /\ Answer(c, "ok")
    /\ CleanupStaging(StagingDir(c))
    /\ UNCHANGED <<files, cache>>

ExtractStepOf(c) ==
    \/ ReadManifest(c) \/ Reopen(c) \/ ExtractMember(c) \/ MemberFails(c)
    \/ AllExtracted(c) \/ ClearEntry(c) \/ MoveEntry(c) \/ Extracted(c)

-----------------------------------------------------------------------------
CallStep(c) == FileStep(c) \/ DownloadStepOf(c) \/ ExtractStepOf(c)

(* The model ends when every call has been answered; any other state in    *)
(* which nothing can happen is a deadlock.                                 *)
AllAnswered == (\A c \in Calls : call[c].pc \in {"ok", "failed"}) /\ UNCHANGED fileVars

Next == (\E c \in Calls : CallStep(c)) \/ AllAnswered

Spec == Init /\ [][Next]_fileVars

-----------------------------------------------------------------------------
(* Properties.                                                             *)

TypeOK == /\ files \in [Names -> Content]
          /\ \A c \in Calls : call[c].tries \in 0..MaxRetries /\ call[c].hop \in 0..MaxRedirects
          /\ Cardinality(cache) <= MaxEntries

(* What a tool promises to have dropped when it answers that it changed n: *)
(* write_file (src/src/tools/files.ts:253) everything about the file and   *)
(* its directory, copy_move (src/src/tools/manage.ts:114) and delete_path  *)
(* (src/src/tools/manage.ts:206) what was asked about the path itself, if  *)
(* the path is spelled the same; the others promise nothing.               *)
Promised(kind, n, key) ==
    /\ key.spell = "plain"
    /\ \/ kind \in {"write_file", "append"}
       \/ kind \in {"copy", "move", "delete_path"} /\ key.on = n

(* A result in the cache (src/src/wrap.ts:141) agrees with the files it    *)
(* speaks of, unless the last change of such a file was made by a tool     *)
(* that does not promise to drop the result, is not acknowledged (in       *)
(* progress, or failed half-way), or was acknowledged while the reader     *)
(* that stored the result was still running.                               *)
CachedTruth ==
    \A e \in cache : \A n \in Subject(e.key.tool, e.key.on) :
        LET saw == {x[2] : x \in {y \in e.seen : y[1] = n}}
            w   == files[n].by
        IN \/ saw = {files[n]}
           \/ /\ w # "init"
              /\ \/ ~Promised(call[w].kind, n, e.key)
                 \/ call[w].pc # "ok"
                 \/ e.by \in call[w].during

(* A file is only ever replaced by a download whose whole body has come    *)
(* (src/src/network-policy.ts:349), an extraction that succeeded has put   *)
(* every member of its manifest in its place, and one that fails before    *)
(* every member was extracted has touched nothing                          *)
(* (src/src/zip-policy.ts:465) -- for calls whose staging name, which is   *)
(* only a millisecond, was their own.                                      *)
TransfersWhole ==
    /\ \A n \in Names : LET w == files[n].by
                        IN w # "init" /\ files[n].is = "part"
                              => call[w].kind # "download_file" \/ call[w].shared
    /\ \A c \in Calls : Is(c, {"extract_archive"}) /\ ~call[c].shared =>
          /\ At(c, "ok") => call[c].placed = Members
          /\ (\E n \in Names : files[n].by = c) => call[c].placed \cup call[c].todo = Members

(* "All failing paths clean staging" (src/src/network-policy.ts:8,         *)
(* src/src/zip-policy.ts:7): what lies in staging belongs to a call that   *)
(* runs, or its removal was tried and failed.                              *)
NoStagingLeft ==
    \A name \in DOMAIN staging :
        \/ staging[name].stuck
        \/ \E c \in Active : name = IF Is(c, {"extract_archive"}) THEN StagingDir(c) ELSE DownloadName(c)

(* "Retries cannot go around the budget" (src/src/network-policy.ts:528):  *)
(* what a download has put on disk over all its attempts, those after a    *)
(* refusal or a cancellation included, stays within the budget.            *)
BudgetShared ==
    \A c \in Calls : Is(c, {"download_file"}) => call[c].written <= MaxBytes

(* What src/src/tools/archive.ts:35 says and the code does not do: a       *)
(* failure that is not to be repeated (a refused target, credentials in    *)
(* the URL) takes no part in withRetry.  It is thrown within the function  *)
(* that withRetry repeats (src/src/adaptive.ts:41).                        *)
RefusedNotRetried == \A c \in Calls : ~(At(c, "backoff") /\ call[c].refused)
=============================================================================
