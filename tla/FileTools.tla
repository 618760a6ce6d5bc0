----------------------------- MODULE FileTools -----------------------------
(***************************************************************************)
(* The file tools of one server and the cache of results in front of them: *)
(* src/src/wrap.ts, src/src/cache.ts, src/src/path-policy.ts,              *)
(* src/src/tools/files.ts, src/src/tools/manage.ts,                        *)
(* src/src/tools/search.ts (as it runs outside Windows).                   *)
(*                                                                         *)
(* One directory with a few names stands for the file system.  What is     *)
(* under a name is the call that put it there and whether it is whole, a   *)
(* part (a write in place that has not ended), or gone.  A tool call is a  *)
(* record; between two of its steps lies an await, so that the steps of    *)
(* several calls interleave.  The downloads and the archives change the    *)
(* same directory: modules Downloads and Archives.                         *)
(***************************************************************************)
EXTENDS Naturals, Functions, FiniteSets

CONSTANTS Calls,        \* the tool calls
          Names,        \* the names in the directory
          Archive,      \* the name of the zip file among them
          Target, Source,   \* two more: what is changed, what copy_move takes
          Plans,        \* which tools the calls are, in the cases looked at
          MaxEntries    \* capacity of the cache

VARIABLES files,        \* name -> [by |-> who put it there, is |-> ...]
          cache,        \* the cached results
          call,         \* call -> its record
          staging       \* staging name -> what lies under it (Downloads, Archives)

fileVars == <<files, cache, call, staging>>

Readers  == {"read_file", "file_info", "list_directory", "search_files", "grep_content"}
Writers  == {"write_file", "append", "copy", "move", "delete_path", "make_directory",
             "compress_archive", "cache_invalidate"}
Transfers == {"download_file", "extract_archive"}
Kinds == Readers \cup Writers \cup Transfers \cup {"idle"}
Spellings == {"plain", "other"}     \* two ways to write the path of one file

ASSUME FileToolsAssumption ==
    /\ {Archive, Target, Source} \subseteq Names /\ "init" \notin Calls
    /\ Plans \subseteq [Calls -> Kinds]
    /\ MaxEntries \in Nat \ {0}

Content == [by : Calls \cup {"init"}, is : {"whole", "part", "gone"}]
Put(c, how) == [by |-> c, is |-> how]
Exists(n) == files[n].is # "gone"

(* What a reader speaks of: the file, or the directory with all it holds.  *)
OfOneFile == {"read_file", "file_info"}
Subject(kind, n) == IF kind \in OfOneFile THEN {n} ELSE Names

Call0(kind) ==
    [kind |-> kind, pc |-> IF kind = "idle" THEN "ok" ELSE "start",
     on |-> Archive, spell |-> "plain", existed |-> FALSE,
     seen |-> {}, complete |-> TRUE,        \* readers: <<name, content>> seen
     during |-> {},                         \* calls that ran when the cache was invalidated
     over |-> FALSE,                        \* seen to be cancelled, or past the deadline
     refused |-> FALSE,                     \* history: the attempt is not to be repeated
     stamp |-> 0, hop |-> 0, tries |-> 0,   \* the name of the staging file, redirects, retries
     got |-> 0, used |-> 0, written |-> 0,  \* bytes of this attempt, of all, and on disk
     todo |-> {}, placed |-> {}, zip |-> Put("init", "whole"),
     shared |-> FALSE]                      \* the staging name was not its own

Init == /\ files \in {[n \in Names |-> IF n \in missing THEN Put("init", "gone") ELSE Put("init", "whole")]
                        : missing \in {{}, {Target}}}
        /\ cache = {}
        /\ call \in {[c \in Calls |-> Call0(plan[c])] : plan \in Plans}
        /\ staging = <<>>

Active == {c \in Calls : call[c].pc \notin {"start", "ok", "failed"}}
At(c, pc) == call[c].pc = pc
Is(c, kinds) == call[c].kind \in kinds
Goto(c, pc) == call' = [call EXCEPT ![c].pc = pc]

(* A call that is answered forgets all but what the properties speak of.   *)
Answered(r, pc) == [Call0(r.kind) EXCEPT !.pc = pc, !.during = r.during, !.written = r.written,
                                         !.placed = r.placed, !.todo = r.todo, !.shared = r.shared]
Answer(c, pc) == call' = [call EXCEPT ![c] = Answered(@, pc)]

-----------------------------------------------------------------------------
(* The cache.  A key is the tool with its arguments as they were written.  *)
(* When an entry expires and in which order they were used is left out:    *)
(* the ones that go when another is set may be any.                        *)

Key(c) == [tool |-> call[c].kind, spell |-> call[c].spell,
           on |-> IF Is(c, OfOneFile) THEN call[c].on ELSE "directory"]
Without(keys) == {e \in cache : e.key \notin keys}

(* set: the old entry of the key goes, then the expired ones and the least *)
(* recently used until count and bytes fit.                                *)
CacheSet(e) ==
    \E kept \in SUBSET Without({e.key}) :
        /\ Cardinality(kept) < MaxEntries
        /\ cache' = kept \cup {e}

(* invalidateByValue: the entries whose key contains a path.  The path of  *)
(* the directory is contained in the paths of its files.                   *)
KeysWith(n) == {e.key : e \in {x \in cache : x.key.spell = "plain" /\ x.key.on = n}}
KeysWithDirectory == {e.key : e \in {x \in cache : x.key.spell = "plain"}}

-----------------------------------------------------------------------------
(* Every call: what it is asked to do, and the path policy.                *)

Targets(kind) ==
    CASE kind \in {"compress_archive", "extract_archive"} -> {Archive}
      [] kind \in {"write_file", "delete_path"} -> Names
      [] OTHER -> {Target}

(* wrapHandler: a reader asks the cache first.                             *)
Start(c) ==
    /\ At(c, "start")
    /\ \E n \in Targets(call[c].kind), s \in IF Is(c, Readers) THEN Spellings ELSE {"plain"} :
          call' = [call EXCEPT ![c].on = n, ![c].spell = s,
                     ![c].pc = IF Is(c, Readers) THEN "lookup" ELSE "resolve"]
    /\ UNCHANGED <<files, cache, staging>>

LookupHit(c) ==
    /\ At(c, "lookup")
    /\ \E e \in cache : e.key = Key(c)
    /\ Answer(c, "ok")
    /\ UNCHANGED <<files, cache, staging>>

(* No entry, or one that has expired.                                      *)
LookupMiss(c) ==
    /\ At(c, "lookup")
    /\ cache' = Without({Key(c)})
    /\ Goto(c, "look")
    /\ UNCHANGED <<files, staging>>

(* resolveForRead, resolveForWrite: the policy refuses the path, or the    *)
(* handler goes on with what it found; the destructive ones ask for        *)
(* consent (write_file only when the file was there).                      *)
NeedsConsent(c) == \/ Is(c, {"copy", "move", "delete_path", "compress_archive"} \cup Transfers)
                   \/ Is(c, {"write_file"}) /\ call[c].existed
NextAfterConsent(c) == CASE Is(c, {"write_file"}) -> "stage"
                         [] Is(c, {"append"}) -> "inplace"
                         [] Is(c, {"copy", "compress_archive"}) -> "inplace"
                         [] Is(c, {"download_file"}) -> "hop"
                         [] Is(c, {"extract_archive"}) -> "manifest"
                         [] OTHER -> "change"

Resolve(c) ==
    /\ At(c, "resolve")
    /\ \/ ~Is(c, {"cache_invalidate"}) /\ Answer(c, "failed")
       \/ call' = [call EXCEPT ![c].existed = Exists(call[c].on), ![c].pc = "consent"]
    /\ UNCHANGED <<files, cache, staging>>

Consent(c) ==
    /\ At(c, "consent")
    /\ \/ Goto(c, NextAfterConsent(c))
       \/ NeedsConsent(c) /\ Answer(c, "failed")
    /\ UNCHANGED <<files, cache, staging>>

-----------------------------------------------------------------------------
(* The readers.  Most look twice, so that a change may fall between.  What *)
(* a partial result holds is left out: it is not kept.                     *)

View(names) == {<<n, files[n]>> : n \in names}
See(c, view, whole, pc) ==
    call' = [call EXCEPT ![c].seen = view, ![c].complete = whole, ![c].pc = pc]
Looks(c, kinds) == At(c, "look") /\ Is(c, kinds) /\ UNCHANGED <<files, cache, staging>>

(* The path policy refuses, or the first look fails.                       *)
LookFails(c) == Looks(c, Readers) /\ Answer(c, "failed")

(* read_file: the size, then the lines.                                    *)
ReadFileStat(c) ==
    /\ Looks(c, {"read_file"})
    /\ Exists(call[c].on)
    /\ See(c, View({call[c].on}), TRUE, "relook")

ReadFileLines(c) ==
    /\ At(c, "relook") /\ Is(c, {"read_file"})
    /\ \/ Answer(c, "failed")
       \/ /\ Exists(call[c].on)
          /\ See(c, call[c].seen \cup View({call[c].on}), TRUE, "store")
    /\ UNCHANGED <<files, cache, staging>>

FileInfo(c) ==
    /\ Looks(c, {"file_info"})
    /\ Exists(call[c].on)
    /\ See(c, View({call[c].on}), TRUE, "store")

(* list_directory: the names, then the sizes; a directory below that cannot*)
(* be read makes the result partial, a file that is gone by then only      *)
(* lacks its size.                                                         *)
ListNames(c) ==
    /\ Looks(c, {"list_directory"})
    /\ See(c, View(Names), TRUE, "relook") \/ See(c, {}, FALSE, "relook")

ListSizes(c) ==
    /\ At(c, "relook") /\ Is(c, {"list_directory"})
    /\ LET listed == {x[1] : x \in {y \in call[c].seen : y[2].is # "gone"}}
       IN See(c, call[c].seen \cup View({n \in listed : Exists(n)}), call[c].complete, "store")
    /\ UNCHANGED <<files, cache, staging>>

(* The searches: an engine that finds something is believed; one that      *)
(* reports errors found a part, or nothing; one that is missing, fails or  *)
(* finds nothing leaves the search to the tool.                            *)
EngineFinds(c) ==
    \/ (\E n \in Names : Exists(n)) /\ See(c, View(Names), TRUE, "store")
    \/ \E next \in {"store", "native"} : See(c, {}, FALSE, next)
    \/ See(c, {}, TRUE, "native")

SearchWithFd(c) == Looks(c, {"search_files"}) /\ EngineFinds(c)
SearchWithGrep(c) == Looks(c, {"grep_content"}) /\ EngineFinds(c)

NativeFinds(c, believed) ==
    /\ \/ Answer(c, "failed")
       \/ See(c, View(Names), believed, "store")
       \/ See(c, {}, FALSE, "store")
    /\ UNCHANGED <<files, cache, staging>>

(* search_files believes the search of its own; grep_content remembers     *)
(* that the engine had found only a part.                                  *)
NativeSearchFiles(c) ==
    At(c, "native") /\ Is(c, {"search_files"}) /\ NativeFinds(c, TRUE)
NativeGrepContent(c) ==
    At(c, "native") /\ Is(c, {"grep_content"}) /\ NativeFinds(c, call[c].complete)

(* wrapHandler: a complete result is stored, unless the scanner or the     *)
(* size of the entry forbids it; too large a response fails.               *)
Keep(c) == call[c].complete

Store(c) ==
    /\ At(c, "store")
    /\ \/ cache' = cache /\ Answer(c, "failed")
       \/ /\ Answer(c, "ok")
          /\ \/ cache' = cache
             \/ Keep(c) /\ CacheSet([key |-> Key(c), seen |-> call[c].seen, by |-> c])
    /\ UNCHANGED <<files, staging>>

-----------------------------------------------------------------------------
(* The writers.                                                            *)

(* atomicWriteFile: a staging file of its own name (the name has a random  *)
(* part) renamed over the target; when the rename fails, a write in place. *)
Stage(c) ==
    /\ At(c, "stage")
    /\ \/ Answer(c, "failed") /\ UNCHANGED files
       \/ files' = [files EXCEPT ![call[c].on] = Put(c, "whole")] /\ Goto(c, "stat")
       \/ UNCHANGED files /\ Goto(c, "inplace")
    /\ UNCHANGED <<cache, staging>>

(* appendFile, cp, the fallback of atomicWriteFile and the command that    *)
(* compresses write where the readers look; they may end in the middle.    *)
InPlace(c) ==
    /\ At(c, "inplace")
    /\ \/ Answer(c, "failed") /\ UNCHANGED files
       \/ /\ Is(c, {"copy"}) => Exists(Source)
          /\ files' = [files EXCEPT ![call[c].on] = Put(c, "part")]
          /\ Goto(c, "filling")
    /\ UNCHANGED <<cache, staging>>

(* Another call may have put something else there meanwhile.               *)
Filled(c) ==
    /\ At(c, "filling")
    /\ \/ Answer(c, "failed") /\ UNCHANGED files
       \/ /\ files' = [files EXCEPT ![call[c].on] = IF @ = Put(c, "part") THEN Put(c, "whole") ELSE @]
          /\ Goto(c, IF Is(c, {"copy"}) THEN "settle" ELSE "stat")
    /\ UNCHANGED <<cache, staging>>

(* rename, unlink or rm, mkdir: one step of the file system.               *)
Changes(c, kind, changed, pc) ==
    /\ At(c, "change") /\ Is(c, {kind})
    /\ files' = changed
    /\ IF pc = "ok" THEN Answer(c, pc) ELSE Goto(c, pc)
    /\ UNCHANGED <<cache, staging>>

ChangeFails(c) ==
    /\ At(c, "change") /\ ~Is(c, {"cache_invalidate"})
    /\ Answer(c, "failed")
    /\ UNCHANGED <<files, cache, staging>>

Move(c) ==
    /\ Exists(Source)
    /\ Changes(c, "move", [files EXCEPT ![Target] = Put(c, "whole"), ![Source] = Put(c, "gone")], "settle")

DeletePath(c) ==
    /\ Exists(call[c].on)
    /\ Changes(c, "delete_path", [files EXCEPT ![call[c].on] = Put(c, "gone")], "settle")

(* make_directory: the name is free (what is there is a file), and nothing *)
(* is dropped from the cache.                                              *)
MakeDirectory(c) ==
    /\ ~Exists(Target)
    /\ Changes(c, "make_directory", [files EXCEPT ![Target] = Put(c, "whole")], "ok")

(* Mutant of Dropped: the directory of a written file is forgotten.        *)
DroppedFileOnly(c) ==
    CASE Is(c, {"write_file", "append", "delete_path"}) -> KeysWith(call[c].on)
      [] Is(c, {"copy", "move"}) -> KeysWith(Source) \cup KeysWith(call[c].on)
      [] OTHER -> {}

(* The keys a writer drops when it has done its work.                      *)
Dropped(c) ==
    CASE Is(c, {"write_file", "append"}) -> KeysWith(call[c].on) \cup KeysWithDirectory
      [] Is(c, {"copy", "move"}) -> KeysWith(Source) \cup KeysWith(call[c].on)
      [] Is(c, {"delete_path"}) -> KeysWith(call[c].on)
      [] OTHER -> {}

Invalidate(c, keys) ==
    /\ cache' = Without(keys)
    /\ call' = [call EXCEPT ![c] = [Answered(@, "ok") EXCEPT !.during = Active \ {c}]]
    /\ UNCHANGED <<files, staging>>

(* write_file looks at the file it wrote and only then drops the keys; a   *)
(* look that fails is a failed call that dropped nothing.                  *)
StatThenSettle(c) ==
    /\ At(c, "stat")
    /\ \/ Is(c, {"write_file", "append"}) /\ Answer(c, "failed") /\ UNCHANGED <<files, cache, staging>>
       \/ /\ Is(c, {"write_file", "append"}) => Exists(call[c].on)
          /\ Invalidate(c, Dropped(c))

Settle(c) ==
    /\ At(c, "settle")
    /\ Invalidate(c, Dropped(c))

(* cache_invalidate: all entries, or those of one tool.                    *)
CacheInvalidate(c) ==
    /\ At(c, "change") /\ Is(c, {"cache_invalidate"})
    /\ \E tools \in {Readers} \cup {{t} : t \in Readers} :
          Invalidate(c, {e.key : e \in {x \in cache : x.key.tool \in tools}})

ReadStep(c) ==
    \/ LookupHit(c) \/ LookupMiss(c) \/ LookFails(c)
    \/ ReadFileStat(c) \/ ReadFileLines(c) \/ FileInfo(c) \/ ListNames(c) \/ ListSizes(c)
    \/ SearchWithFd(c) \/ SearchWithGrep(c) \/ NativeSearchFiles(c) \/ NativeGrepContent(c)
    \/ Store(c)

WriteStep(c) ==
    \/ Resolve(c) \/ Consent(c) \/ Stage(c) \/ InPlace(c) \/ Filled(c)
    \/ ChangeFails(c) \/ Move(c) \/ DeletePath(c) \/ MakeDirectory(c)
    \/ StatThenSettle(c) \/ Settle(c) \/ CacheInvalidate(c)

FileStep(c) == Start(c) \/ ReadStep(c) \/ WriteStep(c)
=============================================================================
