----------------------------- MODULE Downloads -----------------------------
(***************************************************************************)
(* download_file: src/src/tools/archive.ts with withRetry of               *)
(* src/src/adaptive.ts and src/src/network-policy.ts.                      *)
(*                                                                         *)
(* An attempt follows redirects hop by hop, each hop validated anew, and   *)
(* streams the body into a staging file that is renamed over the target.   *)
(* Bytes and deadline are shared by the attempts.  The name of a staging   *)
(* file is the target, the millisecond and the hop: two downloads of the   *)
(* same target in one millisecond have the same.                           *)
(***************************************************************************)
EXTENDS FileTools

CONSTANTS MaxBytes,     \* MCP_DOWNLOAD_MAX_BYTES, in chunks
          MaxRedirects, \* MCP_DOWNLOAD_MAX_REDIRECTS
          MaxRetries,   \* maxRetries of withRetry
          SsrfMode,     \* MCP_SSRF_MODE: "deny-private" or "allow-private"
          MaxStamp      \* bound of the model: the milliseconds looked at

ASSUME DownloadsAssumption ==
    /\ {MaxBytes, MaxRedirects, MaxRetries, MaxStamp} \subseteq Nat
    /\ SsrfMode \in {"deny-private", "allow-private"}

DownloadName(c) == <<"download", call[c].on, call[c].stamp, call[c].hop>>
DownloadStep(c, pc) == At(c, pc) /\ Is(c, {"download_file"})

(* The stamps of the attempts of one call increase, with room for those to *)
(* come; those of two calls may be equal.                                  *)
NextStamps(c) == IF call[c].hop > 0 THEN {call[c].stamp}
                 ELSE (call[c].stamp + 1)..(MaxStamp - MaxRetries + call[c].tries)

(* withRetry: whatever an attempt ended with is waited out and tried again,*)
(* the NonRetryableDownload that is thrown within it included.  The client *)
(* may cancel and the deadline may pass at any time; an attempt learns of  *)
(* it where it looks, may fail of it, and is tried again all the same,     *)
(* which comes to nothing.                                                 *)
Ended(r, over) == IF r.tries < MaxRetries
                  THEN [r EXCEPT !.pc = "backoff", !.over = @ \/ over]
                  ELSE Answered(r, "failed")

(* Mutant of Charged: the bytes of a failed attempt are forgotten.         *)
ChargedNothing(c) == call[c].used

(* The body of an attempt is over: its bytes count for those that follow.  *)
Charged(c) == call[c].used + call[c].got

Fails(c, over) ==
    call' = [call EXCEPT ![c] = Ended([@ EXCEPT !.used = Charged(c), !.got = 0], over)]

(* A failure that says it is not to be tried again.                        *)
Refuses(c) == call' = [call EXCEPT ![c] = Ended([@ EXCEPT !.refused = TRUE], FALSE)]

(* Mutant of CleanupStaging: the staging file stays.                       *)
CleanupNothing(name) == staging' = staging

(* With a new file or directory of call c.                                 *)
Added(name, c, items) ==
    [x \in DOMAIN staging \cup {name} |->
        IF x = name THEN [by |-> c, items |-> items, whole |-> FALSE, stuck |-> FALSE] ELSE staging[x]]

(* Without the staging file of the call, or with it, when its removal      *)
(* fails too.                                                              *)
Removed(name) == Restrict(staging, DOMAIN staging \ {name})
CleanupStaging(name) ==
    \/ staging' = Removed(name)
    \/ name \in DOMAIN staging /\ staging' = [staging EXCEPT ![name].stuck = TRUE]

-----------------------------------------------------------------------------

Backoff(c) ==
    /\ DownloadStep(c, "backoff")
    /\ call' = [call EXCEPT ![c].pc = "hop", ![c].tries = @ + 1, ![c].hop = 0,
                           ![c].refused = FALSE]
    /\ UNCHANGED <<files, cache, staging>>

(* validateTarget: the classes of the addresses of a host; none is a host  *)
(* that does not resolve.  The first one allowed is connected to.          *)
IpClasses == {"normal", "restricted", "forbidden"}
TargetAllowed(classes) ==
    /\ classes # {}
    /\ IF SsrfMode = "deny-private" THEN classes = {"normal"} ELSE classes # {"forbidden"}

(* parseUrlPolicy: credentials in the URL; another bad URL is retryable.   *)
HopUrlRefused(c) ==
    /\ DownloadStep(c, "hop")
    /\ Refuses(c) \/ Fails(c, FALSE)
    /\ UNCHANGED <<files, cache, staging>>

HopTargetRefused(c) ==
    /\ DownloadStep(c, "hop")
    /\ \E classes \in SUBSET IpClasses \ {{}} : ~TargetAllowed(classes)
    /\ Refuses(c)
    /\ UNCHANGED <<files, cache, staging>>

HopUnresolved(c) ==
    /\ DownloadStep(c, "hop")
    /\ Fails(c, FALSE)
    /\ UNCHANGED <<files, cache, staging>>

(* The deadline, looked at before the host is resolved, and the signal.    *)
HopOver(c) ==
    /\ DownloadStep(c, "hop")
    /\ Fails(c, TRUE)
    /\ UNCHANGED <<files, cache, staging>>

Request(c) ==
    /\ DownloadStep(c, "hop")
    /\ ~call[c].over
    /\ \E classes \in SUBSET IpClasses : TargetAllowed(classes)
    /\ \E t \in NextStamps(c) : call' = [call EXCEPT ![c].pc = "waiting", ![c].stamp = t]
    /\ UNCHANGED <<files, cache, staging>>

(* The socket times out, breaks or is cancelled before a response.         *)
RequestFails(c) ==
    /\ DownloadStep(c, "waiting")
    /\ \E over \in BOOLEAN : Fails(c, over)
    /\ UNCHANGED <<files, cache, staging>>

(* handleResponse: a redirect is followed while there are hops left; a bad *)
(* status ends the attempt; else the body comes.                           *)
Response(c) ==
    /\ DownloadStep(c, "waiting")
    /\ \/ call[c].hop < MaxRedirects /\ call' = [call EXCEPT ![c].pc = "hop", ![c].hop = @ + 1]
       \/ Fails(c, FALSE)
       \/ Goto(c, "open")
    /\ UNCHANGED <<files, cache, staging>>

(* History: the calls that a name is in use by, and that it is shared with *)
(* whoever takes it while they use it, or while something is there.        *)
UsersOf(name) == {d \in Calls : call[d].pc \in {"stream", "place"} /\ DownloadName(d) = name}
Sharing(calls, c, name, users) ==
    LET all == IF users = {} /\ name \notin DOMAIN staging THEN {} ELSE users \cup {c}
    IN [d \in Calls |-> IF d \in all THEN [calls[d] EXCEPT !.shared = TRUE] ELSE calls[d]]

(* streamToStaging opens the file exclusively.  When the name is taken,    *)
(* the cleanup removes the file of the other call.                         *)
Open(c) ==
    LET name == DownloadName(c)
        Shared(calls) == Sharing(calls, c, name, UsersOf(name))
    IN /\ DownloadStep(c, "open")
       /\ UNCHANGED <<files, cache>>
       /\ \/ /\ name \notin DOMAIN staging
             /\ staging' = Added(name, c, {})
             /\ call' = Shared([call EXCEPT ![c].pc = "stream"])
          \/ /\ name \in DOMAIN staging
             /\ \E over \in BOOLEAN :
                   call' = Shared([call EXCEPT ![c] = Ended(@, over)])
             /\ CleanupStaging(name)
          \/ /\ name \notin DOMAIN staging
             /\ \E over \in BOOLEAN : Fails(c, over)
             /\ UNCHANGED staging

(* A chunk is looked at before it is written.                              *)
FitsBudget(c) == call[c].used + call[c].got + 1 <= MaxBytes

Chunk(c) ==
    /\ DownloadStep(c, "stream")
    /\ FitsBudget(c)
    /\ call' = [call EXCEPT ![c].got = @ + 1, ![c].written = @ + 1]
    /\ UNCHANGED <<files, cache, staging>>

(* The signal, the deadline, the budget, the connection, the disk.         *)
StreamFails(c) ==
    /\ DownloadStep(c, "stream")
    /\ \E over \in BOOLEAN, more \in IF FitsBudget(c) THEN {0} ELSE {0, 1} :
          call' = [call EXCEPT ![c] = Ended([@ EXCEPT !.used = Charged(c) + more, !.got = 0], over)]
    /\ CleanupStaging(DownloadName(c))
    /\ UNCHANGED <<files, cache>>

(* The server has sent its last chunk.  Nobody looks at the signal or the  *)
(* deadline any more.                                                      *)
StreamEnds(c) ==
    LET name == DownloadName(c)
    IN /\ DownloadStep(c, "stream")
       /\ call' = [call EXCEPT ![c].pc = "place", ![c].used = Charged(c), ![c].got = 0]
       /\ staging' = IF name \in DOMAIN staging /\ staging[name].by = c
                     THEN [staging EXCEPT ![name].whole = TRUE] ELSE staging
       /\ UNCHANGED <<files, cache>>

Place(c) ==
    LET name == DownloadName(c)
    IN /\ DownloadStep(c, "place")
       /\ UNCHANGED cache
       /\ \/ /\ name \in DOMAIN staging
             /\ files' = [files EXCEPT ![call[c].on] =
                            Put(c, IF staging[name].whole THEN "whole" ELSE "part")]
             /\ staging' = Removed(name)
             /\ Answer(c, "ok")
          \/ Fails(c, FALSE) /\ CleanupStaging(name) /\ UNCHANGED files

DownloadStepOf(c) ==
    \/ Backoff(c) \/ HopUrlRefused(c) \/ HopTargetRefused(c) \/ HopUnresolved(c) \/ HopOver(c)
    \/ Request(c) \/ RequestFails(c) \/ Response(c)
    \/ Open(c) \/ Chunk(c) \/ StreamFails(c) \/ StreamEnds(c) \/ Place(c)
=============================================================================
