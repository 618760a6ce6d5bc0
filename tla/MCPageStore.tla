----------------------------- MODULE MCPageStore -----------------------------
(* One page, written by one of two processes, and cleaned up or read by both. *)
EXTENDS PageStore

CONSTANTS a, b, page

MCOwner == [d \in {page} |-> a]

\* Every text of up to five bytes, cut after the second, and some with a mark.
Letters   == {"low", "high", "lead2", "lead3", "cont"}
UpTo(n)   == UNION {[1..k -> Letters] : k \in 0..n}
MCOutputs == {<<first, more>> : first \in [1..2 -> Letters], more \in UpTo(3)}
               \cup {<<SubSeq(Bom, 1, 2), <<"BF">> \o more>> : more \in UpTo(2)}
==============================================================================
