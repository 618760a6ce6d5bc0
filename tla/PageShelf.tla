------------------------------ MODULE PageShelf ------------------------------
(***************************************************************************)
(* What the page cache of src/src/paging.ts promises to its readers, of    *)
(* however many processes: a page is put on the shelf once, as a whole; it *)
(* does not change or go away while it is read; once it is damaged or      *)
(* removed nobody begins to read it, and it never comes back.              *)
(***************************************************************************)
CONSTANTS Pages, Readers, Nothing

VARIABLES shelf, reading

States == {"absent", "published", "damaged", "removed"}

TypeOK == shelf \in [Pages -> States] /\ reading \in [Readers -> Pages \cup {Nothing}]

Init ==
  /\ shelf = [d \in Pages |-> "absent"]
  /\ reading = [r \in Readers |-> Nothing]

Move(d, from, to) ==
  /\ shelf[d] \in from
  /\ shelf' = [shelf EXCEPT ![d] = to]
  /\ UNCHANGED reading

IsRead(d) == \E r \in Readers : reading[r] = d

Publish(d) == Move(d, {"absent"}, "published")
Damage(d)  == ~IsRead(d) /\ Move(d, {"published"}, "damaged")
Remove(d)  == ~IsRead(d) /\ Move(d, {"published", "damaged"}, "removed")

Begin(r, d) ==
  /\ shelf[d] = "published" /\ reading[r] = Nothing
  /\ reading' = [reading EXCEPT ![r] = d]
  /\ UNCHANGED shelf

\* The reader returns, or its process dies.
End(r) ==
  /\ reading[r] # Nothing
  /\ reading' = [reading EXCEPT ![r] = Nothing]
  /\ UNCHANGED shelf

Next ==
  \/ \E d \in Pages : Publish(d) \/ Damage(d) \/ Remove(d)
  \/ \E r \in Readers : End(r) \/ \E d \in Pages : Begin(r, d)

Spec == Init /\ [][Next]_<<shelf, reading>>

\* A page that is being read is on the shelf, undamaged (src/src/paging.ts:756).
ReadsOnlyPublished == \A r \in Readers : reading[r] # Nothing => shelf[reading[r]] = "published"
==============================================================================
