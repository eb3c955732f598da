----------------------------- MODULE AtomicFile -----------------------------
(***************************************************************************)
(* What _write_text_atomically promises about a path: a reader finds either*)
(* nothing or exactly one complete document, and a write replaces the whole*)
(* document at once or leaves it alone.                                    *)
(***************************************************************************)
CONSTANTS Paths, Documents, Absent

VARIABLE shelf      \* [Paths -> Documents, or Absent]

Init == shelf = [p \in Paths |-> Absent]

Replace(p, doc) == shelf' = [shelf EXCEPT ![p] = doc]

Next == \E p \in Paths, doc \in Documents : Replace(p, doc)

Spec == Init /\ [][Next]_shelf
=============================================================================
