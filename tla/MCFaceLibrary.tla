--------------------------- MODULE MCFaceLibrary ---------------------------
(* Small instances of FaceLibrary for TLC. *)
EXTENDS FaceLibrary, TLC

CONSTANTS a1, a2, b1

\* Two pictures of one person, and a second person who resembles one of them.
TwoPersons ==
  [f \in {a1, a2, b1} |-> [g \in {a1, a2, b1} |->
     CASE f = g -> Equal
       [] {f, g} = {a1, a2} -> Match
       [] {f, g} = {a1, b1} -> Review
       [] OTHER -> Nothing]]

Symmetry == Permutations(Students) \cup Permutations(Photos) \cup Permutations(Requests)

\* Handlers one at a time, except that a commit of an import is sent twice.
CommitTwice == {<<"import", "import">>}
=============================================================================
