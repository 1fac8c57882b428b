--------------------------- MODULE MCPersonTracks ---------------------------
(* Small instances of PersonTracks for TLC. *)
EXTENDS PersonTracks, TLC

CONSTANTS ann, ben, left, right

\* A body is nearest to itself, and the two places overlap.
Near == [p \in Places |-> [q \in Places |-> IF p = q THEN 2 ELSE 1]]

\* The face on the right may lie in the body on the left as well, or in none;
\* or every face lies in its own body.
Crowded == [p \in Places |-> IF p = left THEN {left} ELSE {left, right, Nobody}]
Spaced  == [p \in Places |-> {p}]

\* Ann's face matches her own samples well and Ben's barely; Ben's face matches
\* his well or barely. Or everybody matches his own samples, as it may be.
Siblings ==
  [x \in {ann, ben} |-> IF x = ann THEN ann :> {2} @@ ben :> {1} ELSE ann :> {} @@ ben :> {1, 2}]
Themselves == [x \in {ann, ben} |-> [s \in {ann, ben} |-> IF s = x THEN {1, 2} ELSE {}]]

\* x stands left and y right, with their faces' qualities; the person detector
\* finds the body on the left only.
Image(x, qx, y, qy) ==
  [body |-> {left}, who |-> (left :> x @@ right :> y),
   quality |-> (left :> qx @@ right :> qy)]

Images == {Image(ann, 3, ben, 1), Image(ben, 1, Nobody, 0)}

Symmetry == Permutations(Requests)
=============================================================================
