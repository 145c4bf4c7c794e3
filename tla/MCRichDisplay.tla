---------------------------- MODULE MCRichDisplay ----------------------------
(* A portrait screen of 3 x 5, compressed to 2 x 3, that folds to 3 x 2:      *)
(* lengths that differ, so that no two sizes of the start are confused, one   *)
(* that only a document may have and a resolution is refused.                 *)
EXTENDS RichDisplay

Original == [w |-> 3, h |-> 5]
Compressed == [w |-> 2, h |-> 3]
Folded == [w |-> 3, h |-> 2]
MCAsked == {[w |-> 2, h |-> 3], [w |-> 5, h |-> 2], [w |-> 1, h |-> 2]}

=============================================================================
