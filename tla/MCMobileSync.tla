---------------------------- MODULE MCMobileSync ----------------------------
(* Small instances of MobileSync: a category and a movement of it,         *)
(* both created on phone 1; phone 2, when there is one, edits them too.    *)
EXTENDS MobileSync

CONSTANTS cat, mov
OneRecord == {cat}
TwoRecords == {cat, mov}
MCCategories == {cat}
NoMovement == [r \in {} |-> cat]
OneMovement == [r \in {mov} |-> cat]
CreatedOnOne == [r \in Records |-> 1]
=============================================================================
