--------------------------- MODULE MCDesktopSync ----------------------------
(* Small instances of DesktopSync: a category and a movement of it,        *)
(* created on desktop 1.                                                   *)
EXTENDS DesktopSync

CONSTANTS cat, mov
OneRecord == {cat}
TwoRecords == {cat, mov}
MCCategories == {cat}
NoMovement == [r \in {} |-> cat]
OneMovement == [r \in {mov} |-> cat]
CreatedOnOne == [r \in Records |-> 1]
=============================================================================
