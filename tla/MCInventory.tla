----------------------------- MODULE MCInventory -----------------------------
(***************************************************************************)
(* Instances of Inventory for TLC.                                         *)
(***************************************************************************)
EXTENDS Inventory

CONSTANTS i1, w1, w2, d1, d2, p1, p2

OneItem       == {i1}
TwoWarehouses == {w1, w2}
OneDoc        == {d1}
TwoDocs       == {d1, d2}
OneProc       == {p1}
TwoProcs      == {p1, p2}

=============================================================================
