--------------------------- MODULE MCGroupSession ---------------------------
(* Small instances of GroupSession. *)
EXTENDS GroupSession, TLC

GroupSymmetry == Permutations(Txn) \cup Permutations(Group) \cup Permutations(Customer)
=============================================================================
