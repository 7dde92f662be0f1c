------------------------- MODULE MCCampaignLifecycle -------------------------
(* Small instances of CampaignLifecycle. *)
EXTENDS CampaignLifecycle, TLC

T(start, end, complete) == [start |-> start, end |-> end, complete |-> complete]

\* Now or later, bounded or open, complete or not.
AllTerms == {T(Null, Null, TRUE), T(1, 2, TRUE), T(Null, 2, TRUE), T(1, 1, TRUE),
             T(2, Null, TRUE), T(1, 2, FALSE)}

OwnerSymmetry == Permutations(Handler)
=============================================================================
