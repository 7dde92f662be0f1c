--------------------------- MODULE MCCampaignVisit ---------------------------
(* Small instances of CampaignVisit. *)
EXTENDS CampaignVisit, TLC

T(limit, required, rewards, people, perDay, auto) ==
    [limit |-> limit, required |-> required, maxRewards |-> rewards,
     maxParticipants |-> people, perDay |-> perDay, autoJoin |-> auto]

\* Visit challenges, once and repeatable, with and without auto-join.
AllTerms == {T("once", 1, 2, 2, 2, TRUE), T("repeatable", 1, 1, 2, 2, TRUE),
             T("repeatable", 2, 2, 1, 1, FALSE)}
\* One place, one reward.
ScarceTerms == {T("once", 1, 1, 1, 2, TRUE)}

VisitSymmetry == Permutations(Txn) \cup Permutations(Customer) \cup Permutations(Voucher)
=============================================================================
