--------------------------- MODULE MCLoyaltyCard ---------------------------
(* A small instance of LoyaltyCard: configurations of every program type. *)
EXTENDS LoyaltyCard

CONSTANT Uncapped    \* the model value that stands for max_banked = NULL

Conf(type, required, cap, min) ==
    [type |-> type, required |-> required, maxBanked |-> cap, minRedeem |-> min]

\* A stamp card with a bank of two, points with a minimum to redeem, and dearer
\* visits, both without a bank limit; the owner moves the program between them.
Configs == {Conf("stamp", 2, 2, 0), Conf("points", 1, Uncapped, 2),
            Conf("visit", 3, Uncapped, 0)}
=============================================================================
