----------------------------- MODULE MCWebPages -----------------------------
(* A name in two cases and a long one, a percentage the server finds too fine;  *)
(* three members, one below and two above a threshold.                          *)
EXTENDS WebPages

CONSTANTS first, second

MCCalls == {first, second}
MCSymmetry == Permutations(MCCalls)

MCTierNames == {"", "Gold", "gold", "Goldest"}
MCLower == "" :> "" @@ "Gold" :> "gold" @@ "gold" :> "gold" @@ "Goldest" :> "goldest"
MCLongNames == {"Goldest"}
MCNumber == "0" :> 0 @@ "5" :> 5000 @@ "0.005" :> 5
MCInteger == "0" :> 0 @@ "5" :> 5 @@ "0.005" :> None
MCVisitors == <<0, 5, 7>>

=============================================================================
