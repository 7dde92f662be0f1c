---------------------------- MODULE MCWebSession ----------------------------
(* Two accounts of different areas share one browser. *)
EXTENDS WebSession, TLC

CONSTANTS aida, omar

MCUsers == {aida, omar}
MCCasts == {aida :> "customer" @@ omar :> "business",
            aida :> "staff" @@ omar :> "business"}

=============================================================================
