---------------------------- MODULE MCWebSession ----------------------------
(***************************************************************************)
(* The session of a browser with one tab: two accounts sign in and out.    *)
(***************************************************************************)
EXTENDS WebSession, TLC

CONSTANTS a1, b1, A, B

TwoTokens  == {a1, b1}
TwoOwners  == a1 :> A @@ b1 :> B
NoOtherTab == {}
=============================================================================
