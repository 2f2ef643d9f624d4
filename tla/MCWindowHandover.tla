-------------------------- MODULE MCWindowHandover --------------------------
(***************************************************************************)
(* WindowHandover for TLC: the startup window with a workspace and one     *)
(* child window saved with another.                                        *)
(***************************************************************************)
EXTENDS WindowHandover, TLC

CONSTANTS main, w1, s0, s1

TwoWindows == {main, w1}
HomeAndAway == {s0, s1}
Apart == (s0 :> main) @@ (s1 :> w1)

=============================================================================
