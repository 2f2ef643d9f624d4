---------------------------- MODULE MCStatusFeed ----------------------------
(* StatusFeed for TLC: two sessions, and one client, the attention task or  *)
(* one window, which finds a completion of the second session at its        *)
(* revision 2 of an earlier run.                                            *)
EXTENDS StatusFeed, TLC

CONSTANTS s1, s2, client, attention, tab

TwoSessions == <<s1, s2>>
KeptOfSecond == s1 :> 0 @@ s2 :> 2
OneEach == {{client}, {attention}, {tab}}

=============================================================================
