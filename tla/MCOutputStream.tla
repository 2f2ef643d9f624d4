--------------------------- MODULE MCOutputStream ---------------------------
(* What may go wrong in the instances that TLC checks.                     *)
EXTENDS OutputStream

AllTroubles == {"view", "timeout", "fail", "loss", "recover"}
Switching == {"view", "recover"}
NoTrouble == {}
=============================================================================
