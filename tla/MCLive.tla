------------------------------- MODULE MCLive -------------------------------
(* A publisher of 25 frames a second that may lose a frame, and whose clock  *)
(* can jump far or a little, forward and back.                               *)
EXTENDS Live
=============================================================================
