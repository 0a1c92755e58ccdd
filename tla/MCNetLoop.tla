----------------------------- MODULE MCNetLoop ------------------------------
(* Small instances of NetLoop: how often the owner starts and stops.         *)
EXTENDS NetLoop

Restart == <<"start", "stop", "start">>
=============================================================================
