------------------------- MODULE MCEventLoopThread --------------------------
(* An owner, and threads that call Run at the same time as it does.          *)
EXTENDS EventLoopThread, TLC

\* Nobody but the destructor calls Quit.
SharedProgram == "main" :> <<"run", "use">> @@ "u1" :> <<"run", "use">>
                 @@ "u2" :> <<"use", "run">>
=============================================================================
