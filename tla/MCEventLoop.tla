---------------------------- MODULE MCEventLoop -----------------------------
(* Small workloads for EventLoop: two clients, two loops, tasks that call   *)
(* RunInLoop themselves.                                                    *)
EXTENDS EventLoop, TLC

\* Tasks are named after their home loop.
MCHome == "a1" :> "L1" @@ "a2" :> "L1" @@ "a3" :> "L1"
          @@ "b1" :> "L2" @@ "b2" :> "L2"
MCTasks == DOMAIN MCHome

\* a1 calls its own loop (a3, run inline) and the other loop (b1): posting goes
\* from L1 to L2 only.
MCPosts == [x \in MCTasks |-> IF x = "a1" THEN <<"a3", "b1">> ELSE <<>>]

\* c1 calls L1 twice; a callback of L1 calls L2.
MCCalls == "c1" :> <<"a1", "a2">> @@ "c2" :> <<>>
           @@ "L1" :> <<"b2">> @@ "L2" :> <<>>
MCQuits == {<<"c2", "L2">>}

\* Tasks of each loop call the other loop: a1 posts b1, b2 posts a2.
MutualPosts == [x \in MCTasks |-> CASE x = "a1" -> <<"b1">>
                                    [] x = "b2" -> <<"a2">>
                                    [] OTHER -> <<>>]
MutualCalls == "c1" :> <<"a1">> @@ "c2" :> <<"b2">>
               @@ "L1" :> <<>> @@ "L2" :> <<>>

NoQuits == {}
=============================================================================
