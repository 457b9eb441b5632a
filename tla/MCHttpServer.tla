---------------------------- MODULE MCHttpServer ---------------------------
(* The cache by itself, with three resources whose data may be empty or too  *)
(* large to be cached beside others; and the server with two clients, on one *)
(* reactor or on two, who ask for two of the files and a CGI program.        *)
EXTENDS HttpServer, TLC

CONSTANTS u1, u2, u3, d0, d1, d2, d3, c1, c2, th1, th2, p1

MCUrl == {u1, u2, u3}
MCData == {d0, d1, d2, d3}
MCSize == d0 :> 0 @@ d1 :> 1 @@ d2 :> 2 @@ d3 :> 3
MCDisk == u1 :> d1 @@ u2 :> d3 @@ u3 :> d0
MCChanges == {<<u1, d2>>, <<u1, None>>}
MCOwners == {c1 :> th1 @@ c2 :> th1, c1 :> th1 @@ c2 :> th2}
MCClient == {c1, c2}
MCThread == {th1, th2}
MCProgram == {p1}
Get(target, close) == [method |-> "GET", target |-> target, close |-> close]
MCRequests == {Get(u1, FALSE), Get(u2, FALSE), Get(p1, FALSE), Get(Missing, FALSE), BAD,
               [method |-> "HEAD", target |-> u1, close |-> TRUE]}
\* Any two requests; and a resource that is loaded, hit twice, and evicted.
MCWorkloads == {[requests |-> <<MCRequests, MCRequests>>, changes |-> MCChanges],
                [requests |-> <<{Get(u1, FALSE)}, {Get(u1, FALSE)}, {Get(u1, FALSE)}, {Get(u2, FALSE)}>>,
                 changes |-> {}]}
=============================================================================
