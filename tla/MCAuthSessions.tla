--------------------------- MODULE MCAuthSessions ---------------------------
EXTENDS AuthSessions, TLC

CONSTANTS t1, t2, t3, t4, k1

MCRequests == {t1, t2, t3, t4}

Rank == ("login" :> 1) @@ ("refresh" :> 2) @@ ("logout" :> 3) @@ ("reset" :> 4) @@ ("change" :> 5)

(* A login, and any three requests that meet it and each other; which of   *)
(* the three does what makes no difference.                                *)
MCLoads == {f \in [MCRequests -> Kinds] :
              f[t1] = "login" /\ Rank[f[t2]] <= Rank[f[t3]] /\ Rank[f[t3]] <= Rank[f[t4]]}

=============================================================================
