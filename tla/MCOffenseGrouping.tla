-------------------------- MODULE MCOffenseGrouping --------------------------
EXTENDS OffenseGrouping, TLC

CONSTANTS t1, t2, t3, r1, r2

MCTxns == {t1, t2, t3}
MCRules == {r1, r2}

(* r1 is a rule, r2 a title: alerts without a rule have no cooldown.       *)
MCRisk == (r1 :> 4) @@ (r2 :> 2)
MCCooldown == (r1 :> 1) @@ (r2 :> 0)

Load(a, b, c) == (t1 :> a) @@ (t2 :> b) @@ (t3 :> c)

(* One detection at least, with the transactions that get in its way.      *)
MCLoads == {Load("request", "job", "event"), Load("job", "triage", "triage"),
            Load("request", "job", "triage"), Load("job", "event", "status"),
            Load("request", "promote", "promote"), Load("job", "promote", "event"),
            Load("event", "status", "promote")}
=============================================================================
