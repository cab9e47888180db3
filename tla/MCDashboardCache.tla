-------------------------- MODULE MCDashboardCache --------------------------
(***************************************************************************)
(* Two changes of the user, one of others, a list with two filters.        *)
(***************************************************************************)
EXTENDS DashboardCache

MCMatching == [f \in Filters |-> IF f = 1 THEN Rows ELSE Rows \ {1}]
=============================================================================
