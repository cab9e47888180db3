-------------------------- MODULE MCBrowserSession --------------------------
(***************************************************************************)
(* Tabs that are alike, one request each besides the guard, the check of   *)
(* the sign-in page and its form.                                          *)
(***************************************************************************)
EXTENDS BrowserSession, TLC

Symmetry == Permutations(Tabs)
=============================================================================
