----------------------------- MODULE MCEditors -----------------------------
(* Two words, two records and two saves: a word typed while another is     *)
(* being saved, and an editor opened while another record's save waits.    *)
EXTENDS Editors, TLC

Symmetry == Permutations(Words) \cup Permutations(Records)
=============================================================================
