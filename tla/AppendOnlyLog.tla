--------------------------- MODULE AppendOnlyLog ---------------------------
(***************************************************************************)
(* What the audit log promises: rows are only ever added, one at a time,   *)
(* each numbered after the newest row and carrying its hash.  The hash of  *)
(* a row is named by its number, and Genesis stands for the 64 zeros.      *)
(***************************************************************************)
EXTENDS Naturals

CONSTANT Genesis

VARIABLE log

Init == log = {}

(* The number of the newest row, or Genesis if there is none.              *)
Newest(h) ==
  /\ \A e \in log : e.seq <= h
  /\ \/ log = {} /\ h = Genesis
     \/ \E e \in log : e.seq = h

Append ==
  \E e \in log' :
    /\ log' = log \cup {e}
    /\ Newest(e.prev) /\ \A d \in log : d.seq < e.seq

Spec == Init /\ [][Append]_log

-----------------------------------------------------------------------------
(* No two rows follow the same one.                                        *)
NoFork == \A d, e \in log : d.prev = e.prev => d = e
=============================================================================
