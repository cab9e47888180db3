-------------------------- MODULE MCEventDelivery --------------------------
(* Two requests of the agent may be in the backend at once.  Three lines,  *)
(* the last one refused and too large to be buffered, and a buffer that    *)
(* holds what a failed post after a restart leaves: the second line before *)
(* the first.  Or four lines, the first and the third of one text, and an  *)
(* empty buffer.                                                           *)
EXTENDS EventDelivery

CONSTANTS f1, f2, f3, r1, r2

MCFingerprints == {f1, f2, f3}
MCSlots        == {r1, r2}

ThreeTexts  == <<f1, f2, f3>>
LastOfThree == {3}
Swapped     == {<<2, 1>>}

TextTwice   == <<f1, f2, f1, f3>>
NoLine      == {}
EmptyBuffer == {<<>>}
=============================================================================
