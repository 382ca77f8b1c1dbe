------------------------------ MODULE Picking -------------------------------
(***************************************************************************)
(* What Iterator::filter and partition leave of a Vec: its elements at     *)
(* some places, in their order.  SelectSeq is a builtin without a          *)
(* definition to reason from; this one is a recursive function.            *)
(***************************************************************************)
EXTENDS Integers, Sequences

\* The elements of s at the given places, in their order.
Picked(s, places) ==
  LET upTo[n \in 0 .. Len(s)] ==
        IF n = 0 THEN << >>
        ELSE IF n \in places THEN Append(upTo[n - 1], s[n]) ELSE upTo[n - 1]
  IN  upTo[Len(s)]

=============================================================================
