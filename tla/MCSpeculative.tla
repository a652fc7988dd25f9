---------------------------- MODULE MCSpeculative ----------------------------
(* Small instances of SpeculativeDecoding for TLC: a target model is a table *)
(* from the parity of the context's length and its last token to the next.   *)
EXTENDS SpeculativeDecoding, TLC

CONSTANTS a, b, e

AllTokens == {a, b, e}
EndTokens == {e}
\* The last one alone exceeds the batch.
ShortAndLong == {<<a>>, <<b, a>>, <<a, b, b, a, a, b>>}
\* The negative ones let the over-long prompt through; -3 refuses the short ones.
AnyLookahead == {-3, -1, 0, 2}

Tables == [{0, 1} \X {a, b} -> AllTokens]
TableModels ==
  {[c \in Contexts |-> IF c = <<>> \/ c[Len(c)] = e THEN a
                       ELSE t[Len(c) % 2, c[Len(c)]]] : t \in Tables}
=============================================================================
