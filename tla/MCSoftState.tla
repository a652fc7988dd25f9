----------------------------- MODULE MCSoftState -----------------------------
(* Two endpoints for SoftState, each written in two ways. *)
EXTENDS SoftState

CONSTANTS e1, e2, e1s, e2s

TwoEndpoints == {e1, e2}
WithSlash == [e \in Endpoints |-> IF e = e1 THEN e1s ELSE e2s]
=============================================================================
