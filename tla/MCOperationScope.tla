-------------------------- MODULE MCOperationScope --------------------------
(***************************************************************************)
(* An instance of OperationScope for TLC: an operation with a signal makes *)
(* two calls on one scope, and another operation has no signal.            *)
(***************************************************************************)
EXTENDS OperationScope

CONSTANTS op, plain, c1, c2, c3

MCScopes == {op, plain}
MCCalls == {c1, c2, c3}
MCScopeOf == [c \in MCCalls |-> IF c = c3 THEN plain ELSE op]
MCSignalled == {op}
MCTimeouts == {1, 2, None}
=============================================================================
