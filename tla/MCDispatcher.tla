---------------------------- MODULE MCDispatcher ----------------------------
(***************************************************************************)
(* Small instances of Dispatcher for TLC.                                  *)
(***************************************************************************)
EXTENDS Dispatcher, TLC

CONSTANTS a, b, c, p1, p2

PlainEnqueue == {[prio |-> 0, nb |-> 0, floor |-> FALSE]}
UrgentAndPlain == {[prio |-> p, nb |-> 0, floor |-> FALSE] : p \in {0, 1}}

NoPlans == {}
Revisits == {DelayPlan(1, FALSE), DelayPlan(3, TRUE)}

NoFamilies == {}
OwnAndOther == {{a}, {a, b}}

PassSymmetry == Permutations(Passes)

=============================================================================
