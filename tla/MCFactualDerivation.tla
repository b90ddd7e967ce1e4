-------------------------- MODULE MCFactualDerivation --------------------------
(* Model checking FactualDerivation on small graphs: a chain that takes        *)
(* several iterations, cycles, a fork, a self-dependency; a symbol that may    *)
(* get a second definition; identities in two opposite orders.                 *)
EXTENDS FactualDerivation

Dep(s, o) == [predicate |-> "dependency", subject |-> s, object |-> o, rule |-> Observed]
Def(s, a) == [predicate |-> "definition", subject |-> s, object |-> a, rule |-> Observed]

Chain == {Dep(1, 2), Dep(2, 3), Dep(3, 4)}
MCInitial == {Chain, {Dep(1, 2), Dep(2, 3), Dep(3, 1)}, {Dep(1, 2), Dep(2, 1), Dep(3, 3), Dep(3, 1)},
              {Dep(1, 2), Dep(2, 4), Def(1, 1)}, {Def(1, 1)}, {}}
MCLate == {Dep(1, 3), Def(1, 2)}

Position(f) ==
    f.subject + 5 * f.object
    + (CASE f.predicate = "definition" -> 30 [] f.predicate = "membership" -> 60
         [] OTHER -> 0)
    + (IF f.rule = Observed THEN 0 ELSE IF f.rule = "v1" THEN 100 ELSE 200)
MCOrders == {"up", "down"}
MCRank == [o \in Orders |-> [f \in Facts |-> IF o = "up" THEN Position(f) ELSE 300 - Position(f)]]

MCLimits == {Unlimited, [Unlimited EXCEPT !.iterations = 1], [Unlimited EXCEPT !.facts = 5],
             [Unlimited EXCEPT !.fanout = 1]}
===============================================================================
