-------------------------- MODULE MCVariableMerger --------------------------
(* Programs for VariableMerger, each the SSA form of a small Intcode program. *)
EXTENDS VariableMerger

V(f, k, n, ver) == [kind |-> <<k, n>>, fn |-> f, version |-> ver]
Ins(r, t) == [reads |-> r, target |-> t]
Phi(v, in) == [result |-> v, inputs |-> in]

\* f1: [R-1] = 0; do { [R-1] += 1; [500] += [R-1] } while ..; output both.
\* f2: [500] = [R-2]; [P1] = [P1] + 1, [R-2] being its parameter.
x(n) == V(1, "R", -1, n)
g(n) == V(1, "M", 500, n)
h(n) == V(2, "M", 500, n)
q    == V(2, "R", -2, 0)
P(n) == V(2, "P", 1, n)
LoopAndGlobal ==
  [vars   |-> {x(n) : n \in 1 .. 4} \cup {g(n) : n \in 0 .. 3} \cup {h(1), q, P(0), P(1)},
   fns    |-> {1, 2},
   blocks |-> <<{1, 2, 3}, {4}>>,
   phis   |-> << <<>>,
                <<Phi(x(2), {x(1), x(3)}), Phi(g(1), {g(0), g(2)})>>,
                <<Phi(x(4), {x(1), x(3)}), Phi(g(3), {g(0), g(2)})>>,
                <<>> >>,
   code   |-> << <<Ins({}, {x(1)})>>,
                <<Ins({x(2)}, {x(3)}), Ins({g(1), x(3)}, {g(2)})>>,
                <<Ins({g(3)}, {}), Ins({x(4)}, {})>>,
                <<Ins({q}, {h(1)}), Ins({P(0)}, {P(1)})>> >>,
   params |-> {q},
   user   |-> [v \in {} |-> "none"]]

\* One function: two pointers patched by different code, the return address
\* read and written in one instruction, a user name on one member of a phi.
y(n) == V(1, "R", -1, n)
z(n) == V(1, "R", -2, n)
r(n) == V(1, "R", 0, n)
P1(n) == V(1, "P", 1, n)
P2(n) == V(1, "P", 2, n)
PointersAndNames ==
  [vars   |-> {y(0), y(1), y(2), z(0), r(0), r(1), P1(1), P2(0), P2(1), P2(2)},
   fns    |-> {1},
   blocks |-> <<{1, 2, 3}>>,
   phis   |-> << <<>>, <<>>,
                <<Phi(y(2), {y(0), y(1)}), Phi(P2(2), {P2(0), P2(1)})>> >>,
   code   |-> << <<Ins({z(0)}, {P1(1)}), Ins({r(0)}, {r(1)})>>,
                <<Ins({y(0)}, {y(1)}), Ins({}, {P2(1)})>>,
                <<Ins({y(2), P2(2)}, {})>> >>,
   params |-> {y(0), z(0)},
   user   |-> [v \in {y(1)} |-> "total"]]

\* f1: call g; [500] = 1; if .. ; output [500], after folding. The read of [500]
\* is what return_values_accessed records for the call, so the return block has
\* a phi for [500]; the assignment kills it and is itself folded away.
DeadReturnPhi ==
  [vars   |-> {g(0), g(1), x(0), x(1), x(2)},
   fns    |-> {1},
   blocks |-> <<{1, 2, 3}>>,
   phis   |-> << <<>>, <<Phi(g(1), {g(0)})>>, <<Phi(x(2), {x(0), x(1)})>> >>,
   code   |-> << <<Ins({}, {x(1)})>>, <<Ins({x(1)}, {})>>, <<Ins({x(2)}, {})>> >>,
   params |-> {x(0)},
   user   |-> [v \in {} |-> "none"]]
MCDeadPhi == {DeadReturnPhi}

MCPrograms == {LoopAndGlobal, PointersAndNames, DeadReturnPhi}
=============================================================================
