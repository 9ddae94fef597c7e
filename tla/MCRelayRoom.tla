---- MODULE MCRelayRoom ----
(* RelayRoom on small instances. *)
EXTENDS RelayRoom, TLC

CONSTANTS f, a, b

\* The founder has one connection, the member can come back once.
MemberReturns == {<<f, 1>>, <<a, 1>>, <<a, 2>>}

\* The founder can come back once.
FounderReturns == {<<f, 1>>, <<f, 2>>, <<a, 1>>}

\* One of the two can come back.
PairReturns == MemberReturns \cup FounderReturns

\* The other one had a connection before, in which it was refused because
\* there was no room yet.
EitherInit ==
    /\ Fresh
    /\ \E d \in {<<f, 1>>, <<a, 1>>} :
          link = [c \in Conns |-> IF c = d THEN "done" ELSE "unused"]

EitherSpec == EitherInit /\ [][Next]_vars /\ Fairness

\* Three nodes with one connection each.
Three == {<<f, 1>>, <<a, 1>>, <<b, 1>>}

Symmetry == Permutations({a, b})
====
