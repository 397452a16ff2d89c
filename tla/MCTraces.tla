------------------------------ MODULE MCTraces ------------------------------
(***************************************************************************)
(* A program that forks twice, one whose child forks, and two programs.    *)
(***************************************************************************)
EXTENDS Traces, TLC

Program(p, forks) == [pid |-> p, forks |-> forks]
RunsMC ==
  { <<Program(1, <<<<1, 2>>, <<1, 3>>>>)>>,
    <<Program(1, <<<<1, 2>>, <<2, 3>>>>)>>,
    <<Program(1, <<>>), Program(2, <<<<2, 3>>>>)>> }

Symmetry == Permutations(Val)
=============================================================================
