-------------------------- MODULE MCVirtualMemory --------------------------
(* Instances of VirtualMemory for TLC: tight memories and traces without   *)
(* fork, and forks with enough memory never to evict.                      *)
EXTENDS VirtualMemory

TouchedMC == {<<0, 0>>, <<0, 1>>, <<1, 0>>}

Cfg(a, m, s, f) == [alg |-> a, memsize |-> m, swapsize |-> s, fork |-> f]
ConfigsMC ==
  {Cfg("rr", 2, 2, FALSE), Cfg("rand", 2, 2, FALSE), Cfg("s2q", 2, 4, FALSE),
   Cfg("clock", 5, 1, TRUE)}
ConfigsEvictShared == {Cfg("clock", 2, 4, TRUE)}
ConfigsTight == {Cfg("rr", 2, 4, FALSE)}

=============================================================================
