------------------------------- MODULE MCExFS -------------------------------
(***************************************************************************)
(* A small ExFS for TLC.  Two histories of no influence are left out of    *)
(* the view: the last call with the times, and the bytes of free blocks,   *)
(* which AppendExtentRange and DirGrowBlock overwrite before any use.      *)
(***************************************************************************)
EXTENDS ExFS, TLC

Ones(k) == [p \in 1 .. k |-> 1]
At(p, k) == [at |-> p, bytes |-> Ones(k)]

FormatsMC == {[blocks |-> 10, inodes |-> 3, was |-> 1], [blocks |-> 7, inodes |-> 2, was |-> 1]}
SizesMC == {0, 1, 7, 48, 51}
AccessesMC == {At(0, 1), At(1, 1), At(5, 1), At(12, 3), At(30, 1)}

View == <<sb, imap, dmap, itable, dir, daemon, [b \in dmap \cap DOMAIN disk |-> disk[b]]>>
Symmetry == Permutations(Names)
=============================================================================
