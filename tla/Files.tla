------------------------------- MODULE Files -------------------------------
(***************************************************************************)
(* What ExFS promises its callers: a map from names to byte strings.  A    *)
(* call that succeeds changes the one file it names, by the bytes it was   *)
(* given and zeros where nothing was written.  One that fails changes      *)
(* nothing, and fails for a reason the comments of exfs.c give (ENOSPC,    *)
(* EFBIG) or because the name is not as they assume (ENOENT, EEXIST).      *)
(***************************************************************************)
EXTENDS Integers, Sequences

CONSTANTS Names, Absent, Calls

VARIABLES
  files,   \* the bytes of each name, or Absent
  call     \* the last call: op, name, at, bytes, and the rc it returned

vars == <<files, call>>

Resized(f, size) == [p \in 1 .. size |-> IF p <= Len(f) THEN f[p] ELSE 0]
Overwritten(f, at, bytes) ==
  LET last == at + Len(bytes)
  IN  [p \in 1 .. (IF last > Len(f) THEN last ELSE Len(f)) |->
         CASE p \in at + 1 .. last -> bytes[p - at]
           [] p \notin at + 1 .. last /\ p <= Len(f) -> f[p]
           [] OTHER -> 0]

Init == files = [n \in Names |-> Absent] /\ call.op = "none"

Called(op, n) == call'.op = op /\ call'.name = n
Becomes(n, f) == call'.rc = "OK" /\ files' = [files EXCEPT ![n] = f]

Create(n) == Called("create", n) /\ files[n] = Absent /\ Becomes(n, <<>>)
Unlink(n) == Called("unlink", n) /\ files[n] # Absent /\ Becomes(n, Absent)
Truncate(n) ==
  Called("truncate", n) /\ files[n] # Absent /\ Becomes(n, Resized(files[n], call'.at))
Write(n) ==
  /\ Called("write", n) /\ files[n] # Absent
  /\ Becomes(n, Overwritten(files[n], call'.at, call'.bytes))
Touch(n) == Called("utimens", n) /\ files[n] # Absent /\ Becomes(n, files[n])
Omit(n) == Called("omit", n) /\ call'.rc = "OK" /\ UNCHANGED files   \* also of an absent file

MayFail(n) ==
  CASE call'.op = "create" -> IF files[n] = Absent THEN {"ENOSPC"} ELSE {"EEXIST"}
    [] call'.op \in {"truncate", "write"} ->
         IF files[n] = Absent THEN {"ENOENT"} ELSE {"ENOSPC", "EFBIG"}
    [] call'.op \in {"unlink", "utimens"} -> IF files[n] = Absent THEN {"ENOENT"} ELSE {}
    [] OTHER -> {}
Fail(n) == call'.name = n /\ call'.rc \in MayFail(n) /\ UNCHANGED files

Next ==
  /\ call' \in Calls
  /\ \E n \in Names : \/ Create(n) \/ Unlink(n) \/ Truncate(n) \/ Write(n)
                      \/ Touch(n) \/ Omit(n) \/ Fail(n)

Spec == Init /\ [][Next]_vars

=============================================================================
