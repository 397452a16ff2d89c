------------------------------ MODULE Simplify ------------------------------
(***************************************************************************)
(* simplify_trace.c: the raw logs valgrind has written of a program and    *)
(* its children are reduced to reference files.  The program marks its     *)
(* start, its end and its forks by stores to variables of marker.h, whose  *)
(* addresses and the pids of the children are in the marker file.  One     *)
(* activation of simplify_trace reads one log line by line; where the log  *)
(* shows a fork it calls itself for the child.  References pass through a  *)
(* buffer that keeps one line per page and type, the last use first        *)
(* forgotten; a flush gives the lines their values.                        *)
(***************************************************************************)
EXTENDS Integers, SequencesExt

CONSTANTS
  Pages, Offsets,   \* addresses the programs use: pages and offsets in them
  Types,            \* types of references they make, of I, L, S and M
  MarkerPage,       \* the page of the marker variables
  SimPageSize,      \* -s: bytes of a simulated page
  BufSize,          \* -b: lines in the buffer
  Val, Unknown,     \* bytes, and no byte
  Runs,             \* the programs traced: sequences of [pid, forks]
  MaxProcs,         \* MAX_SIMUL_NPROCS
  MaxLines          \* bound on the references in the logs together

ASSUME SimplifyAssumption ==
  /\ Pages \cup Offsets \cup {MarkerPage} \subseteq Nat
  /\ {SimPageSize, BufSize, MaxProcs} \subseteq Nat \ {0} /\ MaxLines \in Nat
  /\ Types \subseteq {"I", "L", "S", "M"} /\ Unknown \notin Val

VARIABLES
  runs,       \* the programs whose traces are made
  simplified, \* how many of them are done
  children,   \* for each process, the queue of the children it has forked
  stack,      \* the activations of simplify_trace, main's call first
  files,      \* the reference files
  lines,      \* how many references have been read from the logs
  recency     \* history: the pages and types each process has used, the last use last

simplifyVars == <<runs, simplified, children, stack, files, lines, recency>>

Line == [type : Types \cup {"S"}, page : Pages \cup {MarkerPage}, off : 0 .. SimPageSize - 1]
AddrOf(l) == l.page * SimPageSize + l.off
PageOf(addr) == addr \div SimPageSize
Addr == {AddrOf(l) : l \in Line}
Key(l) == <<l.page, l.type>>

(* as_map_t: the values of a process, by address.                          *)
AsMap == [Addr -> Val \cup {Unknown}]
AsMapCreate == [a \in Addr |-> Unknown]
AsMapHas(as, a) == as[a] # Unknown
AsMapPut(as, a, v) == [as EXCEPT ![a] = v]

(* parse_markerfile: "parent=>child" lines to a queue for each parent.     *)
Forks(rs) == FlattenSeq([i \in DOMAIN rs |-> rs[i].forks])
Pids(rs) == {rs[i].pid : i \in DOMAIN rs} \cup {f[2] : f \in ToSet(Forks(rs))}
ChildrenOf(rs, p) ==
  LET forks == Forks(rs)
      queue[i \in 0 .. Len(forks)] ==
        IF i = 0 THEN <<>>
        ELSE IF forks[i][1] = p THEN Append(queue[i - 1], forks[i][2]) ELSE queue[i - 1]
  IN  queue[Len(forks)]

(* The marker files name the processes of the runs, each of them once: a   *)
(* program, or the child of one fork.                                      *)
ASSUME RunsAssumption ==
  \A rs \in Runs :
    /\ rs # <<>> /\ rs \in Seq([pid : Pids(rs), forks : Seq(Pids(rs) \X Pids(rs))])
    /\ \A i, j \in DOMAIN rs : rs[i].pid = rs[j].pid => i = j
    /\ \A i, j \in DOMAIN Forks(rs) : Forks(rs)[i][2] = Forks(rs)[j][2] => i = j
    /\ \A i \in DOMAIN rs, j \in DOMAIN Forks(rs) : rs[i].pid # Forks(rs)[j][2]

(* An activation: found_start, ignore_line, the address space, and the     *)
(* trace_writer with its buffer and file; at is where in marker.h the log  *)
(* has got.                                                                *)
Activation(p, as, found, at) ==
  [pid |-> p, found |-> found, ignore |-> FALSE, as |-> as, buf |-> <<>>, file |-> <<>>,
   at |-> at]
Main(p) == Activation(p, AsMapCreate, FALSE, "before")

Init ==
  /\ runs \in Runs
  /\ \A i \in DOMAIN runs : Len(runs[i].forks) + 1 < MaxProcs
  /\ simplified = 0 /\ lines = 0
  /\ children = [p \in Pids(runs) |-> ChildrenOf(runs, p)]
  /\ stack = <<Main(runs[1].pid)>>
  /\ files = [p \in Pids(runs) |-> <<>>]
  /\ recency = [p \in Pids(runs) |-> <<>>]

-----------------------------------------------------------------------------
(* The trace writer                                                        *)

GetSimulValue(as, l, random) ==
  IF l.type \in {"I", "L"} /\ AsMapHas(as, AddrOf(l)) THEN as[AddrOf(l)] ELSE random

WriteOut(f, l, random) ==
  LET v == GetSimulValue(f.as, l, random)
  IN  [f EXCEPT !.as = AsMapPut(@, AddrOf(l), v),
                !.file = Append(@, [type |-> l.type, addr |-> AddrOf(l), value |-> v])]

(* The buffer is kept in the order of the timestamps, as a flush sorts it. *)
FlushWriter(f, random) ==
  LET out[i \in 0 .. Len(f.buf)] ==
        IF i = 0 THEN f ELSE WriteOut(out[i - 1], f.buf[i], random[i])
  IN  [out[Len(f.buf)] EXCEPT !.buf = <<>>]

(* Mutant: the timestamp is not renewed.                                   *)
BufferedOnce(buf, l) ==
  IF SelectInSeq(buf, LAMBDA x : Key(x) = Key(l)) = 0 THEN Append(buf, l) ELSE buf

(* A line whose page and type are in the buffer only renews the timestamp. *)
Buffered(buf, l) ==
  LET hits == SelectInSeq(buf, LAMBDA x : Key(x) = Key(l))
  IN  IF hits = 0 THEN Append(buf, l) ELSE Append(RemoveAt(buf, hits), buf[hits])

(* Mutant: the buffer is written when a line finds it full.                *)
WriteTracelineLate(f, l, random) ==
  LET g == IF Len(f.buf) = BufSize THEN FlushWriter(f, random) ELSE f
  IN  [g EXCEPT !.buf = Buffered(@, l)]

WriteTraceline(f, l, random) ==
  LET g == [f EXCEPT !.buf = Buffered(@, l)]
  IN  IF Len(g.buf) = BufSize THEN FlushWriter(g, random) ELSE g

-----------------------------------------------------------------------------
(* The logs                                                                *)

(* The stores of marker.h, by where the process is before and after them:  *)
(* before marker_start, in the program, inside fork369 before, in and      *)
(* after fork(), as the child that fork() returns in, in the program again *)
(* after a fork369, and after marker_end.                                  *)
MarkerStores ==
  { <<"before", "start", "user">>,
    <<"user", "fork369_start", "fork369">>, <<"again", "fork369_start", "fork369">>,
    <<"fork369", "fork_start", "fork">>,
    <<"fork", "fork_end", "parent">>, <<"child", "fork_end", "registered">>,
    <<"registered", "fork369_end", "again">>,
    <<"user", "end", "ended">>, <<"again", "end", "ended again">> }

(* A process forks as often as the marker file says, and does so before it *)
(* calls marker_end.                                                       *)
MayStore(p, marker) ==
  CASE marker = "fork369_start" -> children[p] # <<>>
    [] marker = "end" -> children[p] = <<>>
    [] OTHER -> TRUE

(* Where a line goes to the reference file: from marker_start to the first *)
(* fork369, inside every fork(), and, in a process that never forks, after *)
(* marker_end.                                                             *)
Recorded == {"user", "fork", "child", "ended"}

Used(p, at, l) ==
  recency' = IF at \notin Recorded THEN recency
             ELSE [recency EXCEPT ![p] = Append(RemoveFirst(@, Key(l)), Key(l))]

Random == [1 .. BufSize -> Val]
top == Last(stack)
Replaced(g) == stack' = Append(Front(stack), g)

(* What the tests of simplify_trace do to found_start and ignore_line.     *)
Marked(g, marker) ==
  [g EXCEPT !.found = @ \/ marker = "start",
            !.ignore = CASE marker \in {"fork369_start", "fork_end"} -> TRUE
                         [] marker = "fork_start" -> FALSE
                         [] OTHER -> @]

Simulated(l) == [l EXCEPT !.off = @ % SimPageSize]
Simplified(g, l, random) ==
  IF g.found /\ ~g.ignore THEN WriteTraceline(g, Simulated(l), random) ELSE g

ReadReference(l) ==
  /\ lines < MaxLines /\ lines' = lines + 1
  /\ \E random \in Random : Replaced(Simplified(top, l, random))
  /\ Used(top.pid, top.at, l)
  /\ UNCHANGED <<runs, simplified, children, files>>

ReadMarker(step) ==
  LET l == [type |-> "S", page |-> MarkerPage, off |-> 0]
  IN  /\ top.at = step[1] /\ MayStore(top.pid, step[2])
      /\ \E random \in Random :
           Replaced(Simplified([Marked(top, step[2]) EXCEPT !.at = step[3]], l, random))
      /\ Used(top.pid, step[3], l)
      /\ UNCHANGED <<runs, simplified, children, files, lines>>

(* The store to is_parent: the buffer and an F line are written, and the   *)
(* log of the next child is simplified, with a copy of the address space.  *)
WriteFork(g, child, random) ==
  [FlushWriter(g, random) EXCEPT !.file = Append(@, [type |-> "F", addr |-> child, value |-> 0])]

(* Mutant: the address space is copied before the buffer is written.       *)
ChildCopiedEarly(before, g, child) == Activation(child, before.as, g.found, "child")

(* as_map_copy, after the flush.                                           *)
ChildActivation(before, g, child) == Activation(child, g.as, g.found, "child")

ReadIsParent ==
  LET child == Head(children[top.pid])
  IN  /\ top.at = "parent"
      /\ \E random \in Random :
           LET g == [WriteFork(top, child, random) EXCEPT !.at = "registered"]
           IN  stack' = Front(stack) \o <<g, ChildActivation(top, g, child)>>
      /\ children' = [children EXCEPT ![top.pid] = Tail(@)]
      /\ UNCHANGED <<runs, simplified, files, lines, recency>>

(* A process may exit where it is in its program.                          *)
EndOfLog ==
  /\ top.at \in {"user", "again", "ended", "ended again"} /\ children[top.pid] = <<>>
  /\ \E random \in Random :
       files' = [files EXCEPT ![top.pid] = FlushWriter(top, random).file]
  /\ simplified' = IF Len(stack) = 1 THEN simplified + 1 ELSE simplified
  /\ stack' = IF Len(stack) = 1 /\ simplified' < Len(runs)
              THEN <<Main(runs[simplified' + 1].pid)>> ELSE Front(stack)
  /\ UNCHANGED <<runs, children, lines, recency>>

SimplifyNext ==
  /\ stack # <<>>
  /\ \/ \E t \in Types, page \in Pages, off \in Offsets :
          ReadReference([type |-> t, page |-> page, off |-> off])
     \/ \E step \in MarkerStores : ReadMarker(step)
     \/ ReadIsParent
     \/ EndOfLog

=============================================================================
