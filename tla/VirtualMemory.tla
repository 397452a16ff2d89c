---------------------------- MODULE VirtualMemory ----------------------------
(***************************************************************************)
(* The simulator of "Virutal Memory": page tables, the core map, swap and  *)
(* the TLB, driven by the lines of a trace.  It is sequential; a memory    *)
(* access is split into the steps of its handlers, and cpu says which one  *)
(* is next:                                                                *)
(*   "trace"    replay_trace reads a line                                  *)
(*   "free", "dup"   a turn of free_pagetable, of duplicate_pagetable      *)
(*   "resolve"  tlb_resolve_addr          "walk"  page_walk                *)
(*   "alloc"    allocate_frame            "evict" handle_frame_evict       *)
(*   "fill"     the rest of find_frame_number, for a page that was absent  *)
(*   "fault"    the rest of handle_tlb_fault, "copy" its copy on write,    *)
(*   "insert"   its TLB entry                                              *)
(*   "ended"    the trace is over; the other values are ways to stop:      *)
(*   "double_fault" an assertion of tlb_translate, "no_victim" one of      *)
(*   allocate_frame (or the endless loop of rand_evict), "dangling" the    *)
(*   use of a page table entry that has been freed.                        *)
(*                                                                         *)
(* A page table entry is named <<task, page>>; a page's bytes are one      *)
(* value; I and M lines are L and S lines.  The four levels of the table,  *)
(* the counters and malloc are left out.  As in schedule.py, which writes  *)
(* the traces, tasks are numbered in the order in which they start.        *)
(***************************************************************************)
EXTENDS Integers, Sequences, FiniteSets, SequencesExt

CONSTANTS
  NTasks,    \* the trace starts at most NTasks tasks
  NPages,    \* their pages are 0 .. NPages - 1
  Val,       \* the values it stores
  Touched,   \* the pages it loads and stores: pairs of a task and a page
  TlbSize,   \* option -t
  Configs    \* the command lines: [alg, memsize, swapsize], and whether the
             \* trace forks

Asid == 0 .. NTasks - 1
Page == 0 .. NPages - 1
Data == Val \cup {0}
Algs == {"rr", "rand", "clock", "s2q"}

ASSUME ConfigAssumption ==
  /\ NTasks \in Nat \ {0} /\ NPages \in Nat \ {0} /\ TlbSize \in Nat \ {0}
  /\ Val \subseteq Nat /\ Touched \subseteq Asid \X Page
  /\ Configs \subseteq [alg : Algs, memsize : Nat \ {0}, swapsize : Nat \ {0},
                        fork : BOOLEAN]

VARIABLES
  config,      \* the command line
  tasks, born, \* the tasks that exist, and how many have ever existed
  pte,         \* the page tables
  refs,        \* of each frame: the entries that refer to it
  asid,        \* of each frame: the task that allocated it
  physmem,     \* of each frame: its content
  mem_usage, last_alloc,   \* of coremap.c
  hand,        \* i of rr.c, clock_c of clock.c
  swapmap, swap,           \* the slots in use, and what they hold
  tlb,         \* the valid entries
  cpu,         \* what is executed next
  req,         \* the access: the line, the fault handled, the frames used
  slice,       \* the entries handle_frame_evict goes through
  ret,         \* what the last load read
  warned       \* swap_pageout has reported a full swap space

tableVars == <<tasks, born, pte>>
frameVars == <<refs, asid, physmem, mem_usage, last_alloc, hand>>
swapVars == <<swapmap, swap, warned>>
accessVars == <<cpu, req, slice, ret>>
vars == <<config, tableVars, frameVars, swapVars, tlb, accessVars>>

Frame == 0 .. config.memsize - 1
Slot == 0 .. config.swapsize - 1
NoFrame == -1
NoSlot == -1
NoAsid == -1

(* An entry of a zeroed page of the table, and one page_walk has set up.   *)
NoPte == [valid |-> FALSE, writable |-> FALSE, dirty |-> FALSE,
          swapped |-> FALSE, pfn |-> 0, slot |-> 0]
FreshPte == [valid |-> FALSE, writable |-> TRUE, dirty |-> FALSE,
             swapped |-> FALSE, pfn |-> NoFrame, slot |-> NoSlot]

NoReq == [asid |-> NoAsid, vpn |-> 0, type |-> "L", val |-> 0, fault |-> "none",
          frame |-> NoFrame, old |-> NoFrame]
NoSlice == [items |-> <<>>, i |-> 1]

InitCoremap ==
  /\ refs = [f \in Frame |-> <<>>] /\ asid = [f \in Frame |-> NoAsid]
  /\ mem_usage = 0 /\ last_alloc = -1
SwapInit == swapmap = {} /\ swap = [s \in Slot |-> 0] /\ warned = FALSE

Init ==
  /\ config \in Configs
  /\ tasks = {} /\ born = 0
  /\ pte = [p \in Asid |-> [v \in Page |-> NoPte]]
  /\ InitCoremap /\ SwapInit
  /\ physmem = [f \in Frame |-> 0] /\ hand = 0 /\ tlb = {}
  /\ cpu = "trace" /\ req = NoReq /\ slice = NoSlice /\ ret = 0

InUse(f) == refs[f] # <<>>
IsShared(f) == Len(refs[f]) > 1

(* Mutant: a signed counter.                                               *)
LessSigned(n) == n - 1
(* Mutant: the entry linked last is unlinked.                              *)
WithoutLast(rs, x) == IF rs = <<>> THEN <<>> ELSE Front(rs)

(* mem_usage-- of frame_unlink_pte.  It is unsigned: below zero it is more *)
(* than any memsize, and no run is long enough to bring it back.           *)
Less(n) == IF n = -1 THEN -1 ELSE n - 1
WithRef(rs, x) == Append(rs, x)
WithoutRef(rs, x) == RemoveFirst(rs, x)
UsageWithout(rs, x, n) == IF WithoutRef(rs, x) = <<>> THEN Less(n) ELSE n

-----------------------------------------------------------------------------
(* The lines B, E and F of the trace.                                      *)

CreateTask(p) ==
  /\ cpu = "trace" /\ p = born
  /\ tasks' = tasks \cup {p} /\ born' = born + 1
  /\ UNCHANGED <<config, pte, frameVars, swapVars, tlb, accessVars>>

(* free_task and fork369 go through the pages one by one.                  *)
ThePte == pte[req.asid][req.vpn]
SetPte(e) == pte' = [pte EXCEPT ![req.asid][req.vpn] = e]
LastPage == req.vpn = NPages - 1
NextPage == cpu' = cpu /\ req' = [req EXCEPT !.vpn = @ + 1]
Done == cpu' = "trace" /\ req' = NoReq

FreeTask(p) ==
  /\ cpu = "trace" /\ p \in tasks
  /\ req' = [NoReq EXCEPT !.asid = p]
  /\ cpu' = "free"
  /\ UNCHANGED <<config, tableVars, frameVars, swapVars, tlb, slice, ret>>

SwapFree(slots) == swapmap' = swapmap \ slots

(* One turn of the loop of free_pagetable: frame_unlink_pte for a page that*)
(* is resident, swap_free for one in swap.  The TLB is not told.           *)
FreePage ==
  /\ cpu = "free"
  /\ IF ThePte.valid
       THEN LET f == ThePte.pfn
                x == <<req.asid, req.vpn>>
            IN  /\ refs' = [refs EXCEPT ![f] = WithoutRef(@, x)]
                /\ mem_usage' = UsageWithout(refs[f], x, mem_usage)
       ELSE UNCHANGED <<refs, mem_usage>>
  /\ SwapFree(IF ThePte.swapped THEN {ThePte.slot} ELSE {})
  /\ SetPte(NoPte)
  /\ IF LastPage THEN Done /\ tasks' = tasks \ {req.asid}
                 ELSE NextPage /\ UNCHANGED tasks
  /\ UNCHANGED <<config, born, asid, physmem, last_alloc, hand, swap, warned,
                 tlb, slice, ret>>

Fork(p, c) ==
  /\ config.fork /\ cpu = "trace" /\ p \in tasks /\ c = born
  /\ req' = [NoReq EXCEPT !.asid = p]
  /\ cpu' = "dup"
  /\ UNCHANGED <<config, tableVars, frameVars, swapVars, tlb, slice, ret>>

(* Mutants: the parent may go on writing, its TLB entries stay.            *)
ParentWrites(e) == e
TlbKept(p) == tlb

(* One turn of the loop of duplicate_pagetable: a page that is resident is *)
(* shared, read-only, a page that is not is left out.  After the last one  *)
(* the TLB entries of the parent are dropped.                              *)
ReadOnly(e) == [e EXCEPT !.writable = FALSE]
ParentPte(e) == ReadOnly(e)
ChildPte(e) == ReadOnly(e)
AfterFork(p) == {e \in tlb : e.asid # p}

DupPage ==
  /\ cpu = "dup"
  /\ IF ThePte.valid
       THEN /\ pte' = [pte EXCEPT ![req.asid][req.vpn] = ParentPte(ThePte),
                                  ![born][req.vpn] = ChildPte(ThePte)]
            /\ refs' = [refs EXCEPT ![ThePte.pfn] = WithRef(@, <<born, req.vpn>>)]
       ELSE UNCHANGED <<pte, refs>>
  /\ IF LastPage
       THEN /\ Done /\ tlb' = AfterFork(req.asid)
            /\ tasks' = tasks \cup {born} /\ born' = born + 1
       ELSE NextPage /\ UNCHANGED <<tlb, tasks, born>>
  /\ UNCHANGED <<config, asid, physmem, mem_usage, last_alloc, hand, swapVars,
                 slice, ret>>

EndOfTrace ==
  /\ cpu = "trace" /\ cpu' = "ended"
  /\ UNCHANGED <<config, tableVars, frameVars, swapVars, tlb, req, slice, ret>>

-----------------------------------------------------------------------------
(* An access: tlb_translate, and the read or write of access_mem.          *)

Load(p, v) ==
  /\ cpu = "trace" /\ p \in tasks /\ <<p, v>> \in Touched
  /\ req' = [NoReq EXCEPT !.asid = p, !.vpn = v]
  /\ cpu' = "resolve"
  /\ UNCHANGED <<config, tableVars, frameVars, swapVars, tlb, slice, ret>>

Store(p, v, x) ==
  /\ cpu = "trace" /\ p \in tasks /\ <<p, v>> \in Touched
  /\ req' = [NoReq EXCEPT !.asid = p, !.vpn = v, !.type = "S", !.val = x]
  /\ cpu' = "resolve"
  /\ UNCHANGED <<config, tableVars, frameVars, swapVars, tlb, slice, ret>>

(* tlbp for the page of the access: the entry found, if any.               *)
Hits == {e \in tlb : e.asid = req.asid /\ e.vpn = req.vpn}
Resolves(e) == req.type = "S" => e.dirty

LoadHit ==
  /\ cpu = "resolve" /\ req.type = "L"
  /\ \E e \in Hits : ret' = physmem[e.pfn]
  /\ Done
  /\ UNCHANGED <<config, tableVars, frameVars, swapVars, tlb, slice>>

StoreHit ==
  /\ cpu = "resolve" /\ req.type = "S"
  /\ \E e \in Hits : Resolves(e) /\ physmem' = [physmem EXCEPT ![e.pfn] = req.val]
  /\ Done
  /\ UNCHANGED <<config, tableVars, refs, asid, mem_usage, last_alloc, hand,
                 swapVars, tlb, slice, ret>>

(* tlb_translate calls handle_tlb_fault, once for a missing entry and once *)
(* for a store to a clean one; it asserts that this is enough.             *)
Fault ==
  /\ cpu = "resolve" /\ \A e \in Hits : ~Resolves(e)
  /\ LET again == IF Hits = {} THEN req.fault # "none" ELSE req.fault = "write"
         kind  == IF Hits = {} THEN "miss" ELSE "write"
     IN  /\ cpu' = IF again THEN "double_fault" ELSE "walk"
         /\ req' = [req EXCEPT !.fault = kind]
  /\ UNCHANGED <<config, tableVars, frameVars, swapVars, tlb, slice, ret>>

Dirtied(e) == [e EXCEPT !.dirty = @ \/ req.type = "S"]

(* page_walk and the hit of find_frame_number ...                          *)
WalkResident ==
  /\ cpu = "walk" /\ ThePte.valid
  /\ SetPte(Dirtied(ThePte))
  /\ cpu' = "fault"
  /\ UNCHANGED <<config, tasks, born, frameVars, swapVars, tlb, req, slice, ret>>

(* ... and its miss, up to allocate_frame.                                 *)
WalkAbsent ==
  /\ cpu = "walk" /\ ~ThePte.valid
  /\ SetPte(IF ThePte = NoPte THEN FreshPte ELSE ThePte)
  /\ cpu' = "alloc"
  /\ UNCHANGED <<config, tasks, born, frameVars, swapVars, tlb, req, slice, ret>>

-----------------------------------------------------------------------------
(* allocate_frame                                                          *)

(* The scan starts after last_alloc and stops before it.                   *)
Distance(f) == (f - last_alloc - 1) % config.memsize
Scanned == {f \in Frame : f # last_alloc /\ ~InUse(f)}
FreeFrames == IF mem_usage \in 0 .. config.memsize - 1 THEN Scanned ELSE {}
NextFree(f) ==
  f \in FreeFrames /\ \A g \in FreeFrames : Distance(f) <= Distance(g)

(* evict_func.  No reference bit is ever set and the lists of s2q.c stay   *)
(* empty, since nothing calls ref_func.  rr and rand pass over shared      *)
(* frames.                                                                 *)
RrVictim(f) ==
  /\ ~IsShared(f)
  /\ \A g \in Frame : ~IsShared(g) =>
       (f - hand) % config.memsize <= (g - hand) % config.memsize
RandVictim(f) == ~IsShared(f)
ClockVictim(f) == f = hand
S2qVictim(f) ==
  /\ \A g \in Frame : InUse(g) => f <= g
  /\ InUse(f) \/ (f = 0 /\ \A g \in Frame : ~InUse(g))
Victim(f) ==
  \/ config.alg = "rr" /\ RrVictim(f)
  \/ config.alg = "rand" /\ RandVictim(f)
  \/ config.alg = "clock" /\ ClockVictim(f)
  \/ config.alg = "s2q" /\ S2qVictim(f)
HandAfter(f) ==
  IF config.alg \in {"rr", "clock"} THEN (f + 1) % config.memsize ELSE hand

(* The end of allocate_frame: f is for the page of the access.             *)
Got(f, rs) ==
  /\ refs' = [refs EXCEPT ![f] = WithRef(rs, <<req.asid, req.vpn>>)]
  /\ asid' = [asid EXCEPT ![f] = req.asid]
  /\ cpu' = IF req.old = NoFrame THEN "fill" ELSE "copy"

AllocFree ==
  /\ cpu = "alloc"
  /\ \E f \in Frame :
       /\ NextFree(f) /\ Got(f, refs[f])
       /\ last_alloc' = f
       /\ req' = [req EXCEPT !.frame = f]
  /\ mem_usage' = mem_usage + 1
  /\ UNCHANGED <<config, tableVars, physmem, hand, swapVars, tlb, slice, ret>>

(* It asserts that there is a victim and that the victim is in use.        *)
AllocEvict ==
  /\ cpu = "alloc" /\ FreeFrames = {}
  /\ \E f \in Frame :
       /\ Victim(f) /\ InUse(f)
       /\ hand' = HandAfter(f)
       /\ req' = [req EXCEPT !.frame = f]
       /\ slice' = [items |-> refs[f], i |-> 1]
  /\ cpu' = "evict"
  /\ UNCHANGED <<config, tableVars, refs, asid, physmem, mem_usage, last_alloc,
                 swapVars, tlb, ret>>

AllocFails ==
  /\ cpu = "alloc" /\ FreeFrames = {}
  /\ \/ \A f \in Frame : ~Victim(f)
     \/ \E f \in Frame : Victim(f) /\ ~InUse(f)
  /\ cpu' = "no_victim"
  /\ UNCHANGED <<config, tableVars, frameVars, swapVars, tlb, req, slice, ret>>

(* Mutant: bitmap_alloc does not look at the bits.                         *)
AnySlot == Slot

(* swap_pageout                                                            *)
FreeSlots == Slot \ swapmap
SlotFor(e) ==
  IF e.slot # NoSlot THEN e.slot
  ELSE IF FreeSlots = {} THEN NoSlot
  ELSE CHOOSE s \in FreeSlots : \A r \in FreeSlots : s <= r

PageOut(e) ==
  /\ swapmap' = swapmap \cup ({SlotFor(e)} \ {NoSlot})
  /\ swap' = [s \in Slot |-> IF s = SlotFor(e) THEN physmem[req.frame] ELSE swap[s]]
  /\ warned' = (warned \/ SlotFor(e) = NoSlot)

Evicted(e, s) ==
  [e EXCEPT !.valid = FALSE, !.dirty = FALSE, !.pfn = NoFrame,
            !.slot = s, !.swapped = (s # NoSlot)]

(* Mutant: the TLB is not told.                                            *)
TlbUntold(v) == tlb

(* handle_pte_evict drops the TLB entry of the task the frame belongs to.  *)
AfterEvict(v) == {e \in tlb : ~(e.asid = asid[req.frame] /\ e.vpn = v)}

(* One turn of the loop of handle_frame_evict.  The array it goes through  *)
(* is the one frame_unlink_pte shifts under it; what is behind its end     *)
(* stays there.  An entry may have been freed with the table of its task.  *)
EvictRef ==
  /\ cpu = "evict" /\ slice.i <= Len(slice.items)
  /\ LET f == req.frame
         x == slice.items[slice.i]
         e == pte[x[1]][x[2]]
         rs == WithoutRef(refs[f], x)
     IN  IF x[1] \notin tasks
           THEN cpu' = "dangling"
                /\ UNCHANGED <<swapVars, pte, tlb, refs, mem_usage, slice>>
           ELSE /\ IF e.dirty
                     THEN /\ PageOut(e)
                          /\ pte' = [pte EXCEPT ![x[1]][x[2]] = Evicted(e, SlotFor(e))]
                     ELSE /\ UNCHANGED swapVars
                          /\ pte' = [pte EXCEPT ![x[1]][x[2]] = Evicted(e, e.slot)]
                /\ tlb' = AfterEvict(x[2])
                /\ refs' = [refs EXCEPT ![f] = rs]
                /\ mem_usage' = UsageWithout(refs[f], x, mem_usage)
                /\ slice' = [items |-> rs \o SubSeq(slice.items, Len(rs) + 1,
                                                     Len(slice.items)),
                             i |-> slice.i + 1]
                /\ UNCHANGED cpu
  /\ UNCHANGED <<config, tasks, born, asid, physmem, last_alloc, hand, req, ret>>

EvictDone ==
  /\ cpu = "evict" /\ slice.i > Len(slice.items)
  /\ Got(req.frame, <<>>)
  /\ slice' = NoSlice
  /\ UNCHANGED <<config, tableVars, physmem, mem_usage, last_alloc, hand,
                 swapVars, tlb, req, ret>>

-----------------------------------------------------------------------------
(* The page gets its frame.                                                *)

SwapPageIn(f, slot) == physmem' = [physmem EXCEPT ![f] = swap[slot]]
InitFrame(f) == physmem' = [physmem EXCEPT ![f] = 0]
CopyFrame(dst, src) == physmem' = [physmem EXCEPT ![dst] = physmem[src]]

Fill ==
  /\ cpu = "fill"
  /\ LET e == ThePte
         f == req.frame
         here == [e EXCEPT !.valid = TRUE, !.pfn = f]
     IN  IF e.swapped
           THEN /\ SwapPageIn(f, e.slot)
                /\ SetPte(Dirtied([here EXCEPT !.swapped = FALSE]))
           ELSE /\ InitFrame(f)
                /\ SetPte([here EXCEPT !.dirty = TRUE])
  /\ cpu' = "fault"
  /\ UNCHANGED <<config, tasks, born, refs, asid, mem_usage, last_alloc, hand,
                 swapVars, tlb, req, slice, ret>>

(* The rest of handle_tlb_fault: a write fault on a read-only page needs a *)
(* frame of its own ...                                                    *)
CowFault ==
  /\ cpu = "fault" /\ req.fault = "write" /\ ~ThePte.writable
  /\ req' = [req EXCEPT !.old = ThePte.pfn]
  /\ cpu' = "alloc"
  /\ UNCHANGED <<config, tableVars, frameVars, swapVars, tlb, slice, ret>>

NoCowFault ==
  /\ cpu = "fault" /\ ~(req.fault = "write" /\ ~ThePte.writable)
  /\ IF req.fault = "write" THEN SetPte(Dirtied(ThePte)) ELSE UNCHANGED pte
  /\ cpu' = "insert"
  /\ UNCHANGED <<config, tasks, born, frameVars, swapVars, tlb, req, slice, ret>>

(* Mutant: the entry is inserted clean.                                    *)
CleanEntry == [asid |-> req.asid, vpn |-> req.vpn, pfn |-> ThePte.pfn, dirty |-> FALSE]

(* ... into which the page is copied.  allocate_frame has linked the new   *)
(* frame to the entry; frame_link_pte does it again.                       *)
Copy ==
  /\ cpu = "copy"
  /\ LET x == <<req.asid, req.vpn>>
         unlinked == [refs EXCEPT ![req.old] = WithoutRef(@, x)]
     IN  /\ refs' = [unlinked EXCEPT ![req.frame] = WithRef(@, x)]
         /\ mem_usage' = UsageWithout(refs[req.old], x, mem_usage)
  /\ CopyFrame(req.frame, req.old)
  /\ SetPte([ThePte EXCEPT !.pfn = req.frame, !.swapped = FALSE, !.slot = NoSlot,
                           !.writable = TRUE, !.dirty = TRUE])
  /\ cpu' = "insert"
  /\ UNCHANGED <<config, tasks, born, asid, last_alloc, hand, swapVars, tlb, req,
                 slice, ret>>

TlbEntry ==
  [asid |-> req.asid, vpn |-> req.vpn, pfn |-> ThePte.pfn,
   dirty |-> req.fault = "write" /\ ThePte.writable]

(* tlbwi over the old entry, or tlbwr over a random slot.                  *)
TlbWriteIndex(e) == tlb' = (tlb \ Hits) \cup {e}
TlbWriteRandom(e) ==
  \/ Cardinality(tlb) < TlbSize /\ tlb' = tlb \cup {e}
  \/ \E old \in tlb : tlb' = (tlb \ {old}) \cup {e}

Insert ==
  /\ cpu = "insert"
  /\ IF Hits # {} THEN TlbWriteIndex(TlbEntry) ELSE TlbWriteRandom(TlbEntry)
  /\ cpu' = "resolve"
  /\ req' = [req EXCEPT !.frame = NoFrame, !.old = NoFrame]
  /\ UNCHANGED <<config, tableVars, frameVars, swapVars, slice, ret>>

Stopped == cpu \in {"ended", "double_fault", "no_victim", "dangling"}

Line ==
  \/ EndOfTrace
  \/ \E p \in Asid : \/ CreateTask(p) \/ FreeTask(p)
                     \/ \E c \in Asid : Fork(p, c)
                     \/ \E v \in Page : Load(p, v) \/ \E x \in Val : Store(p, v, x)

Handling ==
  \/ FreePage \/ DupPage
  \/ LoadHit \/ StoreHit \/ Fault \/ WalkResident \/ WalkAbsent
  \/ AllocFree \/ AllocEvict \/ AllocFails
  \/ EvictRef \/ EvictDone
  \/ Fill \/ CowFault \/ NoCowFault \/ Copy \/ Insert

Next == Line \/ Handling \/ (Stopped /\ UNCHANGED vars)

Spec == Init /\ [][Next]_vars

-----------------------------------------------------------------------------
(* Properties.                                                             *)

PteType ==
  [valid : BOOLEAN, writable : BOOLEAN, dirty : BOOLEAN, swapped : BOOLEAN,
   pfn : Frame \cup {NoFrame}, slot : Slot \cup {NoSlot}]
TlbType == [asid : Asid, vpn : Page, pfn : Frame, dirty : BOOLEAN]
ReqType ==
  [asid : Asid \cup {NoAsid}, vpn : Page, type : {"L", "S"}, val : Data,
   fault : {"none", "miss", "write"}, frame : Frame \cup {NoFrame},
   old : Frame \cup {NoFrame}]
CpuType ==
  {"trace", "free", "dup", "resolve", "walk", "alloc", "evict", "fill", "fault",
   "copy", "insert", "ended", "double_fault", "no_victim", "dangling"}

(* Every variable has its type; no more entries than the TLB has slots.    *)
TypeOK ==
  /\ config \in Configs /\ born \in 0 .. NTasks /\ tasks \subseteq 0 .. born - 1
  /\ pte \in [Asid -> [Page -> PteType]]
  /\ refs \in [Frame -> Seq(Asid \X Page)]
  /\ asid \in [Frame -> Asid \cup {NoAsid}] /\ physmem \in [Frame -> Data]
  /\ mem_usage \in -1 .. config.memsize
  /\ last_alloc \in Frame \cup {-1} /\ hand \in Frame
  /\ swapmap \subseteq Slot /\ swap \in [Slot -> Data] /\ warned \in BOOLEAN
  /\ tlb \subseteq TlbType /\ Cardinality(tlb) <= TlbSize
  /\ cpu \in CpuType /\ req \in ReqType
  /\ slice \in [items : Seq(Asid \X Page), i : Nat \ {0}]
  /\ ret \in Data

(* What the TLB says of a page of a task is what its page table says, and  *)
(* a page it lets be written is marked dirty, so that eviction saves it.   *)
TlbAgrees ==
  cpu = "trace" =>
  \A e \in tlb : e.asid \in tasks =>
    LET q == pte[e.asid][e.vpn]
    IN  q.valid /\ q.pfn = e.pfn /\ (e.dirty => q.dirty /\ q.writable)

(* When a frame has been taken from a page, no task reaches that page      *)
(* through the TLB any more (pagetable.c: "Update the tlb as well to       *)
(* ensure consistent state").                                              *)
EvictedUnmapped ==
  cpu \in {"fill", "copy"} =>
  \A e \in tlb : e.asid \in tasks => e.pfn # req.frame

(* The core map and the page tables agree: the entries a frame lists are   *)
(* those that are resident in it, up to those of tasks that are gone.      *)
RefsAgree ==
  cpu = "trace" =>
  \A f \in Frame :
    {x \in ToSet(refs[f]) : x[1] \in tasks}
      = {x \in tasks \X Page : pte[x[1]][x[2]].valid /\ pte[x[1]][x[2]].pfn = f}

(* Copy on write: a frame a task may write to is no other task's.          *)
WritersAlone ==
  \A p, r \in tasks, v, w \in Page :
    /\ <<p, v>> # <<r, w>>
    /\ pte[p][v].valid /\ pte[p][v].writable /\ pte[r][w].valid
    => pte[p][v].pfn # pte[r][w].pfn

(* A slot that holds a page is marked in use and holds no other page.      *)
Slotted(p, v) == pte[p][v] # NoPte /\ pte[p][v].slot # NoSlot
SlotsOwned ==
  \A p, r \in tasks, v, w \in Page :
    Slotted(p, v) =>
      /\ pte[p][v].slot \in swapmap
      /\ Slotted(r, w) /\ <<p, v>> # <<r, w>> => pte[p][v].slot # pte[r][w].slot

(* handle_tlb_fault leaves an entry the access can use: the assertions of  *)
(* tlb_translate ("if fail again something is wrong") hold.                *)
NoDoubleFault == cpu # "double_fault"

(* allocate_frame evicts only when all frames are in use, so its victim    *)
(* holds a page (coremap.c: "All frames were in use, so victim frame must  *)
(* hold some page").                                                       *)
VictimHoldsPage == cpu # "no_victim"

(* The memory of the tasks as the page tables, the frames and the swap     *)
(* space describe it.  A task ends with the line E of its trace.           *)
Content(p, v) ==
  IF pte[p][v].valid THEN physmem[pte[p][v].pfn]
  ELSE IF pte[p][v].swapped THEN swap[pte[p][v].slot] ELSE 0
Live == tasks \ (IF cpu = "free" THEN {req.asid} ELSE {})
Mem == [p \in Asid |-> [v \in Page |-> IF p \in Live THEN Content(p, v) ELSE 0]]

AS == INSTANCE AddressSpaces WITH live <- Live, mem <- Mem
ImplementsMemory == AS!Spec

=============================================================================
