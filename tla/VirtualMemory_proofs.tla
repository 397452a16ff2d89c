------------------------ MODULE VirtualMemory_proofs ------------------------
(***************************************************************************)
(* The virtual memory simulator: for every trace, that the variables keep  *)
(* their types and that no fault is taken twice; for traces without fork,  *)
(* that TLB, page tables, core map and swap agree, and that the program    *)
(* implements the address spaces of module AddressSpaces.                  *)
(***************************************************************************)
EXTENDS VirtualMemory, QueueLemmas

Accessing ==
  cpu \in {"resolve", "walk", "alloc", "evict", "fill", "fault", "copy", "insert"}

(* A page in swap has a slot, a resident one has a frame.                  *)
PteOK ==
  \A p \in Asid, v \in Page :
    /\ pte[p][v].swapped => pte[p][v].slot # NoSlot
    /\ pte[p][v].valid => pte[p][v].pfn # NoFrame

(* What the handlers know of the access they serve.                        *)
ReqOK ==
  /\ Accessing \/ cpu \in {"free", "dup"} => req.asid \in tasks
  /\ req.fault = "write" => req.type = "S"
  /\ cpu \in {"evict", "fill", "copy"} => req.frame # NoFrame
  /\ cpu = "copy" => req.old # NoFrame
  /\ cpu = "fault" => ThePte.valid
  /\ cpu = "insert" => /\ ThePte.pfn # NoFrame
                       /\ req.fault = "write" => ThePte.writable
  /\ cpu = "dup" => born \in Asid

(* handle_tlb_fault has left an entry for the page.                        *)
Handled ==
  cpu = "resolve" =>
    /\ req.fault = "miss" => Hits # {}
    /\ req.fault = "write" => \E e \in Hits : e.dirty

BaseInv == TypeOK /\ IsFiniteSet(tlb) /\ PteOK /\ ReqOK /\ Handled /\ NoDoubleFault

-----------------------------------------------------------------------------
(* The operators of the model.                                             *)

LEMMA Sizes ==
  ASSUME config \in Configs
  PROVE  /\ config.memsize \in Nat \ {0} /\ config.swapsize \in Nat \ {0}
         /\ Frame \subseteq Nat /\ Slot \subseteq Nat /\ 0 \in Frame /\ 0 \in Slot
         /\ NoFrame \notin Frame /\ NoSlot \notin Slot
  BY ConfigAssumption DEF Frame, Slot, NoFrame, NoSlot

LEMMA Numbers ==
  /\ NTasks \in Nat \ {0} /\ NPages \in Nat \ {0} /\ TlbSize \in Nat \ {0}
  /\ 0 \in Asid /\ 0 \in Page /\ 0 \in Data /\ Val \subseteq Data
  /\ NoAsid \notin Asid /\ Asid \subseteq Nat /\ Page \subseteq Nat
  /\ \A n \in 0 .. NTasks : 0 .. n - 1 \subseteq Asid
  BY ConfigAssumption DEF Asid, Page, Data, NoAsid

(* The command line does not change, and with it the sizes.                *)
LEMMA SameSizes ==
  ASSUME config' = config
  PROVE  /\ Frame' = Frame /\ Slot' = Slot /\ PteType' = PteType
         /\ TlbType' = TlbType /\ ReqType' = ReqType
  BY DEF Frame, Slot, PteType, TlbType, ReqType

(* The entries page_walk and free_pagetable write.                         *)
LEMMA NewEntries ==
  ASSUME config \in Configs
  PROVE  NoPte \in PteType /\ FreshPte \in PteType /\ NoReq \in ReqType
  BY Sizes, Numbers DEF NoPte, FreshPte, NoReq, PteType, ReqType, NoFrame, NoSlot, NoAsid

(* One entry of one table is written.                                      *)
LEMMA OneEntry ==
  ASSUME NEW S, NEW t \in [Asid -> [Page -> S]], NEW p \in Asid, NEW v \in Page, NEW e \in S
  PROVE  LET u == [t EXCEPT ![p][v] = e]
         IN  /\ u \in [Asid -> [Page -> S]]
             /\ \A q \in Asid, w \in Page :
                  u[q][w] = IF q = p /\ w = v THEN e ELSE t[q][w]
  OBVIOUS

(* The least free slot.                                                    *)
LEMMA SlotForType ==
  ASSUME config \in Configs, NEW e \in PteType
  PROVE  /\ SlotFor(e) \in Slot \cup {NoSlot}
         /\ e.slot # NoSlot => SlotFor(e) = e.slot
         /\ e.slot = NoSlot => SlotFor(e) \in FreeSlots \cup {NoSlot}
         /\ e.slot = NoSlot /\ FreeSlots # {} => SlotFor(e) # NoSlot
<1>1. e.slot \in Slot \cup {NoSlot} /\ FreeSlots \subseteq Slot /\ FreeSlots \in SUBSET Nat
  BY Sizes DEF PteType, FreeSlots
<1>2. CASE e.slot # NoSlot
  <2>1. SlotFor(e) = e.slot
    BY <1>2 DEF SlotFor
  <2> QED BY <1>1, <1>2, <2>1
<1>3. CASE e.slot = NoSlot /\ FreeSlots = {}
  BY <1>3 DEF SlotFor
<1>4. CASE e.slot = NoSlot /\ FreeSlots # {}
  <2> DEFINE s == CHOOSE s \in FreeSlots : \A r \in FreeSlots : s <= r
  <2>1. \E s0 \in FreeSlots : \A r \in FreeSlots : s0 <= r
    BY <1>1, <1>4, LeastNumber
  <2>2. s \in FreeSlots
    BY <2>1
  <2>3. SlotFor(e) = s
    BY <1>4 DEF SlotFor
  <2> QED BY <1>1, <1>4, <2>2, <2>3, Sizes
<1> QED BY <1>2, <1>3, <1>4

(* No more entries than before, or one more in a TLB with room.            *)
LEMMA TlbFits ==
  ASSUME IsFiniteSet(tlb), Cardinality(tlb) <= TlbSize, NEW e,
         \/ Hits # {} /\ TlbWriteIndex(e)
         \/ TlbWriteRandom(e)
  PROVE  /\ IsFiniteSet(tlb') /\ Cardinality(tlb') <= TlbSize
         /\ e \in tlb' /\ tlb' \subseteq tlb \cup {e}
<1>1. Cardinality(tlb) \in Nat /\ TlbSize \in Nat
  BY Numbers, FS_CardinalityType
<1>2. ASSUME NEW old \in tlb, NEW T \in SUBSET (tlb \ {old}), tlb' = T \cup {e}
      PROVE  IsFiniteSet(tlb') /\ Cardinality(tlb') <= TlbSize
  <2>1. IsFiniteSet(tlb \ {old}) /\ Cardinality(tlb \ {old}) = Cardinality(tlb) - 1
    BY FS_RemoveElement
  <2>2. IsFiniteSet(T) /\ Cardinality(T) <= Cardinality(tlb) - 1 /\ Cardinality(T) \in Nat
    BY <2>1, FS_Subset, FS_CardinalityType
  <2>3. /\ IsFiniteSet(T \cup {e})
        /\ Cardinality(T \cup {e}) = IF e \in T THEN Cardinality(T) ELSE Cardinality(T) + 1
    BY <2>2, FS_AddElement
  <2> QED BY <1>1, <1>2, <2>2, <2>3
<1>3. CASE Hits # {} /\ TlbWriteIndex(e)
  <2>1. PICK old \in tlb : old \in Hits
    BY <1>3 DEF Hits
  <2>2. tlb \ Hits \in SUBSET (tlb \ {old}) /\ tlb' = (tlb \ Hits) \cup {e}
    BY <1>3, <2>1 DEF TlbWriteIndex
  <2> QED BY <1>2, <2>2
<1>4. CASE TlbWriteRandom(e)
  <2>1. CASE Cardinality(tlb) < TlbSize /\ tlb' = tlb \cup {e}
    BY <1>1, <2>1, FS_AddElement
  <2>2. CASE \E old \in tlb : tlb' = (tlb \ {old}) \cup {e}
    BY <1>2, <2>2
  <2> QED BY <1>4, <2>1, <2>2 DEF TlbWriteRandom
<1> QED BY <1>3, <1>4

-----------------------------------------------------------------------------
(* The invariant of every trace.                                           *)

LEMMA BaseInit == Init => BaseInv
<1> SUFFICES ASSUME Init PROVE BaseInv
  OBVIOUS
<1>1. config \in Configs
  BY DEF Init
<1>2. IsFiniteSet(tlb) /\ Cardinality(tlb) = 0
  BY FS_EmptySet DEF Init
<1>3. TypeOK
  <2>1. /\ born \in 0 .. NTasks /\ tasks \subseteq 0 .. born - 1
        /\ pte \in [Asid -> [Page -> PteType]]
        /\ tlb \subseteq TlbType /\ Cardinality(tlb) <= TlbSize
        /\ cpu \in CpuType /\ req \in ReqType /\ ret \in Data
    BY <1>1, <1>2, Numbers, NewEntries DEF Init, CpuType
  <2>2. /\ refs \in [Frame -> Seq(Asid \X Page)]
        /\ slice \in [items : Seq(Asid \X Page), i : Nat \ {0}]
    BY DEF Init, InitCoremap, NoSlice
  <2>3. /\ asid \in [Frame -> Asid \cup {NoAsid}] /\ physmem \in [Frame -> Data]
        /\ swapmap \subseteq Slot /\ swap \in [Slot -> Data] /\ warned \in BOOLEAN
    BY <1>1, Numbers DEF Init, InitCoremap, SwapInit
  <2>4. /\ mem_usage \in -1 .. config.memsize
        /\ last_alloc \in Frame \cup {-1} /\ hand \in Frame
    BY <1>1, Sizes DEF Init, InitCoremap
  <2> QED BY <1>1, <2>1, <2>2, <2>3, <2>4 DEF TypeOK
<1>4. PteOK /\ ReqOK /\ Handled /\ NoDoubleFault
  BY DEF Init, PteOK, ReqOK, Accessing, NoPte, NoReq, Handled, NoDoubleFault
<1> QED BY <1>2, <1>3, <1>4 DEF BaseInv

(* The lines of the trace.                                                 *)
LEMMA BaseLine == BaseInv /\ Line => BaseInv'
<1> SUFFICES ASSUME BaseInv, Line PROVE BaseInv'
  OBVIOUS
<1> USE DEF BaseInv, NoDoubleFault
<1>0. config \in Configs /\ config' = config
  BY DEF Line, TypeOK, CreateTask, FreeTask, Fork, Load, Store, EndOfTrace
<1>1. CASE EndOfTrace
  <2>1. TypeOK'
    BY <1>0, <1>1, SameSizes DEF EndOfTrace, TypeOK, tableVars, frameVars, swapVars, CpuType
  <2>2. PteOK' /\ ReqOK' /\ Handled'
    BY <1>1 DEF EndOfTrace, PteOK, ReqOK, Accessing, Handled, tableVars
  <2> QED BY <1>1, <2>1, <2>2 DEF EndOfTrace
<1>2. ASSUME NEW p \in Asid, CreateTask(p) PROVE BaseInv'
  <2>1. TypeOK'
    BY <1>0, <1>2, SameSizes, Numbers DEF CreateTask, TypeOK, frameVars, swapVars, accessVars, Asid
  <2>2. PteOK' /\ ReqOK' /\ Handled'
    BY <1>2 DEF CreateTask, PteOK, ReqOK, Accessing, Handled, accessVars, ThePte, Hits
  <2> QED BY <1>2, <2>1, <2>2 DEF CreateTask, accessVars
<1>3. ASSUME NEW p \in Asid, FreeTask(p) PROVE BaseInv'
  <2>1. TypeOK'
    BY <1>0, <1>3, SameSizes, NewEntries
       DEF FreeTask, TypeOK, tableVars, frameVars, swapVars, CpuType, ReqType
  <2>2. PteOK' /\ ReqOK' /\ Handled'
    BY <1>3 DEF FreeTask, PteOK, ReqOK, Accessing, Handled, tableVars, NoReq
  <2> QED BY <1>3, <2>1, <2>2 DEF FreeTask
<1>4. ASSUME NEW p \in Asid, NEW c \in Asid, Fork(p, c) PROVE BaseInv'
  <2>1. TypeOK'
    BY <1>0, <1>4, SameSizes, NewEntries
       DEF Fork, TypeOK, tableVars, frameVars, swapVars, CpuType, ReqType
  <2>2. PteOK' /\ ReqOK' /\ Handled'
    BY <1>4 DEF Fork, PteOK, ReqOK, Accessing, Handled, tableVars, NoReq
  <2> QED BY <1>4, <2>1, <2>2 DEF Fork
<1>5. ASSUME NEW p \in Asid, NEW v \in Page, Load(p, v) PROVE BaseInv'
  <2>1. TypeOK'
    BY <1>0, <1>5, SameSizes, NewEntries
       DEF Load, TypeOK, tableVars, frameVars, swapVars, CpuType, ReqType
  <2>2. PteOK' /\ ReqOK' /\ Handled'
    BY <1>5 DEF Load, PteOK, ReqOK, Accessing, Handled, tableVars, NoReq
  <2> QED BY <1>5, <2>1, <2>2 DEF Load
<1>6. ASSUME NEW p \in Asid, NEW v \in Page, NEW x \in Val, Store(p, v, x) PROVE BaseInv'
  <2>1. TypeOK'
    BY <1>0, <1>6, SameSizes, NewEntries, Numbers
       DEF Store, TypeOK, tableVars, frameVars, swapVars, CpuType, ReqType
  <2>2. PteOK' /\ ReqOK' /\ Handled'
    BY <1>6 DEF Store, PteOK, ReqOK, Accessing, Handled, tableVars, NoReq
  <2> QED BY <1>6, <2>1, <2>2 DEF Store
<1> QED BY <1>1, <1>2, <1>3, <1>4, <1>5, <1>6 DEF Line

(* The page of the access, and what a handler writes into its entry.       *)
LEMMA TheAccess ==
  ASSUME TypeOK, req.asid \in tasks
  PROVE  /\ req.asid \in Asid /\ req.vpn \in Page /\ ThePte \in PteType
         /\ req.type \in {"L", "S"} /\ req.val \in Data
         /\ tasks \subseteq Asid
         /\ \A e \in PteType : SetPte(e) =>
              /\ pte' \in [Asid -> [Page -> PteType]]
              /\ pte'[req.asid][req.vpn] = e
              /\ \A p \in Asid, v \in Page :
                   pte'[p][v] = IF p = req.asid /\ v = req.vpn THEN e ELSE pte[p][v]
<1>1. req.asid \in Asid /\ req.vpn \in Page /\ tasks \subseteq Asid
      /\ req.type \in {"L", "S"} /\ req.val \in Data
  BY Numbers DEF TypeOK, ReqType
<1>2. pte \in [Asid -> [Page -> PteType]]
  BY DEF TypeOK
<1>3. ThePte \in PteType
  BY <1>1, <1>2 DEF ThePte
<1>4. ASSUME NEW e \in PteType, SetPte(e)
      PROVE  /\ pte' \in [Asid -> [Page -> PteType]]
             /\ \A p \in Asid, v \in Page :
                  pte'[p][v] = IF p = req.asid /\ v = req.vpn THEN e ELSE pte[p][v]
  BY <1>1, <1>2, <1>4, OneEntry DEF SetPte
<1> QED BY <1>1, <1>3, <1>4

(* frame_unlink_pte and frame_link_pte.                                    *)
LEMMA Unlinked ==
  ASSUME TypeOK, NEW f \in Frame, NEW x \in Asid \X Page
  PROVE  /\ WithoutRef(refs[f], x) \in Seq(Asid \X Page)
         /\ WithRef(refs[f], x) \in Seq(Asid \X Page)
         /\ UsageWithout(refs[f], x, mem_usage) \in -1 .. config.memsize
<1>1. refs[f] \in Seq(Asid \X Page) /\ mem_usage \in -1 .. config.memsize
      /\ config.memsize \in Nat
  BY Sizes DEF TypeOK
<1>2. WithoutRef(refs[f], x) \in Seq(Asid \X Page)
  BY <1>1, RemovedSequence DEF WithoutRef
<1>3. WithRef(refs[f], x) \in Seq(Asid \X Page)
  BY <1>1 DEF WithRef
<1>4. UsageWithout(refs[f], x, mem_usage) \in -1 .. config.memsize
  BY <1>1 DEF UsageWithout, Less
<1> QED BY <1>2, <1>3, <1>4

(* The turns of free_pagetable and duplicate_pagetable.                    *)
LEMMA BaseFreePage == BaseInv /\ FreePage => BaseInv'
<1> SUFFICES ASSUME BaseInv, FreePage PROVE BaseInv'
  OBVIOUS
<1>0. /\ TypeOK /\ PteOK /\ ReqOK /\ IsFiniteSet(tlb)
      /\ config \in Configs /\ config' = config /\ cpu = "free"
      /\ req.asid \in tasks
  BY DEF BaseInv, TypeOK, ReqOK, FreePage
<1> DEFINE x == <<req.asid, req.vpn>>
           f == ThePte.pfn
<1>1. /\ req.asid \in Asid /\ req.vpn \in Page /\ ThePte \in PteType
      /\ x \in Asid \X Page
      /\ ThePte.valid => f \in Frame
      /\ pte' \in [Asid -> [Page -> PteType]]
      /\ \A p \in Asid, v \in Page :
           pte'[p][v] = IF p = req.asid /\ v = req.vpn THEN NoPte ELSE pte[p][v]
  <2>1. NoPte \in PteType /\ SetPte(NoPte)
    BY <1>0, NewEntries DEF FreePage
  <2>2. ThePte.valid => ThePte.pfn \in Frame
    BY <1>0, TheAccess DEF PteOK, ThePte, PteType
  <2> QED BY <1>0, <2>1, <2>2, TheAccess
<1>2. refs' \in [Frame -> Seq(Asid \X Page)] /\ mem_usage' \in -1 .. config.memsize
  <2>1. CASE ThePte.valid
    <3>1. /\ refs' = [refs EXCEPT ![f] = WithoutRef(@, x)]
          /\ mem_usage' = UsageWithout(refs[f], x, mem_usage)
      BY <2>1 DEF FreePage
    <3> HIDE DEF x, f
    <3>2. f \in Frame /\ x \in Asid \X Page
      BY <1>1, <2>1
    <3>3. WithoutRef(refs[f], x) \in Seq(Asid \X Page)
          /\ UsageWithout(refs[f], x, mem_usage) \in -1 .. config.memsize
      BY <1>0, <3>2, Unlinked
    <3> QED BY <1>0, <3>1, <3>3 DEF TypeOK
  <2>2. CASE ~ThePte.valid
    BY <1>0, <2>2 DEF FreePage, TypeOK
  <2> QED BY <2>1, <2>2
<1>3. /\ tasks' \subseteq 0 .. born' - 1 /\ cpu' \in CpuType /\ req' \in ReqType
      /\ swapmap' \subseteq Slot /\ born' = born
  <2>1. CASE LastPage
    BY <1>0, <2>1, NewEntries DEF FreePage, Done, SwapFree, TypeOK, CpuType
  <2>2. CASE ~LastPage
    <3>1. req.vpn + 1 \in Page
      BY <1>1, <2>2, Numbers DEF LastPage, Page
    <3> QED BY <1>0, <2>2, <3>1 DEF FreePage, NextPage, SwapFree, TypeOK, CpuType, ReqType
  <2> QED BY <2>1, <2>2
<1>4. TypeOK'
  BY <1>0, <1>1, <1>2, <1>3, SameSizes DEF TypeOK, FreePage
<1>5. PteOK'
  BY <1>0, <1>1 DEF PteOK, NoPte
<1>6. ReqOK' /\ Handled' /\ NoDoubleFault' /\ IsFiniteSet(tlb')
  <2>1. CASE LastPage
    BY <1>0, <2>1 DEF FreePage, Done, ReqOK, Accessing, Handled, NoDoubleFault, NoReq
  <2>2. CASE ~LastPage
    <3>1. cpu' = "free" /\ tasks' = tasks /\ req' = [req EXCEPT !.vpn = @ + 1] /\ tlb' = tlb
      BY <1>0, <2>2 DEF FreePage, NextPage
    <3>2. req'.asid = req.asid /\ req'.fault = req.fault /\ req'.type = req.type
      BY <1>0, <3>1 DEF TypeOK, ReqType
    <3> QED BY <1>0, <3>1, <3>2 DEF ReqOK, Accessing, Handled, NoDoubleFault
  <2> QED BY <2>1, <2>2
<1> QED BY <1>4, <1>5, <1>6 DEF BaseInv

LEMMA BaseDupPage == BaseInv /\ DupPage => BaseInv'
<1> SUFFICES ASSUME BaseInv, DupPage PROVE BaseInv'
  OBVIOUS
<1>0. /\ TypeOK /\ PteOK /\ ReqOK /\ IsFiniteSet(tlb)
      /\ config \in Configs /\ config' = config /\ cpu = "dup"
      /\ req.asid \in tasks /\ born \in Asid
  BY DEF BaseInv, TypeOK, ReqOK, DupPage
<1> DEFINE x == <<born, req.vpn>>
           f == ThePte.pfn
<1>1. /\ req.asid \in Asid /\ req.vpn \in Page /\ ThePte \in PteType
      /\ x \in Asid \X Page
      /\ ThePte.valid => f \in Frame
  <2>1. ThePte.valid => ThePte.pfn \in Frame
    BY <1>0, TheAccess DEF PteOK, ThePte, PteType
  <2> QED BY <1>0, <2>1, TheAccess
<1>2. /\ refs' \in [Frame -> Seq(Asid \X Page)]
      /\ pte' \in [Asid -> [Page -> PteType]] /\ PteOK'
  <2>1. CASE ThePte.valid
    <3> DEFINE e == ParentPte(ThePte)
               d == ChildPte(ThePte)
    <3>1. refs' = [refs EXCEPT ![f] = WithRef(@, x)]
          /\ pte' = [pte EXCEPT ![req.asid][req.vpn] = e, ![born][req.vpn] = d]
      BY <2>1 DEF DupPage
    <3>2. /\ e \in PteType /\ d \in PteType
          /\ e.swapped = ThePte.swapped /\ e.slot = ThePte.slot
          /\ e.valid = ThePte.valid /\ e.pfn = ThePte.pfn
          /\ d.swapped = ThePte.swapped /\ d.slot = ThePte.slot
          /\ d.valid = ThePte.valid /\ d.pfn = ThePte.pfn
      BY <1>1 DEF ParentPte, ChildPte, ReadOnly, PteType
    <3> HIDE DEF x, f, e, d
    <3>3. f \in Frame /\ x \in Asid \X Page
      BY <1>1, <2>1
    <3>4. WithRef(refs[f], x) \in Seq(Asid \X Page)
      BY <1>0, <3>3, Unlinked
    <3>5. /\ pte' \in [Asid -> [Page -> PteType]]
          /\ \A q \in Asid, w \in Page :
               pte'[q][w] = IF q = born /\ w = req.vpn THEN d
                            ELSE IF q = req.asid /\ w = req.vpn THEN e ELSE pte[q][w]
      <4>1. pte \in [Asid -> [Page -> PteType]] /\ req.asid \in Asid /\ req.vpn \in Page
        BY <1>0, <1>1 DEF TypeOK
      <4>2. born \in Asid /\ e \in PteType /\ d \in PteType
        BY <1>0, <3>2
      <4>3. pte' = [pte EXCEPT ![req.asid][req.vpn] = e, ![born][req.vpn] = d]
        BY <3>1
      <4> QED BY <4>1, <4>2, <4>3
    <3>6. PteOK'
      BY <1>0, <1>1, <3>2, <3>5 DEF PteOK, ThePte
    <3> QED BY <1>0, <3>1, <3>4, <3>5, <3>6 DEF TypeOK
  <2>2. CASE ~ThePte.valid
    BY <1>0, <2>2 DEF DupPage, TypeOK, PteOK
  <2> QED BY <2>1, <2>2
<1>3. /\ tasks' \subseteq 0 .. born' - 1 /\ born' \in 0 .. NTasks
      /\ cpu' \in CpuType /\ req' \in ReqType
      /\ tlb' \subseteq tlb
  <2>1. CASE LastPage
    <3>1. tasks' = tasks \cup {born} /\ born' = born + 1 /\ Done /\ tlb' = AfterFork(req.asid)
      BY <2>1 DEF DupPage
    <3>2. tasks' \subseteq 0 .. born' - 1 /\ born' \in 0 .. NTasks
      BY <1>0, <3>1, Numbers DEF TypeOK, Asid
    <3> QED BY <1>0, <3>1, <3>2, NewEntries DEF Done, AfterFork, CpuType
  <2>2. CASE ~LastPage
    <3>1. req.vpn + 1 \in Page
      BY <1>1, <2>2, Numbers DEF LastPage, Page
    <3> QED BY <1>0, <2>2, <3>1 DEF DupPage, NextPage, TypeOK, CpuType, ReqType
  <2> QED BY <2>1, <2>2
<1>4. IsFiniteSet(tlb') /\ Cardinality(tlb') <= TlbSize
  <2>1. Cardinality(tlb) <= TlbSize /\ Cardinality(tlb) \in Nat /\ TlbSize \in Nat
    BY <1>0, Numbers, FS_CardinalityType DEF TypeOK
  <2>2. IsFiniteSet(tlb') /\ Cardinality(tlb') <= Cardinality(tlb) /\ Cardinality(tlb') \in Nat
    BY <1>0, <1>3, FS_Subset, FS_CardinalityType
  <2> QED BY <2>1, <2>2
<1>5. TypeOK'
  BY <1>0, <1>2, <1>3, <1>4, SameSizes DEF TypeOK, DupPage, swapVars
<1>6. ReqOK' /\ Handled' /\ NoDoubleFault'
  <2>1. CASE LastPage
    BY <1>0, <2>1 DEF DupPage, Done, ReqOK, Accessing, Handled, NoDoubleFault, NoReq
  <2>2. CASE ~LastPage
    <3>1. cpu' = "dup" /\ tasks' = tasks /\ req' = [req EXCEPT !.vpn = @ + 1] /\ born' = born
      BY <1>0, <2>2 DEF DupPage, NextPage
    <3>2. req'.asid = req.asid /\ req'.fault = req.fault /\ req'.type = req.type
      BY <1>0, <3>1 DEF TypeOK, ReqType
    <3> QED BY <1>0, <3>1, <3>2 DEF ReqOK, Accessing, Handled, NoDoubleFault
  <2> QED BY <2>1, <2>2
<1> QED BY <1>2, <1>4, <1>5, <1>6 DEF BaseInv

(* The handlers of an access that write no page table.                     *)
LEMMA BaseAccess ==
  ASSUME BaseInv, LoadHit \/ StoreHit \/ Fault \/ CowFault \/ AllocFails
  PROVE  BaseInv'
<1>0. /\ TypeOK /\ PteOK /\ ReqOK /\ Handled /\ IsFiniteSet(tlb)
      /\ config \in Configs /\ config' = config
      /\ req.asid \in tasks /\ req.asid \in Asid /\ req.vpn \in Page
      /\ ThePte \in PteType
  <2>1. Accessing
    BY DEF LoadHit, StoreHit, Fault, CowFault, AllocFails, Accessing
  <2>2. config' = config
    BY DEF LoadHit, StoreHit, Fault, CowFault, AllocFails
  <2> QED BY <2>1, <2>2, TheAccess DEF BaseInv, ReqOK, TypeOK
<1>1. CASE LoadHit
  <2>1. ret' \in Data
    <3>1. PICK e \in Hits : ret' = physmem[e.pfn]
      BY <1>1 DEF LoadHit
    <3>2. e.pfn \in Frame
      BY <1>0 DEF TypeOK, Hits, TlbType
    <3> QED BY <1>0, <3>1, <3>2 DEF TypeOK
  <2>2. TypeOK'
    BY <1>0, <1>1, <2>1, SameSizes, NewEntries
       DEF LoadHit, Done, TypeOK, CpuType, tableVars, frameVars, swapVars
  <2> QED BY <1>0, <1>1, <2>2
          DEF LoadHit, Done, BaseInv, PteOK, ReqOK, Accessing, Handled, NoDoubleFault,
              NoReq, tableVars
<1>2. CASE StoreHit
  <2>1. physmem' \in [Frame -> Data]
    <3>1. PICK e \in Hits : physmem' = [physmem EXCEPT ![e.pfn] = req.val]
      BY <1>2 DEF StoreHit
    <3>2. e.pfn \in Frame /\ req.val \in Data
      BY <1>0 DEF TypeOK, Hits, TlbType, ReqType
    <3> QED BY <1>0, <3>1, <3>2 DEF TypeOK
  <2>2. TypeOK'
    BY <1>0, <1>2, <2>1, SameSizes, NewEntries
       DEF StoreHit, Done, TypeOK, CpuType, tableVars, swapVars
  <2> QED BY <1>0, <1>2, <2>2
          DEF StoreHit, Done, BaseInv, PteOK, ReqOK, Accessing, Handled, NoDoubleFault,
              NoReq, tableVars
<1>3. CASE Fault
  <2>1. /\ cpu = "resolve" /\ \A e \in Hits : ~Resolves(e)
        /\ req.fault \in {"none", "miss", "write"} /\ req.type \in {"L", "S"}
    BY <1>0, <1>3 DEF Fault, TypeOK, ReqType
  <2>2. /\ cpu' = "walk"
        /\ req' = [req EXCEPT !.fault = IF Hits = {} THEN "miss" ELSE "write"]
        /\ Hits # {} => req.type = "S"
    <3>1. ~(IF Hits = {} THEN req.fault # "none" ELSE req.fault = "write")
      BY <1>0, <2>1 DEF Handled, Resolves
    <3>2. Hits # {} => req.type = "S"
      BY <2>1 DEF Resolves
    <3> QED BY <1>3, <3>1, <3>2 DEF Fault
  <2>3. /\ req' \in ReqType /\ req'.asid = req.asid
        /\ req'.fault = "write" => req'.type = "S"
    BY <1>0, <2>1, <2>2 DEF TypeOK, ReqType
  <2>4. TypeOK'
    BY <1>0, <1>3, <2>2, <2>3, SameSizes
       DEF Fault, TypeOK, CpuType, tableVars, frameVars, swapVars
  <2> QED BY <1>0, <1>3, <2>2, <2>3, <2>4
          DEF Fault, BaseInv, PteOK, ReqOK, Accessing, Handled, NoDoubleFault, tableVars
<1>4. CASE CowFault
  <2>1. ThePte.pfn \in Frame
    BY <1>0, <1>4 DEF CowFault, ReqOK, PteOK, ThePte, PteType
  <2>2. req' = [req EXCEPT !.old = ThePte.pfn] /\ cpu' = "alloc"
    BY <1>4 DEF CowFault
  <2>3. /\ req' \in ReqType /\ req'.asid = req.asid
        /\ req'.fault = req.fault /\ req'.type = req.type
    BY <1>0, <2>1, <2>2 DEF TypeOK, ReqType
  <2>4. TypeOK'
    BY <1>0, <1>4, <2>2, <2>3, SameSizes
       DEF CowFault, TypeOK, CpuType, tableVars, frameVars, swapVars
  <2> QED BY <1>0, <1>4, <2>2, <2>3, <2>4
          DEF CowFault, BaseInv, PteOK, ReqOK, Accessing, Handled, NoDoubleFault, tableVars
<1>5. CASE AllocFails
  <2>1. TypeOK'
    BY <1>0, <1>5, SameSizes
       DEF AllocFails, TypeOK, CpuType, tableVars, frameVars, swapVars
  <2> QED BY <1>0, <1>5, <2>1
          DEF AllocFails, BaseInv, PteOK, ReqOK, Accessing, Handled, NoDoubleFault, tableVars
<1> QED BY <1>1, <1>2, <1>3, <1>4, <1>5

(* Those that write the entry of the page of the access.                   *)
LEMMA BaseWalk ==
  ASSUME BaseInv, WalkResident \/ WalkAbsent \/ Fill \/ NoCowFault
  PROVE  BaseInv'
<1>0. /\ TypeOK /\ PteOK /\ ReqOK /\ Handled /\ IsFiniteSet(tlb)
      /\ config \in Configs /\ config' = config /\ req' = req /\ tasks' = tasks
      /\ born' = born /\ tlb' = tlb
      /\ req.asid \in tasks /\ req.asid \in Asid /\ req.vpn \in Page
      /\ ThePte \in PteType /\ req.type \in {"L", "S"}
  <2>1. Accessing
    BY DEF WalkResident, WalkAbsent, Fill, NoCowFault, Accessing
  <2>2. config' = config /\ req' = req /\ tasks' = tasks /\ born' = born /\ tlb' = tlb
    BY DEF WalkResident, WalkAbsent, Fill, NoCowFault
  <2> QED BY <2>1, <2>2, TheAccess DEF BaseInv, ReqOK, TypeOK
<1>1. /\ ThePte.valid => ThePte.pfn \in Frame
      /\ ThePte.swapped => ThePte.slot \in Slot
  BY <1>0 DEF PteOK, ThePte, PteType
<1>2. ASSUME NEW e \in PteType, SetPte(e),
             e.swapped => e.slot # NoSlot, e.valid => e.pfn # NoFrame
      PROVE  /\ pte' \in [Asid -> [Page -> PteType]] /\ PteOK'
             /\ ThePte' = e
  <2>1. /\ pte' \in [Asid -> [Page -> PteType]]
        /\ pte'[req.asid][req.vpn] = e
        /\ \A p \in Asid, v \in Page :
             pte'[p][v] = IF p = req.asid /\ v = req.vpn THEN e ELSE pte[p][v]
    BY <1>0, <1>2, TheAccess
  <2>2. PteOK'
    BY <1>0, <1>2, <2>1 DEF PteOK
  <2>3. ThePte' = e
    BY <1>0, <2>1 DEF ThePte
  <2> QED BY <2>1, <2>2, <2>3
<1>3. CASE WalkResident
  <2> DEFINE e == Dirtied(ThePte)
  <2>1. e \in PteType /\ e.swapped = ThePte.swapped /\ e.slot = ThePte.slot
        /\ e.valid /\ e.pfn = ThePte.pfn /\ SetPte(e)
    BY <1>0, <1>3 DEF WalkResident, Dirtied, PteType
  <2> HIDE DEF e
  <2>2. /\ pte' \in [Asid -> [Page -> PteType]] /\ PteOK'
        /\ ThePte' = e
    BY <1>0, <1>1, <1>2, <1>3, <2>1, Sizes DEF WalkResident
  <2>3. TypeOK'
    BY <1>0, <1>3, <2>2, SameSizes DEF WalkResident, TypeOK, CpuType, frameVars, swapVars
  <2> QED BY <1>0, <1>3, <2>1, <2>2, <2>3
          DEF WalkResident, BaseInv, ReqOK, Accessing, Handled, NoDoubleFault
<1>4. CASE WalkAbsent
  <2> DEFINE e == IF ThePte = NoPte THEN FreshPte ELSE ThePte
  <2>1. e \in PteType /\ (e.swapped => e.slot # NoSlot) /\ ~e.valid /\ SetPte(e)
    BY <1>0, <1>1, <1>4, NewEntries, Sizes DEF WalkAbsent, FreshPte
  <2> HIDE DEF e
  <2>2. /\ pte' \in [Asid -> [Page -> PteType]] /\ PteOK'
    BY <1>2, <2>1
  <2>3. TypeOK'
    BY <1>0, <1>4, <2>2, SameSizes DEF WalkAbsent, TypeOK, CpuType, frameVars, swapVars
  <2> QED BY <1>0, <1>4, <2>2, <2>3
          DEF WalkAbsent, BaseInv, ReqOK, Accessing, Handled, NoDoubleFault
<1>5. CASE Fill
  <2> DEFINE f == req.frame
             here == [ThePte EXCEPT !.valid = TRUE, !.pfn = f]
             e == IF ThePte.swapped THEN Dirtied([here EXCEPT !.swapped = FALSE])
                                    ELSE [here EXCEPT !.dirty = TRUE]
  <2>1. f \in Frame
    BY <1>0, <1>5 DEF Fill, ReqOK, TypeOK, ReqType
  <2>2. e \in PteType /\ ~e.swapped /\ e.valid /\ e.pfn = f
    BY <1>0, <2>1 DEF Dirtied, PteType
  <2>3. SetPte(e)
    BY <1>5 DEF Fill
  <2>4. physmem' \in [Frame -> Data]
    <3>1. CASE ThePte.swapped
      <4>1. physmem' = [physmem EXCEPT ![f] = swap[ThePte.slot]]
        BY <1>5, <3>1 DEF Fill, SwapPageIn
      <4>2. swap[ThePte.slot] \in Data
        BY <1>0, <1>1, <3>1 DEF TypeOK
      <4> QED BY <1>0, <2>1, <4>1, <4>2 DEF TypeOK
    <3>2. CASE ~ThePte.swapped
      BY <1>0, <1>5, <2>1, <3>2, Numbers DEF Fill, InitFrame, TypeOK
    <3> QED BY <3>1, <3>2
  <2> HIDE DEF e
  <2>5. /\ pte' \in [Asid -> [Page -> PteType]] /\ PteOK'
        /\ ThePte' = e
    BY <1>0, <1>2, <2>1, <2>2, <2>3, Sizes
  <2>6. TypeOK'
    BY <1>0, <1>5, <2>4, <2>5, SameSizes DEF Fill, TypeOK, CpuType, swapVars
  <2> QED BY <1>0, <1>5, <2>2, <2>5, <2>6
          DEF Fill, BaseInv, ReqOK, Accessing, Handled, NoDoubleFault
<1>6. CASE NoCowFault
  <2>1. /\ pte' \in [Asid -> [Page -> PteType]] /\ PteOK'
        /\ ThePte'.pfn = ThePte.pfn /\ ThePte'.writable = ThePte.writable
    <3>1. CASE req.fault = "write"
      <4> DEFINE e == Dirtied(ThePte)
      <4>1. e \in PteType /\ e.swapped = ThePte.swapped /\ e.slot = ThePte.slot
            /\ e.valid = ThePte.valid /\ e.pfn = ThePte.pfn
            /\ e.writable = ThePte.writable /\ SetPte(e)
        BY <1>0, <1>6, <3>1 DEF NoCowFault, Dirtied, PteType
      <4> HIDE DEF e
      <4> QED BY <1>0, <1>1, <1>2, <4>1, Sizes
    <3>2. CASE req.fault # "write"
      BY <1>0, <1>6, <3>2 DEF NoCowFault, TypeOK, PteOK, ThePte
    <3> QED BY <3>1, <3>2
  <2>2. TypeOK'
    BY <1>0, <1>6, <2>1, SameSizes DEF NoCowFault, TypeOK, CpuType, frameVars, swapVars
  <2>3. ThePte'.pfn # NoFrame /\ (req.fault = "write" => ThePte'.writable)
    BY <1>0, <1>1, <1>6, <2>1, Sizes DEF NoCowFault, ReqOK
  <2> QED BY <1>0, <1>6, <2>1, <2>2, <2>3
          DEF NoCowFault, BaseInv, ReqOK, Accessing, Handled, NoDoubleFault
<1> QED BY <1>3, <1>4, <1>5, <1>6

(* The end of allocate_frame keeps the types.                              *)
LEMMA GotFrame ==
  ASSUME TypeOK, NEW f \in Frame, NEW rs \in Seq(Asid \X Page), Got(f, rs),
         req.asid \in Asid, req.vpn \in Page
  PROVE  /\ refs' \in [Frame -> Seq(Asid \X Page)]
         /\ asid' \in [Frame -> Asid \cup {NoAsid}]
         /\ refs' = [refs EXCEPT ![f] = Append(rs, <<req.asid, req.vpn>>)]
         /\ asid' = [asid EXCEPT ![f] = req.asid]
         /\ cpu' = IF req.old = NoFrame THEN "fill" ELSE "copy"
<1>1. Append(rs, <<req.asid, req.vpn>>) \in Seq(Asid \X Page)
  OBVIOUS
<1> QED BY <1>1 DEF Got, WithRef, TypeOK

(* allocate_frame                                                          *)
LEMMA BaseAlloc ==
  ASSUME BaseInv, AllocFree \/ AllocEvict \/ EvictDone
  PROVE  BaseInv'
<1>0. /\ TypeOK /\ PteOK /\ ReqOK /\ IsFiniteSet(tlb)
      /\ config \in Configs /\ config' = config /\ tasks' = tasks /\ tlb' = tlb
      /\ pte' = pte /\ born' = born /\ req \in ReqType
      /\ req.asid \in tasks /\ req.asid \in Asid /\ req.vpn \in Page
      /\ req.fault = "write" => req.type = "S"
  <2>1. Accessing
    BY DEF AllocFree, AllocEvict, EvictDone, Accessing
  <2>2. /\ config' = config /\ tasks' = tasks /\ tlb' = tlb /\ pte' = pte /\ born' = born
    BY DEF AllocFree, AllocEvict, EvictDone, tableVars
  <2> QED BY <2>1, <2>2, TheAccess DEF BaseInv, ReqOK, TypeOK
<1>1. PteOK' /\ IsFiniteSet(tlb')
  BY <1>0 DEF PteOK
<1>2. CASE AllocFree
  <2>1. PICK f \in Frame : /\ NextFree(f) /\ Got(f, refs[f]) /\ last_alloc' = f
                           /\ req' = [req EXCEPT !.frame = f]
    BY <1>2 DEF AllocFree
  <2>2. mem_usage' \in -1 .. config.memsize
    <3>1. mem_usage \in 0 .. config.memsize - 1
      BY <2>1 DEF NextFree, FreeFrames
    <3> QED BY <1>0, <1>2, <3>1, Sizes DEF AllocFree
  <2>3. refs[f] \in Seq(Asid \X Page)
    BY <1>0 DEF TypeOK
  <2>4. /\ refs' \in [Frame -> Seq(Asid \X Page)]
        /\ asid' \in [Frame -> Asid \cup {NoAsid}]
        /\ cpu' = IF req.old = NoFrame THEN "fill" ELSE "copy"
    BY <1>0, <2>1, <2>3, GotFrame
  <2>5. /\ req' \in ReqType /\ req'.asid = req.asid /\ req'.frame = f /\ req'.old = req.old
        /\ req'.fault = req.fault /\ req'.type = req.type
    BY <1>0, <2>1 DEF ReqType
  <2>6. TypeOK'
    BY <1>0, <1>2, <2>1, <2>2, <2>4, <2>5, SameSizes
       DEF AllocFree, TypeOK, CpuType, swapVars
  <2> QED BY <1>0, <1>1, <2>4, <2>5, <2>6, Sizes
          DEF BaseInv, ReqOK, Accessing, Handled, NoDoubleFault
<1>3. CASE AllocEvict
  <2>1. PICK f \in Frame : /\ hand' = HandAfter(f)
                           /\ req' = [req EXCEPT !.frame = f]
                           /\ slice' = [items |-> refs[f], i |-> 1]
    BY <1>3 DEF AllocEvict
  <2>2. hand' \in Frame
    <3>1. f \in Nat /\ config.memsize \in Nat \ {0} /\ hand \in Frame
      BY <1>0, Sizes DEF TypeOK
    <3>2. (f + 1) % config.memsize \in 0 .. config.memsize - 1
      BY <3>1
    <3> QED BY <2>1, <3>1, <3>2 DEF HandAfter, Frame
  <2>3. slice' \in [items : Seq(Asid \X Page), i : Nat \ {0}]
    BY <1>0, <2>1 DEF TypeOK
  <2>4. /\ req' \in ReqType /\ req'.asid = req.asid /\ req'.frame = f
        /\ req'.fault = req.fault /\ req'.type = req.type
    BY <1>0, <2>1 DEF ReqType
  <2>5. TypeOK'
    BY <1>0, <1>3, <2>2, <2>3, <2>4, SameSizes
       DEF AllocEvict, TypeOK, CpuType, swapVars
  <2> QED BY <1>0, <1>1, <1>3, <2>4, <2>5, Sizes
          DEF AllocEvict, BaseInv, ReqOK, Accessing, Handled, NoDoubleFault
<1>4. CASE EvictDone
  <2>1. req.frame \in Frame
    BY <1>0, <1>4 DEF EvictDone, ReqOK, ReqType
  <2>2. <<>> \in Seq(Asid \X Page) /\ Got(req.frame, <<>>)
    BY <1>4 DEF EvictDone
  <2>3. /\ refs' \in [Frame -> Seq(Asid \X Page)]
        /\ asid' \in [Frame -> Asid \cup {NoAsid}]
        /\ cpu' = IF req.old = NoFrame THEN "fill" ELSE "copy"
    BY <1>0, <2>1, <2>2, GotFrame
  <2>4. slice' \in [items : Seq(Asid \X Page), i : Nat \ {0}]
    BY <1>4 DEF EvictDone, NoSlice
  <2>5. TypeOK'
    BY <1>0, <1>4, <2>3, <2>4, SameSizes DEF EvictDone, TypeOK, CpuType, swapVars
  <2> QED BY <1>0, <1>1, <1>4, <2>1, <2>3, <2>5, Sizes
          DEF EvictDone, BaseInv, ReqOK, Accessing, Handled, NoDoubleFault
<1> QED BY <1>2, <1>3, <1>4

(* handle_frame_evict                                                      *)
LEMMA BaseEvict ==
  ASSUME BaseInv, EvictRef
  PROVE  BaseInv'
<1> DEFINE f == req.frame
           x == slice.items[slice.i]
           e == pte[x[1]][x[2]]
           s == IF e.dirty THEN SlotFor(e) ELSE e.slot
           rs == WithoutRef(refs[f], x)
<1>0. /\ TypeOK /\ PteOK /\ ReqOK /\ IsFiniteSet(tlb)
      /\ config \in Configs /\ config' = config /\ tasks' = tasks /\ req' = req
      /\ born' = born /\ cpu = "evict" /\ req.asid \in tasks /\ f \in Frame
      /\ req.fault = "write" => req.type = "S"
  BY DEF EvictRef, BaseInv, ReqOK, Accessing, TypeOK, ReqType
<1>1. /\ slice.items \in Seq(Asid \X Page) /\ slice.i \in 1 .. Len(slice.items)
      /\ x \in Asid \X Page /\ x[1] \in Asid /\ x[2] \in Page /\ x = <<x[1], x[2]>>
  <2>1. slice.items \in Seq(Asid \X Page) /\ slice.i \in Nat \ {0}
    BY <1>0 DEF TypeOK
  <2>2. slice.i \in 1 .. Len(slice.items)
    <3>1. slice.i <= Len(slice.items)
      BY DEF EvictRef
    <3> QED BY <2>1, <3>1
  <2>3. x \in Asid \X Page
    BY <2>1, <2>2
  <2> QED BY <2>1, <2>2, <2>3
<1>2. /\ e \in PteType /\ s \in Slot \cup {NoSlot} /\ rs \in Seq(Asid \X Page)
      /\ UsageWithout(refs[f], x, mem_usage) \in -1 .. config.memsize
  <2>1. e \in PteType
    BY <1>0, <1>1 DEF TypeOK
  <2>2. s \in Slot \cup {NoSlot}
    BY <1>0, <2>1, SlotForType DEF PteType
  <2> QED BY <1>0, <1>1, <2>1, <2>2, Unlinked
<1>3. CASE x[1] \notin tasks
  <2>1. /\ cpu' = "dangling"
        /\ UNCHANGED <<swapVars, pte, tlb, refs, mem_usage, slice>>
    BY <1>3 DEF EvictRef
  <2>2. TypeOK'
    BY <1>0, <2>1, SameSizes DEF EvictRef, TypeOK, CpuType, swapVars
  <2> QED BY <1>0, <2>1, <2>2
          DEF BaseInv, PteOK, ReqOK, Accessing, Handled, NoDoubleFault
<1>4. CASE x[1] \in tasks
  <2>1. /\ pte' = [pte EXCEPT ![x[1]][x[2]] = Evicted(e, s)]
        /\ IF e.dirty THEN PageOut(e) ELSE UNCHANGED swapVars
        /\ tlb' = AfterEvict(x[2])
        /\ refs' = [refs EXCEPT ![f] = rs]
        /\ mem_usage' = UsageWithout(refs[f], x, mem_usage)
        /\ slice' = [items |-> rs \o SubSeq(slice.items, Len(rs) + 1, Len(slice.items)),
                     i |-> slice.i + 1]
        /\ cpu' = cpu
    BY <1>4 DEF EvictRef
  <2>2. Evicted(e, s) \in PteType /\ ~Evicted(e, s).valid
        /\ (Evicted(e, s).swapped => Evicted(e, s).slot # NoSlot)
    BY <1>2, Sizes DEF Evicted, PteType
  <2>3. /\ swapmap' \subseteq Slot /\ swap' \in [Slot -> Data] /\ warned' \in BOOLEAN
    <3>1. CASE e.dirty
      <4>1. physmem[f] \in Data /\ swap \in [Slot -> Data] /\ swapmap \subseteq Slot
            /\ warned \in BOOLEAN
        BY <1>0 DEF TypeOK
      <4> QED BY <1>2, <2>1, <3>1, <4>1 DEF PageOut
    <3>2. CASE ~e.dirty
      BY <1>0, <2>1, <3>2 DEF swapVars, TypeOK
    <3> QED BY <3>1, <3>2
  <2>4. slice' \in [items : Seq(Asid \X Page), i : Nat \ {0}]
    <3> HIDE DEF rs, x
    <3> DEFINE rest == SubSeq(slice.items, Len(rs) + 1, Len(slice.items))
    <3>1. Len(rs) \in Nat /\ Len(slice.items) \in Nat
      BY <1>1, <1>2
    <3>2. rest \in Seq(Asid \X Page)
      <4>1. \A i \in Len(rs) + 1 .. Len(slice.items) : slice.items[i] \in Asid \X Page
        BY <1>1, <3>1
      <4> QED BY <1>1, <3>1, <4>1, SubSeqProperties
    <3> HIDE DEF rest
    <3>3. rs \o rest \in Seq(Asid \X Page)
      BY <1>2, <3>2, ConcatProperties
    <3>4. slice.i + 1 \in Nat \ {0}
      BY <1>1
    <3> QED BY <2>1, <3>3, <3>4 DEF rest
  <2>5. IsFiniteSet(tlb') /\ Cardinality(tlb') <= TlbSize /\ tlb' \subseteq tlb
    <3>1. Cardinality(tlb) <= TlbSize /\ Cardinality(tlb) \in Nat /\ TlbSize \in Nat
      BY <1>0, Numbers, FS_CardinalityType DEF TypeOK
    <3>2. tlb' \subseteq tlb
      BY <2>1 DEF AfterEvict
    <3>3. /\ IsFiniteSet(tlb') /\ Cardinality(tlb') <= Cardinality(tlb)
          /\ Cardinality(tlb') \in Nat
      BY <1>0, <3>2, FS_Subset, FS_CardinalityType
    <3> QED BY <3>1, <3>2, <3>3
  <2>6. /\ refs' \in [Frame -> Seq(Asid \X Page)] /\ mem_usage' \in -1 .. config.memsize
    BY <1>0, <1>2, <2>1 DEF TypeOK
  <2>7. /\ pte' \in [Asid -> [Page -> PteType]] /\ PteOK'
    <3> DEFINE d == Evicted(e, s)
               p == x[1]
               v == x[2]
    <3>1. pte' = [pte EXCEPT ![p][v] = d] /\ d \in PteType /\ p \in Asid /\ v \in Page
          /\ ~d.valid /\ (d.swapped => d.slot # NoSlot)
      BY <1>1, <2>1, <2>2
    <3> HIDE DEF d, p, v
    <3>2. /\ pte' \in [Asid -> [Page -> PteType]]
          /\ \A q \in Asid, w \in Page :
               pte'[q][w] = IF q = p /\ w = v THEN d ELSE pte[q][w]
      BY <1>0, <3>1 DEF TypeOK
    <3> QED BY <1>0, <3>1, <3>2 DEF PteOK
  <2>8. TypeOK'
    BY <1>0, <2>1, <2>3, <2>4, <2>5, <2>6, <2>7, SameSizes DEF EvictRef, TypeOK
  <2> QED BY <1>0, <2>1, <2>5, <2>7, <2>8
          DEF BaseInv, ReqOK, Accessing, Handled, NoDoubleFault
<1> QED BY <1>3, <1>4

(* The copy of copy on write, and the entry of the TLB.                    *)
LEMMA BaseCopy ==
  ASSUME BaseInv, Copy
  PROVE  BaseInv'
<1> DEFINE x == <<req.asid, req.vpn>>
           old == req.old
           f == req.frame
           e == [ThePte EXCEPT !.pfn = f, !.swapped = FALSE, !.slot = NoSlot,
                               !.writable = TRUE, !.dirty = TRUE]
           unlinked == [refs EXCEPT ![old] = WithoutRef(@, x)]
<1>0. /\ TypeOK /\ PteOK /\ ReqOK /\ IsFiniteSet(tlb)
      /\ config \in Configs /\ config' = config /\ tasks' = tasks /\ req' = req
      /\ born' = born /\ cpu = "copy" /\ req.asid \in tasks
      /\ f \in Frame /\ old \in Frame
      /\ req.fault = "write" => req.type = "S"
  BY DEF Copy, BaseInv, ReqOK, Accessing, TypeOK, ReqType
<1>1. /\ req.asid \in Asid /\ req.vpn \in Page /\ ThePte \in PteType
      /\ x \in Asid \X Page
  BY <1>0, TheAccess
<1>2. e \in PteType /\ ~e.swapped /\ e.pfn = f /\ e.writable /\ SetPte(e)
  BY <1>0, <1>1, Sizes DEF Copy, PteType
<1>3. /\ pte' \in [Asid -> [Page -> PteType]] /\ PteOK' /\ ThePte' = e
  <2> HIDE DEF e
  <2>1. /\ pte' \in [Asid -> [Page -> PteType]]
        /\ pte'[req.asid][req.vpn] = e
        /\ \A p \in Asid, v \in Page :
             pte'[p][v] = IF p = req.asid /\ v = req.vpn THEN e ELSE pte[p][v]
    BY <1>0, <1>2, TheAccess
  <2>2. f # NoFrame
    BY <1>0, Sizes
  <2>3. PteOK'
    BY <1>0, <1>2, <2>1, <2>2 DEF PteOK
  <2>4. ThePte' = e
    BY <1>0, <2>1 DEF ThePte
  <2> QED BY <2>1, <2>3, <2>4
<1>4. /\ refs' \in [Frame -> Seq(Asid \X Page)] /\ mem_usage' \in -1 .. config.memsize
      /\ physmem' \in [Frame -> Data]
  <2>1. /\ refs' = [unlinked EXCEPT ![f] = Append(@, x)]
        /\ mem_usage' = UsageWithout(refs[old], x, mem_usage)
        /\ physmem' = [physmem EXCEPT ![f] = physmem[old]]
    BY DEF Copy, CopyFrame, WithRef
  <2> HIDE DEF x, f, old
  <2>2. WithoutRef(refs[old], x) \in Seq(Asid \X Page)
        /\ UsageWithout(refs[old], x, mem_usage) \in -1 .. config.memsize
    BY <1>0, <1>1, Unlinked
  <2>3. unlinked \in [Frame -> Seq(Asid \X Page)]
    BY <1>0, <2>2 DEF TypeOK
  <2> HIDE DEF unlinked
  <2>4. Append(unlinked[f], x) \in Seq(Asid \X Page)
    BY <1>0, <1>1, <2>3
  <2>5. refs' \in [Frame -> Seq(Asid \X Page)]
    BY <1>0, <2>1, <2>3, <2>4
  <2>6. physmem' \in [Frame -> Data]
    BY <1>0, <2>1 DEF TypeOK
  <2> QED BY <2>1, <2>2, <2>5, <2>6
<1>5. TypeOK'
  BY <1>0, <1>3, <1>4, SameSizes DEF Copy, TypeOK, CpuType, swapVars
<1> QED BY <1>0, <1>2, <1>3, <1>5, Sizes
        DEF Copy, BaseInv, ReqOK, Accessing, Handled, NoDoubleFault

LEMMA BaseInsert ==
  ASSUME BaseInv, Insert
  PROVE  BaseInv'
<1>0. /\ TypeOK /\ PteOK /\ ReqOK /\ IsFiniteSet(tlb)
      /\ config \in Configs /\ config' = config /\ tasks' = tasks
      /\ pte' = pte /\ born' = born /\ cpu = "insert" /\ req.asid \in tasks
      /\ req.fault = "write" => req.type = "S"
  BY DEF Insert, BaseInv, ReqOK, Accessing, TypeOK, tableVars
<1>1. /\ req.asid \in Asid /\ req.vpn \in Page /\ ThePte \in PteType
  BY <1>0, TheAccess
<1> DEFINE e == TlbEntry
<1>2. /\ e \in TlbType /\ e.asid = req.asid /\ e.vpn = req.vpn /\ e.pfn = ThePte.pfn
      /\ e.dirty = (req.fault = "write" /\ ThePte.writable)
      /\ req.fault = "write" => e.dirty
  <2>1. ThePte.pfn \in Frame /\ ThePte.writable \in BOOLEAN
        /\ (req.fault = "write" => ThePte.writable)
    BY <1>0, <1>1 DEF ReqOK, PteType
  <2> QED BY <1>1, <2>1 DEF TlbEntry, TlbType
<1>3. \/ Hits # {} /\ TlbWriteIndex(e)
      \/ TlbWriteRandom(e)
  BY DEF Insert
<1>4. /\ IsFiniteSet(tlb') /\ Cardinality(tlb') <= TlbSize
      /\ e \in tlb' /\ tlb' \subseteq tlb \cup {e}
  BY <1>0, <1>3, TlbFits DEF TypeOK
<1>5. /\ req' \in ReqType /\ req'.asid = req.asid /\ req'.vpn = req.vpn
      /\ req'.fault = req.fault /\ req'.type = req.type
      /\ cpu' = "resolve"
  BY <1>0 DEF Insert, TypeOK, ReqType
<1>6. TypeOK'
  BY <1>0, <1>2, <1>4, <1>5, SameSizes DEF Insert, TypeOK, CpuType, frameVars, swapVars
<1>7. e \in Hits'
  BY <1>2, <1>4, <1>5 DEF Hits
<1> QED BY <1>0, <1>2, <1>4, <1>5, <1>6, <1>7
        DEF BaseInv, ReqOK, PteOK, Accessing, Handled, NoDoubleFault

LEMMA BaseStep == BaseInv /\ [Next]_vars => BaseInv'
<1> SUFFICES ASSUME BaseInv, [Next]_vars PROVE BaseInv'
  OBVIOUS
<1>1. CASE Handling
  BY <1>1, BaseFreePage, BaseDupPage, BaseAccess, BaseWalk, BaseAlloc, BaseEvict,
     BaseCopy, BaseInsert DEF Handling
<1>2. CASE UNCHANGED vars
  <2>1. TypeOK'
    BY <1>2, SameSizes DEF vars, tableVars, frameVars, swapVars, accessVars, BaseInv, TypeOK
  <2> QED BY <1>2, <2>1
          DEF vars, tableVars, frameVars, swapVars, accessVars, BaseInv, PteOK, ReqOK,
              Accessing, Handled, NoDoubleFault, ThePte, Hits
<1> QED BY <1>1, <1>2, BaseLine DEF Next

(* For every trace, with or without fork, and every command line, BaseInv  *)
(* holds.                                                                  *)
THEOREM SimulatorInvariant == Spec => []BaseInv
  BY BaseInit, BaseStep, PTL DEF Spec

(* Every variable has its type, a frame number or slot that is used is one *)
(* of the coremap or of the swap file, and the TLB is never overfull.      *)
THEOREM SimulatorTypes == Spec => []TypeOK
<1>1. BaseInv => TypeOK
  BY DEF BaseInv
<1> QED BY <1>1, SimulatorInvariant, PTL

(* One handle_tlb_fault is enough for a missing entry and one for a store  *)
(* to a clean one: the assertions of tlb_translate hold.                   *)
THEOREM FaultsAreHandledOnce == Spec => []NoDoubleFault
<1>1. BaseInv => NoDoubleFault
  BY DEF BaseInv
<1> QED BY <1>1, SimulatorInvariant, PTL

-----------------------------------------------------------------------------
(* Without forks.                                                          *)

Resident(p, v, f) == pte[p][v].valid /\ pte[p][v].pfn = f

(* A page is its owner's only: the entries of tasks that do not exist are  *)
(* zero, a page may be written, and the frame of a resident page lists it  *)
(* and nothing else.                                                       *)
OwnPages ==
  \A p \in Asid, v \in Page :
    /\ p \notin tasks => pte[p][v] = NoPte
    /\ pte[p][v] # NoPte => pte[p][v].writable
    /\ pte[p][v].valid =>
         /\ refs[pte[p][v].pfn] = <<<<p, v>>>> /\ asid[pte[p][v].pfn] = p
         /\ ~pte[p][v].swapped

(* A resident page that is clean is still in its slot as it is.            *)
Saved ==
  \A p \in Asid, v \in Page :
    pte[p][v].valid /\ ~pte[p][v].dirty =>
      pte[p][v].slot # NoSlot /\ physmem[pte[p][v].pfn] = swap[pte[p][v].slot]

(* A frame is free or holds one page, or is about to.                      *)
Frames ==
  \A f \in Frame :
    \/ refs[f] = <<>>
    \/ \E p \in tasks, v \in Page :
         /\ refs[f] = <<<<p, v>>>>
         /\ Resident(p, v, f) \/ (cpu = "fill" /\ f = req.frame)

(* Where the handlers are.                                                 *)
Stage ==
  /\ cpu \notin {"dup", "copy", "dangling"}
  /\ Accessing => req.old = NoFrame
  /\ cpu = "free" => \A w \in 0 .. req.vpn - 1 : pte[req.asid][w] = NoPte
  /\ cpu \in {"alloc", "evict", "fill"} => ~ThePte.valid /\ ThePte # NoPte
  /\ cpu = "evict" =>
       \E p \in tasks, v \in Page :
         /\ slice.items = <<<<p, v>>>>
         /\ \/ slice.i = 1 /\ refs[req.frame] = <<<<p, v>>>>
            \/ slice.i = 2 /\ refs[req.frame] = <<>>
  /\ cpu = "fill" => /\ refs[req.frame] = <<<<req.asid, req.vpn>>>>
                     /\ asid[req.frame] = req.asid
  /\ cpu = "insert" => ThePte.valid /\ (req.fault = "write" => ThePte.dirty)

(* An entry of the TLB whose task exists is a resident page's, and dirty   *)
(* only if the page is.                                                    *)
TlbInv ==
  \A e \in tlb :
    /\ e.asid < born
    /\ e.asid \in Live =>
         /\ Resident(e.asid, e.vpn, e.pfn)
         /\ e.dirty => pte[e.asid][e.vpn].dirty

NoForkInv == OwnPages /\ Saved /\ Frames /\ Stage /\ TlbInv /\ SlotsOwned

LEMMA NoForkInit == Init => NoForkInv
  BY DEF Init, InitCoremap, NoForkInv, OwnPages, Saved, Frames, Stage, Accessing, TlbInv,
         SlotsOwned, NoPte

(* What the invariants say of the entries.                                 *)
LEMMA Entries ==
  ASSUME BaseInv
  PROVE  /\ config \in Configs
         /\ pte \in [Asid -> [Page -> PteType]]
         /\ refs \in [Frame -> Seq(Asid \X Page)]
         /\ \A p \in Asid, v \in Page :
              /\ pte[p][v] \in PteType
              /\ pte[p][v].valid => pte[p][v].pfn \in Frame /\ pte[p][v] # NoPte
              /\ pte[p][v].swapped => pte[p][v].slot \in Slot
         /\ tasks \subseteq Asid /\ tasks \subseteq 0 .. born - 1 /\ Live \subseteq tasks
         /\ \A e \in tlb : e.asid \in Asid /\ e.vpn \in Page /\ e.pfn \in Frame
         /\ req \in ReqType /\ req.vpn \in Page /\ cpu \in CpuType
         /\ Accessing => req.asid \in tasks /\ ThePte \in PteType
<1>1. /\ config \in Configs /\ pte \in [Asid -> [Page -> PteType]]
      /\ refs \in [Frame -> Seq(Asid \X Page)]
      /\ tasks \subseteq 0 .. born - 1 /\ born \in 0 .. NTasks
      /\ tlb \subseteq TlbType /\ req \in ReqType /\ cpu \in CpuType
      /\ PteOK /\ (Accessing => req.asid \in tasks)
  BY DEF BaseInv, TypeOK, ReqOK
<1>2. tasks \subseteq Asid
  BY <1>1, Numbers
<1>3. \A p \in Asid, v \in Page :
        /\ pte[p][v] \in PteType
        /\ pte[p][v].valid => pte[p][v].pfn \in Frame /\ pte[p][v] # NoPte
        /\ pte[p][v].swapped => pte[p][v].slot \in Slot
  BY <1>1 DEF PteOK, PteType, NoPte
<1>4. req.vpn \in Page
  BY <1>1 DEF ReqType
<1>5. \A e \in tlb : e.asid \in Asid /\ e.vpn \in Page /\ e.pfn \in Frame
  BY <1>1 DEF TlbType
<1> QED BY <1>1, <1>2, <1>3, <1>4, <1>5 DEF Live, ThePte

(* Steps that leave the pages, the frames, the swap space and the TLB.     *)
Quiet ==
  \/ EndOfTrace \/ LoadHit \/ Fault \/ AllocFails
  \/ \E p \in Asid : \/ FreeTask(p)
                     \/ \E v \in Page : Load(p, v) \/ \E x \in Val : Store(p, v, x)

LEMMA NoForkQuiet ==
  ASSUME BaseInv, NoForkInv, Quiet \/ UNCHANGED vars
  PROVE  NoForkInv'
<1>1. CASE Quiet
  <2>1. /\ config' = config /\ tasks' = tasks /\ born' = born /\ pte' = pte /\ refs' = refs
        /\ asid' = asid /\ physmem' = physmem /\ swap' = swap /\ swapmap' = swapmap
        /\ tlb' = tlb
    BY <1>1 DEF Quiet, EndOfTrace, LoadHit, Fault, AllocFails, FreeTask, Load, Store,
                tableVars, frameVars, swapVars
  <2>2. cpu # "fill" /\ cpu' # "fill"
    BY <1>1 DEF Quiet, EndOfTrace, LoadHit, Fault, AllocFails, FreeTask, Load, Store, Done
  <2>3. OwnPages' /\ Saved' /\ SlotsOwned'
    BY <2>1 DEF NoForkInv, OwnPages, Saved, SlotsOwned, Slotted
  <2>4. Frames'
    BY <2>1, <2>2, SameSizes DEF NoForkInv, Frames, Resident
  <2>5. Stage'
    <3>1. cpu' \notin {"dup", "copy", "dangling", "alloc", "evict", "fill", "insert"}
      BY <1>1 DEF Quiet, EndOfTrace, LoadHit, Fault, AllocFails, FreeTask, Load, Store, Done
    <3>2. Accessing' => req'.old = NoFrame
      <4>1. CASE Fault
        BY <4>1, Entries DEF Fault, NoForkInv, Stage, Accessing, ReqType
      <4>2. CASE ~Fault
        BY <1>1, <4>2 DEF Quiet, EndOfTrace, LoadHit, AllocFails, FreeTask, Load, Store,
                          Done, Accessing, NoReq
      <4> QED BY <4>1, <4>2
    <3>3. cpu' = "free" => req'.vpn = 0
      BY <1>1 DEF Quiet, EndOfTrace, LoadHit, Fault, AllocFails, FreeTask, Load, Store, Done,
                  NoReq
    <3> QED BY <3>1, <3>2, <3>3 DEF Stage
  <2>6. Live' \subseteq Live
    BY <1>1, <2>1 DEF Quiet, EndOfTrace, LoadHit, Fault, AllocFails, FreeTask, Load, Store,
                      Done, Live
  <2>7. TlbInv'
    BY <2>1, <2>6 DEF NoForkInv, TlbInv, Resident
  <2> QED BY <2>3, <2>4, <2>5, <2>7 DEF NoForkInv
<1>2. CASE UNCHANGED vars
  <2>1. /\ config' = config /\ tasks' = tasks /\ born' = born /\ pte' = pte /\ refs' = refs
        /\ asid' = asid /\ physmem' = physmem /\ swap' = swap /\ swapmap' = swapmap
        /\ tlb' = tlb /\ cpu' = cpu /\ req' = req /\ slice' = slice
    BY <1>2 DEF vars, tableVars, frameVars, swapVars, accessVars
  <2>2. OwnPages' /\ Saved' /\ SlotsOwned' /\ TlbInv'
    BY <2>1 DEF NoForkInv, OwnPages, Saved, SlotsOwned, Slotted, TlbInv, Resident, Live
  <2>3. Frames'
    BY <2>1, SameSizes DEF NoForkInv, Frames, Resident
  <2>4. Stage'
    BY <2>1 DEF NoForkInv, Stage, Accessing, ThePte
  <2> QED BY <2>2, <2>3, <2>4 DEF NoForkInv
<1> QED BY <1>1, <1>2

LEMMA NoForkCreate ==
  ASSUME BaseInv, NoForkInv, NEW p \in Asid, CreateTask(p)
  PROVE  NoForkInv'
<1>1. /\ config' = config /\ tasks' = tasks \cup {p} /\ born' = born + 1 /\ p = born
      /\ pte' = pte /\ refs' = refs
      /\ asid' = asid /\ physmem' = physmem /\ swap' = swap /\ swapmap' = swapmap
      /\ tlb' = tlb /\ cpu = "trace" /\ cpu' = cpu /\ req' = req /\ slice' = slice
  BY DEF CreateTask, frameVars, swapVars, accessVars
<1>2. born \in Nat /\ p \notin tasks /\ \A e \in tlb : e.asid \in Nat
  <2>1. born \in Nat /\ tasks \subseteq 0 .. born - 1
    BY Numbers DEF BaseInv, TypeOK
  <2> QED BY <1>1, <2>1, Entries, Numbers
<1>3. OwnPages' /\ Saved'
  BY <1>1 DEF NoForkInv, OwnPages, Saved
<1>4. SlotsOwned'
  <2>1. \A v \in Page : ~Slotted(p, v)
    BY <1>2 DEF NoForkInv, OwnPages, Slotted
  <2>2. \A q \in Asid, v \in Page : Slotted(q, v)' = Slotted(q, v)
    BY <1>1 DEF Slotted
  <2> QED BY <1>1, <2>1, <2>2, Entries DEF NoForkInv, SlotsOwned
<1>5. Frames'
  BY <1>1, SameSizes DEF NoForkInv, Frames, Resident
<1>6. Stage'
  BY <1>1 DEF NoForkInv, Stage, Accessing
<1>7. TlbInv'
  BY <1>1, <1>2 DEF NoForkInv, TlbInv, Resident, Live
<1> QED BY <1>3, <1>4, <1>5, <1>6, <1>7 DEF NoForkInv

(* The page a frame lists is the one that is resident in it.               *)
LEMMA ListedResident ==
  ASSUME BaseInv, NoForkInv, cpu # "fill", NEW p \in Asid, NEW v \in Page, NEW f \in Frame,
         refs[f] = <<<<p, v>>>>
  PROVE  p \in tasks /\ Resident(p, v, f)
<1>1. PICK q \in tasks, w \in Page : refs[f] = <<<<q, w>>>> /\ Resident(q, w, f)
  BY DEF NoForkInv, Frames
<1>2. q = p /\ w = v
  BY <1>1
<1> QED BY <1>1, <1>2

(* free_pagetable                                                          *)
LEMMA NoForkFreePage ==
  ASSUME BaseInv, NoForkInv, FreePage
  PROVE  NoForkInv'
<1> DEFINE p == req.asid
           v == req.vpn
           f == ThePte.pfn
<1>1. /\ config' = config /\ born' = born /\ asid' = asid /\ physmem' = physmem
      /\ swap' = swap /\ tlb' = tlb /\ cpu = "free"
      /\ swapmap' = swapmap \ (IF ThePte.swapped THEN {ThePte.slot} ELSE {})
      /\ IF ThePte.valid THEN refs' = [refs EXCEPT ![f] = WithoutRef(@, <<p, v>>)]
                         ELSE refs' = refs
      /\ SetPte(NoPte)
  BY DEF FreePage, SwapFree
<1>2. /\ p \in tasks /\ p \in Asid /\ v \in Page /\ TypeOK /\ config \in Configs
      /\ tasks \subseteq Asid /\ refs \in [Frame -> Seq(Asid \X Page)]
  BY <1>1, Entries DEF BaseInv, ReqOK
<1>3. \A q \in Asid, w \in Page :
        pte'[q][w] = IF q = p /\ w = v THEN NoPte ELSE pte[q][w]
  BY <1>1, <1>2, TheAccess, NewEntries
<1>4. NoPte.valid = FALSE
  BY DEF NoPte
<1>5. \A g \in Frame : refs'[g] = IF Resident(p, v, g) THEN <<>> ELSE refs[g]
  <2>1. CASE ThePte.valid
    <3>1. f \in Frame /\ refs[f] = <<<<p, v>>>>
      BY <1>2, <2>1, Entries DEF NoForkInv, OwnPages, ThePte
    <3>2. WithoutRef(refs[f], <<p, v>>) = <<>>
      <4> DEFINE x == <<p, v>>
      <4>1. x \in Asid \X Page /\ refs[f] = <<x>>
        BY <1>2, <3>1
      <4> HIDE DEF x
      <4>2. WithoutRef(refs[f], x) = <<>>
        BY <4>1, RemovedAlone DEF WithoutRef
      <4> QED BY <4>2 DEF x
    <3>3. \A g \in Frame : Resident(p, v, g) <=> g = f
      BY <2>1 DEF Resident, ThePte
    <3>4. refs' = [refs EXCEPT ![f] = <<>>]
      BY <1>1, <2>1, <3>2
    <3> QED BY <1>2, <3>1, <3>3, <3>4
  <2>2. CASE ~ThePte.valid
    BY <1>1, <2>2 DEF Resident, ThePte
  <2> QED BY <2>1, <2>2
<1>6. /\ tasks' \subseteq tasks /\ tasks \subseteq tasks' \cup {p}
      /\ p \notin tasks' => v = NPages - 1 /\ cpu' = "trace" /\ req' = NoReq
      /\ p \in tasks' => tasks' = tasks /\ cpu' = "free" /\ req' = [req EXCEPT !.vpn = v + 1]
  <2>1. CASE LastPage
    BY <1>2, <2>1 DEF FreePage, LastPage, Done
  <2>2. CASE ~LastPage
    BY <1>1, <1>2, <2>2 DEF FreePage, NextPage
  <2> QED BY <2>1, <2>2
<1>7. Live' = tasks' \ {p} /\ Live = tasks \ {p}
  <2>1. Live = tasks \ {p}
    BY <1>1 DEF Live
  <2>2. req \in ReqType
    BY <1>2 DEF TypeOK
  <2>3. p \in tasks' => cpu' = "free" /\ req'.asid = p
    BY <1>6, <2>2 DEF ReqType
  <2> QED BY <1>6, <2>1, <2>3 DEF Live
<1>8. \A w \in 0 .. v : pte'[p][w] = NoPte
  <2>1. \A w \in 0 .. v - 1 : pte[p][w] = NoPte
    BY <1>1 DEF NoForkInv, Stage
  <2>2. v \in Nat /\ \A w \in 0 .. v : w \in Page
    BY <1>2, Numbers DEF Page
  <2> QED BY <1>2, <1>3, <2>1, <2>2
<1>9. p \notin tasks' => \A w \in Page : pte'[p][w] = NoPte
  BY <1>6, <1>8 DEF Page
<1>10. OwnPages'
  <2>1. ASSUME NEW q \in Asid, NEW w \in Page, pte'[q][w].valid
        PROVE  /\ pte'[q][w] = pte[q][w]
               /\ refs[pte[q][w].pfn] = <<<<q, w>>>> /\ asid[pte[q][w].pfn] = q
               /\ ~pte[q][w].swapped /\ pte[q][w].pfn \in Frame
               /\ ~Resident(p, v, pte[q][w].pfn)
    <3>1. ~(q = p /\ w = v) /\ pte'[q][w] = pte[q][w]
      BY <1>3, <1>4, <2>1
    <3>2. /\ refs[pte[q][w].pfn] = <<<<q, w>>>> /\ asid[pte[q][w].pfn] = q
          /\ ~pte[q][w].swapped /\ pte[q][w].pfn \in Frame
      BY <2>1, <3>1, Entries DEF NoForkInv, OwnPages
    <3>3. Resident(p, v, pte[q][w].pfn) => refs[pte[q][w].pfn] = <<<<p, v>>>>
      <4>1. pte[p][v].valid => refs[pte[p][v].pfn] = <<<<p, v>>>>
        BY <1>2 DEF NoForkInv, OwnPages
      <4> QED BY <4>1 DEF Resident
    <3> QED BY <3>1, <3>2, <3>3
  <2>2. ASSUME NEW q \in Asid, NEW w \in Page, q \notin tasks'
        PROVE  pte'[q][w] = NoPte
    BY <1>3, <1>6, <1>9, <2>2 DEF NoForkInv, OwnPages
  <2>3. ASSUME NEW q \in Asid, NEW w \in Page, pte'[q][w] # NoPte
        PROVE  pte'[q][w].writable
    BY <1>3, <2>3 DEF NoForkInv, OwnPages
  <2> QED BY <1>1, <1>5, <2>1, <2>2, <2>3 DEF OwnPages
<1>11. Saved'
  BY <1>1, <1>3, <1>4 DEF NoForkInv, Saved
<1>12. Frames'
  <2> SUFFICES ASSUME NEW g \in Frame, refs'[g] # <<>>
               PROVE  \E q \in tasks', w \in Page :
                        refs'[g] = <<<<q, w>>>> /\ Resident(q, w, g)'
    BY <1>1, SameSizes DEF Frames
  <2>1. refs'[g] = refs[g] /\ ~Resident(p, v, g)
    BY <1>5
  <2>2. PICK q \in tasks, w \in Page : refs[g] = <<<<q, w>>>> /\ Resident(q, w, g)
    BY <1>1, <2>1 DEF NoForkInv, Frames
  <2>3. ~(q = p /\ w = v) /\ q \in Asid
    BY <1>2, <2>1, <2>2
  <2>4. pte'[q][w] = pte[q][w] /\ pte[q][w].valid
    BY <1>3, <2>2, <2>3 DEF Resident
  <2>5. q \in tasks'
    BY <1>4, <1>6, <1>9, <2>2, <2>4
  <2> QED BY <2>1, <2>2, <2>4, <2>5 DEF Resident
<1>13. Stage'
  <2>1. cpu' \in {"free", "trace"}
    BY <1>6
  <2>2. cpu' = "free" => \A w \in 0 .. req'.vpn - 1 : pte'[req'.asid][w] = NoPte
    <3> SUFFICES ASSUME cpu' = "free"
                 PROVE  \A w \in 0 .. req'.vpn - 1 : pte'[req'.asid][w] = NoPte
      OBVIOUS
    <3>1. req' = [req EXCEPT !.vpn = v + 1] /\ req \in ReqType
      BY <1>2, <1>6 DEF TypeOK
    <3>2. req'.vpn = v + 1 /\ req'.asid = p /\ v \in Nat
      BY <1>2, <3>1, Numbers DEF ReqType
    <3> QED BY <1>8, <3>2
  <2> QED BY <2>1, <2>2 DEF Stage, Accessing
<1>14. TlbInv'
  BY <1>1, <1>3, <1>6, <1>7, Entries DEF NoForkInv, TlbInv, Resident
<1>15. SlotsOwned'
  <2>1. \A q \in Asid, w \in Page :
          Slotted(q, w)' => Slotted(q, w) /\ ~(q = p /\ w = v) /\ pte'[q][w] = pte[q][w]
    BY <1>3 DEF Slotted
  <2>2. ThePte.swapped => Slotted(p, v) /\ ThePte = pte[p][v]
    BY <1>2, Entries, Sizes DEF Slotted, ThePte, NoPte
  <2>3. ASSUME NEW q \in tasks', NEW w \in Page, Slotted(q, w)'
        PROVE  pte'[q][w].slot \in swapmap'
    BY <1>1, <1>2, <1>6, <2>1, <2>2, <2>3 DEF NoForkInv, SlotsOwned
  <2>4. ASSUME NEW q \in tasks', NEW r \in tasks', NEW w \in Page, NEW u \in Page,
               Slotted(q, w)', Slotted(r, u)', <<q, w>> # <<r, u>>
        PROVE  pte'[q][w].slot # pte'[r][u].slot
    <3>1. q \in tasks /\ r \in tasks /\ q \in Asid /\ r \in Asid
      BY <1>2, <1>6
    <3>2. Slotted(q, w) /\ Slotted(r, u) /\ pte'[q][w] = pte[q][w] /\ pte'[r][u] = pte[r][u]
      BY <2>1, <2>4, <3>1
    <3> QED BY <2>4, <3>1, <3>2 DEF NoForkInv, SlotsOwned
  <2> QED BY <2>3, <2>4 DEF SlotsOwned
<1> QED BY <1>10, <1>11, <1>12, <1>13, <1>14, <1>15 DEF NoForkInv

(* A store writes a frame whose page is marked dirty.                      *)
LEMMA NoForkStoreHit ==
  ASSUME BaseInv, NoForkInv, StoreHit
  PROVE  NoForkInv'
<1>1. /\ config' = config /\ tasks' = tasks /\ born' = born /\ pte' = pte /\ refs' = refs
      /\ asid' = asid /\ swap' = swap /\ swapmap' = swapmap /\ tlb' = tlb
      /\ cpu = "resolve" /\ cpu' = "trace" /\ req.type = "S"
  BY DEF StoreHit, Done, tableVars, swapVars
<1>2. PICK e \in Hits : e.dirty /\ physmem' = [physmem EXCEPT ![e.pfn] = req.val]
  BY <1>1 DEF StoreHit, Resolves
<1>3. Resident(req.asid, req.vpn, e.pfn) /\ pte[req.asid][req.vpn].dirty
  <2>1. e \in tlb /\ e.asid = req.asid /\ e.vpn = req.vpn
    BY DEF Hits
  <2>2. req.asid \in tasks /\ Live = tasks
    BY <1>1, Entries DEF Live, Accessing
  <2> QED BY <1>2, <2>1, <2>2 DEF NoForkInv, TlbInv
<1>4. physmem \in [Frame -> Data] /\ req.asid \in Asid /\ req.vpn \in Page
  BY <1>1, Entries DEF BaseInv, TypeOK, Accessing
<1>5. Saved'
  <2> SUFFICES ASSUME NEW p \in Asid, NEW v \in Page, pte[p][v].valid, ~pte[p][v].dirty
               PROVE  /\ pte[p][v].slot # NoSlot
                      /\ physmem'[pte[p][v].pfn] = swap[pte[p][v].slot]
    BY <1>1 DEF Saved
  <2>1. /\ refs[pte[p][v].pfn] = <<<<p, v>>>>
        /\ refs[e.pfn] = <<<<req.asid, req.vpn>>>>
    BY <1>3, <1>4 DEF NoForkInv, OwnPages, Resident
  <2>2. pte[p][v].pfn # e.pfn
    BY <1>3, <2>1
  <2>3. pte[p][v].pfn \in Frame
    BY Entries
  <2> QED BY <1>2, <1>4, <2>2, <2>3 DEF NoForkInv, Saved
<1>6. OwnPages' /\ SlotsOwned' /\ TlbInv'
  BY <1>1 DEF NoForkInv, OwnPages, SlotsOwned, Slotted, TlbInv, Resident, Live
<1>7. Frames'
  BY <1>1, SameSizes DEF NoForkInv, Frames, Resident
<1>8. Stage'
  BY <1>1 DEF Stage, Accessing
<1> QED BY <1>5, <1>6, <1>7, <1>8 DEF NoForkInv

(* page_walk and handle_tlb_fault mark the page dirty, or set its entry up.*)
LEMMA WalkedEntry ==
  ASSUME BaseInv, NoForkInv, WalkResident \/ WalkAbsent \/ NoCowFault
  PROVE  \E e \in PteType :
           /\ \A q \in Asid, w \in Page :
                pte'[q][w] = IF q = req.asid /\ w = req.vpn THEN e ELSE pte[q][w]
           /\ e.valid = ThePte.valid /\ (e.valid => e.pfn = ThePte.pfn)
           /\ e.swapped = ThePte.swapped /\ (ThePte.dirty => e.dirty)
           /\ e # NoPte => e.writable
           /\ ThePte # NoPte => e # NoPte /\ e.slot = ThePte.slot
           /\ ThePte = NoPte => e = NoPte \/ e.slot = NoSlot
           /\ cpu' = "alloc" => ~e.valid /\ e # NoPte
           /\ cpu' = "insert" => e.valid /\ (req.fault = "write" => e.dirty)
<1> DEFINE p == req.asid
           v == req.vpn
<1>1. /\ config' = config /\ tasks' = tasks /\ born' = born /\ refs' = refs
      /\ asid' = asid /\ physmem' = physmem /\ swap' = swap /\ swapmap' = swapmap
      /\ tlb' = tlb /\ req' = req /\ cpu \in {"walk", "fault"}
      /\ cpu' \in {"fault", "alloc", "insert"}
  BY DEF WalkResident, WalkAbsent, NoCowFault, frameVars, swapVars
<1>2. /\ p \in tasks /\ p \in Asid /\ v \in Page /\ TypeOK /\ config \in Configs
      /\ ThePte \in PteType /\ ThePte = pte[p][v] /\ tasks \subseteq Asid
      /\ cpu = "fault" => ThePte.valid
  BY <1>1, Entries DEF Accessing, ThePte, BaseInv, ReqOK
<1> QED
  <2>0. /\ ~NoPte.valid /\ ~NoPte.writable /\ ~NoPte.swapped /\ ~NoPte.dirty
        /\ ~FreshPte.valid /\ FreshPte.writable /\ ~FreshPte.swapped
        /\ FreshPte.slot = NoSlot
    BY DEF NoPte, FreshPte
  <2>1. ThePte # NoPte => ThePte.writable
    BY <1>2 DEF NoForkInv, OwnPages
  <2> DEFINE d == Dirtied(ThePte)
  <2>2. /\ d \in PteType /\ d.valid = ThePte.valid /\ d.pfn = ThePte.pfn
        /\ d.swapped = ThePte.swapped /\ d.slot = ThePte.slot
        /\ d.dirty = (ThePte.dirty \/ req.type = "S") /\ d.writable = ThePte.writable
    BY <1>2 DEF Dirtied, PteType
  <2>3. CASE WalkResident
    <3> HIDE DEF d
    <3>1. SetPte(d) /\ ThePte.valid /\ cpu' = "fault" /\ ThePte # NoPte /\ d # NoPte
      <4>1. SetPte(d) /\ ThePte.valid /\ cpu' = "fault"
        BY <2>3 DEF WalkResident, d
      <4> QED BY <2>0, <2>2, <4>1
    <3>2. \A q \in Asid, w \in Page :
            pte'[q][w] = IF q = p /\ w = v THEN d ELSE pte[q][w]
      BY <1>2, <2>2, <3>1, TheAccess
    <3>3. ThePte.dirty => d.dirty
      BY <2>2
    <3> QED BY <2>1, <2>2, <3>1, <3>2, <3>3
  <2>4. CASE WalkAbsent
    <3> DEFINE n == IF ThePte = NoPte THEN FreshPte ELSE ThePte
    <3>1. SetPte(n) /\ ~ThePte.valid /\ cpu' = "alloc" /\ n \in PteType
      BY <1>2, <2>4, NewEntries DEF WalkAbsent
    <3>2. \A q \in Asid, w \in Page :
            pte'[q][w] = IF q = p /\ w = v THEN n ELSE pte[q][w]
      <4> HIDE DEF n
      <4> QED BY <1>2, <3>1, TheAccess
    <3>3. /\ n.valid = ThePte.valid /\ n.swapped = ThePte.swapped
          /\ (ThePte.dirty => n.dirty) /\ n # NoPte /\ n.writable
          /\ ThePte # NoPte => n.slot = ThePte.slot
          /\ ThePte = NoPte => n.slot = NoSlot
      <4>1. n = IF ThePte = NoPte THEN FreshPte ELSE ThePte
        OBVIOUS
      <4> HIDE DEF n
      <4>2. CASE ThePte = NoPte
        <5>1. /\ n.valid = FALSE /\ ThePte.valid = FALSE /\ n.swapped = FALSE
              /\ ThePte.swapped = FALSE
          BY <4>1, <4>2 DEF NoPte, FreshPte
        <5> QED BY <2>0, <4>1, <4>2, <5>1
      <4>3. CASE ThePte # NoPte
        BY <2>1, <4>1, <4>3
      <4> QED BY <4>2, <4>3
    <3> HIDE DEF n
    <3> QED BY <3>1, <3>2, <3>3
  <2>5. CASE NoCowFault /\ req.fault = "write"
    <3>1. req.type = "S" /\ ThePte.valid
      BY <1>2, <2>5 DEF BaseInv, ReqOK, NoCowFault
    <3>2. SetPte(d) /\ cpu' = "insert" /\ ThePte # NoPte /\ d # NoPte
      BY <2>2, <2>5, <3>1 DEF NoCowFault, NoPte
    <3> HIDE DEF d
    <3>3. \A q \in Asid, w \in Page :
            pte'[q][w] = IF q = p /\ w = v THEN d ELSE pte[q][w]
      BY <1>2, <2>2, <3>2, TheAccess
    <3> QED BY <2>1, <2>2, <3>1, <3>2, <3>3
  <2>6. CASE NoCowFault /\ req.fault # "write"
    <3>1. ThePte.valid /\ cpu' = "insert" /\ pte' = pte
      BY <1>2, <2>6 DEF NoCowFault
    <3> QED BY <1>2, <2>1, <2>6, <3>1
  <2> QED BY <2>3, <2>4, <2>5, <2>6

LEMMA NoForkEntry ==
  ASSUME BaseInv, NoForkInv, WalkResident \/ WalkAbsent \/ NoCowFault
  PROVE  NoForkInv'
<1> DEFINE p == req.asid
           v == req.vpn
<1>1. /\ config' = config /\ tasks' = tasks /\ born' = born /\ refs' = refs
      /\ asid' = asid /\ physmem' = physmem /\ swap' = swap /\ swapmap' = swapmap
      /\ tlb' = tlb /\ req' = req /\ cpu \in {"walk", "fault"}
      /\ cpu' \in {"fault", "alloc", "insert"}
  BY DEF WalkResident, WalkAbsent, NoCowFault, frameVars, swapVars
<1>2. /\ p \in tasks /\ p \in Asid /\ v \in Page /\ TypeOK /\ config \in Configs
      /\ ThePte \in PteType /\ ThePte = pte[p][v] /\ tasks \subseteq Asid
      /\ cpu = "fault" => ThePte.valid
  BY <1>1, Entries DEF Accessing, ThePte, BaseInv, ReqOK
<1>3. PICK e \in PteType :
        /\ \A q \in Asid, w \in Page :
             pte'[q][w] = IF q = p /\ w = v THEN e ELSE pte[q][w]
        /\ e.valid = ThePte.valid /\ (e.valid => e.pfn = ThePte.pfn)
        /\ e.swapped = ThePte.swapped /\ (ThePte.dirty => e.dirty)
        /\ e # NoPte => e.writable
        /\ ThePte # NoPte => e # NoPte /\ e.slot = ThePte.slot
        /\ ThePte = NoPte => e = NoPte \/ e.slot = NoSlot
        /\ cpu' = "alloc" => ~e.valid /\ e # NoPte
        /\ cpu' = "insert" => e.valid /\ (req.fault = "write" => e.dirty)
  BY WalkedEntry
<1>4. \A q \in Asid, w \in Page, f \in Frame : Resident(q, w, f)' = Resident(q, w, f)
  BY <1>2, <1>3 DEF Resident
<1>5. ThePte' = e
  BY <1>1, <1>2, <1>3 DEF ThePte
<1>6. OwnPages'
  <2> SUFFICES ASSUME NEW q \in Asid, NEW w \in Page
               PROVE  /\ q \notin tasks => pte'[q][w] = NoPte
                      /\ pte'[q][w] # NoPte => pte'[q][w].writable
                      /\ pte'[q][w].valid =>
                           /\ refs[pte'[q][w].pfn] = <<<<q, w>>>>
                           /\ asid[pte'[q][w].pfn] = q
                           /\ ~pte'[q][w].swapped
    BY <1>1 DEF OwnPages
  <2>1. CASE q = p /\ w = v
    BY <1>2, <1>3, <2>1 DEF NoForkInv, OwnPages
  <2>2. CASE ~(q = p /\ w = v)
    BY <1>3, <2>2 DEF NoForkInv, OwnPages
  <2> QED BY <2>1, <2>2
<1>7. Saved'
  <2> SUFFICES ASSUME NEW q \in Asid, NEW w \in Page, pte'[q][w].valid, ~pte'[q][w].dirty
               PROVE  /\ pte'[q][w].slot # NoSlot
                      /\ physmem[pte'[q][w].pfn] = swap[pte'[q][w].slot]
    BY <1>1 DEF Saved
  <2>1. pte[q][w].valid /\ ~pte[q][w].dirty /\ pte'[q][w].pfn = pte[q][w].pfn
        /\ pte'[q][w].slot = pte[q][w].slot
    <3>1. CASE q = p /\ w = v
      BY <1>2, <1>3, <3>1, Entries
    <3>2. CASE ~(q = p /\ w = v)
      BY <1>3, <3>2
    <3> QED BY <3>1, <3>2
  <2> QED BY <2>1 DEF NoForkInv, Saved
<1>8. Frames'
  BY <1>1, <1>2, <1>4, SameSizes DEF NoForkInv, Frames
<1>9. Stage'
  BY <1>1, <1>3, <1>5 DEF NoForkInv, Stage, Accessing
<1>10. TlbInv'
  <2>1. Live' = Live
    BY <1>1 DEF Live
  <2> SUFFICES ASSUME NEW t \in tlb, t.asid \in Live
               PROVE  /\ Resident(t.asid, t.vpn, t.pfn)'
                      /\ t.dirty => pte'[t.asid][t.vpn].dirty
    BY <1>1, <2>1 DEF NoForkInv, TlbInv
  <2>2. t.asid \in Asid /\ t.vpn \in Page /\ t.pfn \in Frame
    BY Entries
  <2>3. Resident(t.asid, t.vpn, t.pfn) /\ (t.dirty => pte[t.asid][t.vpn].dirty)
    BY DEF NoForkInv, TlbInv
  <2>4. pte[t.asid][t.vpn].dirty => pte'[t.asid][t.vpn].dirty
    BY <1>2, <1>3, <2>2
  <2> QED BY <1>4, <2>2, <2>3, <2>4
<1>11. SlotsOwned'
  <2>1. \A q \in Asid, w \in Page :
          Slotted(q, w)' => Slotted(q, w) /\ pte'[q][w].slot = pte[q][w].slot
    <3> SUFFICES ASSUME NEW q \in Asid, NEW w \in Page, Slotted(q, w)'
                 PROVE  Slotted(q, w) /\ pte'[q][w].slot = pte[q][w].slot
      OBVIOUS
    <3>1. CASE q = p /\ w = v
      BY <1>2, <1>3, <3>1 DEF Slotted
    <3>2. CASE ~(q = p /\ w = v)
      BY <1>3, <3>2 DEF Slotted
    <3> QED BY <3>1, <3>2
  <2> QED BY <1>1, <1>2, <2>1 DEF NoForkInv, SlotsOwned
<1> QED BY <1>6, <1>7, <1>8, <1>9, <1>10, <1>11 DEF NoForkInv

(* allocate_frame gives the page of the access a frame that lists nothing. *)
LEMMA NoForkGot ==
  ASSUME BaseInv, NoForkInv, NEW f \in Frame, refs[f] = <<>>, Got(f, <<>>),
         cpu \in {"alloc", "evict"}, req' = [req EXCEPT !.frame = f],
         config' = config, tasks' = tasks, born' = born, pte' = pte, physmem' = physmem,
         swap' = swap, swapmap' = swapmap, tlb' = tlb
  PROVE  NoForkInv'
<1> DEFINE p == req.asid
           v == req.vpn
<1>1. /\ p \in tasks /\ p \in Asid /\ v \in Page /\ TypeOK /\ req.old = NoFrame
      /\ req \in ReqType /\ ~ThePte.valid /\ ThePte # NoPte /\ cpu # "fill"
      /\ cpu # "free"
  BY Entries DEF Accessing, BaseInv, NoForkInv, Stage
<1>2. /\ req'.asid = p /\ req'.vpn = v /\ req'.frame = f /\ req'.old = NoFrame
      /\ ThePte' = ThePte
  BY <1>1 DEF ReqType, ThePte
<1>3. /\ refs' = [refs EXCEPT ![f] = <<<<p, v>>>>]
      /\ asid' = [asid EXCEPT ![f] = p] /\ cpu' = "fill"
  <2>1. <<>> \in Seq(Asid \X Page) /\ Append(<<>>, <<p, v>>) = <<<<p, v>>>>
    OBVIOUS
  <2> QED BY <1>1, <2>1, GotFrame
<1>4. /\ refs' \in [Frame -> Seq(Asid \X Page)] /\ refs'[f] = <<<<p, v>>>> /\ asid'[f] = p
      /\ \A g \in Frame : g # f => refs'[g] = refs[g] /\ asid'[g] = asid[g]
  <2>1. refs \in [Frame -> Seq(Asid \X Page)] /\ asid \in [Frame -> Asid \cup {NoAsid}]
    BY <1>1 DEF TypeOK
  <2> QED BY <1>1, <1>3, <2>1
<1>5. ASSUME NEW q \in Asid, NEW w \in Page, pte[q][w].valid
      PROVE  pte[q][w].pfn \in Frame /\ pte[q][w].pfn # f
  <2>1. refs[pte[q][w].pfn] = <<<<q, w>>>> /\ pte[q][w].pfn \in Frame
    BY <1>5, Entries DEF NoForkInv, OwnPages
  <2> QED BY <2>1
<1>6. OwnPages'
  <2> SUFFICES ASSUME NEW q \in Asid, NEW w \in Page
               PROVE  /\ q \notin tasks => pte[q][w] = NoPte
                      /\ pte[q][w] # NoPte => pte[q][w].writable
                      /\ pte[q][w].valid =>
                           /\ refs'[pte[q][w].pfn] = <<<<q, w>>>>
                           /\ asid'[pte[q][w].pfn] = q
                           /\ ~pte[q][w].swapped
    BY DEF OwnPages
  <2>1. pte[q][w].valid =>
          /\ refs'[pte[q][w].pfn] = refs[pte[q][w].pfn]
          /\ asid'[pte[q][w].pfn] = asid[pte[q][w].pfn]
    BY <1>4, <1>5
  <2> QED BY <2>1 DEF NoForkInv, OwnPages
<1>7. Saved' /\ SlotsOwned'
  BY DEF NoForkInv, Saved, SlotsOwned, Slotted
<1>8. Frames'
  <2> SUFFICES ASSUME NEW g \in Frame, refs'[g] # <<>>
               PROVE  \E q \in tasks, w \in Page :
                        /\ refs'[g] = <<<<q, w>>>>
                        /\ Resident(q, w, g) \/ g = f
    BY <1>2, <1>3, SameSizes DEF Frames, Resident
  <2>1. CASE g = f
    BY <1>1, <1>4, <2>1
  <2>2. CASE g # f
    BY <1>1, <1>4, <2>2 DEF NoForkInv, Frames
  <2> QED BY <2>1, <2>2
<1>9. Stage'
  BY <1>1, <1>2, <1>3, <1>4 DEF Stage, Accessing
<1>10. TlbInv'
  <2>1. Live' = Live
    BY <1>1, <1>3 DEF Live
  <2> QED BY <2>1 DEF NoForkInv, TlbInv, Resident
<1> QED BY <1>6, <1>7, <1>8, <1>9, <1>10 DEF NoForkInv

LEMMA NoForkAlloc ==
  ASSUME BaseInv, NoForkInv, AllocFree \/ EvictDone
  PROVE  NoForkInv'
<1>1. CASE AllocFree
  <2>1. PICK f \in Frame : /\ NextFree(f) /\ Got(f, refs[f])
                           /\ req' = [req EXCEPT !.frame = f]
    BY <1>1 DEF AllocFree
  <2>2. refs[f] = <<>>
    BY <2>1 DEF NextFree, FreeFrames, Scanned, InUse
  <2>3. /\ config' = config /\ tasks' = tasks /\ born' = born /\ pte' = pte
        /\ physmem' = physmem /\ swap' = swap /\ swapmap' = swapmap /\ tlb' = tlb
        /\ cpu = "alloc"
    BY <1>1 DEF AllocFree, tableVars, swapVars
  <2> QED BY <2>1, <2>2, <2>3, NoForkGot
<1>2. CASE EvictDone
  <2>1. /\ config' = config /\ tasks' = tasks /\ born' = born /\ pte' = pte
        /\ physmem' = physmem /\ swap' = swap /\ swapmap' = swapmap /\ tlb' = tlb
        /\ cpu = "evict" /\ req' = req /\ Got(req.frame, <<>>)
        /\ slice.i > Len(slice.items)
    BY <1>2 DEF EvictDone, tableVars, swapVars
  <2>2. PICK p \in tasks, v \in Page :
          /\ slice.items = <<<<p, v>>>>
          /\ \/ slice.i = 1 /\ refs[req.frame] = <<<<p, v>>>>
             \/ slice.i = 2 /\ refs[req.frame] = <<>>
    BY <2>1 DEF NoForkInv, Stage
  <2>3. Len(slice.items) = 1
    BY <2>2
  <2>4. refs[req.frame] = <<>>
    BY <2>1, <2>2, <2>3
  <2>5. req.frame \in Frame /\ req' = [req EXCEPT !.frame = req.frame]
    BY <2>1 DEF BaseInv, ReqOK, TypeOK, ReqType
  <2> QED BY <2>1, <2>4, <2>5, NoForkGot
<1> QED BY <1>1, <1>2

LEMMA NoForkVictim ==
  ASSUME BaseInv, NoForkInv, AllocEvict
  PROVE  NoForkInv'
<1>1. /\ config' = config /\ tasks' = tasks /\ born' = born /\ pte' = pte /\ refs' = refs
      /\ asid' = asid /\ physmem' = physmem /\ swap' = swap /\ swapmap' = swapmap
      /\ tlb' = tlb /\ cpu = "alloc" /\ cpu' = "evict"
  BY DEF AllocEvict, tableVars, swapVars
<1>2. PICK f \in Frame : /\ InUse(f) /\ req' = [req EXCEPT !.frame = f]
                         /\ slice' = [items |-> refs[f], i |-> 1]
  BY DEF AllocEvict
<1>3. PICK p \in tasks, v \in Page : refs[f] = <<<<p, v>>>>
  BY <1>1, <1>2 DEF InUse, NoForkInv, Frames
<1>4. req'.frame = f /\ req'.old = NoFrame /\ ThePte' = ThePte
  BY <1>1, <1>2, Entries DEF ReqType, NoForkInv, Stage, Accessing, ThePte
<1>5. OwnPages' /\ Saved' /\ SlotsOwned' /\ TlbInv'
  BY <1>1 DEF NoForkInv, OwnPages, Saved, SlotsOwned, Slotted, TlbInv, Resident, Live
<1>6. Frames'
  BY <1>1, SameSizes DEF NoForkInv, Frames, Resident
<1>7. Stage'
  <2>1. slice'.items = <<<<p, v>>>> /\ slice'.i = 1 /\ refs'[req'.frame] = <<<<p, v>>>>
    BY <1>1, <1>2, <1>3, <1>4
  <2> QED BY <1>1, <1>3, <1>4, <2>1 DEF NoForkInv, Stage, Accessing
<1> QED BY <1>5, <1>6, <1>7 DEF NoForkInv

(* The one page of a victim goes to its slot.                              *)
LEMMA TheVictim ==
  ASSUME BaseInv, NoForkInv, EvictRef
  PROVE  \E p \in tasks, v \in Page, s \in Slot \cup {NoSlot} :
           LET e == pte[p][v]
               f == req.frame
           IN  /\ f \in Frame /\ Resident(p, v, f) /\ asid[f] = p
               /\ slice.items = <<<<p, v>>>> /\ refs[f] = <<<<p, v>>>> /\ e \in PteType
               /\ s = IF e.dirty THEN SlotFor(e) ELSE e.slot
               /\ pte' = [pte EXCEPT ![p][v] = Evicted(e, s)]
               /\ IF e.dirty THEN PageOut(e) ELSE UNCHANGED swapVars
               /\ tlb' = AfterEvict(v)
               /\ refs' = [refs EXCEPT ![f] = <<>>]
               /\ slice' = [items |-> <<<<p, v>>>>, i |-> 2]
               /\ cpu' = cpu
<1>1. /\ slice.i <= Len(slice.items) /\ cpu = "evict" /\ req.frame \in Frame
      /\ config \in Configs
  BY DEF EvictRef, BaseInv, ReqOK, TypeOK, ReqType
<1>2. PICK p \in tasks, v \in Page :
        /\ slice.items = <<<<p, v>>>>
        /\ \/ slice.i = 1 /\ refs[req.frame] = <<<<p, v>>>>
           \/ slice.i = 2 /\ refs[req.frame] = <<>>
  BY <1>1 DEF NoForkInv, Stage
<1> DEFINE f == req.frame
           x == <<p, v>>
           e == pte[p][v]
           s == IF e.dirty THEN SlotFor(e) ELSE e.slot
<1>3. slice.i = 1 /\ refs[f] = <<x>>
  <2>1. Len(slice.items) = 1
    BY <1>2
  <2> QED BY <1>1, <1>2, <2>1
<1>4. slice.items[slice.i] = x /\ x[1] = p /\ x[2] = v /\ x \in Asid \X Page
      /\ p \in Asid /\ Len(slice.items) = 1
  BY <1>2, <1>3, Entries
<1>5. Resident(p, v, f)
  BY <1>1, <1>3, <1>4, ListedResident
<1>6. asid[f] = p /\ e \in PteType /\ s \in Slot \cup {NoSlot}
  <2>1. asid[f] = p /\ e \in PteType
    BY <1>4, <1>5, Entries DEF NoForkInv, OwnPages, Resident
  <2> QED BY <1>1, <2>1, SlotForType DEF PteType
<1>7. WithoutRef(refs[f], x) = <<>>
  <2> HIDE DEF x
  <2> QED BY <1>3, <1>4, RemovedAlone DEF WithoutRef
<1>8. <<>> \o SubSeq(slice.items, Len(<<>>) + 1, Len(slice.items)) = slice.items
  <2> DEFINE q == slice.items
  <2>1. q \in Seq(Asid \X Page)
    BY DEF BaseInv, TypeOK
  <2> HIDE DEF q
  <2>2. Len(<<>>) + 1 = 1 /\ SubSeq(q, 1, Len(q)) = q /\ <<>> \o q = q
    BY <2>1, SubSeqFull, ConcatEmptySeq
  <2>3. <<>> \o SubSeq(q, Len(<<>>) + 1, Len(q)) = q
    BY <2>2
  <2> QED BY <2>3 DEF q
<1>9. /\ IF e.dirty
           THEN PageOut(e) /\ pte' = [pte EXCEPT ![p][v] = Evicted(e, SlotFor(e))]
           ELSE UNCHANGED swapVars /\ pte' = [pte EXCEPT ![p][v] = Evicted(e, e.slot)]
      /\ tlb' = AfterEvict(v)
      /\ refs' = [refs EXCEPT ![f] = <<>>]
      /\ slice' = [items |-> <<>> \o SubSeq(slice.items, Len(<<>>) + 1, Len(slice.items)),
                   i |-> slice.i + 1]
      /\ cpu' = cpu
  BY <1>4, <1>7 DEF EvictRef
<1>10. pte' = [pte EXCEPT ![p][v] = Evicted(e, s)]
  BY <1>9
<1>11. slice' = [items |-> <<x>>, i |-> 2]
  <2>1. slice' = [items |-> slice.items, i |-> slice.i + 1]
    BY <1>8, <1>9
  <2>2. slice.items = <<x>> /\ slice.i + 1 = 2
    BY <1>2, <1>3
  <2> QED BY <2>1, <2>2
<1> QED BY <1>1, <1>2, <1>3, <1>5, <1>6, <1>9, <1>10, <1>11

(* Where the page goes: its old slot, or a free one; no other page's.      *)
LEMMA VictimSlot ==
  ASSUME BaseInv, NoForkInv, NEW p \in tasks, NEW v \in Page, NEW s \in Slot \cup {NoSlot},
         pte[p][v].valid, pte[p][v] \in PteType, warned \in BOOLEAN,
         s = IF pte[p][v].dirty THEN SlotFor(pte[p][v]) ELSE pte[p][v].slot,
         IF pte[p][v].dirty THEN PageOut(pte[p][v]) ELSE UNCHANGED swapVars
  PROVE  /\ \A r \in Slot : r # s => swap'[r] = swap[r]
         /\ swapmap \subseteq swapmap' /\ (s # NoSlot => s \in swapmap')
         /\ s # NoSlot => swap'[s] = physmem[IF pte[p][v].dirty THEN req.frame ELSE pte[p][v].pfn]
         /\ warned' = (warned \/ s = NoSlot)
         /\ \A q \in tasks, w \in Page :
              Slotted(q, w) /\ ~(q = p /\ w = v) =>
                pte[q][w].slot # s /\ pte[q][w].slot \in Slot
<1> DEFINE e == pte[p][v]
           f == req.frame
<1>1. /\ config \in Configs /\ swapmap \subseteq Slot /\ NoSlot \notin Slot
      /\ SlotsOwned /\ e # NoPte
      /\ e.slot # NoSlot => e.slot \in swapmap
      /\ ~e.dirty => e.slot # NoSlot /\ physmem[e.pfn] = swap[e.slot]
  <2>1. config \in Configs /\ swapmap \subseteq Slot /\ SlotsOwned /\ e # NoPte /\ p \in Asid
    BY Entries DEF BaseInv, TypeOK, NoForkInv
  <2>2. e.slot # NoSlot => e.slot \in swapmap
    BY <2>1 DEF SlotsOwned, Slotted
  <2>3. ~e.dirty => e.slot # NoSlot /\ physmem[e.pfn] = swap[e.slot]
    BY <2>1 DEF NoForkInv, Saved
  <2> QED BY <2>1, <2>2, <2>3, Sizes
<1>2. /\ \A r \in Slot : r # s => swap'[r] = swap[r]
      /\ swapmap \subseteq swapmap' /\ (s # NoSlot => s \in swapmap')
      /\ ~(s \in swapmap /\ s # e.slot)
      /\ s # NoSlot => swap'[s] = physmem[IF e.dirty THEN f ELSE e.pfn]
      /\ warned' = (warned \/ s = NoSlot)
  <2>1. CASE e.dirty
    <3>1. /\ swapmap' = swapmap \cup ({SlotFor(e)} \ {NoSlot}) /\ s = SlotFor(e)
          /\ swap' = [r \in Slot |-> IF r = SlotFor(e) THEN physmem[f] ELSE swap[r]]
          /\ warned' = (warned \/ SlotFor(e) = NoSlot)
      BY <2>1 DEF PageOut
    <3>2. /\ e.slot # NoSlot => s = e.slot
          /\ e.slot = NoSlot => s \in FreeSlots \cup {NoSlot}
      BY <1>1, <3>1, SlotForType
    <3> QED BY <1>1, <2>1, <3>1, <3>2 DEF FreeSlots
  <2>2. CASE ~e.dirty
    BY <1>1, <2>2 DEF swapVars
  <2> QED BY <2>1, <2>2
<1>3. ASSUME NEW q \in tasks, NEW w \in Page, ~(q = p /\ w = v), Slotted(q, w)
      PROVE  pte[q][w].slot # s /\ pte[q][w].slot \in Slot
  <2>1. /\ pte[q][w].slot \in swapmap /\ pte[q][w].slot # NoSlot
        /\ Slotted(p, v) => pte[q][w].slot # e.slot
    BY <1>1, <1>3 DEF SlotsOwned, Slotted
  <2>2. e.slot # NoSlot => Slotted(p, v)
    BY <1>1 DEF Slotted
  <2> QED BY <1>1, <1>2, <2>1, <2>2
<1> QED BY <1>2, <1>3

LEMMA NoForkEvict ==
  ASSUME BaseInv, NoForkInv, EvictRef
  PROVE  NoForkInv'
<1> DEFINE f == req.frame
<1>0. /\ config' = config /\ tasks' = tasks /\ born' = born /\ asid' = asid
      /\ physmem' = physmem /\ req' = req /\ cpu = "evict"
      /\ TypeOK /\ config \in Configs /\ tasks \subseteq Asid
      /\ refs \in [Frame -> Seq(Asid \X Page)] /\ pte \in [Asid -> [Page -> PteType]]
      /\ req.asid \in tasks /\ req.vpn \in Page /\ ThePte = pte[req.asid][req.vpn]
      /\ ~ThePte.valid /\ ThePte # NoPte /\ req.old = NoFrame
  BY Entries DEF EvictRef, BaseInv, Accessing, NoForkInv, Stage, ThePte
<1>1. PICK p \in tasks, v \in Page, s \in Slot \cup {NoSlot} :
        /\ f \in Frame /\ Resident(p, v, f) /\ asid[f] = p
        /\ refs[f] = <<<<p, v>>>> /\ pte[p][v] \in PteType
        /\ s = IF pte[p][v].dirty THEN SlotFor(pte[p][v]) ELSE pte[p][v].slot
        /\ pte' = [pte EXCEPT ![p][v] = Evicted(pte[p][v], s)]
        /\ IF pte[p][v].dirty THEN PageOut(pte[p][v]) ELSE UNCHANGED swapVars
        /\ tlb' = AfterEvict(v)
        /\ refs' = [refs EXCEPT ![f] = <<>>]
        /\ slice' = [items |-> <<<<p, v>>>>, i |-> 2]
        /\ cpu' = cpu
  BY TheVictim
<1> DEFINE e == pte[p][v]
           d == Evicted(e, s)
<1>2. /\ d \in PteType /\ ~d.valid /\ ~d.dirty /\ d.slot = s /\ d.swapped = (s # NoSlot)
      /\ d.writable = e.writable /\ e.valid /\ e.pfn = f /\ e # NoPte /\ d # NoPte
  <2>1. /\ d \in PteType /\ ~d.valid /\ ~d.dirty /\ d.slot = s /\ d.swapped = (s # NoSlot)
        /\ d.writable = e.writable
    BY <1>1, Sizes, ZenonT(60) DEF Evicted, PteType
  <2>2. e.valid /\ e.pfn = f /\ e # NoPte
    BY <1>0, <1>1, Entries DEF Resident
  <2>3. e.writable /\ ~NoPte.writable
    BY <1>0, <1>1, <2>2 DEF NoForkInv, OwnPages, NoPte
  <2> QED BY <2>1, <2>2, <2>3
<1> HIDE DEF d
<1>3. /\ \A q \in Asid, w \in Page :
           pte'[q][w] = IF q = p /\ w = v THEN d ELSE pte[q][w]
  BY <1>0, <1>1, <1>2 DEF d
<1>4. /\ refs'[f] = <<>> /\ \A g \in Frame : g # f => refs'[g] = refs[g]
  BY <1>0, <1>1
<1>5. ASSUME NEW q \in Asid, NEW w \in Page, pte[q][w].valid, ~(q = p /\ w = v)
      PROVE  pte[q][w].pfn \in Frame /\ pte[q][w].pfn # f
  <2>1. refs[pte[q][w].pfn] = <<<<q, w>>>> /\ pte[q][w].pfn \in Frame
    BY <1>5, Entries DEF NoForkInv, OwnPages
  <2> QED BY <1>1, <1>5, <2>1
<1>6. OwnPages'
  <2> SUFFICES ASSUME NEW q \in Asid, NEW w \in Page
               PROVE  /\ q \notin tasks => pte'[q][w] = NoPte
                      /\ pte'[q][w] # NoPte => pte'[q][w].writable
                      /\ pte'[q][w].valid =>
                           /\ refs'[pte'[q][w].pfn] = <<<<q, w>>>>
                           /\ asid[pte'[q][w].pfn] = q
                           /\ ~pte'[q][w].swapped
    BY <1>0 DEF OwnPages
  <2>1. CASE q = p /\ w = v
    BY <1>0, <1>1, <1>2, <1>3, <2>1 DEF NoForkInv, OwnPages
  <2>2. CASE ~(q = p /\ w = v)
    <3>1. pte'[q][w] = pte[q][w]
      BY <1>3, <2>2
    <3>2. pte[q][w].valid => refs'[pte[q][w].pfn] = refs[pte[q][w].pfn]
      BY <1>4, <1>5, <2>2
    <3> QED BY <3>1, <3>2 DEF NoForkInv, OwnPages
  <2> QED BY <2>1, <2>2
<1>7. /\ \A r \in Slot : r # s => swap'[r] = swap[r]
      /\ swapmap \subseteq swapmap' /\ (s # NoSlot => s \in swapmap')
      /\ \A q \in tasks, w \in Page :
           Slotted(q, w) /\ ~(q = p /\ w = v) =>
             pte[q][w].slot # s /\ pte[q][w].slot \in Slot
  BY <1>0, <1>1, <1>2, VictimSlot DEF TypeOK
<1>8. ASSUME NEW q \in tasks, NEW w \in Page, ~(q = p /\ w = v), Slotted(q, w)
      PROVE  pte[q][w].slot # s /\ pte[q][w].slot \in Slot
  BY <1>7, <1>8
<1>9. Saved'
  <2> SUFFICES ASSUME NEW q \in Asid, NEW w \in Page, pte'[q][w].valid, ~pte'[q][w].dirty
               PROVE  /\ pte'[q][w].slot # NoSlot
                      /\ physmem[pte'[q][w].pfn] = swap'[pte'[q][w].slot]
    BY <1>0 DEF Saved
  <2>1. ~(q = p /\ w = v) /\ pte'[q][w] = pte[q][w]
    BY <1>2, <1>3
  <2>2. pte[q][w].slot # NoSlot /\ physmem[pte[q][w].pfn] = swap[pte[q][w].slot]
    BY <2>1 DEF NoForkInv, Saved
  <2>3. q \in tasks /\ pte[q][w] # NoPte
    BY <2>1, Entries DEF NoForkInv, OwnPages
  <2>4. pte[q][w].slot # s /\ pte[q][w].slot \in Slot
    BY <1>8, <2>1, <2>2, <2>3 DEF Slotted
  <2> QED BY <1>7, <2>1, <2>2, <2>4
<1>10. Frames'
  <2> SUFFICES ASSUME NEW g \in Frame, refs'[g] # <<>>
               PROVE  \E q \in tasks, w \in Page :
                        refs'[g] = <<<<q, w>>>> /\ Resident(q, w, g)'
    BY <1>0, SameSizes DEF Frames
  <2>1. g # f /\ refs'[g] = refs[g]
    BY <1>4
  <2>2. PICK q \in tasks, w \in Page : refs[g] = <<<<q, w>>>> /\ Resident(q, w, g)
    BY <1>0, <2>1 DEF NoForkInv, Frames
  <2>3. ~(q = p /\ w = v) /\ q \in Asid
    BY <1>0, <1>2, <2>1, <2>2 DEF Resident
  <2>4. pte'[q][w] = pte[q][w]
    BY <1>3, <2>3
  <2> QED BY <2>1, <2>2, <2>4 DEF Resident
<1>11. Stage'
  <2>1. ~(req.asid = p /\ req.vpn = v)
    BY <1>0, <1>2
  <2>2. ThePte' = ThePte
    BY <1>0, <1>3, <2>1 DEF ThePte
  <2>3. slice'.items = <<<<p, v>>>> /\ slice'.i = 2 /\ refs'[req'.frame] = <<>>
    BY <1>0, <1>1, <1>4
  <2> QED BY <1>0, <1>1, <2>2, <2>3 DEF Stage, Accessing
<1>12. TlbInv'
  <2>1. Live' = tasks /\ Live = tasks
    BY <1>0, <1>1 DEF Live
  <2> SUFFICES ASSUME NEW t \in tlb'
               PROVE  /\ t.asid < born
                      /\ t.asid \in tasks =>
                           /\ Resident(t.asid, t.vpn, t.pfn)'
                           /\ t.dirty => pte'[t.asid][t.vpn].dirty
    BY <1>0, <2>1 DEF TlbInv
  <2>2. t \in tlb /\ ~(t.asid = p /\ t.vpn = v)
    BY <1>1 DEF AfterEvict
  <2>3. t.asid \in Asid /\ t.vpn \in Page /\ pte'[t.asid][t.vpn] = pte[t.asid][t.vpn]
    BY <1>3, <2>2, Entries
  <2> QED BY <2>1, <2>2, <2>3 DEF NoForkInv, TlbInv, Resident
<1>13. SlotsOwned'
  <2>1. ASSUME NEW q \in Asid, NEW w \in Page, Slotted(q, w)', ~(q = p /\ w = v)
        PROVE  Slotted(q, w) /\ pte'[q][w] = pte[q][w]
    BY <1>3, <2>1 DEF Slotted
  <2>2. pte'[p][v].slot = s
    BY <1>0, <1>1, <1>2, <1>3
  <2>3. ASSUME NEW q \in tasks, NEW w \in Page, Slotted(q, w)'
        PROVE  pte'[q][w].slot \in swapmap'
    <3>1. CASE q = p /\ w = v
      BY <1>7, <2>2, <2>3, <3>1 DEF Slotted
    <3>2. CASE ~(q = p /\ w = v)
      BY <1>0, <1>7, <2>1, <2>3, <3>2 DEF NoForkInv, SlotsOwned
    <3> QED BY <3>1, <3>2
  <2>4. ASSUME NEW q \in tasks, NEW r \in tasks, NEW w \in Page, NEW u \in Page,
               Slotted(q, w)', Slotted(r, u)', <<q, w>> # <<r, u>>
        PROVE  pte'[q][w].slot # pte'[r][u].slot
    <3>1. q \in Asid /\ r \in Asid
      BY <1>0
    <3>2. CASE q = p /\ w = v
      <4>1. ~(r = p /\ u = v)
        BY <2>4, <3>2
      <4> QED BY <1>8, <2>1, <2>2, <2>4, <3>1, <3>2, <4>1
    <3>3. CASE r = p /\ u = v
      <4>1. ~(q = p /\ w = v)
        BY <2>4, <3>3
      <4> QED BY <1>8, <2>1, <2>2, <2>4, <3>1, <3>3, <4>1
    <3>4. CASE ~(q = p /\ w = v) /\ ~(r = p /\ u = v)
      BY <2>1, <2>4, <3>1, <3>4 DEF NoForkInv, SlotsOwned
    <3> QED BY <3>2, <3>3, <3>4
  <2> QED BY <1>0, <2>3, <2>4 DEF SlotsOwned
<1> QED BY <1>6, <1>9, <1>10, <1>11, <1>12, <1>13 DEF NoForkInv

(* The page comes back from its slot, or is new and zero.                  *)
LEMMA NoForkFill ==
  ASSUME BaseInv, NoForkInv, Fill
  PROVE  NoForkInv'
<1> DEFINE f == req.frame
           p == req.asid
           v == req.vpn
           here == [ThePte EXCEPT !.valid = TRUE, !.pfn = f]
           d == IF ThePte.swapped THEN Dirtied([here EXCEPT !.swapped = FALSE])
                                  ELSE [here EXCEPT !.dirty = TRUE]
<1>0. /\ config' = config /\ tasks' = tasks /\ born' = born /\ asid' = asid
      /\ refs' = refs /\ swap' = swap /\ swapmap' = swapmap /\ tlb' = tlb /\ req' = req
      /\ cpu = "fill" /\ cpu' = "fault" /\ SetPte(d)
      /\ physmem' = [physmem EXCEPT ![f] = IF ThePte.swapped THEN swap[ThePte.slot] ELSE 0]
  BY DEF Fill, swapVars, SwapPageIn, InitFrame
<1>1. /\ TypeOK /\ config \in Configs /\ tasks \subseteq Asid
      /\ p \in tasks /\ p \in Asid /\ v \in Page /\ ThePte = pte[p][v]
      /\ ThePte \in PteType /\ f \in Frame
      /\ ~ThePte.valid /\ ThePte # NoPte /\ ThePte.writable /\ req.old = NoFrame
      /\ refs[f] = <<<<p, v>>>> /\ asid[f] = p
      /\ ThePte.swapped => ThePte.slot # NoSlot
  <2>1. /\ TypeOK /\ config \in Configs /\ tasks \subseteq Asid /\ PteOK
        /\ p \in tasks /\ v \in Page /\ ThePte = pte[p][v] /\ ThePte \in PteType
        /\ ~ThePte.valid /\ ThePte # NoPte /\ req.old = NoFrame
        /\ refs[f] = <<<<p, v>>>> /\ asid[f] = p
    BY <1>0, Entries DEF BaseInv, Accessing, NoForkInv, Stage, ThePte
  <2>2. f \in Frame
    BY <1>0 DEF BaseInv, ReqOK, TypeOK, ReqType
  <2>3. p \in Asid
    BY <2>1
  <2> QED BY <2>1, <2>2, <2>3 DEF NoForkInv, OwnPages, PteOK
<1>2. /\ d \in PteType /\ d.valid /\ d.pfn = f /\ ~d.swapped /\ d.slot = ThePte.slot
      /\ d.writable /\ (~d.dirty => ThePte.swapped)
  BY <1>1 DEF Dirtied, PteType
<1> HIDE DEF d
<1>3. \A q \in Asid, w \in Page :
        pte'[q][w] = IF q = p /\ w = v THEN d ELSE pte[q][w]
  BY <1>0, <1>1, <1>2, TheAccess
<1>4. ASSUME NEW q \in Asid, NEW w \in Page, pte[q][w].valid
      PROVE  pte[q][w].pfn \in Frame /\ pte[q][w].pfn # f /\ ~(q = p /\ w = v)
  <2>1. refs[pte[q][w].pfn] = <<<<q, w>>>> /\ pte[q][w].pfn \in Frame
    BY <1>4, Entries DEF NoForkInv, OwnPages
  <2>2. ~(q = p /\ w = v)
    BY <1>1, <1>4
  <2> QED BY <1>1, <2>1, <2>2
<1>5. physmem'[f] = (IF ThePte.swapped THEN swap[ThePte.slot] ELSE 0)
      /\ \A g \in Frame : g # f => physmem'[g] = physmem[g]
  BY <1>0, <1>1 DEF TypeOK
<1>6. OwnPages'
  <2> SUFFICES ASSUME NEW q \in Asid, NEW w \in Page
               PROVE  /\ q \notin tasks => pte'[q][w] = NoPte
                      /\ pte'[q][w] # NoPte => pte'[q][w].writable
                      /\ pte'[q][w].valid =>
                           /\ refs[pte'[q][w].pfn] = <<<<q, w>>>>
                           /\ asid[pte'[q][w].pfn] = q
                           /\ ~pte'[q][w].swapped
    BY <1>0 DEF OwnPages
  <2>1. CASE q = p /\ w = v
    BY <1>1, <1>2, <1>3, <2>1
  <2>2. CASE ~(q = p /\ w = v)
    BY <1>3, <2>2 DEF NoForkInv, OwnPages
  <2> QED BY <2>1, <2>2
<1>7. Saved'
  <2> SUFFICES ASSUME NEW q \in Asid, NEW w \in Page, pte'[q][w].valid, ~pte'[q][w].dirty
               PROVE  /\ pte'[q][w].slot # NoSlot
                      /\ physmem'[pte'[q][w].pfn] = swap[pte'[q][w].slot]
    BY <1>0 DEF Saved
  <2>1. CASE q = p /\ w = v
    BY <1>1, <1>2, <1>3, <1>5, <2>1
  <2>2. CASE ~(q = p /\ w = v)
    BY <1>3, <1>4, <1>5, <2>2 DEF NoForkInv, Saved
  <2> QED BY <2>1, <2>2
<1>8. Frames'
  <2> SUFFICES ASSUME NEW g \in Frame, refs[g] # <<>>
               PROVE  \E q \in tasks, w \in Page :
                        refs[g] = <<<<q, w>>>> /\ Resident(q, w, g)'
    BY <1>0, SameSizes DEF Frames
  <2>1. CASE g = f
    BY <1>1, <1>2, <1>3, <2>1 DEF Resident
  <2>2. CASE g # f
    <3>1. PICK q \in tasks, w \in Page : refs[g] = <<<<q, w>>>> /\ Resident(q, w, g)
      BY <2>2 DEF NoForkInv, Frames
    <3>2. q \in Asid /\ ~(q = p /\ w = v)
      BY <1>1, <1>4, <3>1 DEF Resident
    <3>3. pte'[q][w] = pte[q][w]
      BY <1>3, <3>2
    <3> QED BY <3>1, <3>3 DEF Resident
  <2> QED BY <2>1, <2>2
<1>9. Stage'
  BY <1>0, <1>1 DEF Stage, Accessing
<1>10. TlbInv'
  <2>1. Live' = Live /\ Live = tasks
    BY <1>0 DEF Live
  <2> SUFFICES ASSUME NEW t \in tlb, t.asid \in tasks
               PROVE  Resident(t.asid, t.vpn, t.pfn)' /\ (t.dirty => pte'[t.asid][t.vpn].dirty)
    BY <1>0, <2>1 DEF NoForkInv, TlbInv
  <2>2. /\ t.asid \in Asid /\ t.vpn \in Page
        /\ Resident(t.asid, t.vpn, t.pfn) /\ (t.dirty => pte[t.asid][t.vpn].dirty)
    BY <2>1, Entries DEF NoForkInv, TlbInv
  <2>3. pte'[t.asid][t.vpn] = pte[t.asid][t.vpn]
    BY <1>3, <1>4, <2>2 DEF Resident
  <2> QED BY <2>2, <2>3 DEF Resident
<1>11. SlotsOwned'
  <2>1. \A q \in Asid, w \in Page :
          Slotted(q, w)' => Slotted(q, w) /\ pte'[q][w].slot = pte[q][w].slot
    <3> SUFFICES ASSUME NEW q \in Asid, NEW w \in Page, Slotted(q, w)'
                 PROVE  Slotted(q, w) /\ pte'[q][w].slot = pte[q][w].slot
      OBVIOUS
    <3>1. CASE q = p /\ w = v
      BY <1>1, <1>2, <1>3, <3>1 DEF Slotted
    <3>2. CASE ~(q = p /\ w = v)
      BY <1>3, <3>2 DEF Slotted
    <3> QED BY <3>1, <3>2
  <2> QED BY <1>0, <1>1, <2>1 DEF NoForkInv, SlotsOwned
<1> QED BY <1>6, <1>7, <1>8, <1>9, <1>10, <1>11 DEF NoForkInv

LEMMA NoForkInsert ==
  ASSUME BaseInv, NoForkInv, Insert
  PROVE  NoForkInv'
<1>1. /\ config' = config /\ tasks' = tasks /\ born' = born /\ pte' = pte /\ refs' = refs
      /\ asid' = asid /\ physmem' = physmem /\ swap' = swap /\ swapmap' = swapmap
      /\ cpu = "insert" /\ cpu' = "resolve"
      /\ req' = [req EXCEPT !.frame = NoFrame, !.old = NoFrame]
      /\ (Hits # {} /\ TlbWriteIndex(TlbEntry)) \/ TlbWriteRandom(TlbEntry)
  BY DEF Insert, tableVars, frameVars, swapVars
<1>2. /\ req.asid \in tasks /\ ThePte = pte[req.asid][req.vpn] /\ ThePte.valid
      /\ req.fault = "write" => ThePte.dirty
      /\ req'.old = NoFrame
  BY <1>1, Entries DEF Accessing, ThePte, NoForkInv, Stage, ReqType
<1>3. tlb' \subseteq tlb \cup {TlbEntry}
  BY <1>1, TlbFits DEF BaseInv, TypeOK
<1>4. OwnPages' /\ Saved' /\ SlotsOwned'
  BY <1>1 DEF NoForkInv, OwnPages, Saved, SlotsOwned, Slotted
<1>5. Frames'
  BY <1>1, SameSizes DEF NoForkInv, Frames, Resident
<1>6. Stage'
  BY <1>1, <1>2 DEF Stage, Accessing
<1>7. TlbInv'
  <2> DEFINE e == TlbEntry
  <2>1. /\ e.asid = req.asid /\ e.vpn = req.vpn /\ e.pfn = ThePte.pfn
        /\ e.dirty => req.fault = "write"
    BY DEF TlbEntry
  <2>2. e.asid < born
    <3>1. tasks \subseteq 0 .. born - 1 /\ born \in Nat
      BY Numbers DEF BaseInv, TypeOK
    <3>2. req.asid \in 0 .. born - 1
      BY <1>2, <3>1
    <3> QED BY <2>1, <3>1, <3>2
  <2>3. Resident(e.asid, e.vpn, e.pfn) /\ (e.dirty => pte[e.asid][e.vpn].dirty)
    BY <1>2, <2>1 DEF Resident
  <2>4. Live' = Live
    BY <1>1 DEF Live
  <2> HIDE DEF e
  <2> QED BY <1>1, <1>3, <2>2, <2>3, <2>4 DEF NoForkInv, TlbInv, Resident, e
<1> QED BY <1>4, <1>5, <1>6, <1>7 DEF NoForkInv

LEMMA NoForkStep ==
  ASSUME ~config.fork, BaseInv, NoForkInv, [Next]_vars
  PROVE  NoForkInv'
<1>1. ASSUME NEW p \in Asid, NEW c \in Asid, Fork(p, c) PROVE FALSE
  BY <1>1 DEF Fork
<1>2. ~DupPage /\ ~Copy
  BY DEF DupPage, Copy, NoForkInv, Stage
<1>3. ~CowFault
  <2> SUFFICES ASSUME CowFault PROVE FALSE
    OBVIOUS
  <2>1. /\ req.asid \in tasks /\ req.asid \in Asid /\ req.vpn \in Page
        /\ ThePte = pte[req.asid][req.vpn] /\ ThePte.valid /\ ~ThePte.writable
    BY Entries DEF CowFault, Accessing, ThePte, BaseInv, ReqOK
  <2> QED BY <2>1, Entries DEF NoForkInv, OwnPages
<1>4. CASE Line
  BY <1>1, <1>4, NoForkQuiet, NoForkCreate DEF Line, Quiet
<1>5. CASE Handling
  BY <1>2, <1>3, <1>5, NoForkFreePage, NoForkQuiet, NoForkStoreHit, NoForkEntry,
     NoForkAlloc, NoForkVictim, NoForkEvict, NoForkFill, NoForkInsert DEF Handling, Quiet
<1>6. CASE UNCHANGED vars
  BY <1>6, NoForkQuiet
<1> QED BY <1>4, <1>5, <1>6 DEF Next

ForklessInv == ~config.fork /\ BaseInv /\ NoForkInv

LEMMA ForklessStep == ForklessInv /\ [Next]_vars => ForklessInv'
<1> SUFFICES ASSUME ForklessInv, [Next]_vars PROVE ForklessInv'
  OBVIOUS
<1>1. config' = config
  BY DEF Next, Line, Handling, vars, CreateTask, FreeTask, Fork, Load, Store, EndOfTrace,
         FreePage, DupPage, LoadHit, StoreHit, Fault, WalkResident, WalkAbsent, AllocFree,
         AllocEvict, AllocFails, EvictRef, EvictDone, Fill, CowFault, NoCowFault, Copy, Insert
<1> QED BY <1>1, BaseStep, NoForkStep DEF ForklessInv

(* A trace without fork keeps both invariants.                             *)
THEOREM ForklessInvariant == Spec /\ ~config.fork => []ForklessInv
<1>1. Init /\ ~config.fork => ForklessInv
  BY BaseInit, NoForkInit DEF ForklessInv
<1> QED BY <1>1, ForklessStep, PTL DEF Spec

(* Without forks, between two lines of the trace the TLB says what the     *)
(* page tables say: an entry's page is resident where the entry says, and  *)
(* one that may be written is marked dirty, so that eviction saves it.     *)
THEOREM TlbTellsTheTruth == Spec /\ ~config.fork => []TlbAgrees
<1>1. ForklessInv => TlbAgrees
  <2> SUFFICES ASSUME ForklessInv, cpu = "trace", NEW e \in tlb, e.asid \in tasks
               PROVE  LET q == pte[e.asid][e.vpn]
                      IN  q.valid /\ q.pfn = e.pfn /\ (e.dirty => q.dirty /\ q.writable)
    BY DEF TlbAgrees
  <2>1. e.asid \in Live /\ e.asid \in Asid /\ e.vpn \in Page
    BY Entries DEF ForklessInv, Live
  <2>2. Resident(e.asid, e.vpn, e.pfn) /\ (e.dirty => pte[e.asid][e.vpn].dirty)
    BY <2>1 DEF ForklessInv, NoForkInv, TlbInv
  <2>3. pte[e.asid][e.vpn].writable
    BY <2>1, <2>2, Entries DEF ForklessInv, NoForkInv, OwnPages, Resident
  <2> QED BY <2>2, <2>3 DEF Resident
<1> QED BY <1>1, ForklessInvariant, PTL

(* Without forks, the core map lists, for every frame, the entries that    *)
(* are resident in it.                                                     *)
THEOREM CoremapAgrees == Spec /\ ~config.fork => []RefsAgree
<1>1. ForklessInv => RefsAgree
  <2> SUFFICES ASSUME ForklessInv, cpu = "trace", NEW f \in Frame
               PROVE  {x \in ToSet(refs[f]) : x[1] \in tasks}
                        = {x \in tasks \X Page : pte[x[1]][x[2]].valid
                                                 /\ pte[x[1]][x[2]].pfn = f}
    BY DEF RefsAgree
  <2>0. tasks \subseteq Asid
    BY Entries DEF ForklessInv
  <2>1. ASSUME NEW x \in tasks \X Page, pte[x[1]][x[2]].valid, pte[x[1]][x[2]].pfn = f
        PROVE  x \in ToSet(refs[f])
    <3>1. refs[f] = <<<<x[1], x[2]>>>> /\ x = <<x[1], x[2]>>
      BY <2>0, <2>1 DEF ForklessInv, NoForkInv, OwnPages
    <3> QED BY <3>1 DEF ToSet
  <2>2. ASSUME NEW x \in ToSet(refs[f])
        PROVE  /\ x \in tasks \X Page
               /\ pte[x[1]][x[2]].valid /\ pte[x[1]][x[2]].pfn = f
    <3>1. refs[f] # <<>>
      BY <2>2 DEF ToSet
    <3>2. PICK p \in tasks, v \in Page : refs[f] = <<<<p, v>>>> /\ Resident(p, v, f)
      BY <3>1 DEF ForklessInv, NoForkInv, Frames
    <3>3. x = <<p, v>>
      BY <2>2, <3>2 DEF ToSet
    <3> QED BY <3>2, <3>3 DEF Resident
  <2> QED BY <2>1, <2>2
<1> QED BY <1>1, ForklessInvariant, PTL

(* Without forks, two pages never share a frame.                           *)
THEOREM FramesAreNotShared == Spec /\ ~config.fork => []WritersAlone
<1>1. ForklessInv => WritersAlone
  <2> SUFFICES ASSUME ForklessInv, NEW p \in tasks, NEW r \in tasks, NEW v \in Page,
                      NEW w \in Page, <<p, v>> # <<r, w>>, pte[p][v].valid, pte[r][w].valid,
                      pte[p][v].pfn = pte[r][w].pfn
               PROVE  FALSE
    BY DEF WritersAlone
  <2>1. p \in Asid /\ r \in Asid
    BY Entries DEF ForklessInv
  <2>2. refs[pte[p][v].pfn] = <<<<p, v>>>> /\ refs[pte[r][w].pfn] = <<<<r, w>>>>
    BY <2>1 DEF ForklessInv, NoForkInv, OwnPages
  <2> QED BY <2>2
<1> QED BY <1>1, ForklessInvariant, PTL

(* Without forks, a slot that holds a page is marked in use and holds no   *)
(* other page.                                                             *)
THEOREM SlotsHaveOneOwner == Spec /\ ~config.fork => []SlotsOwned
<1>1. ForklessInv => SlotsOwned
  BY DEF ForklessInv, NoForkInv
<1> QED BY <1>1, ForklessInvariant, PTL

-----------------------------------------------------------------------------
(* Without forks, the simulator implements the address spaces.             *)

(* What a store writes is a value of the trace.                            *)
Stores == Accessing /\ req.type = "S" => req.val \in Val

LEMMA StoresStep ==
  ASSUME TypeOK, Stores, [Next]_vars
  PROVE  Stores'
<1>1. req \in ReqType
  BY DEF TypeOK
<1>2. ASSUME NEW p \in Asid, NEW v \in Page, NEW x \in Val, Store(p, v, x)
      PROVE  Stores'
  BY <1>2 DEF Store, Stores, NoReq
<1>3. ASSUME NEW p \in Asid, NEW v \in Page, Load(p, v)
      PROVE  Stores'
  BY <1>3 DEF Load, Stores, NoReq
<1>4. ASSUME \/ EndOfTrace \/ FreePage \/ DupPage \/ LoadHit \/ StoreHit
             \/ \E p \in Asid : CreateTask(p) \/ FreeTask(p) \/ \E c \in Asid : Fork(p, c)
      PROVE  Stores'
  <2>1. ~Accessing'
    BY <1>4 DEF EndOfTrace, FreePage, DupPage, LoadHit, StoreHit, CreateTask, FreeTask, Fork,
                Done, NextPage, accessVars, Accessing
  <2> QED BY <2>1 DEF Stores
<1>5. ASSUME \/ Fault \/ WalkResident \/ WalkAbsent \/ AllocFree \/ AllocEvict \/ AllocFails
             \/ EvictRef \/ EvictDone \/ Fill \/ CowFault \/ NoCowFault \/ Copy \/ Insert
      PROVE  Stores'
  <2>1. Accessing
    BY <1>5 DEF Fault, WalkResident, WalkAbsent, AllocFree, AllocEvict, AllocFails, EvictRef,
                EvictDone, Fill, CowFault, NoCowFault, Copy, Insert, Accessing
  <2>2. req'.type = req.type /\ req'.val = req.val
    BY <1>1, <1>5 DEF Fault, WalkResident, WalkAbsent, AllocFree, AllocEvict, AllocFails,
                EvictRef, EvictDone, Fill, CowFault, NoCowFault, Copy, Insert, ReqType
  <2> QED BY <2>1, <2>2 DEF Stores
<1>6. CASE UNCHANGED vars
  BY <1>6 DEF vars, accessVars, Stores, Accessing
<1> QED BY <1>2, <1>3, <1>4, <1>5, <1>6 DEF Next, Line, Handling

MemoryInv == ForklessInv /\ Stores

(* The memory a step leaves, from the pages of the tasks it leaves.        *)
LEMMA SameMemory ==
  ASSUME Live' = Live, \A q \in Live, w \in Page : Content(q, w)' = Content(q, w)
  PROVE  Mem' = Mem
  BY DEF Mem

LEMMA OnePageChanged ==
  ASSUME Live' = Live, NEW p \in Live, NEW v \in Page, NEW x, Live \subseteq Asid,
         \A q \in Live, w \in Page :
           Content(q, w)' = IF q = p /\ w = v THEN x ELSE Content(q, w)
  PROVE  Mem' = [Mem EXCEPT ![p][v] = x]
<1>1. ASSUME NEW q \in Asid
      PROVE  Mem'[q] = [Mem EXCEPT ![p][v] = x][q]
  <2>1. /\ Mem'[q] = [w \in Page |-> IF q \in Live THEN Content(q, w)' ELSE 0]
        /\ Mem[q] = [w \in Page |-> IF q \in Live THEN Content(q, w) ELSE 0]
    BY DEF Mem
  <2>2. [Mem EXCEPT ![p][v] = x][q] = IF q = p THEN [Mem[q] EXCEPT ![v] = x] ELSE Mem[q]
    BY DEF Mem
  <2> QED BY <2>1, <2>2
<1>2. /\ Mem' = [q \in Asid |-> Mem'[q]]
      /\ [Mem EXCEPT ![p][v] = x] = [q \in Asid |-> [Mem EXCEPT ![p][v] = x][q]]
  BY DEF Mem
<1> QED BY <1>1, <1>2

LEMMA MemoryInit == Init => AS!Init
<1> SUFFICES ASSUME Init PROVE AS!Init
  OBVIOUS
<1>1. Live = {} /\ ret = 0 /\ warned = FALSE
  BY DEF Init, SwapInit, Live
<1>2. Mem = [p \in Asid |-> [v \in Page |-> 0]]
  BY <1>1 DEF Mem
<1> QED BY <1>1, <1>2 DEF AS!Init, AS!Zero

(* B: the new task has no entry yet.                                       *)
LEMMA MemoryCreate ==
  ASSUME MemoryInv, NEW p \in Asid, CreateTask(p)
  PROVE  AS!Create(p)
<1>1. /\ cpu = "trace" /\ p = born /\ tasks' = tasks \cup {p} /\ cpu' = cpu /\ pte' = pte
      /\ physmem' = physmem /\ swap' = swap /\ ret' = ret /\ warned' = warned
  BY DEF CreateTask, frameVars, swapVars, accessVars
<1>2. Live = tasks /\ Live' = Live \cup {p} /\ p \notin Live
  <2>1. Live = tasks /\ Live' = tasks'
    BY <1>1 DEF Live
  <2>2. p \notin tasks
    BY <1>1, Numbers, Entries DEF MemoryInv, ForklessInv, BaseInv, TypeOK
  <2> QED BY <1>1, <2>1, <2>2
<1>3. \A w \in Page : Content(p, w)' = 0
  BY <1>1, <1>2 DEF MemoryInv, ForklessInv, NoForkInv, OwnPages, Content, NoPte
<1>4. \A q \in Live, w \in Page : Content(q, w)' = Content(q, w)
  BY <1>1 DEF Content
<1>5. Mem' = Mem
  BY <1>2, <1>3, <1>4 DEF Mem
<1> QED BY <1>1, <1>2, <1>5 DEF AS!Create

(* E: the task's memory is gone with the line; its pages follow.           *)
LEMMA MemoryExit ==
  ASSUME MemoryInv, NEW p \in Asid, FreeTask(p)
  PROVE  AS!Exit(p)
<1>1. /\ cpu = "trace" /\ p \in tasks /\ tasks' = tasks /\ cpu' = "free" /\ pte' = pte
      /\ physmem' = physmem /\ swap' = swap /\ ret' = ret /\ warned' = warned
      /\ req'.asid = p
  BY DEF FreeTask, tableVars, frameVars, swapVars, NoReq
<1>2. Live = tasks /\ Live' = Live \ {p}
  BY <1>1 DEF Live
<1>3. \A q \in Asid, w \in Page : Content(q, w)' = Content(q, w)
  BY <1>1 DEF Content
<1>4. Mem' = [Mem EXCEPT ![p] = [w \in Page |-> 0]]
  BY <1>2, <1>3 DEF Mem
<1> QED BY <1>1, <1>2, <1>4 DEF AS!Exit, AS!Zero

(* A load that hits reads the page's frame.                                *)
LEMMA MemoryRead ==
  ASSUME MemoryInv, LoadHit
  PROVE  AS!Read(req.asid, req.vpn)
<1>1. /\ cpu = "resolve" /\ cpu' = "trace" /\ tasks' = tasks /\ pte' = pte
      /\ physmem' = physmem /\ swap' = swap /\ warned' = warned
  BY DEF LoadHit, Done, tableVars, frameVars, swapVars
<1>2. PICK e \in Hits : ret' = physmem[e.pfn]
  BY DEF LoadHit
<1>3. Live = tasks /\ Live' = Live /\ req.asid \in tasks /\ tasks \subseteq Asid
      /\ req.vpn \in Page
  BY <1>1, Entries DEF Live, Accessing, MemoryInv, ForklessInv
<1>4. Resident(req.asid, req.vpn, e.pfn)
  BY <1>2, <1>3 DEF Hits, MemoryInv, ForklessInv, NoForkInv, TlbInv
<1>5. ret' = Mem[req.asid][req.vpn]
  BY <1>2, <1>3, <1>4 DEF Mem, Content, Resident
<1>6. Mem' = Mem
  BY <1>1, <1>3, SameMemory DEF Content
<1> QED BY <1>1, <1>3, <1>5, <1>6 DEF AS!Read

(* A store that hits writes it, and no other page's.                       *)
LEMMA MemoryWrite ==
  ASSUME MemoryInv, StoreHit
  PROVE  req.val \in Val /\ AS!Write(req.asid, req.vpn, req.val)
<1>1. /\ cpu = "resolve" /\ cpu' = "trace" /\ tasks' = tasks /\ pte' = pte
      /\ swap' = swap /\ warned' = warned /\ ret' = ret /\ req.type = "S"
  BY DEF StoreHit, Done, tableVars, swapVars
<1>2. PICK e \in Hits : physmem' = [physmem EXCEPT ![e.pfn] = req.val]
  BY DEF StoreHit
<1>3. /\ Live = tasks /\ Live' = Live /\ req.asid \in tasks /\ tasks \subseteq Asid
      /\ req.vpn \in Page /\ physmem \in [Frame -> Data] /\ req.val \in Val
  BY <1>1, Entries DEF Live, Accessing, MemoryInv, ForklessInv, BaseInv, TypeOK, Stores
<1>4. Resident(req.asid, req.vpn, e.pfn)
  BY <1>2, <1>3 DEF Hits, MemoryInv, ForklessInv, NoForkInv, TlbInv
<1>5. ASSUME NEW q \in Live, NEW w \in Page
      PROVE  Content(q, w)' = IF q = req.asid /\ w = req.vpn THEN req.val ELSE Content(q, w)
  <2>1. CASE q = req.asid /\ w = req.vpn
    <3>1. e.pfn \in Frame
      BY <1>3, <1>4, Entries DEF Resident, MemoryInv, ForklessInv
    <3> QED BY <1>1, <1>2, <1>3, <1>4, <2>1, <3>1 DEF Content, Resident
  <2>2. CASE ~(q = req.asid /\ w = req.vpn) /\ pte[q][w].valid
    <3>1. /\ refs[pte[q][w].pfn] = <<<<q, w>>>> /\ pte[q][w].pfn \in Frame
          /\ refs[e.pfn] = <<<<req.asid, req.vpn>>>>
      BY <1>3, <1>4, <2>2, Entries DEF MemoryInv, ForklessInv, NoForkInv, OwnPages, Resident
    <3>2. pte[q][w].pfn # e.pfn
      BY <2>2, <3>1
    <3> QED BY <1>1, <1>2, <1>3, <2>2, <3>1, <3>2 DEF Content
  <2>3. CASE ~(q = req.asid /\ w = req.vpn) /\ ~pte[q][w].valid
    BY <1>1, <2>3 DEF Content
  <2> QED BY <2>1, <2>2, <2>3
<1>6. Mem' = [Mem EXCEPT ![req.asid][req.vpn] = req.val]
  BY <1>3, <1>5, OnePageChanged
<1> QED BY <1>1, <1>3, <1>6 DEF AS!Write

(* Steps that move no page and change no table.                            *)
LEMMA MemoryQuiet ==
  ASSUME MemoryInv,
         \/ EndOfTrace \/ Fault \/ AllocFails \/ AllocFree \/ AllocEvict \/ EvictDone \/ Insert
         \/ \E p \in Asid, v \in Page : Load(p, v) \/ \E x \in Val : Store(p, v, x)
         \/ UNCHANGED vars
  PROVE  UNCHANGED AS!vars
<1>1. /\ tasks' = tasks /\ pte' = pte /\ physmem' = physmem /\ swap' = swap
      /\ ret' = ret /\ warned' = warned
  BY DEF EndOfTrace, Fault, AllocFails, AllocFree, AllocEvict, EvictDone, Insert, Load, Store,
         Got, vars, tableVars, frameVars, swapVars, accessVars
<1>2. Live' = Live
  <2>1. CASE UNCHANGED vars
    BY <2>1 DEF vars, tableVars, accessVars, Live
  <2>2. CASE ~UNCHANGED vars
    <3>1. cpu # "free" /\ cpu' # "free"
      BY <2>2 DEF EndOfTrace, Fault, AllocFails, AllocFree, AllocEvict, EvictDone, Insert, Load,
                  Store, Got
    <3> QED BY <1>1, <3>1 DEF Live
  <2> QED BY <2>1, <2>2
<1>3. Mem' = Mem
  BY <1>1, <1>2, SameMemory DEF Content
<1> QED BY <1>1, <1>2, <1>3 DEF AS!vars

(* The pages of a task that has ended are no part of the memory.           *)
LEMMA MemoryFreePage ==
  ASSUME MemoryInv, FreePage
  PROVE  UNCHANGED AS!vars
<1>1. /\ cpu = "free" /\ SetPte(NoPte) /\ physmem' = physmem /\ swap' = swap
      /\ ret' = ret /\ warned' = warned
  BY DEF FreePage
<1>2. /\ TypeOK /\ req \in ReqType /\ req.asid \in tasks /\ tasks \subseteq Asid
      /\ config \in Configs
  BY <1>1, Entries DEF MemoryInv, ForklessInv, BaseInv, ReqOK
<1>3. Live = tasks \ {req.asid} /\ Live' = Live
  <2>1. CASE LastPage
    BY <1>1, <2>1 DEF FreePage, LastPage, Done, Live
  <2>2. CASE ~LastPage
    <3>1. tasks' = tasks /\ cpu' = "free" /\ req'.asid = req.asid
      BY <1>1, <1>2, <2>2 DEF FreePage, NextPage, ReqType
    <3> QED BY <1>1, <3>1 DEF Live
  <2> QED BY <2>1, <2>2
<1>4. \A q \in Live, w \in Page : pte'[q][w] = pte[q][w]
  <2>1. \A q \in Asid, w \in Page :
          pte'[q][w] = IF q = req.asid /\ w = req.vpn THEN NoPte ELSE pte[q][w]
    BY <1>1, <1>2, TheAccess, NewEntries
  <2> QED BY <1>2, <1>3, <2>1
<1>5. Mem' = Mem
  BY <1>1, <1>3, <1>4, SameMemory DEF Content
<1> QED BY <1>1, <1>3, <1>5 DEF AS!vars

(* page_walk and handle_tlb_fault change no content.                       *)
LEMMA MemoryEntry ==
  ASSUME MemoryInv, WalkResident \/ WalkAbsent \/ NoCowFault
  PROVE  UNCHANGED AS!vars
<1>1. /\ tasks' = tasks /\ physmem' = physmem /\ swap' = swap /\ ret' = ret
      /\ warned' = warned /\ cpu \in {"walk", "fault"} /\ cpu' # "free"
  BY DEF WalkResident, WalkAbsent, NoCowFault, frameVars, swapVars
<1>2. PICK e \in PteType :
        /\ \A q \in Asid, w \in Page :
             pte'[q][w] = IF q = req.asid /\ w = req.vpn THEN e ELSE pte[q][w]
        /\ e.valid = ThePte.valid /\ (e.valid => e.pfn = ThePte.pfn)
        /\ e.swapped = ThePte.swapped
        /\ ThePte # NoPte => e.slot = ThePte.slot
  BY WalkedEntry DEF MemoryInv, ForklessInv
<1>3. Live' = Live /\ Live = tasks /\ tasks \subseteq Asid
  BY <1>1, Entries DEF Live, MemoryInv, ForklessInv
<1>4. ~NoPte.swapped
  BY DEF NoPte
<1>5. ASSUME NEW q \in Live, NEW w \in Page
      PROVE  Content(q, w)' = Content(q, w)
  <2>1. CASE q = req.asid /\ w = req.vpn
    <3>1. pte'[q][w] = e /\ pte[q][w] = ThePte
      BY <1>2, <1>3, <2>1 DEF ThePte
    <3>2. e.swapped => e.slot = ThePte.slot
      BY <1>2, <1>4
    <3> QED BY <1>1, <1>2, <3>1, <3>2 DEF Content
  <2>2. CASE ~(q = req.asid /\ w = req.vpn)
    BY <1>1, <1>2, <1>3, <2>2 DEF Content
  <2> QED BY <2>1, <2>2
<1>6. Mem' = Mem
  BY <1>3, <1>5, SameMemory
<1> QED BY <1>1, <1>3, <1>6 DEF AS!vars

(* An evicted page is in its slot as it was in its frame, or is lost when  *)
(* swap_pageout finds the swap space full.                                 *)
LEMMA MemoryEvict ==
  ASSUME MemoryInv, EvictRef
  PROVE  UNCHANGED AS!vars \/ \E p \in Asid, v \in Page : AS!Forget(p, v)
<1> DEFINE f == req.frame
<1>1. PICK p \in tasks, v \in Page, s \in Slot \cup {NoSlot} :
        /\ f \in Frame /\ Resident(p, v, f)
        /\ refs[f] = <<<<p, v>>>> /\ pte[p][v] \in PteType
        /\ s = IF pte[p][v].dirty THEN SlotFor(pte[p][v]) ELSE pte[p][v].slot
        /\ pte' = [pte EXCEPT ![p][v] = Evicted(pte[p][v], s)]
        /\ IF pte[p][v].dirty THEN PageOut(pte[p][v]) ELSE UNCHANGED swapVars
        /\ cpu' = cpu
  BY TheVictim DEF MemoryInv, ForklessInv
<1>2. /\ cpu = "evict" /\ tasks' = tasks /\ physmem' = physmem /\ ret' = ret
      /\ Live' = Live /\ Live = tasks /\ tasks \subseteq Asid /\ warned \in BOOLEAN
      /\ pte \in [Asid -> [Page -> PteType]] /\ NoSlot \notin Slot
  BY <1>1, Entries, Sizes DEF EvictRef, Live, MemoryInv, ForklessInv, BaseInv, TypeOK
<1> DEFINE e == pte[p][v]
           d == Evicted(e, s)
<1>3. /\ \A r \in Slot : r # s => swap'[r] = swap[r]
      /\ s # NoSlot => swap'[s] = physmem[f]
      /\ warned' = (warned \/ s = NoSlot)
      /\ \A q \in tasks, w \in Page :
           Slotted(q, w) /\ ~(q = p /\ w = v) => pte[q][w].slot # s
  BY <1>1, <1>2, VictimSlot DEF Resident, MemoryInv, ForklessInv
<1>4. ~d.valid /\ d.slot = s /\ d.swapped = (s # NoSlot) /\ d \in PteType
  BY <1>1, Sizes DEF Evicted, PteType
<1> HIDE DEF d
<1>5. \A q \in Asid, w \in Page : pte'[q][w] = IF q = p /\ w = v THEN d ELSE pte[q][w]
  BY <1>1, <1>2, <1>4 DEF d
<1>6. ASSUME NEW q \in Live, NEW w \in Page
      PROVE  Content(q, w)' = IF s = NoSlot /\ q = p /\ w = v THEN 0 ELSE Content(q, w)
  <2>1. CASE q = p /\ w = v
    <3>1. Content(q, w) = physmem[f]
      BY <1>1, <2>1 DEF Content, Resident
    <3>2. Content(q, w)' = IF s # NoSlot THEN swap'[s] ELSE 0
      BY <1>2, <1>4, <1>5, <2>1 DEF Content
    <3> QED BY <1>3, <2>1, <3>1, <3>2
  <2>2. CASE ~(q = p /\ w = v)
    <3>1. pte'[q][w] = pte[q][w] /\ q \in Asid /\ q \in tasks
      BY <1>2, <1>5, <2>2
    <3>2. pte[q][w].swapped =>
            pte[q][w].slot \in Slot /\ swap'[pte[q][w].slot] = swap[pte[q][w].slot]
      <4> SUFFICES ASSUME pte[q][w].swapped
                   PROVE  pte[q][w].slot \in Slot /\ pte[q][w].slot # s
        BY <1>3
      <4>1. pte[q][w].slot \in Slot /\ pte[q][w] # NoPte
        BY <3>1, Entries DEF MemoryInv, ForklessInv, NoPte
      <4> QED BY <1>2, <1>3, <2>2, <3>1, <4>1 DEF Slotted
    <3> QED BY <1>2, <2>2, <3>1, <3>2 DEF Content
  <2> QED BY <2>1, <2>2
<1>7. CASE s = NoSlot
  <2>1. Mem' = [Mem EXCEPT ![p][v] = 0]
    BY <1>2, <1>6, <1>7, OnePageChanged
  <2> QED BY <1>2, <1>3, <1>7, <2>1 DEF AS!Forget
<1>8. CASE s # NoSlot
  <2>1. Mem' = Mem
    BY <1>2, <1>6, <1>8, SameMemory
  <2> QED BY <1>2, <1>3, <1>8, <2>1 DEF AS!vars
<1> QED BY <1>7, <1>8

(* A page that gets a frame finds in it what its slot held, or zero.       *)
LEMMA MemoryFill ==
  ASSUME MemoryInv, Fill
  PROVE  UNCHANGED AS!vars
<1> DEFINE f == req.frame
           p == req.asid
           v == req.vpn
           here == [ThePte EXCEPT !.valid = TRUE, !.pfn = f]
           d == IF ThePte.swapped THEN Dirtied([here EXCEPT !.swapped = FALSE])
                                  ELSE [here EXCEPT !.dirty = TRUE]
<1>1. /\ tasks' = tasks /\ swap' = swap /\ ret' = ret /\ warned' = warned
      /\ cpu = "fill" /\ cpu' = "fault" /\ SetPte(d)
      /\ physmem' = [physmem EXCEPT ![f] = IF ThePte.swapped THEN swap[ThePte.slot] ELSE 0]
  BY DEF Fill, swapVars, SwapPageIn, InitFrame
<1>2. /\ TypeOK /\ tasks \subseteq Asid /\ p \in tasks /\ v \in Page
      /\ ThePte = pte[p][v] /\ ThePte \in PteType /\ ~ThePte.valid /\ f \in Frame
      /\ refs[f] = <<<<p, v>>>> /\ physmem \in [Frame -> Data]
      /\ Live' = Live /\ Live = tasks
  <2>1. /\ TypeOK /\ tasks \subseteq Asid /\ p \in tasks /\ v \in Page
        /\ ThePte = pte[p][v] /\ ThePte \in PteType /\ ~ThePte.valid
        /\ refs[f] = <<<<p, v>>>>
    BY <1>1, Entries DEF MemoryInv, ForklessInv, BaseInv, Accessing, NoForkInv, Stage, ThePte
  <2>2. f \in Frame /\ physmem \in [Frame -> Data]
    BY <1>1 DEF MemoryInv, ForklessInv, BaseInv, ReqOK, TypeOK, ReqType
  <2>3. Live' = Live /\ Live = tasks
    BY <1>1 DEF Live
  <2> QED BY <2>1, <2>2, <2>3
<1>3. d \in PteType /\ d.valid /\ d.pfn = f
  BY <1>2 DEF Dirtied, PteType
<1> HIDE DEF d
<1>4. \A q \in Asid, w \in Page :
        pte'[q][w] = IF q = p /\ w = v THEN d ELSE pte[q][w]
  BY <1>1, <1>2, <1>3, TheAccess
<1>5. ASSUME NEW q \in Live, NEW w \in Page
      PROVE  Content(q, w)' = Content(q, w)
  <2>1. CASE q = p /\ w = v
    BY <1>1, <1>2, <1>3, <1>4, <2>1 DEF Content
  <2>2. CASE ~(q = p /\ w = v) /\ pte[q][w].valid
    <3>1. refs[pte[q][w].pfn] = <<<<q, w>>>> /\ pte[q][w].pfn \in Frame
      BY <1>2, <2>2, Entries DEF MemoryInv, ForklessInv, NoForkInv, OwnPages
    <3>2. pte[q][w].pfn # f
      BY <1>2, <2>2, <3>1
    <3> QED BY <1>1, <1>2, <1>4, <2>2, <3>1, <3>2 DEF Content
  <2>3. CASE ~(q = p /\ w = v) /\ ~pte[q][w].valid
    BY <1>1, <1>2, <1>4, <2>3 DEF Content
  <2> QED BY <2>1, <2>2, <2>3
<1>6. Mem' = Mem
  BY <1>2, <1>5, SameMemory
<1> QED BY <1>1, <1>2, <1>6 DEF AS!vars

LEMMA MemoryStep == MemoryInv /\ [Next]_vars => [AS!Next]_AS!vars
<1> SUFFICES ASSUME MemoryInv, [Next]_vars PROVE [AS!Next]_AS!vars
  OBVIOUS
<1>1. ASSUME NEW p \in Asid, NEW c \in Asid, Fork(p, c) PROVE FALSE
  BY <1>1 DEF Fork, MemoryInv, ForklessInv
<1>2. ~DupPage /\ ~Copy
  BY DEF DupPage, Copy, MemoryInv, ForklessInv, NoForkInv, Stage
<1>3. ~CowFault
  <2> SUFFICES ASSUME CowFault PROVE FALSE
    OBVIOUS
  <2>1. /\ req.asid \in Asid /\ req.vpn \in Page
        /\ ThePte = pte[req.asid][req.vpn] /\ ThePte.valid /\ ~ThePte.writable
    BY Entries DEF CowFault, Accessing, ThePte, MemoryInv, ForklessInv, BaseInv, ReqOK
  <2> QED BY <2>1, Entries DEF MemoryInv, ForklessInv, NoForkInv, OwnPages
<1>4. ASSUME LoadHit \/ StoreHit PROVE AS!Next
  <2>1. req.asid \in Asid /\ req.vpn \in Page
    BY <1>4, Entries DEF LoadHit, StoreHit, Accessing, MemoryInv, ForklessInv
  <2> QED BY <1>4, <2>1, MemoryRead, MemoryWrite DEF AS!Next
<1>5. CASE Line
  <2>1. ASSUME NEW p \in Asid, CreateTask(p) PROVE AS!Next
    BY <2>1, MemoryCreate DEF AS!Next
  <2>2. ASSUME NEW p \in Asid, FreeTask(p) PROVE AS!Next
    BY <2>2, MemoryExit DEF AS!Next
  <2> QED BY <1>1, <1>5, <2>1, <2>2, MemoryQuiet DEF Line
<1>6. CASE Handling
  <2>1. ASSUME EvictRef PROVE [AS!Next]_AS!vars
    BY <2>1, MemoryEvict DEF AS!Next
  <2> QED BY <1>2, <1>3, <1>4, <1>6, <2>1, MemoryQuiet, MemoryFreePage, MemoryEntry, MemoryFill
          DEF Handling
<1>7. CASE UNCHANGED vars
  BY <1>7, MemoryQuiet
<1> QED BY <1>5, <1>6, <1>7 DEF Next

(* Without forks, the simulator is a memory for every task, in which a load*)
(* finds what was last stored there, and which forgets a page only when    *)
(* swap_pageout has reported a full swap space.                            *)
THEOREM SimulatorIsMemory == Spec /\ ~config.fork => ImplementsMemory
<1>1. Init => AS!Init /\ Stores
  BY MemoryInit DEF Init, Stores, Accessing
<1>2. ForklessInv /\ Stores /\ [Next]_vars => Stores'
  BY StoresStep DEF ForklessInv, BaseInv
<1>3. ForklessInv /\ Stores /\ [Next]_vars => [AS!Next]_AS!vars
  BY MemoryStep DEF MemoryInv
<1> QED BY <1>1, <1>2, <1>3, ForklessInvariant, PTL DEF Spec, ImplementsMemory, AS!Spec

=============================================================================
