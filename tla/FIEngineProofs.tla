--------------------------- MODULE FIEngineProofs ---------------------------
(***************************************************************************)
(* Proofs about the content-access path of FIEngine, for every word       *)
(* width, every set of cells and addresses and every set of campaigns     *)
(* that satisfy the assumptions of FIWord and FIEngine.                   *)
(***************************************************************************)
EXTENDS FIEngine, TLAPS, FiniteSetTheorems

\* Every fault of the loaded list has an id that indexes id_array and the
\* history tables, which init_id_array and init_ops_on_cell sized by
\* getMaxIDInFaultList; and the aggressor and victim of every coupling
\* fault of the list are cells the handlers can read.
IdsInRange ==
    /\ GetMaxId(store) \in Nat
    /\ \A i \in DOMAIN store : store[i].id \in 1..GetMaxId(store)
    /\ \A i \in DOMAIN store :
          IsCoupling(store[i]) => {store[i].address, store[i].cf_address} \subseteq Addr

Inv == TypeOK /\ IdsInRange

\* The word operators of the handlers never produce a bit outside the
\* word: bf, rs, the mask merge and the two-byte debug accesses.
LEMMA WordClosed ==
    ASSUME NEW v \in Word, NEW m \in Word, NEW s \in Word, NEW fv
    PROVE  /\ Flip(v, m) \in Word
           /\ SetReset(v, m, s) \in Word
           /\ Merge(fv, m, v) \in Word
           /\ DebugRead(v) \in Word
           /\ DebugWrite(v, m) \in Word
           /\ Not(v) \in Word
BY DEF Word, Flip, SetReset, Merge, DebugRead, DebugWrite, TrackedBits, Not, Bits

\* A logged history entry is one of the four CellOps.
LEMMA OpInCellOps ==
    ASSUME NEW b, NEW x \in Word, NEW y \in Word
    PROVE  Op(Bit(b, x), Bit(b, y)) \in CellOps
BY DEF Op, Bit, CellOps

LEMMA InitInv == Init => Inv
<1> SUFFICES ASSUME Init PROVE Inv
  OBVIOUS
<1>1. GetMaxId(store) = 0
  BY DEF Init, GetMaxId
<1>2. IdleCall \in CallType
  BY SpacesAssumption, AddrAssumption DEF IdleCall, Kinds, Word, CallType
<1>3. 1..0 = {} /\ Len(<<>>) = 0
  OBVIOUS
<1>4. <<>> \in [1..0 -> BOOLEAN] /\ <<>> \in [1..0 -> [Bits -> CellOps \cup {NoOp}]]
  BY <1>3
<1>5. store \in Seq(Fault)
  BY DEF Init
<1>6. active \in [1..Len(store) -> BOOLEAN] /\ counted \in [1..GetMaxId(store) -> BOOLEAN]
  BY <1>1, <1>3, <1>4 DEF Init
<1>7. hist \in [Spaces -> [1..GetMaxId(store) -> [Bits -> CellOps \cup {NoOp}]]]
  BY <1>1, <1>4 DEF Init
<1>8. byCat \in [Categories -> Nat] /\ elapsed \in 0..MaxTime /\ inUse \in Addr \cup {0, NoAddr}
  BY TimeAssumption DEF Init
<1>9. TypeOK
  BY <1>2, <1>5, <1>6, <1>7, <1>8 DEF Init, TypeOK, IdleCall
<1>10. IdsInRange
  BY <1>1 DEF Init, IdsInRange
<1>11. QED
  BY <1>9, <1>10 DEF Inv

\* The history after a write is logged keeps its type.
LEMMA LoggedHistType ==
    ASSUME TypeOK, IdsInRange, call.phase = "loop", call.cur \in 1..Len(store)
    PROVE  LoggedHist \in [Spaces -> [1..GetMaxId(store) -> [Bits -> CellOps \cup {NoOp}]]]
<1> DEFINE f == store[call.cur]
           sp == call.space
           old == OldContent(sp, cells[sp][call.addr])
<1>1. f \in Fault /\ f.id \in 1..GetMaxId(store)
  BY DEF TypeOK, IdsInRange
<1>2. sp \in Spaces /\ call.addr \in Addr /\ call.val \in Word
  BY DEF TypeOK, CallType
<1>3. cells[sp][call.addr] \in Word
  BY <1>2 DEF TypeOK
<1>4. old \in Word
  BY <1>3, WordClosed DEF OldContent
<1>5. hist[sp][f.id] \in [Bits -> CellOps \cup {NoOp}]
  <2>1. hist[sp] \in [1..GetMaxId(store) -> [Bits -> CellOps \cup {NoOp}]]
    BY <1>2 DEF TypeOK
  <2>2. QED
    BY <2>1, <1>1
<1>6. f.mask \in Word
  BY <1>1 DEF Fault
<1>7. LoggedRow(hist[sp][f.id], f, old, call.val) \in [Bits -> CellOps \cup {NoOp}]
  BY <1>2, <1>4, <1>5, OpInCellOps DEF LoggedRow
<1>8. QED
  BY <1>1, <1>2, <1>7 DEF LoggedHist, TypeOK

\* The invariant holds after a step that keeps the list and gives every
\* other variable a value of its type.
LEMMA SameListInv ==
    ASSUME IdsInRange, store \in Seq(Fault), store' = store,
           active' \in [1..Len(store) -> BOOLEAN],
           cells' \in [Spaces -> [Addr -> Word]],
           hist' \in [Spaces -> [1..GetMaxId(store) -> [Bits -> CellOps \cup {NoOp}]]],
           counted' \in [1..GetMaxId(store) -> BOOLEAN],
           injected' \in Nat, byCat' \in [Categories -> Nat],
           inUse' \in Addr \cup {0, NoAddr}, elapsed' \in 0..MaxTime,
           call' \in CallType, call'.phase = "loop" => call'.cur <= Len(store) + 1
    PROVE  Inv'
BY DEF Inv, TypeOK, IdsInRange

\* The tables qmp_fault_reload allocates fit the list it leaves loaded.
LEMMA ResetTablesType ==
    ASSUME NEW s, GetMaxId(s) \in Nat, ResetTables(s)
    PROVE  /\ counted' \in [1..GetMaxId(s) -> BOOLEAN]
           /\ hist' \in [Spaces -> [1..GetMaxId(s) -> [Bits -> CellOps \cup {NoOp}]]]
           /\ injected' \in Nat
           /\ byCat' \in [Categories -> Nat]
           /\ elapsed' \in 0..MaxTime
BY TimeAssumption DEF ResetTables, NoOp

LEMMA ReloadInv ==
    ASSUME Inv, NEW c \in Campaigns, Reload(c)
    PROVE  Inv'
<1>1. /\ c \in Seq(Fault) /\ GetMaxId(c) \in Nat
      /\ \A i \in DOMAIN c : c[i].id \in 1..GetMaxId(c)
      /\ \A i \in DOMAIN c : IsCoupling(c[i]) => {c[i].address, c[i].cf_address} \subseteq Addr
  BY CampaignAssumption
<1>2. store' = c /\ active' \in [1..Len(store') -> BOOLEAN]
  BY DEF Reload
<1>3. UNCHANGED <<cells, inUse, call>> /\ call.phase = "idle"
  BY DEF Reload
<1>4. TypeOK'
  BY <1>1, <1>2, <1>3, ResetTablesType DEF Reload, Inv, TypeOK
<1>5. IdsInRange'
  BY <1>1, <1>2 DEF IdsInRange
<1>6. QED
  BY <1>4, <1>5 DEF Inv

LEMMA ReloadRejectedInv ==
    ASSUME Inv, ReloadRejected
    PROVE  Inv'
<1>1. GetMaxId(store) \in Nat
  BY DEF Inv, IdsInRange
<1>2. UNCHANGED <<store, active, cells, inUse, call>> /\ call.phase = "idle"
  BY DEF ReloadRejected
<1>3. TypeOK'
  BY <1>1, <1>2, ResetTablesType DEF ReloadRejected, Inv, TypeOK
<1>4. IdsInRange'
  BY <1>2 DEF Inv, IdsInRange
<1>5. QED
  BY <1>3, <1>4 DEF Inv

LEMMA TickInv ==
    ASSUME Inv, Tick
    PROVE  Inv'
<1>1. elapsed' \in 0..MaxTime
  BY TimeAssumption DEF Tick, Inv, TypeOK
<1>2. QED
  BY <1>1, SameListInv DEF Tick, Inv, TypeOK

LEMMA AccessInv ==
    ASSUME Inv, NEW sp \in Spaces, NEW k \in Kinds, NEW a \in Addr,
           NEW v \in Word, Access(sp, k, a, v)
    PROVE  Inv'
<1>1. call' \in CallType
  BY DEF Access, Inv, TypeOK, CallType
<1>2. call'.phase = "loop" => call'.cur <= Len(store') + 1
  BY DEF Access, Inv, TypeOK
<1>3. QED
  BY <1>1, <1>2 DEF Access, Inv, TypeOK, IdsInRange

\* Moving to the next list element keeps the call in its type.
LEMMA Next1Type ==
    ASSUME TypeOK, call.phase = "loop", call.cur \in 1..Len(store)
    PROVE  Next1 \in CallType /\ Next1.phase = "loop" /\ Next1.cur <= Len(store) + 1
<1>1. call \in CallType
  BY DEF TypeOK
<1>2. Len(store) \in Nat
  BY DEF TypeOK
<1>3. QED
  BY <1>1, <1>2 DEF Next1, CallType

LEMMA SkipFaultInv ==
    ASSUME Inv, SkipFault
    PROVE  Inv'
<1>1. call.cur \in 1..Len(store)
  BY DEF SkipFault, Inv, TypeOK, CallType
<1>2. call' \in CallType /\ call'.cur <= Len(store) + 1
  BY <1>1, Next1Type DEF SkipFault, Inv
<1>3. QED
  BY <1>2, SameListInv DEF SkipFault, Inv, TypeOK

LEMMA MisconfiguredFaultInv ==
    ASSUME Inv, MisconfiguredFault
    PROVE  Inv'
<1>1. call.cur \in 1..Len(store)
  BY DEF MisconfiguredFault, Inv, TypeOK, CallType
<1>2. hist' \in [Spaces -> [1..GetMaxId(store) -> [Bits -> CellOps \cup {NoOp}]]]
  BY <1>1, LoggedHistType DEF MisconfiguredFault, Inv
<1>3. call' \in CallType /\ call'.cur <= Len(store) + 1
  BY <1>1, Next1Type DEF MisconfiguredFault, Inv
<1>4. QED
  BY <1>2, <1>3, SameListInv DEF MisconfiguredFault, Inv, TypeOK

LEMMA FinishAccessInv ==
    ASSUME Inv, FinishAccess
    PROVE  Inv'
<1>1. cells' \in [Spaces -> [Addr -> Word]]
  <2>1. call.space \in Spaces /\ call.addr \in Addr /\ call.val \in Word
    BY DEF Inv, TypeOK, CallType
  <2>2. QED
    BY <2>1 DEF FinishAccess, Inv, TypeOK
<1>2. call' \in CallType /\ call'.phase = "idle"
  BY DEF FinishAccess, Inv, TypeOK, CallType
<1>3. QED
  BY <1>1, <1>2, SameListInv DEF FinishAccess, Inv, TypeOK

LEMMA ActiveAfterBool ==
    ASSUME NEW o, NEW x \in BOOLEAN
    PROVE  ActiveAfter(o, x) \in BOOLEAN
BY DEF ActiveAfter

LEMMA FaultedValueWord ==
    ASSUME NEW f \in Fault, NEW nv \in Word, NEW v \in Word
    PROVE  FaultedValue(f, nv, v) \in Word
BY WordClosed DEF FaultedValue, Fault

LEMMA InjectCellWord ==
    ASSUME NEW sp, NEW c \in Word, NEW v \in Word
    PROVE  InjectCell(sp, c, v) \in Word
BY WordClosed DEF InjectCell

LEMMA CategoryIn ==
    ASSUME NEW sp, NEW sx \in {"trans", "perm"}
    PROVE  Category(sp, sx) \in Categories
BY DEF Category, Categories

\* incr_num_injected_faults keeps the counters and id_array in their types.
LEMMA IncrInjectedType ==
    ASSUME TypeOK, NEW id \in 1..GetMaxId(store), NEW cat \in Categories,
           IncrInjected(id, cat)
    PROVE  /\ counted' \in [1..GetMaxId(store) -> BOOLEAN]
           /\ injected' \in Nat
           /\ byCat' \in [Categories -> Nat]
<1>1. CASE counted[id]
  BY <1>1 DEF IncrInjected, TypeOK
<1>2. CASE ~counted[id]
  <2>1. counted' = [counted EXCEPT ![id] = TRUE] /\ injected' = injected + 1
        /\ byCat' = [byCat EXCEPT ![cat] = @ + 1]
    BY <1>2 DEF IncrInjected
  <2>2. QED
    BY <2>1 DEF TypeOK
<1>3. QED
  BY <1>1, <1>2

LEMMA ApplyFaultInv ==
    ASSUME Inv, ApplyFault
    PROVE  Inv'
<1> DEFINE f == store[call.cur]
           sp == call.space
           a == call.addr
           v == call.val
           cell == cells[sp][a]
<1>1. /\ call.phase = "loop"
      /\ call.cur \in 1..Len(store)
      /\ f \in Fault
      /\ f.id \in 1..GetMaxId(store)
      /\ sp \in Spaces /\ a \in Addr /\ v \in Word
      /\ cell \in Word
  BY DEF ApplyFault, Inv, TypeOK, IdsInRange, CallType
<1>2. hist' \in [Spaces -> [1..GetMaxId(store) -> [Bits -> CellOps \cup {NoOp}]]]
  BY <1>1, LoggedHistType DEF ApplyFault, Inv
<1>3. active' \in [1..Len(store) -> BOOLEAN]
  BY <1>1, ActiveAfterBool DEF ApplyFault, Inv, TypeOK
<1>4. cells' \in [Spaces -> [Addr -> Word]]
  <2>1. \A fv : InjectCell(sp, cell, Merge(fv, f.mask, v)) \in Word
    BY <1>1, WordClosed, InjectCellWord DEF Fault
  <2>2. QED
    BY <1>1, <2>1 DEF ApplyFault, Inv, TypeOK
<1>5. call' \in CallType /\ call'.cur <= Len(store) + 1
  <2>1. \A fv : FaultedValue(f, Merge(fv, f.mask, v), v) \in Word
    BY <1>1, WordClosed, FaultedValueWord DEF Fault
  <2>2. Next1 \in CallType /\ Next1.cur <= Len(store) + 1
    BY <1>1, Next1Type DEF Inv
  <2>3. QED
    BY <1>1, <2>1, <2>2 DEF ApplyFault, CallType
<1>6. inUse' \in Addr \cup {0, NoAddr}
  BY DEF ApplyFault, Inv, TypeOK
<1>7. /\ counted' \in [1..GetMaxId(store) -> BOOLEAN]
      /\ injected' \in Nat
      /\ byCat' \in [Categories -> Nat]
  BY <1>1, IncrInjectedType, CategoryIn DEF ApplyFault, Inv, TypeOK, ModeSuffix
<1>8. QED
  BY <1>2, <1>3, <1>4, <1>5, <1>6, <1>7, SameListInv DEF ApplyFault, Inv, TypeOK

LEMMA CouplingNotTriggeredInv ==
    ASSUME Inv, CouplingNotTriggered
    PROVE  Inv'
<1>1. call.cur \in 1..Len(store)
  BY DEF CouplingNotTriggered, Inv, TypeOK, CallType
<1>2. hist' \in [Spaces -> [1..GetMaxId(store) -> [Bits -> CellOps \cup {NoOp}]]]
  BY <1>1, LoggedHistType DEF CouplingNotTriggered, Inv
<1>3. call' \in CallType /\ call'.cur <= Len(store) + 1
  BY <1>1, Next1Type DEF CouplingNotTriggered, Inv
<1>4. QED
  BY <1>2, <1>3, SameListInv DEF CouplingNotTriggered, Inv, TypeOK

\* Whatever fault_value a coupling handler computes, the merged value is a
\* word when the mask and the word the unmasked bits come from are.
LEMMA CouplingMergeWord ==
    ASSUME NEW f \in Fault, NEW acc \in Word, NEW vc \in Word, NEW fv
    PROVE  Merge(fv, f.mask, CouplingBase(f, acc, vc)) \in Word
<1>1. CouplingBase(f, acc, vc) \in Word /\ f.mask \in Word
  BY DEF CouplingBase, Fault
<1>2. QED
  BY <1>1, WordClosed

LEMMA ApplyCouplingInv ==
    ASSUME Inv, ApplyCoupling
    PROVE  Inv'
<1> DEFINE f == store[call.cur]
           sp == call.space
           acc == call.val
           vc == OldContent(sp, cells[sp][f.cf_address])
<1>0. call.phase = "loop" /\ call.cur <= Len(store) /\ IsCoupling(f)
  BY DEF ApplyCoupling
<1>1. /\ call.phase = "loop"
      /\ call.cur \in 1..Len(store)
      /\ f \in Fault
      /\ f.id \in 1..GetMaxId(store)
      /\ sp \in Spaces /\ acc \in Word
      /\ f.cf_address \in Addr
  BY <1>0 DEF Inv, TypeOK, IdsInRange, CallType
<1>2. vc \in Word
  <2>1. cells[sp][f.cf_address] \in Word
    BY <1>1 DEF Inv, TypeOK
  <2>2. DebugRead(cells[sp][f.cf_address]) \in Word
    BY <2>1, WordClosed
  <2>3. QED
    BY <2>1, <2>2 DEF OldContent
<1>3. \A fv : Merge(fv, f.mask, CouplingBase(f, acc, vc)) \in Word
  BY <1>1, <1>2, CouplingMergeWord
<1>4. hist' \in [Spaces -> [1..GetMaxId(store) -> [Bits -> CellOps \cup {NoOp}]]]
  BY <1>1, LoggedHistType DEF ApplyCoupling, Inv
<1>5. active' \in [1..Len(store) -> BOOLEAN]
  BY <1>1, ActiveAfterBool DEF ApplyCoupling, Inv, TypeOK
<1>6. cells' \in [Spaces -> [Addr -> Word]]
  <2>1. \A c \in Addr : \A fv : InjectCell(sp, cells[sp][c], Merge(fv, f.mask, CouplingBase(f, acc, vc))) \in Word
    BY <1>1, <1>3, InjectCellWord DEF Inv, TypeOK
  <2>2. QED
    BY <1>1, <2>1 DEF ApplyCoupling, Inv, TypeOK
<1>7. call' \in CallType /\ call'.cur <= Len(store) + 1
  <2>1. Next1 \in CallType /\ Next1.cur <= Len(store) + 1
    BY <1>1, Next1Type DEF Inv
  <2>2. QED
    BY <1>1, <1>3, <2>1 DEF ApplyCoupling, CallType
<1>8. /\ counted' \in [1..GetMaxId(store) -> BOOLEAN]
      /\ injected' \in Nat
      /\ byCat' \in [Categories -> Nat]
  BY <1>1, IncrInjectedType, CategoryIn DEF ApplyCoupling, Inv, TypeOK, ModeSuffix
<1>9. inUse' \in Addr \cup {0, NoAddr}
  BY DEF ApplyCoupling
<1>10. QED
  BY <1>4, <1>5, <1>6, <1>7, <1>8, <1>9, SameListInv DEF ApplyCoupling, Inv, TypeOK

LEMMA NextInv == Inv /\ [Next]_vars => Inv'
<1> SUFFICES ASSUME Inv, [Next]_vars PROVE Inv'
  OBVIOUS
<1>1. CASE \E c \in Campaigns : Reload(c)
  BY <1>1, ReloadInv
<1>2. CASE ReloadRejected
  BY <1>2, ReloadRejectedInv
<1>3. CASE Tick
  BY <1>3, TickInv
<1>4. CASE \E sp \in Spaces, k \in Kinds, a \in Addr, v \in Word : Access(sp, k, a, v)
  BY <1>4, AccessInv
<1>5. CASE SkipFault
  BY <1>5, SkipFaultInv
<1>6. CASE MisconfiguredFault
  BY <1>6, MisconfiguredFaultInv
<1>7. CASE ApplyFault
  BY <1>7, ApplyFaultInv
<1>8. CASE FinishAccess
  BY <1>8, FinishAccessInv
<1>9. CASE CouplingNotTriggered
  BY <1>9, CouplingNotTriggeredInv
<1>10. CASE ApplyCoupling
  BY <1>10, ApplyCouplingInv
<1>11. CASE UNCHANGED vars
  BY <1>11 DEF vars, Inv, TypeOK, IdsInRange
<1>12. QED
  BY <1>1, <1>2, <1>3, <1>4, <1>5, <1>6, <1>7, <1>8, <1>9, <1>10, <1>11 DEF Next

\* Every state the content path reaches is well typed: the fault list is a
\* list of records, the tables id_array and ops_on_*_cell are indexed by
\* exactly the ids 1..getMaxIDInFaultList() of the list loaded, whether
\* the last reload was accepted or rejected, and the words the handlers
\* compute stay within the word.
THEOREM TypeCorrect == Spec => []TypeOK
<1>1. Init => Inv
  BY InitInv
<1>2. Inv /\ [Next]_vars => Inv'
  BY NextInv
<1>3. Inv => TypeOK
  BY DEF Inv
<1>4. QED
  BY <1>1, <1>2, <1>3, PTL DEF Spec

-----------------------------------------------------------------------------
(***************************************************************************)
(* The activation counter.                                                 *)
(***************************************************************************)

CountedIds == {i \in DOMAIN counted : counted[i]}

SumCats(bc) == bc[<<"ram", "trans">>] + bc[<<"ram", "perm">>]
               + bc[<<"cpu", "trans">>] + bc[<<"cpu", "perm">>]
               + bc[<<"reg", "trans">>] + bc[<<"reg", "perm">>]

CInv == Inv /\ CountersConsistent

\* Adding one to a category adds one to the sum of the six.
LEMMA SumCatsIncr ==
    ASSUME NEW bc \in [Categories -> Nat], NEW cat \in Categories
    PROVE  SumCats([bc EXCEPT ![cat] = @ + 1]) = SumCats(bc) + 1
BY DEF SumCats, Categories

LEMMA SumCatsZero == SumCats([c \in Categories |-> 0]) = 0
BY DEF SumCats, Categories

\* The ids flagged in id_array form a finite set.
LEMMA CountedFinite ==
    ASSUME TypeOK, IdsInRange
    PROVE  IsFiniteSet(CountedIds)
<1>1. IsFiniteSet(1..GetMaxId(store))
  BY FS_Interval DEF IdsInRange
<1>2. CountedIds \subseteq 1..GetMaxId(store)
  BY DEF CountedIds, TypeOK
<1>3. QED
  BY <1>1, <1>2, FS_Subset

\* A fresh id_array and fresh counters agree.
LEMMA ResetTablesCounters ==
    ASSUME NEW s, ResetTables(s)
    PROVE  CountersConsistent'
<1>1. {i \in DOMAIN counted' : counted'[i]} = {}
  BY DEF ResetTables
<1>2. injected' = 0 /\ SumCats(byCat') = 0
  BY SumCatsZero DEF ResetTables
<1>3. QED
  BY <1>1, <1>2, FS_EmptySet DEF CountersConsistent, SumCats

\* incr_num_injected_faults adds its id to the flagged set exactly when it
\* adds one to the total and one to a category.
LEMMA IncrInjectedCounters ==
    ASSUME TypeOK, IdsInRange, CountersConsistent,
           NEW id \in 1..GetMaxId(store), NEW cat \in Categories,
           IncrInjected(id, cat)
    PROVE  CountersConsistent'
<1>1. CASE counted[id]
  BY <1>1 DEF IncrInjected, CountersConsistent
<1>2. CASE ~counted[id]
  <2>1. /\ counted' = [counted EXCEPT ![id] = TRUE]
        /\ injected' = injected + 1
        /\ byCat' = [byCat EXCEPT ![cat] = @ + 1]
    BY <1>2 DEF IncrInjected
  <2>2. {i \in DOMAIN counted' : counted'[i]} = CountedIds \cup {id}
    BY <2>1 DEF CountedIds, TypeOK
  <2>3. id \notin CountedIds
    BY <1>2 DEF CountedIds
  <2>4. Cardinality(CountedIds \cup {id}) = Cardinality(CountedIds) + 1
    BY <2>3, CountedFinite, FS_AddElement
  <2>5. SumCats(byCat') = SumCats(byCat) + 1
    BY <2>1, SumCatsIncr DEF TypeOK
  <2>6. QED
    BY <2>1, <2>2, <2>4, <2>5 DEF CountersConsistent, CountedIds, SumCats
<1>3. QED
  BY <1>1, <1>2

\* A step of the dispatcher loop either leaves the counters alone or is
\* one call of incr_num_injected_faults for a fault of the list.
LEMMA ApplyFaultCounts ==
    ASSUME Inv, ApplyFault
    PROVE  \/ UNCHANGED <<counted, injected, byCat>>
           \/ \E id \in 1..GetMaxId(store), cat \in Categories : IncrInjected(id, cat)
<1> DEFINE f == store[call.cur]
<1>1. call.cur \in 1..Len(store) /\ f.id \in 1..GetMaxId(store)
  BY DEF ApplyFault, Inv, TypeOK, IdsInRange, CallType
<1>2. \A sp : Category(sp, ModeSuffix(f)) \in Categories
  BY CategoryIn DEF ModeSuffix
<1>3. QED
  BY <1>1, <1>2 DEF ApplyFault

\* The same for a coupling handler's new_value.
LEMMA ApplyCouplingCounts ==
    ASSUME Inv, ApplyCoupling
    PROVE  \/ UNCHANGED <<counted, injected, byCat>>
           \/ \E id \in 1..GetMaxId(store), cat \in Categories : IncrInjected(id, cat)
<1> DEFINE f == store[call.cur]
<1>0. call.phase = "loop" /\ call.cur <= Len(store)
  BY DEF ApplyCoupling
<1>1. call.cur \in 1..Len(store) /\ f.id \in 1..GetMaxId(store)
  BY <1>0 DEF Inv, TypeOK, IdsInRange, CallType
<1>2. \A sp : Category(sp, ModeSuffix(f)) \in Categories
  BY CategoryIn DEF ModeSuffix
<1>3. QED
  BY <1>1, <1>2 DEF ApplyCoupling

LEMMA NextCounters ==
    Inv /\ CountersConsistent /\ [Next]_vars => CountersConsistent'
<1> SUFFICES ASSUME Inv, CountersConsistent, [Next]_vars
             PROVE  CountersConsistent'
  OBVIOUS
<1>1. CASE \E c \in Campaigns : Reload(c)
  BY <1>1, ResetTablesCounters DEF Reload
<1>2. CASE ReloadRejected
  BY <1>2, ResetTablesCounters DEF ReloadRejected
<1>3. CASE ApplyFault
  BY <1>3, ApplyFaultCounts, IncrInjectedCounters DEF Inv, CountersConsistent
<1>4. CASE ApplyCoupling
  BY <1>4, ApplyCouplingCounts, IncrInjectedCounters DEF Inv, CountersConsistent
<1>5. CASE UNCHANGED <<counted, injected, byCat>>
  BY <1>5 DEF CountersConsistent
<1>6. QED
  BY <1>1, <1>2, <1>3, <1>4, <1>5
     DEF Next, vars, Tick, Access, SkipFault, MisconfiguredFault,
         CouplingNotTriggered, FinishAccess

\* Across every sequence of reloads (accepted or rejected) and accesses,
\* num_injected_faults equals the number of ids id_array flags as counted
\* and the sum of the six per-category counters: incr_num_injected_faults
\* counts an id at most once between two reloads, duplicate ids included.
THEOREM CountersCorrect == Spec => []CountersConsistent
<1>1. Init => Inv /\ CountersConsistent
  <2>1. Init => CountersConsistent
    <3> SUFFICES ASSUME Init PROVE CountersConsistent
      OBVIOUS
    <3>1. {i \in DOMAIN counted : counted[i]} = {}
      BY DEF Init
    <3>2. QED
      BY <3>1, FS_EmptySet, SumCatsZero DEF Init, CountersConsistent, SumCats
  <2>2. QED
    BY <2>1, InitInv
<1>2. Inv /\ CountersConsistent /\ [Next]_vars => Inv' /\ CountersConsistent'
  BY NextInv, NextCounters
<1>3. QED
  BY <1>1, <1>2, PTL DEF Spec

=============================================================================
