------------------------- MODULE FIEngineMaskProofs -------------------------
(***************************************************************************)
(* The single-cell handlers of the content path alter only masked bits.  *)
(* For fault lists without coupling faults, a controller call that no    *)
(* NEW VALUE fault selects delivers a value, and leaves the accessed cell *)
(* after a read, that differ from what the CPU read or wrote only in bits *)
(* of the masks of the faults the dispatcher selected, in whatever order *)
(* and combination bf, rs, tf, wdf, rdf, irf and drdf (static or dynamic) *)
(* fire.                                                                   *)
(***************************************************************************)
EXTENDS FIEngineProofs

\* Every list a configuration file can parse to holds single-cell faults.
SingleCellCampaigns == \A c \in Campaigns : \A i \in DOMAIN c : ~IsCoupling(c[i])

NoCouplingInStore == \A i \in DOMAIN store : ~IsCoupling(store[i])

\* The masks of the faults the filter selects for the access in progress.
SelMasks == UNION {store[i].mask : i \in Selected(call.space, call.addr)}

NoNewValue == \A i \in Selected(call.space, call.addr) : store[i].mode.fam # "NEW VALUE"

\* During the loop, the value in flight and (for a read) the accessed cell
\* differ from the value the call started with only in selected masks.
MaskInv ==
    call.phase = "loop" /\ NoNewValue =>
        /\ Flip(call.val, call.orig) \subseteq SelMasks
        /\ call.kind = "read" => Flip(cells[call.space][call.addr], call.orig) \subseteq SelMasks

AInv == Inv /\ NoCouplingInStore /\ MaskInv

-----------------------------------------------------------------------------
(***************************************************************************)
(* Word lemmas: which bits the primitives of the handlers can change.     *)
(***************************************************************************)

\* Bits that differ between a and c differ between a and b or b and c.
LEMMA FlipTrans ==
    ASSUME NEW a, NEW b, NEW c
    PROVE  Flip(a, c) \subseteq Flip(a, b) \cup Flip(b, c)
BY DEF Flip

LEMMA FlipSelf ==
    ASSUME NEW a
    PROVE  Flip(a, a) = {}
BY DEF Flip

\* The merge (fault_value & mask) | (value & ~mask) keeps value outside mask.
LEMMA MergeFlip ==
    ASSUME NEW fv, NEW m, NEW v
    PROVE  Flip(Merge(fv, m, v), v) \subseteq m
BY DEF Flip, Merge

\* A fired single-cell handler other than new_value changes the accessed
\* value only in its mask: bf and rs by construction, drdf not at all,
\* the others through the merge.
LEMMA FaultedValueFlip ==
    ASSUME NEW f, NEW nv, NEW v, f.mode.fam # "NEW VALUE",
           Flip(nv, v) \subseteq f.mask
    PROVE  Flip(FaultedValue(f, nv, v), v) \subseteq f.mask
<1>1. FaultedValue(f, nv, v) \in {Flip(v, f.mask), SetReset(v, f.mask, f.set_bit), v, nv}
  BY Zenon DEF FaultedValue
<1>2. /\ Flip(Flip(v, f.mask), v) \subseteq f.mask
      /\ Flip(SetReset(v, f.mask, f.set_bit), v) \subseteq f.mask
      /\ Flip(v, v) \subseteq f.mask
  BY DEF Flip, SetReset
<1>3. QED
  BY <1>1, <1>2

\* The two-byte debug write keeps the cell's bits above MEMORY_WIDTH and
\* takes the new value's below it; a register takes the new value.
LEMMA InjectCellFlip ==
    ASSUME NEW sp, NEW c, NEW nv, NEW o
    PROVE  Flip(InjectCell(sp, c, nv), o) \subseteq Flip(c, o) \cup Flip(nv, o)
<1>1. InjectCell(sp, c, nv) \in {DebugWrite(c, nv), nv}
  BY DEF InjectCell
<1>2. Flip(DebugWrite(c, nv), o) \subseteq Flip(c, o) \cup Flip(nv, o)
  BY DEF Flip, DebugWrite
<1>3. QED
  BY <1>1, <1>2 DEF Flip

\* rdf and drdf pass the early return on the access kind only for reads.
LEMMA ReadOnlyKinds ==
    ASSUME NEW f, NEW k, f.mode.fam \in {"RDF", "DRDF"}, KindFits(f, k)
    PROVE  k = "read"
BY DEF KindFits


-----------------------------------------------------------------------------
(***************************************************************************)
(* The inductive invariant AInv.                                           *)
(***************************************************************************)

LEMMA InitAInv == Init => AInv
<1> SUFFICES ASSUME Init PROVE AInv
  OBVIOUS
<1>1. Inv
  BY InitInv
<1>2. NoCouplingInStore
  BY DEF Init, NoCouplingInStore
<1>3. MaskInv
  BY DEF Init, IdleCall, MaskInv
<1>4. QED
  BY <1>1, <1>2, <1>3 DEF AInv

\* A loop step that keeps the list and the accessed cell's coordinates
\* keeps the selected faults, hence their masks and modes.
LEMMA SelectionFrame ==
    ASSUME store' = store, call'.space = call.space, call'.addr = call.addr
    PROVE  SelMasks' = SelMasks /\ NoNewValue' = NoNewValue
BY DEF SelMasks, NoNewValue, Selected

\* A step that moves to the next element and changes neither the value in
\* flight nor the cells keeps MaskInv.
LEMMA Next1MaskInv ==
    ASSUME TypeOK, MaskInv, store' = store, cells' = cells, call' = Next1
    PROVE  MaskInv'
<1>1. call \in CallType
  BY DEF TypeOK
<1>2. /\ call'.phase = call.phase /\ call'.space = call.space /\ call'.addr = call.addr
      /\ call'.kind = call.kind /\ call'.val = call.val /\ call'.orig = call.orig
  BY <1>1 DEF Next1, CallType
<1>3. SelMasks' = SelMasks /\ NoNewValue' = NoNewValue
  BY <1>2, SelectionFrame
<1>4. QED
  BY <1>2, <1>3 DEF MaskInv

LEMMA AccessMaskInv ==
    ASSUME NEW sp, NEW k, NEW a, NEW v, Access(sp, k, a, v)
    PROVE  MaskInv'
<1>1. call'.val = v /\ call'.orig = v /\ call'.kind = k /\ call'.space = sp /\ call'.addr = a
  BY DEF Access
<1>2. k = "read" => cells'[sp][a] = v
  BY DEF Access
<1>3. QED
  BY <1>1, <1>2, FlipSelf DEF MaskInv

LEMMA FinishAccessMaskInv ==
    ASSUME TypeOK, FinishAccess
    PROVE  MaskInv'
<1>1. call \in CallType
  BY DEF TypeOK
<1>2. call'.phase = "idle"
  BY <1>1 DEF FinishAccess, CallType
<1>3. QED
  BY <1>2 DEF MaskInv

\* Between two calls nothing MaskInv mentions moves out of the idle phase.
LEMMA IdleMaskInv ==
    ASSUME call.phase = "idle", call' = call
    PROVE  MaskInv'
BY DEF MaskInv


\* A single-cell handler changes the value in flight, and for rdf and drdf
\* the accessed cell, only in the mask of the fault being visited, which
\* is one of the selected faults.
LEMMA ApplyFaultMaskInv ==
    ASSUME Inv, MaskInv, ApplyFault
    PROVE  MaskInv'
<1> DEFINE i == call.cur
           f == store[i]
           sp == call.space
           a == call.addr
           v == call.val
           cell == cells[sp][a]
           o == IF KindFits(f, call.kind) THEN ModeOutcome(f, elapsed, 0) ELSE "none"
           nv == Merge(FaultValue(f, OldContent(sp, cell), v, LoggedHist[sp][f.id]), f.mask, v)
           wc == \/ f.mode.fam = "RDF" /\ o # "none" /\ ActiveAfter(o, active[i])
                 \/ f.mode.fam = "DRDF" /\ o = "fire"
           nval == IF o = "fire" THEN FaultedValue(f, nv, v) ELSE v
<1>1. /\ call.phase = "loop"
      /\ Matches(f, sp, a)
      /\ call' = [Next1 EXCEPT !.val = nval]
      /\ cells' = IF wc THEN [cells EXCEPT ![sp][a] = InjectCell(sp, cell, nv)] ELSE cells
      /\ store' = store
  BY DEF ApplyFault
<1>2. /\ call \in CallType
      /\ i \in DOMAIN store
      /\ cells \in [Spaces -> [Addr -> Word]]
  BY <1>1 DEF ApplyFault, Inv, TypeOK, CallType
<1>3. /\ call'.phase = "loop" /\ call'.space = sp /\ call'.addr = a
      /\ call'.kind = call.kind /\ call'.orig = call.orig /\ call'.val = nval
  BY <1>1, <1>2 DEF Next1, CallType
<1>4. SelMasks' = SelMasks /\ NoNewValue' = NoNewValue
  BY <1>1, <1>3, SelectionFrame
<1>5. i \in Selected(sp, a)
  BY <1>1, <1>2 DEF Selected
<1>6. f.mask \subseteq SelMasks
  BY <1>5 DEF SelMasks
<1> SUFFICES ASSUME NoNewValue PROVE MaskInv'
  BY <1>4 DEF MaskInv
<1>7. f.mode.fam # "NEW VALUE"
  BY <1>5 DEF NoNewValue
<1>8. Flip(nv, v) \subseteq f.mask
  BY MergeFlip
<1>9. Flip(nval, v) \subseteq f.mask
  BY <1>7, <1>8, FaultedValueFlip, FlipSelf
<1>10. Flip(v, call.orig) \subseteq SelMasks
  BY <1>1 DEF MaskInv
<1>11. Flip(nval, call.orig) \subseteq SelMasks
  BY <1>6, <1>9, <1>10, FlipTrans
<1>12. ASSUME call.kind = "read"
       PROVE  Flip(cells'[sp][a], call.orig) \subseteq SelMasks
  <2>1. Flip(cell, call.orig) \subseteq SelMasks
    BY <1>1, <1>12 DEF MaskInv
  <2>2. CASE wc
    <3>1. cells'[sp][a] = InjectCell(sp, cell, nv)
      BY <1>1, <1>2, <2>2 DEF CallType
    <3>2. Flip(nv, call.orig) \subseteq SelMasks
      BY <1>6, <1>8, <1>10, FlipTrans
    <3>3. QED
      BY <2>1, <3>1, <3>2, InjectCellFlip
  <2>3. CASE ~wc
    BY <1>1, <2>1, <2>3
  <2>4. QED
    BY <2>2, <2>3
<1>13. QED
  BY <1>3, <1>4, <1>11, <1>12 DEF MaskInv


\* A reload installs a list a configuration file parses to; every other
\* step keeps the list.
LEMMA NoCouplingStep ==
    ASSUME SingleCellCampaigns, NoCouplingInStore, [Next]_vars
    PROVE  NoCouplingInStore'
<1>1. CASE \E c \in Campaigns : Reload(c)
  BY <1>1 DEF Reload, SingleCellCampaigns, NoCouplingInStore
<1>2. CASE ~\E c \in Campaigns : Reload(c)
  <2>1. store' = store
    BY <1>2 DEF Next, vars, ReloadRejected, Tick, Access, SkipFault, MisconfiguredFault,
               ApplyFault, CouplingNotTriggered, ApplyCoupling, FinishAccess
  <2>2. QED
    BY <2>1 DEF NoCouplingInStore
<1>3. QED
  BY <1>1, <1>2

\* The element being visited is an element of the list.
LEMMA CurInStore ==
    ASSUME TypeOK, call.cur <= Len(store)
    PROVE  call.cur \in DOMAIN store
BY DEF TypeOK, CallType

LEMMA NextAInv ==
    ASSUME SingleCellCampaigns, AInv, [Next]_vars
    PROVE  AInv'
<1>1. Inv /\ TypeOK /\ NoCouplingInStore /\ MaskInv
  BY DEF AInv, Inv
<1>2. Inv'
  BY <1>1, NextInv
<1>3. NoCouplingInStore'
  BY <1>1, NoCouplingStep
<1>4. MaskInv'
  <2>1. CASE \E c \in Campaigns : Reload(c)
    BY <2>1, IdleMaskInv DEF Reload
  <2>2. CASE ReloadRejected
    BY <2>2, IdleMaskInv DEF ReloadRejected
  <2>3. CASE Tick
    BY <2>3, IdleMaskInv DEF Tick
  <2>4. CASE \E sp \in Spaces, k \in Kinds, a \in Addr, v \in Word : Access(sp, k, a, v)
    BY <2>4, AccessMaskInv
  <2>5. CASE SkipFault
    BY <1>1, <2>5, Next1MaskInv DEF SkipFault
  <2>6. CASE MisconfiguredFault
    BY <1>1, <2>6, Next1MaskInv DEF MisconfiguredFault
  <2>7. CASE ApplyFault
    BY <1>1, <2>7, ApplyFaultMaskInv
  <2>8. CASE CouplingNotTriggered
    BY <1>1, <2>8, Next1MaskInv DEF CouplingNotTriggered
  <2>9. CASE ApplyCoupling
    <3>1. call.cur \in DOMAIN store /\ IsCoupling(store[call.cur])
      BY <1>1, <2>9, CurInStore DEF ApplyCoupling
    <3>2. QED
      BY <1>1, <3>1 DEF NoCouplingInStore
  <2>10. CASE FinishAccess
    BY <1>1, <2>10, FinishAccessMaskInv
  <2>11. CASE UNCHANGED vars
    BY <1>1, <2>11 DEF vars, MaskInv, SelMasks, NoNewValue, Selected
  <2>12. QED
    BY <2>1, <2>2, <2>3, <2>4, <2>5, <2>6, <2>7, <2>8, <2>9, <2>10, <2>11 DEF Next
<1>5. QED
  BY <1>2, <1>3, <1>4 DEF AInv

\* In a state of AInv, a completing step satisfies the step formula of
\* AccessAltersOnlyMaskedBits: the invariant already holds of the value
\* and cell the call is about to hand back.
LEMMA AInvMaskedOnlyStep ==
    ASSUME AInv
    PROVE  MaskedOnlyStep
<1> SUFFICES ASSUME Completes, NoNewValue
             PROVE  /\ Flip(call.val, call.orig) \subseteq SelMasks
                    /\ call.kind = "read" =>
                          Flip(cells[call.space][call.addr], call.orig) \subseteq SelMasks
  BY DEF MaskedOnlyStep, NoNewValue, SelMasks
<1>1. QED
  BY DEF AInv, MaskInv, Completes

\* For configurations whose fault lists hold no coupling fault, every
\* completed memory or register access that no NEW VALUE fault selects
\* delivers a value, and leaves the cell it read, that differ from what
\* the CPU read or wrote only in bits of the masks of the selected faults,
\* whatever the list, the word width, the clock and the order of reloads.
THEOREM MaskedBitsOnly ==
    ASSUME SingleCellCampaigns
    PROVE  Spec => AccessAltersOnlyMaskedBits
<1>1. Init => AInv
  BY InitAInv
<1>2. AInv /\ [Next]_vars => AInv'
  BY NextAInv
<1>3. AInv => MaskedOnlyStep
  BY AInvMaskedOnlyStep
<1>4. QED
  BY <1>1, <1>2, <1>3, PTL DEF Spec, AccessAltersOnlyMaskedBits

=============================================================================
