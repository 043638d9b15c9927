---------------------------- MODULE FITimeProofs ----------------------------
(***************************************************************************)
(* Proofs about the time path of FITime: its state stays well typed, and  *)
(* the static pair saved_insn / lockup_pc implements the two-phase lockup *)
(* toggle of LockupToggle, for every word width, set of addresses,        *)
(* program and campaign satisfying the assumptions.                       *)
(***************************************************************************)
EXTENDS FITime, TLAPS

\* The loaded list is one of the campaigns (or none is loaded yet): what
\* the time path needs to know of the fault it visits comes from
\* TimeCampaignAssumption.
StoreFromCampaign == store \in Campaigns \cup {<<>>}

TypeInv == TimeTypeOK /\ StoreFromCampaign

\* The word operators of the time path stay inside the word.
LEMMA CellOpWord ==
    ASSUME NEW f \in TFault, NEW v \in Word
    PROVE  /\ RegAfter(f, v) \in Word
           /\ MemAfter(f, v) \in Word
<1>1. f.mask \in Word /\ f.set_bit \in Word
  BY DEF TFault
<1>2. /\ Flip(v, f.mask) \in Word
      /\ SetReset(v, f.mask, f.set_bit) \in Word
      /\ Flip(DebugRead(v), f.mask) \in Word
      /\ SetReset(DebugRead(v), f.mask, f.set_bit) \in Word
  BY <1>1 DEF Word, Flip, SetReset, DebugRead, TrackedBits, Bits
<1>3. \A u \in Word : CellOp(f, u) \in {Flip(u, f.mask), f.mask, SetReset(u, f.mask, f.set_bit)}
  BY Zenon DEF CellOp
<1>4. DebugRead(v) \in Word
  BY DEF Word, DebugRead, TrackedBits, Bits
<1>5. CellOp(f, v) \in Word /\ CellOp(f, DebugRead(v)) \in Word
  BY <1>1, <1>2, <1>3, <1>4
<1>6. QED
  BY <1>5 DEF RegAfter, MemAfter, DebugWrite, Word, TrackedBits, Bits

\* do_inject_condition_flags_arm only writes condition-flag bits.
LEMMA InjectFlagBits ==
    ASSUME NEW c \in SUBSET CpsrBits, NEW n, NEW v
    PROVE  InjectFlag(c, n, v) \in SUBSET CpsrBits
<1>1. FlagBit(n) \in CpsrBits
  BY DEF FlagBit, CpsrBits
<1>2. QED
  BY <1>1 DEF InjectFlag

LEMMA ActiveAfterBool ==
    ASSUME NEW o, NEW b \in BOOLEAN
    PROVE  ActiveAfter(o, b) \in BOOLEAN
BY DEF ActiveAfter

LEMMA InitTypeInv == Init => TypeInv
<1> SUFFICES ASSUME Init PROVE TypeInv
  OBVIOUS
<1>1. <<>> \in Seq(TFault) /\ <<>> \in [1..Len(<<>>) -> BOOLEAN]
  OBVIOUS
<1>2. mem \in [Addr -> Word] /\ regs \in [Addr -> Word]
  BY TimeAddrAssumption DEF Init, Word
<1>3. lockupPc \in {0} \cup CodeAddr /\ saved \in Word /\ elapsed \in 0..MaxTime
  BY TimeAddrAssumption DEF Init, Word
<1>4. QED
  BY <1>1, <1>2, <1>3 DEF Init, TypeInv, TimeTypeOK, StoreFromCampaign, CpsrBits

\* The element a checkpoint visits is a fault record of the campaign, and
\* a register or memory fault names a cell of the model.
LEMMA VisitedFault ==
    ASSUME TypeInv, Visit
    PROVE  /\ tcall.cur \in 1..Len(store)
           /\ Cur \in TFault
           /\ store \in Campaigns
           /\ TimeTarget(Cur) \in {"reg", "mem"} => Cur.instruction \in Addr
<1>1. tcall.cur \in 1..Len(store) /\ store # <<>>
  BY DEF TypeInv, TimeTypeOK, Visit
<1>2. store \in Campaigns
  BY <1>1 DEF TypeInv, StoreFromCampaign
<1>3. QED
  BY <1>1, <1>2, TimeCampaignAssumption DEF TypeInv, TimeTypeOK, Cur

LEMMA ReloadTypeInv ==
    ASSUME TypeInv, NEW c \in Campaigns, Reload(c)
    PROVE  TypeInv'
<1>1. c \in Seq(TFault)
  BY TimeCampaignAssumption
<1>2. QED
  BY <1>1, TimeAddrAssumption DEF TypeInv, TimeTypeOK, StoreFromCampaign, Reload

LEMMA LoopTypeInv ==
    ASSUME TypeInv, Visit, NextElem
    PROVE  tcall' \in [phase : {"idle", "loop"}, cur : Nat \ {0}]
           /\ (tcall'.phase = "loop" => tcall'.cur <= Len(store) + 1)
BY DEF TypeInv, TimeTypeOK, Visit, NextElem

LEMMA FlagFaultTypeInv ==
    ASSUME TypeInv, FlagFault
    PROVE  TypeInv'
<1>1. active' \in [1..Len(store) -> BOOLEAN]
  BY VisitedFault, ActiveAfterBool DEF FlagFault, TypeInv, TimeTypeOK
<1>2. cpsr' \subseteq CpsrBits
  BY InjectFlagBits DEF FlagFault, TypeInv, TimeTypeOK
<1>3. QED
  BY <1>1, <1>2, LoopTypeInv DEF FlagFault, TypeInv, TimeTypeOK, StoreFromCampaign

\* Both halves of the lockup toggle keep memory, the saved word and the
\* lockup address typed.
LEMMA LookUpErrorType ==
    ASSUME TypeInv, NEW l, LookUpError(l)
    PROVE  /\ mem' \in [Addr -> Word]
           /\ saved' \in Word
           /\ lockupPc' \in {0} \cup CodeAddr
<1>1. ToWord(l) \in Word
  BY DEF ToWord, Word
<1>2. pc \in Addr /\ mem[pc] \in Word
  BY TimeAddrAssumption DEF TypeInv, TimeTypeOK
<1>3. QED
  BY <1>1, <1>2 DEF LookUpError, TypeInv, TimeTypeOK, Word

LEMMA LockupFaultTypeInv ==
    ASSUME TypeInv, LockupFault
    PROVE  TypeInv'
<1>1. active' \in [1..Len(store) -> BOOLEAN]
  BY VisitedFault, ActiveAfterBool DEF LockupFault, TypeInv, TimeTypeOK
<1>2. /\ mem' \in [Addr -> Word]
      /\ saved' \in Word
      /\ lockupPc' \in {0} \cup CodeAddr
  BY LookUpErrorType DEF LockupFault, TypeInv, TimeTypeOK
<1>3. QED
  BY <1>1, <1>2, LoopTypeInv DEF LockupFault, TypeInv, TimeTypeOK, StoreFromCampaign

LEMMA CellTimeFaultTypeInv ==
    ASSUME TypeInv, CellTimeFault
    PROVE  TypeInv'
<1>1. /\ Cur \in TFault
      /\ Cur.instruction \in Addr
      /\ tcall.cur \in 1..Len(store)
  BY VisitedFault DEF CellTimeFault
<1>2. active' \in [1..Len(store) -> BOOLEAN]
  BY <1>1, ActiveAfterBool DEF CellTimeFault, TypeInv, TimeTypeOK
<1>3. regs' \in [Addr -> Word]
  <2>1. regs[Cur.instruction] \in Word
    BY <1>1 DEF TypeInv, TimeTypeOK
  <2>2. RegAfter(Cur, regs[Cur.instruction]) \in Word
    BY <1>1, <2>1, CellOpWord
  <2>3. QED
    BY <2>2 DEF CellTimeFault, TypeInv, TimeTypeOK
<1>4. mem' \in [Addr -> Word]
  <2>1. mem[Cur.instruction] \in Word
    BY <1>1 DEF TypeInv, TimeTypeOK
  <2>2. MemAfter(Cur, mem[Cur.instruction]) \in Word
    BY <1>1, <2>1, CellOpWord
  <2>3. QED
    BY <2>2 DEF CellTimeFault, TypeInv, TimeTypeOK
<1>5. QED
  BY <1>2, <1>3, <1>4, LoopTypeInv DEF CellTimeFault, TypeInv, TimeTypeOK, StoreFromCampaign

LEMMA NextTypeInv == TypeInv /\ [Next]_vars => TypeInv'
<1> SUFFICES ASSUME TypeInv, [Next]_vars PROVE TypeInv'
  OBVIOUS
<1>1. CASE \E c \in Campaigns : Reload(c)
  BY <1>1, ReloadTypeInv
<1>2. CASE Tick \/ Execute \/ GuardReset
  BY <1>2, TimeAddrAssumption DEF Tick, Execute, GuardReset, TypeInv, TimeTypeOK, StoreFromCampaign
<1>3. CASE Checkpoint
  BY <1>3 DEF Checkpoint, TypeInv, TimeTypeOK, StoreFromCampaign
<1>4. CASE TimeSkip
  BY <1>4, LoopTypeInv DEF TimeSkip, TypeInv, TimeTypeOK, StoreFromCampaign
<1>5. CASE FlagFault
  BY <1>5, FlagFaultTypeInv
<1>6. CASE LockupFault
  BY <1>6, LockupFaultTypeInv
<1>7. CASE CellTimeFault
  BY <1>7, CellTimeFaultTypeInv
<1>8. CASE TimeFinish
  BY <1>8 DEF TimeFinish, TypeInv, TimeTypeOK, StoreFromCampaign
<1>9. CASE UNCHANGED vars
  BY <1>9 DEF vars, TypeInv, TimeTypeOK, StoreFromCampaign
<1>10. QED
  BY <1>1, <1>2, <1>3, <1>4, <1>5, <1>6, <1>7, <1>8, <1>9 DEF Next

\* Every state the time path reaches is well typed: in particular the
\* static lockup_pc is 0 or a code address, saved_insn a word, and the
\* checkpoint's cursor stays within the loaded list.
THEOREM TimeTypeCorrect == Spec => []TimeTypeOK
<1>1. Init => TypeInv
  BY InitTypeInv
<1>2. TypeInv /\ [Next]_vars => TypeInv'
  BY NextTypeInv
<1>3. QED
  BY <1>1, <1>2, PTL DEF Spec, TypeInv

-----------------------------------------------------------------------------
(***************************************************************************)
(* The lockup toggle refines the specification's two-state machine.       *)
(***************************************************************************)

\* No instruction word of the program is 0 (saved_insn's "nothing saved").
CodeWordsNonZero == \A p \in Programs : \A a \in CodeAddr : p[a] # {}

\* The memory cells the time path's RAM faults target are data, not code.
MemFaultsOnData ==
    \A c \in Campaigns : \A i \in DOMAIN c :
        TimeTarget(c[i]) = "mem" => c[i].instruction \notin CodeAddr

\* While the toggle is engaged lockup_pc is a code address; every code
\* word but the one the lockup instruction replaced is not 0.  This is
\* what makes the next engage save a word that reads as engaged.
Engagement ==
    /\ saved # {} => lockupPc \in CodeAddr
    /\ \A a \in CodeAddr : (saved = {} \/ a # lockupPc) => mem[a] # {}

RInv == TypeInv /\ Engagement


LEMMA InitEngagement ==
    ASSUME CodeWordsNonZero, Init
    PROVE  Engagement
BY DEF CodeWordsNonZero, Init, Engagement

\* A register or memory fault of the time path never writes a code word.
LEMMA CellTimeFaultKeepsCode ==
    ASSUME MemFaultsOnData, TypeInv, CellTimeFault
    PROVE  /\ \A a \in CodeAddr : mem'[a] = mem[a]
           /\ UNCHANGED <<saved, lockupPc, pc>>
<1>1. /\ store \in Campaigns
      /\ tcall.cur \in 1..Len(store)
  BY VisitedFault DEF CellTimeFault
<1>2. TimeTarget(Cur) = "mem" => Cur.instruction \notin CodeAddr
  BY <1>1 DEF MemFaultsOnData, Cur
<1>3. mem \in [Addr -> Word] /\ CodeAddr \subseteq Addr
  BY TimeAddrAssumption DEF TypeInv, TimeTypeOK
<1>4. \/ mem' = mem
      \/ TimeTarget(Cur) = "mem" /\ mem' = [mem EXCEPT ![Cur.instruction] = MemAfter(Cur, @)]
  BY DEF CellTimeFault
<1>5. \A a \in CodeAddr : mem'[a] = mem[a]
  BY <1>2, <1>3, <1>4
<1>6. QED
  BY <1>5 DEF CellTimeFault

\* The toggle keeps Engagement: an engage saves a word that is not 0, a
\* restore puts one back.
LEMMA LookUpErrorEngagement ==
    ASSUME TypeInv, Engagement, NEW l, LookUpError(l)
    PROVE  Engagement'
<1>1. CASE saved = {}
  <2>1. mem[pc] # {} /\ pc \in CodeAddr
    BY <1>1 DEF Engagement, TypeInv, TimeTypeOK
  <2>2. saved' = mem[pc] /\ mem' = [mem EXCEPT ![pc] = ToWord(l)] /\ lockupPc' = pc
    BY <1>1 DEF LookUpError
  <2>3. QED
    BY <1>1, <2>1, <2>2 DEF Engagement, TypeInv, TimeTypeOK
<1>2. CASE saved # {} /\ pc # lockupPc
  <2>1. lockupPc \in CodeAddr
    BY <1>2 DEF Engagement
  <2>2. saved' = {} /\ mem' = [mem EXCEPT ![lockupPc] = saved] /\ lockupPc' = lockupPc
    BY <1>2 DEF LookUpError
  <2>3. QED
    BY <1>2, <2>1, <2>2, TimeAddrAssumption DEF Engagement, TypeInv, TimeTypeOK
<1>3. CASE saved # {} /\ pc = lockupPc
  BY <1>3 DEF LookUpError, Engagement
<1>4. QED
  BY <1>1, <1>2, <1>3

LEMMA NextEngagement ==
    ASSUME MemFaultsOnData, TypeInv, Engagement, [Next]_vars
    PROVE  Engagement'
<1>1. CASE LockupFault
  <2>1. CASE LookUpError(Cur.instruction)
    BY <2>1, LookUpErrorEngagement
  <2>2. CASE UNCHANGED <<mem, saved, lockupPc>>
    BY <2>2 DEF Engagement
  <2>3. QED
    BY <1>1, <2>1, <2>2 DEF LockupFault
<1>2. CASE CellTimeFault
  BY <1>2, CellTimeFaultKeepsCode DEF Engagement
<1>3. CASE UNCHANGED <<mem, saved, lockupPc>>
  BY <1>3 DEF Engagement
<1>4. QED
  BY <1>1, <1>2, <1>3
     DEF Next, vars, Reload, Tick, Execute, GuardReset, Checkpoint, TimeSkip,
         FlagFault, TimeFinish


\* Under the mapping, each call of do_inject_look_up_error_arm is an
\* Engage, a Restore, or leaves the toggle as it was.
LEMMA LookUpErrorRefines ==
    ASSUME TypeInv, Engagement, NEW l, ToWord(l) \in LockupWordsOf,
           LookUpError(l), UNCHANGED pc
    PROVE  [LT!LNext]_LT!lvars
<1>1. CASE saved = {}
  <2>1. mem[pc] # {} /\ pc \in CodeAddr
    BY <1>1 DEF Engagement, TypeInv, TimeTypeOK
  <2>2. /\ saved' = mem[pc]
        /\ mem' = [mem EXCEPT ![pc] = ToWord(l)]
        /\ lockupPc' = pc
    BY <1>1 DEF LookUpError
  <2>3. LT!Engage(ToWord(l))
    BY <1>1, <2>1, <2>2 DEF LT!Engage
  <2>4. QED
    BY <2>3 DEF LT!LNext
<1>2. CASE saved # {} /\ pc # lockupPc
  <2>1. /\ saved' = {}
        /\ mem' = [mem EXCEPT ![lockupPc] = saved]
        /\ UNCHANGED lockupPc
    BY <1>2 DEF LookUpError
  <2>2. LT!Restore
    BY <1>2, <2>1 DEF LT!Restore
  <2>3. QED
    BY <2>2 DEF LT!LNext
<1>3. CASE saved # {} /\ pc = lockupPc
  <2>1. UNCHANGED <<mem, saved, lockupPc>>
    BY <1>3 DEF LookUpError
  <2>2. QED
    BY <2>1 DEF LT!lvars
<1>4. QED
  BY <1>1, <1>2, <1>3

\* The lockup fault the loop visits has a replacement instruction of the
\* campaigns.
LEMMA LockupWordOfVisited ==
    ASSUME TypeInv, Visit, TimeTarget(Cur) = "insn"
    PROVE  ToWord(Cur.instruction) \in LockupWordsOf
<1>1. store \in Campaigns /\ tcall.cur \in DOMAIN store
  BY VisitedFault
<1>2. QED
  BY <1>1 DEF LockupWordsOf, Cur

LEMMA NextRefines ==
    ASSUME MemFaultsOnData, TypeInv, Engagement, [Next]_vars
    PROVE  [LT!LNext]_LT!lvars
<1>1. CASE LockupFault
  <2>1. ToWord(Cur.instruction) \in LockupWordsOf
    BY <1>1, LockupWordOfVisited DEF LockupFault
  <2>2. CASE LookUpError(Cur.instruction)
    BY <1>1, <2>1, <2>2, LookUpErrorRefines DEF LockupFault
  <2>3. CASE UNCHANGED <<mem, saved, lockupPc>>
    BY <1>1, <2>3 DEF LockupFault, LT!lvars
  <2>4. QED
    BY <1>1, <2>2, <2>3 DEF LockupFault
<1>2. CASE CellTimeFault
  <2>1. /\ \A a \in CodeAddr : mem'[a] = mem[a]
        /\ UNCHANGED <<saved, lockupPc, pc>>
    BY <1>2, CellTimeFaultKeepsCode
  <2>2. CASE mem' = mem
    BY <2>1, <2>2 DEF LT!lvars
  <2>3. CASE mem' # mem
    <3>1. /\ TimeTarget(Cur) = "mem"
          /\ mem' = [mem EXCEPT ![Cur.instruction] = MemAfter(Cur, mem[Cur.instruction])]
      BY <1>2, <2>3 DEF CellTimeFault
    <3>2. /\ Cur \in TFault
          /\ Cur.instruction \in Addr
          /\ store \in Campaigns /\ tcall.cur \in 1..Len(store)
      BY <1>2, <3>1, VisitedFault DEF CellTimeFault
    <3>3. Cur.instruction \notin CodeAddr
      BY <3>1, <3>2 DEF MemFaultsOnData, Cur
    <3>4. MemAfter(Cur, mem[Cur.instruction]) \in Word
      BY <3>2, CellOpWord DEF TypeInv, TimeTypeOK
    <3>5. LT!DataWrite(Cur.instruction, MemAfter(Cur, mem[Cur.instruction]))
      BY <2>1, <3>1 DEF LT!DataWrite
    <3>6. QED
      BY <3>2, <3>3, <3>4, <3>5 DEF LT!LNext, LT!Word, LT!Bits, Word, Bits
  <2>4. QED
    BY <2>2, <2>3
<1>3. CASE Execute
  BY <1>3 DEF Execute, LT!Move, LT!LNext
<1>4. CASE UNCHANGED <<mem, saved, lockupPc, pc>>
  BY <1>4 DEF LT!lvars
<1>5. QED
  BY <1>1, <1>2, <1>3, <1>4
     DEF Next, vars, Reload, Tick, GuardReset, Checkpoint, TimeSkip,
         FlagFault, TimeFinish

\* For every program without a 0 instruction word and every campaign
\* whose time-triggered RAM faults target data, the static saved_insn /
\* lockup_pc pair of do_inject_look_up_error_arm implements the
\* specification's two-phase lockup toggle (LockupToggle): every step of
\* the time path, of the program and of the other faults is an Engage, a
\* Restore, a program step, a data write, or leaves the toggle alone.
THEOREM LockupImplementsToggle ==
    ASSUME CodeWordsNonZero, MemFaultsOnData
    PROVE  Spec => LockupRefinement
<1>1. Init => RInv
  BY InitTypeInv, InitEngagement DEF RInv
<1>2. RInv /\ [Next]_vars => RInv'
  BY NextTypeInv, NextEngagement DEF RInv
<1>3. Init => LT!LInit
  BY DEF Init, LT!LInit
<1>4. RInv /\ [Next]_vars => [LT!LNext]_LT!lvars
  BY NextRefines DEF RInv
<1>5. QED
  BY <1>1, <1>2, <1>3, <1>4, PTL DEF Spec, LockupRefinement, LT!LSpec

=============================================================================
