------------------------------- MODULE FITime -------------------------------
(***************************************************************************)
(* The time path of the fault-injection controller: the FI_TIME event,    *)
(* whose "address" is the program counter, is dispatched by               *)
(* fault_injection_controller_init to fault_injection_controller_time,   *)
(* which walks the whole list and applies every TIME- or PC-triggered     *)
(* fault directly to the CPU state: a condition flag of the CPSR, the     *)
(* lockup toggle of the instruction memory, or a register or memory cell  *)
(* named by the fault's `instruction` field.                               *)
(*                                                                         *)
(* The lockup toggle (do_inject_look_up_error_arm) keeps two function-     *)
(* static variables, saved_insn and lockup_pc, that no reload resets and  *)
(* that all lockup faults share; saved_insn = 0 means "nothing saved".    *)
(*                                                                         *)
(* As in FIEngine, a checkpoint's loop is one step per list element; the *)
(* program (Execute) moves the pc between checkpoints, and the content    *)
(* path, which leaves address_in_use = 0 after every handler, is the     *)
(* environment step GuardReset.                                           *)
(***************************************************************************)
EXTENDS Integers, Sequences, FIWord, FITrigger

CONSTANTS
    Addr,       \* memory addresses and register numbers (r0..r14)
    CodeAddr,   \* the addresses the program counter takes
    Programs,   \* the memory images the program can be loaded as
    Campaigns,  \* the fault lists a configuration file can parse to
    MaxTime,    \* bound on the virtual clock
    NoAddr      \* UINT64_MAX, the initial value of address_in_use

\* The CPSR bits do_inject_condition_flags_arm writes: Q is 27, V 28, C 29,
\* Z 30 and N 31.
CpsrBits == 27..31
FlagNames == {"CF", "NF", "QF", "VF", "ZF"}

\* struct Fault as the time path reads it: the mode is a plain string (a
\* flag name for CONDITION FLAGS), `instruction` is the lockup instruction
\* word or the number of the register / address of the memory cell.
TFault == [id : Nat \ {0}, component : STRING, target : STRING,
           mode : STRING, trigger : STRING, type : STRING,
           timer : TimeStr, duration : TimeStr, interval : TimeStr,
           address : Int, cf_address : Int, mask : Word, set_bit : Word,
           instruction : Int]

ASSUME TimeAddrAssumption ==
    /\ Addr \subseteq 0..14 /\ CodeAddr \subseteq Addr /\ CodeAddr # {}
    /\ NoAddr \notin Nat /\ MaxTime \in Nat
    /\ Programs \subseteq [Addr -> Word] /\ Programs # {}
VARIABLES
    store,      \* the fault list
    active,     \* is_active of each list element
    mem,        \* memory words
    regs,       \* env->regs[0..14] (r15 is the pc)
    cpsr,       \* the condition flags of the CPSR
    pc,         \* the program counter (env->regs[15], *addr of FI_TIME)
    saved,      \* static saved_insn of do_inject_look_up_error_arm
    lockupPc,   \* static lockup_pc
    inUse,      \* address_in_use
    elapsed,    \* fault_injection_controller_getTimer()
    tcall       \* the time checkpoint in progress

vars == <<store, active, mem, regs, cpsr, pc, saved, lockupPc, inUse,
          elapsed, tcall>>

TimeTypeOK ==
    /\ store \in Seq(TFault)
    /\ active \in [1..Len(store) -> BOOLEAN]
    /\ mem \in [Addr -> Word]
    /\ regs \in [Addr -> Word]
    /\ cpsr \subseteq CpsrBits
    /\ pc \in CodeAddr
    /\ saved \in Word
    /\ lockupPc \in {0} \cup CodeAddr
    /\ inUse \in Addr \cup {0, NoAddr}
    /\ elapsed \in 0..MaxTime
    /\ tcall \in [phase : {"idle", "loop"}, cur : Nat \ {0}]
    /\ tcall.phase = "loop" => tcall.cur <= Len(store) + 1

-----------------------------------------------------------------------------
(***************************************************************************)
(* Helpers translated from the time path and the injector.                *)
(***************************************************************************)

\* The branch of fault_injection_controller_time a fault takes.
TimeTarget(f) ==
    CASE f.component = "CPU" /\ f.target = "CONDITION FLAGS" -> "flags"
      [] f.component = "CPU"
         /\ f.target \in {"INSTRUCTION DECODER", "INSTRUCTION EXECUTION"} -> "insn"
      [] f.component = "REGISTER" /\ f.target = "REGISTER CELL" -> "reg"
      [] f.component = "RAM" /\ f.target \in {"MEMORY CELL", "R/W LOGIC"} -> "mem"
      [] OTHER -> "none"

\* A register or memory fault of the time path names a cell of the model.
ASSUME TimeCampaignAssumption ==
    \A c \in Campaigns :
        /\ c \in Seq(TFault)
        /\ \A i \in DOMAIN c :
              TimeTarget(c[i]) \in {"reg", "mem"} => c[i].instruction \in Addr

CellModes == {"BIT-FLIP", "NEW VALUE", "SF"}

\* The `continue`s and empty branches of the loop: an ACCESS trigger, no
\* branch, a lockup fault that is not NEW VALUE or has neither address
\* nor instruction, a cell fault of another mode or whose cf_address is
\* the pc.
TimeNoOp(f, p) ==
    \/ f.trigger = "ACCESS"
    \/ TimeTarget(f) = "none"
    \/ /\ TimeTarget(f) = "insn"
       /\ f.mode # "NEW VALUE" \/ (f.address = -1 /\ f.instruction = -1)
    \/ /\ TimeTarget(f) \in {"reg", "mem"}
       /\ f.mode \notin CellModes \/ f.cf_address = p

\* The int value of params.set_bit handed to do_inject_condition_flags as
\* new_flag_value: only 0 and 1 are acted on.
FlagValue(s) == CASE s = {} -> 0 [] s = {0} -> 1 [] OTHER -> 2

\* The CPSR bit do_inject_condition_flags_arm writes for a flag name.
FlagBit(name) ==
    CASE name = "QF" -> 27 [] name = "VF" -> 28 [] name = "ZF" -> 30
      [] OTHER -> 29

\* do_inject_condition_flags_arm: cpsr_write of the flag's bit under its
\* own mask; another value, or an unknown name, returns.
InjectFlag(c, name, v) ==
    CASE v \notin {0, 1} \/ name \notin FlagNames -> c
      [] v = 1 /\ name \in FlagNames -> c \cup {FlagBit(name)}
      [] OTHER -> c \ {FlagBit(name)}

\* The 32-bit unsigned lockup_instruction as a word (its low W bits).
ToWord(n) == {b \in Bits : (n \div 2^b) % 2 = 1}

\* do_inject_look_up_error_arm: with nothing saved, the 4-byte word at
\* regs[15] is saved and replaced by the lockup instruction and lockup_pc
\* is set; with a word saved and the pc elsewhere, the word is written
\* back at lockup_pc and saved_insn cleared; otherwise nothing.
\* Mutant: saved_insn not cleared after the restore.
LookUpErrorKeepSaved(l) ==
    IF saved = {}
    THEN /\ saved' = mem[pc]
         /\ mem' = [mem EXCEPT ![pc] = ToWord(l)]
         /\ lockupPc' = pc
    ELSE IF pc # lockupPc
         THEN /\ mem' = [mem EXCEPT ![lockupPc] = saved]
              /\ UNCHANGED <<saved, lockupPc>>
         ELSE UNCHANGED <<mem, saved, lockupPc>>
LookUpError(l) ==
    IF saved = {}
    THEN /\ saved' = mem[pc]
         /\ mem' = [mem EXCEPT ![pc] = ToWord(l)]
         /\ lockupPc' = pc
    ELSE IF pc # lockupPc
         THEN /\ mem' = [mem EXCEPT ![lockupPc] = saved]
              /\ saved' = {}
              /\ UNCHANGED lockupPc
         ELSE UNCHANGED <<mem, saved, lockupPc>>

\* What bf, new_value and rs leave in the cell, through
\* do_inject_register_arm (the whole register) or do_inject_memory_arm
\* (a read-modify-write of the low MEMORY_WIDTH bits per injected bit; a
\* new value writes the low MEMORY_WIDTH bits of the mask).
CellOp(f, v) ==
    CASE f.mode = "BIT-FLIP"  -> Flip(v, f.mask)
      [] f.mode = "NEW VALUE" -> f.mask
      [] OTHER                -> SetReset(v, f.mask, f.set_bit)
RegAfter(f, c) == CellOp(f, c)
MemAfter(f, c) == DebugWrite(c, CellOp(f, DebugRead(c)))

-----------------------------------------------------------------------------
(***************************************************************************)
(* The actions.                                                            *)
(***************************************************************************)

\* The program is loaded, the CPU comes out of reset (registers and flags
\* 0) and no list is loaded yet.
Init ==
    /\ store = <<>>
    /\ active = <<>>
    /\ mem \in Programs
    /\ regs = [a \in Addr |-> {}]
    /\ cpsr = {}
    /\ pc \in CodeAddr
    /\ saved = {}
    /\ lockupPc = 0
    /\ inUse = NoAddr
    /\ elapsed = 0
    /\ tcall = [phase |-> "idle", cur |-> 1]

\* Mutant: is_active kept from the previous list.
ReloadKeepsActive(c) ==
    /\ tcall.phase = "idle"
    /\ store' = c
    /\ UNCHANGED active
    /\ elapsed' = 0
    /\ UNCHANGED <<mem, regs, cpsr, pc, saved, lockupPc, inUse, tcall>>

\* qmp_fault_reload with a file that parses to list c: is_active cleared,
\* the timer restarted; the statics of the lockup toggle are kept.
Reload(c) ==
    /\ tcall.phase = "idle"
    /\ store' = c
    /\ active' = [i \in 1..Len(c) |-> FALSE]
    /\ elapsed' = 0
    /\ UNCHANGED <<mem, regs, cpsr, pc, saved, lockupPc, inUse, tcall>>

Tick ==
    /\ tcall.phase = "idle"
    /\ elapsed < MaxTime
    /\ elapsed' = elapsed + 1
    /\ UNCHANGED <<store, active, mem, regs, cpsr, pc, saved, lockupPc,
                   inUse, tcall>>

\* The program executes: the pc moves to any code address.  (QEMU's
\* translated code, not under src/.)
Execute ==
    /\ tcall.phase = "idle"
    /\ pc' \in CodeAddr
    /\ UNCHANGED <<store, active, mem, regs, cpsr, saved, lockupPc, inUse,
                   elapsed, tcall>>

\* A content access completes a handler in between: address_in_use = 0.
GuardReset ==
    /\ tcall.phase = "idle"
    /\ inUse' = 0
    /\ UNCHANGED <<store, active, mem, regs, cpsr, pc, saved, lockupPc,
                   elapsed, tcall>>

\* fault_injection_controller_init(env, &pc, FI_TIME, ..): a pc equal to
\* address_in_use returns at once, otherwise the time path walks the list.
Checkpoint ==
    /\ tcall.phase = "idle"
    /\ tcall' = [phase |-> "loop",
                 cur |-> IF pc = inUse THEN Len(store) + 1 ELSE 1]
    /\ UNCHANGED <<store, active, mem, regs, cpsr, pc, saved, lockupPc,
                   inUse, elapsed>>

Visit == tcall.phase = "loop" /\ tcall.cur <= Len(store)
Cur == store[tcall.cur]
NextElem == tcall' = [tcall EXCEPT !.cur = @ + 1]

\* An element the loop passes over.
TimeSkip ==
    /\ Visit
    /\ TimeNoOp(Cur, pc)
    /\ NextElem
    /\ UNCHANGED <<store, active, mem, regs, cpsr, pc, saved, lockupPc,
                   inUse, elapsed>>

\* CPU / CONDITION FLAGS: set_fault_active, then, if the element is
\* active, do_inject_condition_flags(env, mode, set_bit).
FlagFault ==
    /\ Visit
    /\ ~TimeNoOp(Cur, pc) /\ TimeTarget(Cur) = "flags"
    /\ LET o == ActiveOutcome(Cur, elapsed, pc)
           a == ActiveAfter(o, active[tcall.cur])
       IN /\ o # "trap"
          /\ active' = [active EXCEPT ![tcall.cur] = a]
          /\ cpsr' = IF a THEN InjectFlag(cpsr, Cur.mode, FlagValue(Cur.set_bit))
                          ELSE cpsr
    /\ NextElem
    /\ UNCHANGED <<store, mem, regs, pc, saved, lockupPc, inUse, elapsed>>

\* CPU / INSTRUCTION DECODER|EXECUTION: set_fault_active, then, if the
\* element is active, do_inject_look_up_error(env, instruction).
LockupFault ==
    /\ Visit
    /\ ~TimeNoOp(Cur, pc) /\ TimeTarget(Cur) = "insn"
    /\ LET o == ActiveOutcome(Cur, elapsed, pc)
           a == ActiveAfter(o, active[tcall.cur])
       IN /\ o # "trap"
          /\ active' = [active EXCEPT ![tcall.cur] = a]
          /\ IF a THEN LookUpError(Cur.instruction)
                  ELSE UNCHANGED <<mem, saved, lockupPc>>
    /\ NextElem
    /\ UNCHANGED <<store, regs, cpsr, pc, inUse, elapsed>>

\* REGISTER / REGISTER CELL and RAM / MEMORY CELL|R/W LOGIC with mode
\* BIT-FLIP, NEW VALUE or SF: the handler bf, new_value or rs on the cell
\* reg_mem_addr = instruction.
CellTimeFault ==
    /\ Visit
    /\ ~TimeNoOp(Cur, pc) /\ TimeTarget(Cur) \in {"reg", "mem"}
    /\ LET f == Cur
           o == ModeOutcome(f, elapsed, pc)
       IN /\ o # "trap"
          /\ active' = [active EXCEPT ![tcall.cur] = ActiveAfter(o, @)]
          /\ IF o = "fire" /\ TimeTarget(f) = "reg"
             THEN regs' = [regs EXCEPT ![f.instruction] = RegAfter(f, @)]
             ELSE UNCHANGED regs
          /\ IF o = "fire" /\ TimeTarget(f) = "mem"
             THEN mem' = [mem EXCEPT ![f.instruction] = MemAfter(f, @)]
             ELSE UNCHANGED mem
    /\ NextElem
    /\ UNCHANGED <<store, cpsr, pc, saved, lockupPc, inUse, elapsed>>

\* The loop ends; the emulator resumes.
TimeFinish ==
    /\ tcall.phase = "loop" /\ tcall.cur > Len(store)
    /\ tcall' = [tcall EXCEPT !.phase = "idle"]
    /\ UNCHANGED <<store, active, mem, regs, cpsr, pc, saved, lockupPc,
                   inUse, elapsed>>

Next ==
    \/ \E c \in Campaigns : Reload(c)
    \/ Tick \/ Execute \/ GuardReset \/ Checkpoint
    \/ TimeSkip \/ FlagFault \/ LockupFault \/ CellTimeFault \/ TimeFinish

Spec == Init /\ [][Next]_vars

-----------------------------------------------------------------------------
(***************************************************************************)
(* Properties.                                                             *)
(***************************************************************************)

\* The replacement instructions of the campaigns' lockup faults.
LockupWordsOf ==
    UNION {{ToWord(c[i].instruction) : i \in {j \in DOMAIN c : TimeTarget(c[j]) = "insn"}} :
              c \in Campaigns}

\* The two statics seen as the specification's toggle: Engaged exactly
\* when saved_insn is not 0.
LT == INSTANCE LockupToggle
        WITH phase <- IF saved = {} THEN "armed" ELSE "engaged",
             at <- lockupPc, LockupWords <- LockupWordsOf

\* do_inject_look_up_error_arm, driven by every lockup fault of every
\* list through reloads, implements the two-phase toggle: a code word is
\* only ever replaced by a lockup instruction after the original was
\* saved, and written back, once, when the pc has left the lockup address.
LockupRefinement == LT!LSpec

\* When a time checkpoint ends, a lockup that is still engaged has the pc
\* on its address: the toggle has restored the original instruction once
\* the program moved past it (specification 4.4).
LockupRestoredOnLeave ==
    [][TimeFinish => (saved' # {} => pc' = lockupPc')]_vars

\* The architectural position of each condition flag in the CPSR.
ArmFlagBit(name) ==
    CASE name = "QF" -> 27 [] name = "VF" -> 28 [] name = "CF" -> 29
      [] name = "ZF" -> 30 [] OTHER -> 31

\* A condition-flag fault that fires with value 0 or 1 sets that flag,
\* and only that flag, to the value (do_inject_condition_flags).
ConditionFlagInjected ==
    [][(FlagFault /\ active'[tcall.cur]
        /\ Cur.mode \in FlagNames /\ FlagValue(Cur.set_bit) \in {0, 1})
       => LET b == ArmFlagBit(Cur.mode)
          IN /\ (b \in cpsr') = (FlagValue(Cur.set_bit) = 1)
             /\ cpsr' \ {b} = cpsr \ {b}
      ]_vars

=============================================================================
