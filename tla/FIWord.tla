------------------------------- MODULE FIWord -------------------------------
(***************************************************************************)
(* Machine words of the fault-injection controller, as the sets of their  *)
(* 1-bits.  A cell, a register, a fault mask and a fault value are all     *)
(* unsigned words of W bits; the C operators the controller uses on them   *)
(* become set operators: & is \cap, | is \cup, ~ is the complement in      *)
(* Bits and ^ is the symmetric difference.  MW is MEMORY_WIDTH of          *)
(* fault-injection-config.h: the width of the per-bit operation history    *)
(* and of the debug accesses cpu_memory_rw_debug(.., MEMORY_WIDTH/8, ..)   *)
(* the handlers make to memory, which is smaller than the word.           *)
(***************************************************************************)
EXTENDS Integers, FiniteSets

CONSTANTS
    W,      \* width of a word (uint32_t in the code)
    MW      \* MEMORY_WIDTH

ASSUME WidthAssumption == W \in Nat \ {0} /\ MW \in 1..W

Bits == 0..(W - 1)
Word == SUBSET Bits
TrackedBits == 0..(MW - 1)

\* ~v
Not(v) == Bits \ v

\* v ^ m: what the bit-flip loop of fault_injection_controller_bf does to
\* the accessed value, one set bit of the mask at a time.
Flip(v, m) == (v \ m) \cup (m \ v)

\* Mutant: set_bit is or-ed in whole, not only at the bits of the mask.
SetResetUnmasked(v, m, s) == (v \ m) \cup s

\* The stuck-at update of fault_injection_controller_rs: the masked bits
\* take the value of the fault's set_bit, the others are kept.
SetReset(v, m, s) == (v \ m) \cup (m \cap s)

\* (fault_value & mask) | (value & ~mask): the merge every TF, WDF, RDF,
\* IRF and DRDF handler stores in fault->params.mask before it calls
\* fault_injection_controller_new_value.
\* Mutant: the fault value not masked before it is or-ed in.
MergeUnmasked(fv, m, v) == fv \cup (v \ m)

Merge(fv, m, v) == (fv \cap m) \cup (v \ m)

\* cpu_memory_rw_debug(cpu, addr, membytes, MEMORY_WIDTH / 8, 0) into a
\* zeroed word: only the low MEMORY_WIDTH bits of the cell are read.
DebugRead(c) == c \cap TrackedBits

\* cpu_memory_rw_debug(cpu, addr, bytes, MEMORY_WIDTH / 8, 1): the low
\* MEMORY_WIDTH bits of the cell are replaced, the others are kept.
DebugWrite(c, v) == (c \ TrackedBits) \cup (v \cap TrackedBits)

(***************************************************************************)
(* The enum CellOps: the operation last applied to one bit of a cell, a   *)
(* write of y onto a bit holding x is OPs_xwy = 2 * x + y.  NoOp is the   *)
(* -1 init_ops_on_cell puts in every entry.                                *)
(***************************************************************************)
NoOp == -1
CellOps == 0..3
Bit(b, v) == IF b \in v THEN 1 ELSE 0
Op(x, y) == 2 * x + y

=============================================================================
