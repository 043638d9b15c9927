----------------------------- MODULE FICoupling -----------------------------
(***************************************************************************)
(* The coupling fault handlers of fault-injection-controller.c (cfst,     *)
(* cfds, cftr, cfwd, cfrd, cfir, cfdr) as pure operators.  A coupling     *)
(* fault has an aggressor cell (params.address) and a victim cell         *)
(* (params.cf_address); they are the same cell for an intra-cell fault,   *)
(* whose mask bits in params.set_bit are then aggressor bits.             *)
(*                                                                         *)
(* Every handler computes a fault_value from the aggressor, the victim's  *)
(* content before the access and the value being accessed, with an early *)
(* return on the wrong access kind or (intra-cell) on an aggressor that    *)
(* does not meet the polarity precondition.  The 28 inter-cell formulas   *)
(* and the intra-cell loops all have one shape: the victim word keeps its *)
(* bits except a condition set C of bits, which are forced to 1           *)
(* ("v | C", written ForceBits(v, C, 0)) or to 0 ("v & ~C", ForceBits(v, C, 1)).  *)
(* A handler's result is a record:                                         *)
(*   ready - no early return was taken,                                    *)
(*   fv    - fault_value,                                                  *)
(*   val   - new_value is called on the accessed value (the buffer),       *)
(*   at    - the cells new_value writes directly (address_in_use).         *)
(*                                                                         *)
(* The mode digits are mode.sel: CFSTxy is <<x, y>>; CFDSxRyz and CFDSxWyz *)
(* are <<x, y, z>> (the handler and the dispatcher treat the R and W      *)
(* spellings of one digit string alike); the others are <<x, y>>.         *)
(***************************************************************************)
EXTENDS FIWord

CouplingFamilies == {"CFST", "CFDS", "CFTR", "CFWD", "CFRD", "CFIR", "CFDR"}

IsCoupling(f) == f.mode.fam \in CouplingFamilies

\* The bits of w that hold d.
Where(w, d) == {i \in Bits : Bit(i, w) = d}

\* fault_value |= C (z = 0) or fault_value &= ~C (z = 1).
ForceBits(v, c, z) == IF z = 0 THEN v \cup c ELSE v \ c

\* address == cf_address: aggressor and victim bits share one cell.
Intra(f) == f.address = f.cf_address

\* The mask bits the intra-cell loop may force: the others are skipped as
\* aggressor-bit flags.
VictimBits(f) == f.mask \ f.set_bit

(***************************************************************************)
(* CFST: state coupling.                                                   *)
(***************************************************************************)

\* Intra-cell early return: the aggressor bits must all be 0 (CFST0y) or
\* some must be 1 (CFST1y).
CFSTReady(f, g) ==
    IF f.mode.sel[1] = 0 THEN f.set_bit \cap g = {} ELSE f.set_bit \cap g # {}

\* Intra-cell loop from fault_value = memword_aggressor: a victim bit that
\* is 0 is set (y = 0), one that is 1 is cleared (y = 1).
CFSTIntra(f, g) == ForceBits(g, VictimBits(f) \cap Where(g, f.mode.sel[2]), f.mode.sel[2])

\* ~(a & ~v), a & v, a | v and ~a & v for 00, 01, 10, 11: the victim bits
\* whose aggressor bit is x are forced to 1 (y = 0) or 0 (y = 1).
CFSTInter(f, g, v) == ForceBits(v, Where(g, f.mode.sel[1]), f.mode.sel[2])

\* The aggressor word cfst works on.  Direction 1 (the aggressor was
\* accessed): the accessed value.  Direction 0 (the victim was accessed):
\* memword_aggressor starts as the accessed value, and the aggressor cell
\* is read over it; for memory only the low MEMORY_WIDTH bits are read.
CFSTAggressor(sp, d, acc, ga) ==
    CASE d = 1        -> acc
      [] d # 1 /\ sp = "mem" -> DebugWrite(acc, ga)
      [] OTHER        -> ga

\* Direction 0 hands the merged value to new_value with the buffer flag:
\* it becomes the accessed value.  Direction 1 writes the victim cell.
CFST(f, sp, d, k, acc, ga, vc) ==
    LET g == CFSTAggressor(sp, d, acc, ga)
    IN [ready |-> Intra(f) => CFSTReady(f, g),
        fv    |-> IF Intra(f) THEN CFSTIntra(f, g) ELSE CFSTInter(f, g, vc),
        val   |-> d = 0,
        at    |-> IF d = 1 THEN {f.cf_address} ELSE {}]

(***************************************************************************)
(* CFDS: disturb coupling.  b is the aggressor cell before the access, a  *)
(* the value being read or written, v the victim cell.                     *)
(***************************************************************************)

\* The bits whose aggressor value was x before the access and is y in it.
CFDSCond(f, b, a) == Where(b, f.mode.sel[1]) \cap Where(a, f.mode.sel[2])

\* 0W10, 0W11, 1W00 and 1W01 (an aggressor transition) return on a read;
\* the others fire on reads and writes alike.
CFDSKindFits(f, k) == f.mode.sel[1] # f.mode.sel[2] => k = "write"

\* Intra-cell loop from fault_value = memword_victim.
CFDSIntra(f, v) == ForceBits(v, VictimBits(f) \cap Where(v, f.mode.sel[3]), f.mode.sel[3])

\* Mutant: the aggressor's value before the access left out of the
\* condition.
CFDSInterNoBefore(f, b, a, v) == ForceBits(v, Where(a, f.mode.sel[2]), f.mode.sel[3])

\* (~b & ~a & ~v) | v, ~(~b & ~a & v) & v, ..., ~(b & ~a & v) & v.
CFDSInter(f, b, a, v) == ForceBits(v, CFDSCond(f, b, a), f.mode.sel[3])

\* new_value(&address_in_use) writes the victim cell; an intra-cell fault
\* also hands the value to the buffer.  The intra-cell loop sets
\* address_in_use = 0 on every mask bit that is an aggressor flag, and
\* nothing sets it back before that write.
CFDS(f, sp, d, k, acc, ga, vc) ==
    [ready |-> CFDSKindFits(f, k) /\ (Intra(f) => f.set_bit \subseteq CFDSCond(f, ga, acc)),
     fv    |-> IF Intra(f) THEN CFDSIntra(f, vc) ELSE CFDSInter(f, ga, acc, vc),
     val   |-> Intra(f),
     at    |-> IF Intra(f) /\ f.mask \cap f.set_bit # {} THEN {0} ELSE {f.cf_address}]

(***************************************************************************)
(* CFTR and CFWD: transition and write disturb coupling, on a write to    *)
(* the victim.  g is the aggressor cell, b the victim cell before the     *)
(* write, v the value written.                                             *)
(***************************************************************************)

\* Intra-cell early return: the aggressor bits must make the transition
\* ~y -> y (CFTR).
CFTRReady(f, b, v) ==
    f.set_bit \subseteq Where(b, 1 - f.mode.sel[2]) \cap Where(v, f.mode.sel[2])

\* Intra-cell loop from fault_value = *victim_value.
CFTRIntra(f, g, v) == ForceBits(v, VictimBits(f) \cap Where(g, f.mode.sel[1]), f.mode.sel[2])

\* ~(~g & ~b & v) & v, (~g & b & ~v) | v, ~(g & ~b & v) & v, (g & b & ~v) | v
\* for 01, 00, 11, 10.
CFTRInter(f, g, b, v) ==
    ForceBits(v, Where(g, f.mode.sel[1]) \cap Where(b, 1 - f.mode.sel[2]), f.mode.sel[2])

CFTR(f, sp, d, k, acc, ga, vc) ==
    [ready |-> k = "write" /\ (Intra(f) => CFTRReady(f, vc, acc)),
     fv    |-> IF Intra(f) THEN CFTRIntra(f, ga, acc) ELSE CFTRInter(f, ga, vc, acc),
     val   |-> TRUE,
     at    |-> {}]

\* Intra-cell early return: the aggressor bits must hold y and be written
\* with y (CFWD).
CFWDReady(f, b, v) ==
    f.set_bit \subseteq Where(b, f.mode.sel[2]) \cap Where(v, f.mode.sel[2])

\* (~g & ~b & ~v) | v, ~(~g & b & v) & v, (g & ~b & ~v) | v, ~(g & b & v) & v
\* for 00, 01, 10, 11.
CFWDInter(f, g, b, v) ==
    ForceBits(v, Where(g, f.mode.sel[1]) \cap Where(b, f.mode.sel[2]), f.mode.sel[2])

\* The intra-cell loop of cfwd is the one of cftr.
CFWD(f, sp, d, k, acc, ga, vc) ==
    [ready |-> k = "write" /\ (Intra(f) => CFWDReady(f, vc, acc)),
     fv    |-> IF Intra(f) THEN CFTRIntra(f, ga, acc) ELSE CFWDInter(f, ga, vc, acc),
     val   |-> TRUE,
     at    |-> {}]

(***************************************************************************)
(* CFRD, CFIR and CFDR: read disturb, incorrect read and deceptive read   *)
(* disturb coupling, on a read of the victim.  g is the aggressor cell, v *)
(* the value read.  The three compute the same fault_value and differ in  *)
(* where new_value puts it.                                                *)
(***************************************************************************)

\* Intra-cell early return: the aggressor bits must read x.
ReadCouplingReady(f, v) == f.set_bit \subseteq Where(v, f.mode.sel[1])

\* Intra-cell loop from fault_value = *victim_value.
ReadCouplingIntra(f, g, v) == ForceBits(v, VictimBits(f) \cap Where(g, f.mode.sel[2]), f.mode.sel[2])

\* Mutant: the aggressor's polarity inverted (a ~ dropped or added).
ReadCouplingInterInverted(f, g, v) == ForceBits(v, Where(g, 1 - f.mode.sel[1]), f.mode.sel[2])

\* (~g & ~v) | v, ~(~g & v) & v, (g & ~v) | v, ~(g & v) & v.
ReadCouplingInter(f, g, v) == ForceBits(v, Where(g, f.mode.sel[1]), f.mode.sel[2])

ReadCoupling(f, k, acc, ga) ==
    [ready |-> k = "read" /\ (Intra(f) => ReadCouplingReady(f, acc)),
     fv    |-> IF Intra(f) THEN ReadCouplingIntra(f, ga, acc)
                           ELSE ReadCouplingInter(f, ga, acc)]

\* cfrd: the value read and the victim cell.
CFRD(f, sp, d, k, acc, ga, vc) ==
    LET r == ReadCoupling(f, k, acc, ga)
    IN [ready |-> r.ready, fv |-> r.fv, val |-> TRUE, at |-> {f.cf_address}]

\* cfir: the value read only.
CFIR(f, sp, d, k, acc, ga, vc) ==
    LET r == ReadCoupling(f, k, acc, ga)
    IN [ready |-> r.ready, fv |-> r.fv, val |-> TRUE, at |-> {}]

\* cfdr: the victim cell only; the reader gets the unforced value.
CFDR(f, sp, d, k, acc, ga, vc) ==
    LET r == ReadCoupling(f, k, acc, ga)
    IN [ready |-> r.ready, fv |-> r.fv, val |-> FALSE, at |-> {f.cf_address}]

(***************************************************************************)
(* The dispatcher's part.                                                  *)
(***************************************************************************)

CouplingHandler(f, sp, d, k, acc, ga, vc) ==
    CASE f.mode.fam = "CFST" -> CFST(f, sp, d, k, acc, ga, vc)
      [] f.mode.fam = "CFDS" -> CFDS(f, sp, d, k, acc, ga, vc)
      [] f.mode.fam = "CFTR" -> CFTR(f, sp, d, k, acc, ga, vc)
      [] f.mode.fam = "CFWD" -> CFWD(f, sp, d, k, acc, ga, vc)
      [] f.mode.fam = "CFRD" -> CFRD(f, sp, d, k, acc, ga, vc)
      [] f.mode.fam = "CFIR" -> CFIR(f, sp, d, k, acc, ga, vc)
      [] OTHER               -> CFDR(f, sp, d, k, acc, ga, vc)

\* The word the merge (fault_value & mask) | (X & ~mask) takes the
\* unmasked bits from: the victim cell as read for cfst and cfds, the
\* accessed value for the others.
CouplingBase(f, acc, vc) == IF f.mode.fam \in {"CFST", "CFDS"} THEN vc ELSE acc

\* The dispatcher's continue for a coupling fault whose accessed cell
\* cannot trigger it: the victim of an inter-cell CFDS (only the aggressor
\* triggers), the aggressor of an inter-cell CFTR/CFWD/CFRD/CFIR/CFDR
\* (only the victim triggers).  CFST triggers on either cell.
CouplingSkips(f, a) ==
    CASE f.mode.fam = "CFST" -> FALSE
      [] f.mode.fam = "CFDS" -> a = f.cf_address /\ ~Intra(f)
      [] OTHER               -> a = f.address /\ ~Intra(f)

=============================================================================
