---------------------------- MODULE LockupToggle ----------------------------
(***************************************************************************)
(* What the lockup primitive promises (injectLockup of the specification, *)
(* section 4.4 and the design note on the two-phase toggle): a machine    *)
(* with the two states Armed and Engaged, keyed by the lockup address.    *)
(* Engaging at the current pc saves the instruction word found there and  *)
(* replaces it by a lockup instruction; once the pc has moved past the    *)
(* lockup address, the saved word is written back and the machine is      *)
(* armed again.  Meanwhile the program moves the pc, and data words (not  *)
(* the code) may be changed by other faults.                              *)
(***************************************************************************)
EXTENDS FIWord

CONSTANTS
    Addr,         \* memory addresses
    CodeAddr,     \* the addresses of the program's instructions
    Programs,     \* the memory images the program can be loaded as
    LockupWords   \* the replacement instructions of the campaigns

VARIABLES
    mem,     \* memory words
    pc,      \* the program counter
    phase,   \* "armed" or "engaged"
    at,      \* the lockup address (meaningful when engaged)
    saved    \* the original instruction (meaningful when engaged)

lvars == <<mem, pc, phase, at, saved>>

LInit ==
    /\ mem \in Programs
    /\ pc \in CodeAddr
    /\ phase = "armed"
    /\ at \in {0} \cup CodeAddr
    /\ saved = {}

Engage(w) ==
    /\ phase = "armed"
    /\ phase' = "engaged"
    /\ at' = pc
    /\ saved' = mem[pc]
    /\ mem' = [mem EXCEPT ![pc] = w]
    /\ UNCHANGED pc

Restore ==
    /\ phase = "engaged"
    /\ pc # at
    /\ phase' = "armed"
    /\ mem' = [mem EXCEPT ![at] = saved]
    /\ saved' = {}
    /\ UNCHANGED <<pc, at>>

Move ==
    /\ pc' \in CodeAddr
    /\ UNCHANGED <<mem, phase, at, saved>>

DataWrite(a, w) ==
    /\ mem' = [mem EXCEPT ![a] = w]
    /\ UNCHANGED <<pc, phase, at, saved>>

LNext ==
    \/ \E w \in LockupWords : Engage(w)
    \/ Restore
    \/ Move
    \/ \E a \in Addr \ CodeAddr, w \in Word : DataWrite(a, w)

LSpec == LInit /\ [][LNext]_lvars

=============================================================================
