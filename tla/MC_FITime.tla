----------------------------- MODULE MC_FITime -----------------------------
(***************************************************************************)
(* Small instances of FITime for TLC.  Words have W = 2 bits, MW = 1.    *)
(* Addresses 0 and 1 hold the program's instructions, address 2 is data; *)
(* the registers r0..r2 start at 0.                                        *)
(***************************************************************************)
EXTENDS FITime, TLC

NS(n) == [n |-> n, unit |-> "NS"]

\* A fault record as parseFault builds it, with a window (0, 3) ns.  The
\* fields are listed in the order TLC keeps a record's fields in, so that
\* TLC never reorders a record value that two workers share.
TF(id, comp, tgt, mode, trig, type, addr, cf, mask, sb, insn) ==
    [id |-> id, mode |-> mode, type |-> type, mask |-> mask,
     component |-> comp, target |-> tgt, trigger |-> trig,
     timer |-> NS(0), duration |-> NS(3), interval |-> NS(1),
     address |-> addr, cf_address |-> cf, set_bit |-> sb,
     instruction |-> insn]

MCAddr == {0, 1, 2}
MCCodeAddr == {0, 1}

\* Instruction words that are not 0, and one program whose word at
\* address 0 is 0 (andeq r0, r0, r0: the padding word of ARM images).
Program == (0 :> {0}) @@ (1 :> {1}) @@ (2 :> {})
ZeroProgram == (0 :> {}) @@ (1 :> {1}) @@ (2 :> {})

\* Lockup instruction 3 (its low bits {0, 1}).
Lockup(type) ==
    TF(1, "CPU", "INSTRUCTION EXECUTION", "NEW VALUE", "TIME", type, -1, -1, {}, {}, 3)

\* A permanent lockup, a transient Z-flag fault, a permanent bit flip of
\* the data word, a pc-triggered stuck-at on r0, a new value whose
\* cf_address is code address 0, and an ACCESS fault to pass over.
TimeCampaign ==
    << Lockup("PERMANENT"),
       TF(2, "CPU", "CONDITION FLAGS", "ZF", "TIME", "TRANSIENT", -1, -1, {}, {0}, -1),
       TF(3, "RAM", "MEMORY CELL", "BIT-FLIP", "TIME", "PERMANENT", -1, -1, {0, 1}, {}, 2),
       TF(4, "REGISTER", "REGISTER CELL", "SF", "PC", "PERMANENT", 1, -1, {1}, {1}, 0),
       TF(5, "RAM", "R/W LOGIC", "NEW VALUE", "TIME", "PERMANENT", -1, 0, {1}, {}, 2),
       TF(6, "RAM", "MEMORY CELL", "BIT-FLIP", "ACCESS", "PERMANENT", 2, -1, {0}, {}, 2) >>

\* A transient lockup, a lockup of an unsupported mode, a pc-triggered
\* carry-flag reset and an intermittent new value of r1.
TimeCampaign2 ==
    << Lockup("TRANSIENT"),
       TF(2, "CPU", "INSTRUCTION DECODER", "BIT-FLIP", "TIME", "PERMANENT", -1, -1, {}, {}, 3),
       TF(3, "CPU", "CONDITION FLAGS", "CF", "PC", "TRANSIENT", 0, -1, {}, {}, -1),
       TF(4, "REGISTER", "REGISTER CELL", "NEW VALUE", "TIME", "INTERMITTEND", -1, -1, {0}, {}, 1) >>

TimeCampaigns == {TimeCampaign, TimeCampaign2}
PermanentLockupCampaigns == {<< Lockup("PERMANENT") >>}
TransientLockupCampaigns == {<< Lockup("TRANSIENT") >>}

ProgramSet == {Program}
ZeroProgramSet == {ZeroProgram}

\* Code at addresses 1 and 2, so that the pc never equals the 0 the
\* content path leaves in address_in_use.
HighCodeAddr == {1, 2}
HighProgramSet == {(0 :> {}) @@ (1 :> {1}) @@ (2 :> {0})}

\* A permanent fault setting N.
NFCampaigns ==
    {<< TF(1, "CPU", "CONDITION FLAGS", "NF", "TIME", "PERMANENT", -1, -1, {}, {0}, -1) >>}

=============================================================================
