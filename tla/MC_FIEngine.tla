---------------------------- MODULE MC_FIEngine ----------------------------
(***************************************************************************)
(* Small instances of FIEngine for TLC.  Words have W = 2 bits of which   *)
(* the low MW = 1 is MEMORY_WIDTH: enough for a mask bit inside and one  *)
(* outside the history and debug-access width.  Two addresses, 0 and 1,  *)
(* because 0 is the value the handlers leave in address_in_use.           *)
(***************************************************************************)
EXTENDS FIEngine

\* A timer string "<n>NS".
NS(n) == [n |-> n, unit |-> "NS"]

\* A fault record as parseFault builds it (params not in the file stay -1;
\* for the masks, -1 is not a value this model gives them).  The fields
\* are listed in the order TLC keeps a record's fields in, so that TLC
\* never reorders a record value that two workers share.
F(id, comp, tgt, fam, sel, trig, type, addr, cf, mask, sb) ==
    [id |-> id, type |-> type, mask |-> mask, component |-> comp,
     target |-> tgt, mode |-> [fam |-> fam, sel |-> sel], trigger |-> trig,
     timer |-> NS(0), duration |-> NS(2), interval |-> NS(1),
     address |-> addr, cf_address |-> cf, set_bit |-> sb]

\* Memory faults: a transition fault and a dynamic read disturb on cell 1,
\* a permanent bit flip on cell 0, and a time-triggered fault the content
\* path must pass over.
MemCampaign ==
    << F(1, "RAM", "MEMORY CELL", "TF", <<0>>, "ACCESS", "TRANSIENT", 1, -1, {1}, {}),
       F(2, "RAM", "MEMORY CELL", "RDF", <<0, 1>>, "ACCESS", "PERMANENT", 1, -1, {0}, {}),
       F(3, "RAM", "R/W LOGIC", "BIT-FLIP", <<>>, "ACCESS", "PERMANENT", 0, -1, {0, 1}, {}),
       F(4, "RAM", "MEMORY CELL", "NEW VALUE", <<>>, "TIME", "PERMANENT", 1, -1, {1}, {}) >>

\* Register faults: a write disturb and a deceptive read disturb on r1
\* coupled (by mistake) to r0, a dynamic incorrect read on r0, and a
\* stuck-at fault sharing id 1 with the write disturb.
RegCampaign ==
    << F(1, "REGISTER", "REGISTER CELL", "WDF", <<1>>, "ACCESS", "INTERMITTEND", 1, -1, {0, 1}, {}),
       F(2, "REGISTER", "REGISTER CELL", "DRDF", <<0>>, "ACCESS", "PERMANENT", 1, 0, {1}, {}),
       F(3, "REGISTER", "REGISTER CELL", "IRF", <<1, 0>>, "ACCESS", "TRANSIENT", 0, -1, {0}, {}),
       F(1, "REGISTER", "REGISTER CELL", "SF", <<>>, "ACCESS", "PERMANENT", 0, -1, {1}, {1}) >>

\* A second memory list: a deceptive dynamic read disturb with a higher id,
\* so that a reload changes the size of id_array and the history tables,
\* and an incorrect read on cell 0 whose mask leaves bit 0 alone.
MemCampaign2 ==
    << F(5, "RAM", "MEMORY CELL", "DRDF", <<0, 0>>, "ACCESS", "PERMANENT", 1, -1, {0}, {}),
       F(2, "RAM", "MEMORY CELL", "IRF", <<0>>, "ACCESS", "TRANSIENT", 0, -1, {1}, {}) >>

MemCampaigns == {MemCampaign, MemCampaign2}
\* A second register list: a read disturb that writes bit 0 of r0 back, a transition
\* fault and a new value on r1, a dynamic read disturb on r1 and a
\* pc-triggered fault the content path must pass over.
RegCampaign2 ==
    << F(1, "REGISTER", "REGISTER CELL", "RDF", <<0>>, "ACCESS", "TRANSIENT", 0, -1, {0}, {}),
       F(2, "REGISTER", "REGISTER CELL", "TF", <<1>>, "ACCESS", "PERMANENT", 1, -1, {0}, {}),
       F(3, "REGISTER", "REGISTER CELL", "RDF", <<1, 1>>, "ACCESS", "PERMANENT", 1, -1, {0}, {}),
       F(2, "REGISTER", "REGISTER CELL", "NEW VALUE", <<>>, "ACCESS", "TRANSIENT", 1, -1, {1}, {}),
       F(4, "REGISTER", "REGISTER CELL", "WDF", <<0>>, "PC", "PERMANENT", 0, -1, {1}, {}) >>

\* A stuck-at fault alone on r0 whose set_bit has a 1 outside the mask,
\* a bit rs must leave alone.
RegCampaign3 ==
    << F(1, "REGISTER", "REGISTER CELL", "SF", <<>>, "ACCESS", "PERMANENT", 0, -1, {1}, {0, 1}) >>

RegCampaigns == {RegCampaign, RegCampaign2, RegCampaign3}

\* Coupling faults on one space, the component/target pair given: an
\* inter-cell disturb coupling with aggressor 0 and victim 1, an
\* inter-cell transition coupling with the victim's mask above
\* MEMORY_WIDTH, an intra-cell write disturb coupling on cell 0 with
\* aggressor bit 1, and an inter-cell read disturb coupling the other way
\* round.
CouplingCampaign(comp, tgt) ==
    << F(1, comp, tgt, "CFDS", <<0, 0, 0>>, "ACCESS", "PERMANENT", 0, 1, {0}, {}),
       F(2, comp, tgt, "CFTR", <<1, 1>>, "ACCESS", "TRANSIENT", 0, 1, {0, 1}, {}),
       F(3, comp, tgt, "CFWD", <<0, 0>>, "ACCESS", "PERMANENT", 0, 0, {0, 1}, {1}),
       F(4, comp, tgt, "CFRD", <<1, 1>>, "ACCESS", "PERMANENT", 1, 0, {0}, {}) >>

\* The read couplings that differ from CFRD in where the value goes: an
\* inter-cell deceptive read disturb, an intra-cell read disturb on cell
\* 0 with aggressor bit 0, an intra-cell incorrect read on cell 1 with
\* aggressor bit 0 (after the deceptive read: see IncorrectReadPersisted),
\* and an intra-cell transition coupling sharing id 2.
CouplingCampaign2(comp, tgt) ==
    << F(2, comp, tgt, "CFDR", <<1, 0>>, "ACCESS", "INTERMITTEND", 0, 1, {0}, {}),
       F(3, comp, tgt, "CFRD", <<0, 1>>, "ACCESS", "PERMANENT", 0, 0, {1}, {0}),
       F(1, comp, tgt, "CFIR", <<1, 0>>, "ACCESS", "PERMANENT", 1, 1, {0, 1}, {0}),
       F(2, comp, tgt, "CFTR", <<0, 0>>, "ACCESS", "PERMANENT", 1, 1, {0, 1}, {1}) >>

RegCouplingCampaigns ==
    {CouplingCampaign("REGISTER", "REGISTER CELL"),
     CouplingCampaign2("REGISTER", "REGISTER CELL")}
MemCouplingCampaigns ==
    {CouplingCampaign("RAM", "MEMORY CELL"), CouplingCampaign2("RAM", "MEMORY CELL")}

\* A state coupling whose victim r1 is written: cfst builds the value
\* stored from the victim's old content.
VictimWriteCampaigns ==
    {<< F(1, "REGISTER", "REGISTER CELL", "CFST", <<1, 0>>, "ACCESS", "PERMANENT", 0, 1, {0}, {}) >>}

\* An intra-cell disturb coupling on r1 whose mask includes its aggressor
\* bit.
IntraDisturbCampaigns ==
    {<< F(1, "REGISTER", "REGISTER CELL", "CFDS", <<0, 0, 0>>, "ACCESS", "PERMANENT", 1, 1, {0, 1}, {1}) >>}

\* An intra-cell incorrect read on r1 followed in the list by a deceptive
\* read disturb coupling with victim r1.
PersistCampaigns ==
    {<< F(1, "REGISTER", "REGISTER CELL", "CFIR", <<1, 0>>, "ACCESS", "PERMANENT", 1, 1, {0, 1}, {0}),
        F(2, "REGISTER", "REGISTER CELL", "CFDR", <<1, 0>>, "ACCESS", "PERMANENT", 0, 1, {0}, {}) >>}

\* A time string "<n><unit>".
Str(n, u) == [n |-> n, unit |-> u]

\* A fault record with its own timer, duration and interval strings.
FT(f, timer, duration, interval) ==
    [f EXCEPT !.timer = timer, !.duration = duration, !.interval = interval]

\* Intermittent faults on r1: a bit flip whose strings carry a unit
\* time_normalization does not recognise (nothing is scaled, so the
\* interval of 1 makes the duty cycle turn within the clock bound), and a
\* transition fault whose interval is "0NS".
IntermittentCampaigns ==
    {<< FT(F(1, "REGISTER", "REGISTER CELL", "BIT-FLIP", <<>>, "ACCESS", "INTERMITTEND", 1, -1, {0}, {}),
           Str(0, "other"), Str(4, "other"), Str(1, "other")),
        FT(F(2, "REGISTER", "REGISTER CELL", "TF", <<0>>, "ACCESS", "INTERMITTEND", 1, -1, {1}, {}),
           NS(0), NS(4), NS(0)) >>}

\* The same two faults on memory cell 1.
MemIntermittentCampaigns ==
    {<< FT(F(1, "RAM", "MEMORY CELL", "BIT-FLIP", <<>>, "ACCESS", "INTERMITTEND", 1, -1, {0}, {}),
           Str(0, "other"), Str(4, "other"), Str(1, "other")),
        FT(F(2, "RAM", "MEMORY CELL", "TF", <<0>>, "ACCESS", "INTERMITTEND", 1, -1, {1}, {}),
           NS(0), NS(4), NS(0)) >>}

\* The lists of the memory and of the register run: the single-cell
\* lists and the coupling lists (and, for memory, the intermittent list
\* with its zero interval), so that a reload may switch between them.
MemoryCampaigns == MemCampaigns \cup MemCouplingCampaigns \cup MemIntermittentCampaigns
RegisterCampaigns == RegCampaigns \cup RegCouplingCampaigns

MemSpace == {"mem"}
RegSpace == {"reg"}
MCAddr == {0, 1}

=============================================================================
