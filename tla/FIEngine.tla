------------------------------ MODULE FIEngine ------------------------------
(***************************************************************************)
(* The content-access path of the fault-injection controller: the fault   *)
(* list loaded by qmp_fault_reload, the memory and register cells, the    *)
(* per-fault operation history, the activation counter and the re-entry  *)
(* guard address_in_use, driven by fault_injection_controller_init for    *)
(* FI_MEMORY_CONTENT and FI_REGISTER_CONTENT accesses.                    *)
(*                                                                         *)
(* An access is a call of the controller from the emulator's load/store   *)
(* hook on the vCPU thread.  Its loop over the fault list is one step per *)
(* list element (SkipFault, MisconfiguredFault or ApplyFault), so that    *)
(* the order in which the elements see and change the accessed value is  *)
(* explicit; FinishAccess is the emulator completing the access with the  *)
(* value the loop left.  A handler that divides by zero on a trapping    *)
(* host takes no step: the process is gone and the access never          *)
(* completes.  Reloads and the virtual clock only move between            *)
(* two accesses: the monitor command runs under the global lock the vCPU *)
(* thread holds while it executes.                                        *)
(***************************************************************************)
EXTENDS Integers, Sequences, FiniteSets, FIWord, FICoupling, FITrigger

CONSTANTS
    Spaces,     \* the cells: "mem" (memory) and/or "reg" (registers)
    Addr,       \* the cell addresses / register numbers accessed
    Campaigns,  \* the fault lists a configuration file can parse to
    MaxTime,    \* bound on the virtual clock (ns since the last reload)
    NoAddr      \* UINT64_MAX, the initial value of address_in_use

Kinds == {"read", "write"}

\* The six counters of fault-injection-data-analyzer.c, named by the
\* strings incr_num_injected_faults compares its argument with: a
\* component ("ram", "cpu", "reg") and a permanence ("trans", "perm"),
\* "ram trans" being <<"ram", "trans">>.
Categories == {"ram", "cpu", "reg"} \X {"trans", "perm"}

\* The fault modes of this path: a family and the digits that follow it
\* ("TF0" is [fam |-> "TF", sel |-> <<0>>], "RDF01" is
\* [fam |-> "RDF", sel |-> <<0, 1>>]).
Modes == [fam : STRING, sel : Seq({0, 1})]

\* struct Fault with its struct parameters (int fields).  The id, the
\* strings and the masks are what parseFault made of the XML element.
Fault == [id : Nat \ {0}, component : STRING, target : STRING,
          mode : Modes, trigger : STRING, type : STRING,
          timer : TimeStr, duration : TimeStr, interval : TimeStr,
          address : Int, cf_address : Int, mask : Word, set_bit : Word]

\* getMaxIDInFaultList: the largest id of the list, 0 for an empty list.
GetMaxId(s) ==
    IF s = <<>> THEN 0
    ELSE CHOOSE m \in {s[i].id : i \in DOMAIN s} :
            \A i \in DOMAIN s : s[i].id <= m

ASSUME SpacesAssumption == Spaces \subseteq {"mem", "reg"} /\ Spaces # {}
ASSUME AddrAssumption == Addr \subseteq Nat /\ Addr # {} /\ NoAddr \notin Nat
ASSUME TimeAssumption == MaxTime \in Nat
\* A campaign is a list of fault records; every id indexes the tables
\* init_id_array and init_ops_on_cell size by getMaxIDInFaultList, and
\* the aggressor and victim of every coupling fault are cells of the model
\* (the parser's -1 for a missing cf_address is not given to one).
ASSUME CampaignAssumption ==
    \A c \in Campaigns :
        /\ c \in Seq(Fault)
        /\ GetMaxId(c) \in Nat
        /\ \A i \in DOMAIN c : c[i].id \in 1..GetMaxId(c)
        /\ \A i \in DOMAIN c : IsCoupling(c[i]) => {c[i].address, c[i].cf_address} \subseteq Addr

VARIABLES
    store,      \* the fault list (head ... curr), in list order
    active,     \* is_active of each list element
    cells,      \* memory words and CPU registers
    hist,       \* ops_on_memory_cell / ops_on_register_cell
    counted,    \* id_array: the ids already counted
    injected,   \* num_injected_faults
    byCat,      \* num_injected_faults_ram_trans ... _register_perm
    inUse,      \* address_in_use
    elapsed,    \* fault_injection_controller_getTimer()
    call        \* the controller call in progress

vars == <<store, active, cells, hist, counted, injected, byCat, inUse,
          elapsed, call>>

IdleCall ==
    [phase |-> "idle", space |-> CHOOSE s \in Spaces : TRUE, kind |-> "read",
     addr |-> CHOOSE a \in Addr : TRUE, val |-> {}, orig |-> {}, cur |-> 1]

\* The controller call in progress, or the last one completed.
CallType == [phase : {"idle", "loop"}, space : Spaces, kind : Kinds,
             addr : Addr, val : Word, orig : Word, cur : Nat \ {0}]

TypeOK ==
    /\ store \in Seq(Fault)
    /\ active \in [1..Len(store) -> BOOLEAN]
    /\ cells \in [Spaces -> [Addr -> Word]]
    /\ hist \in [Spaces -> [1..GetMaxId(store) -> [Bits -> CellOps \cup {NoOp}]]]
    /\ counted \in [1..GetMaxId(store) -> BOOLEAN]
    /\ injected \in Nat
    /\ byCat \in [Categories -> Nat]
    /\ inUse \in Addr \cup {0, NoAddr}
    /\ elapsed \in 0..MaxTime
    /\ call \in CallType
    /\ call.phase = "loop" => call.cur <= Len(store) + 1

-----------------------------------------------------------------------------
(***************************************************************************)
(* Helpers translated from the handlers.                                   *)
(***************************************************************************)

\* The dispatcher's filter: the accessed address is the fault's address
\* or its coupling address, the trigger is neither TIME nor PC, and the
\* component/target pair belongs to the accessed space.
CellFault(f, sp) ==
    IF sp = "mem"
    THEN f.component = "RAM" /\ f.target \in {"MEMORY CELL", "R/W LOGIC"}
    ELSE f.component = "REGISTER" /\ f.target = "REGISTER CELL"
Matches(f, sp, a) ==
    /\ f.address = a \/ f.cf_address = a
    /\ f.trigger \notin {"TIME", "PC"}
    /\ CellFault(f, sp)

\* The old content a handler reads: two bytes of memory through
\* cpu_memory_rw_debug, the whole register through read_cpu_register.
OldContent(sp, c) == IF sp = "mem" THEN DebugRead(c) ELSE c

\* do_inject_memory_register with access_triggered_content_fault = 0 and
\* new_value = 1: a two-byte debug write, or env->regs[n] = bit_value.
InjectCell(sp, c, v) == IF sp = "mem" THEN DebugWrite(c, v) ELSE v

\* log_cell_operations_memory / _register on a write: every bit of the
\* fault's mask records the transition from the cell's bit to the bit
\* being written.
LoggedRow(row, f, old, v) ==
    [b \in DOMAIN row |-> IF b \in f.mask THEN Op(Bit(b, old), Bit(b, v))
                                          ELSE row[b]]

\* The fault_value loop of the dynamic handlers: over the MEMORY_WIDTH
\* low bits, a bit whose history is OPs_xwy is forced (to 1 for y = 0,
\* to 0 for y = 1), the others pass the accessed value through; the bits
\* above MEMORY_WIDTH are left 0.
\* Mutant: the pass-through branch forgotten, bits without the logged
\* transition left 0.
DynValueNoPass(row, x, y, v) ==
    {b \in TrackedBits : row[b] = Op(x, y) /\ y = 0}

DynValue(row, x, y, v) ==
    {b \in TrackedBits : IF row[b] = Op(x, y) THEN y = 0 ELSE b \in v}

\* fault_value of the TF, WDF, RDF, IRF and DRDF handlers.
FaultValue(f, old, v, row) ==
    LET s == f.mode.sel IN
    CASE f.mode.fam = "TF"  -> IF s[1] = 0 THEN old \cup v ELSE old \cap v
      [] f.mode.fam = "WDF" -> IF s[1] = 0 THEN Not(old \ v) ELSE v \ old
      [] f.mode.fam \notin {"TF", "WDF"} /\ Len(s) = 2 -> DynValue(row, s[1], s[2], v)
      [] OTHER              -> IF s[1] = 0 THEN Bits ELSE {}

\* The early return on the wrong access kind.
KindFits(f, k) ==
    CASE f.mode.fam \in {"TF", "WDF"}         -> k = "write"
      [] f.mode.fam \in {"RDF", "IRF", "DRDF"} -> k = "read"
      [] OTHER                                 -> TRUE

\* Handlers that set address_in_use and reset it to 0 on every exit.
ResetsGuard(f) == f.mode.fam \notin {"BIT-FLIP", "NEW VALUE", "SF"}

\* bf and rs count once per set bit of the mask, the others once.
Countable(f) == f.mode.fam \in {"BIT-FLIP", "SF"} => f.mask # {}

\* The accessed value after a fired handler.
FaultedValue(f, nv, v) ==
    CASE f.mode.fam = "BIT-FLIP"  -> Flip(v, f.mask)
      [] f.mode.fam = "NEW VALUE" -> f.mask
      [] f.mode.fam = "SF"        -> SetReset(v, f.mask, f.set_bit)
      [] f.mode.fam = "DRDF"      -> v
      [] OTHER                    -> nv

\* The string incr_num_injected_faults receives from the content path.
Category(sp, sx) == <<IF sp = "mem" THEN "ram" ELSE "reg", sx>>

\* Mutant: id_array not consulted, a fault counted on every injection.
IncrInjectedTwice(id, cat) ==
    /\ counted' = [counted EXCEPT ![id] = TRUE]
    /\ injected' = injected + 1
    /\ byCat' = [byCat EXCEPT ![cat] = @ + 1]

\* incr_num_injected_faults(id, cat).
IncrInjected(id, cat) ==
    IF counted[id]
    THEN UNCHANGED <<counted, injected, byCat>>
    ELSE /\ counted' = [counted EXCEPT ![id] = TRUE]
         /\ injected' = injected + 1
         /\ byCat' = [byCat EXCEPT ![cat] = @ + 1]

-----------------------------------------------------------------------------
(***************************************************************************)
(* Actions.                                                                *)
(***************************************************************************)

Init ==
    /\ store = <<>>
    /\ active = <<>>
    /\ cells \in [Spaces -> [Addr -> Word]]
    /\ hist = [sp \in Spaces |-> <<>>]
    /\ counted = <<>>
    /\ injected = 0
    /\ byCat = [c \in Categories |-> 0]
    /\ inUse = NoAddr
    /\ elapsed = 0
    /\ call = IdleCall

\* The part of qmp_fault_reload common to a loaded and a rejected file:
\* the clock and the counters restart, and id_array and the history tables
\* are allocated afresh for the ids of the list that is now loaded.
\* Mutant: id_array allocated one entry short of getMaxIDInFaultList.
ResetTablesShort(s) ==
    /\ elapsed' = 0
    /\ injected' = 0
    /\ byCat' = [c \in Categories |-> 0]
    /\ counted' = [i \in 1..(GetMaxId(s) - 1) |-> FALSE]
    /\ hist' = [sp \in Spaces |-> [i \in 1..GetMaxId(s) |-> [b \in Bits |-> NoOp]]]

ResetTables(s) ==
    /\ elapsed' = 0
    /\ injected' = 0
    /\ byCat' = [c \in Categories |-> 0]
    /\ counted' = [i \in 1..GetMaxId(s) |-> FALSE]
    /\ hist' = [sp \in Spaces |-> [i \in 1..GetMaxId(s) |-> [b \in Bits |-> NoOp]]]

\* qmp_fault_reload of a file parseFile accepts: the old list is deleted
\* and the new one built with every is_active = 0.
Reload(c) ==
    /\ call.phase = "idle"
    /\ store' = c
    /\ active' = [i \in 1..Len(c) |-> FALSE]
    /\ ResetTables(c)
    /\ UNCHANGED <<cells, inUse, call>>

\* qmp_fault_reload of a file parseFile rejects (not XML, no root, root
\* not <injection>): parseFile returns -1 before it deletes anything, so
\* the old list stays with its is_active flags.
ReloadRejected ==
    /\ call.phase = "idle"
    /\ ResetTables(store)
    /\ UNCHANGED <<store, active, cells, inUse, call>>

\* The virtual clock advances between two accesses.
Tick ==
    /\ call.phase = "idle"
    /\ elapsed < MaxTime
    /\ elapsed' = elapsed + 1
    /\ UNCHANGED <<store, active, cells, hist, counted, injected, byCat,
                   inUse, call>>

\* fault_injection_controller_init for FI_MEMORY_CONTENT (sp = "mem") or
\* FI_REGISTER_CONTENT (sp = "reg"): a read brings the cell's content, a
\* write the value about to be stored.  An access to address_in_use
\* returns at once, which the model expresses by starting the loop past
\* the end of the list.
Access(sp, k, a, v) ==
    /\ call.phase = "idle"
    /\ k = "read" => v = cells[sp][a]
    /\ call' = [phase |-> "loop", space |-> sp, kind |-> k, addr |-> a,
                val |-> v, orig |-> v,
                cur |-> IF a = inUse THEN Len(store) + 1 ELSE 1]
    /\ UNCHANGED <<store, active, cells, hist, counted, injected, byCat,
                   inUse, elapsed>>

Next1 == [call EXCEPT !.cur = @ + 1]

\* One iteration of the dispatcher loop on an element that the address,
\* trigger and component/target filter passes over.
SkipFault ==
    /\ call.phase = "loop"
    /\ call.cur <= Len(store)
    /\ ~Matches(store[call.cur], call.space, call.addr)
    /\ call' = Next1
    /\ UNCHANGED <<store, active, cells, hist, counted, injected, byCat,
                   inUse, elapsed>>

\* The history a write logs for the element being visited.
LoggedHist ==
    LET f == store[call.cur]
        sp == call.space
    IN IF call.kind = "write"
       THEN [hist EXCEPT ![sp][f.id] =
                LoggedRow(@, f, OldContent(sp, cells[sp][call.addr]), call.val)]
       ELSE hist

\* An element that passes the filter but is a single-cell mode whose
\* cf_address is the accessed address: the history is logged, then the
\* "CF address defined without CF-mode" error and continue.
MisconfiguredFault ==
    /\ call.phase = "loop"
    /\ call.cur <= Len(store)
    /\ Matches(store[call.cur], call.space, call.addr)
    /\ ~IsCoupling(store[call.cur])
    /\ store[call.cur].cf_address = call.addr
    /\ hist' = LoggedHist
    /\ call' = Next1
    /\ UNCHANGED <<store, active, cells, counted, injected, byCat, inUse,
                   elapsed>>

\* An element that passes the filter: log the history, then run the
\* mode's handler (bf, new_value, rs, tf, wdf, rdf, irf, drdf and their
\* dynamic variants) on the accessed value.
ApplyFault ==
    /\ call.phase = "loop"
    /\ call.cur <= Len(store)
    /\ Matches(store[call.cur], call.space, call.addr)
    /\ ~IsCoupling(store[call.cur])
    /\ store[call.cur].cf_address # call.addr
    /\ LET i == call.cur
           f == store[i]
           sp == call.space
           v == call.val
           cell == cells[sp][call.addr]
           o == IF KindFits(f, call.kind) THEN ModeOutcome(f, elapsed, 0)
                                          ELSE "none"
           nv == Merge(FaultValue(f, OldContent(sp, cell), v,
                                  LoggedHist[sp][f.id]), f.mask, v)
           writesCell ==
               \/ f.mode.fam = "RDF" /\ o # "none" /\ ActiveAfter(o, active[i])
               \/ f.mode.fam = "DRDF" /\ o = "fire"
       IN /\ o # "trap"
          /\ hist' = LoggedHist
          /\ active' = [active EXCEPT ![i] = ActiveAfter(o, @)]
          /\ cells' = IF writesCell
                      THEN [cells EXCEPT ![sp][call.addr] = InjectCell(sp, cell, nv)]
                      ELSE cells
          /\ call' = [Next1 EXCEPT !.val = IF o = "fire"
                                           THEN FaultedValue(f, nv, v) ELSE v]
          /\ inUse' = IF ResetsGuard(f) THEN 0 ELSE inUse
          /\ IF o = "fire" /\ Countable(f)
             THEN IncrInjected(f.id, Category(sp, ModeSuffix(f)))
             ELSE UNCHANGED <<counted, injected, byCat>>
    /\ UNCHANGED <<store, elapsed>>

\* A coupling fault the filter passes but whose accessed cell cannot
\* trigger it: the history is logged, then continue.
CouplingNotTriggered ==
    /\ call.phase = "loop"
    /\ call.cur <= Len(store)
    /\ Matches(store[call.cur], call.space, call.addr)
    /\ IsCoupling(store[call.cur])
    /\ CouplingSkips(store[call.cur], call.addr)
    /\ hist' = LoggedHist
    /\ call' = Next1
    /\ UNCHANGED <<store, active, cells, counted, injected, byCat, inUse,
                   elapsed>>

\* A coupling fault the accessed cell triggers: log the history, then run
\* cfst (direction 0 when the victim is accessed), cfds, cftr, cfwd, cfrd,
\* cfir or cfdr.  The aggressor and victim cells are read as the handlers
\* read them (two bytes of memory, the whole register); new_value, with
\* its trigger ladder, puts the merged value into the accessed value
\* and/or the cells the handler names, counts the fault and sets
\* is_active; every exit leaves address_in_use = 0.
ApplyCoupling ==
    /\ call.phase = "loop"
    /\ call.cur <= Len(store)
    /\ Matches(store[call.cur], call.space, call.addr)
    /\ IsCoupling(store[call.cur])
    /\ ~CouplingSkips(store[call.cur], call.addr)
    /\ LET i == call.cur
           f == store[i]
           sp == call.space
           acc == call.val
           ga == OldContent(sp, cells[sp][f.address])
           vc == OldContent(sp, cells[sp][f.cf_address])
           d == IF f.cf_address = call.addr THEN 0 ELSE 1
           h == CouplingHandler(f, sp, d, call.kind, acc, ga, vc)
           o == IF h.ready THEN ModeOutcome(f, elapsed, 0) ELSE "none"
           nv == Merge(h.fv, f.mask, CouplingBase(f, acc, vc))
       IN /\ o # "trap"
          /\ hist' = LoggedHist
          /\ active' = [active EXCEPT ![i] = ActiveAfter(o, @)]
          /\ cells' = [cells EXCEPT ![sp] =
                          [c \in Addr |-> IF o = "fire" /\ c \in h.at
                                          THEN InjectCell(sp, cells[sp][c], nv)
                                          ELSE cells[sp][c]]]
          /\ call' = [Next1 EXCEPT !.val = IF o = "fire" /\ h.val THEN nv ELSE acc]
          /\ inUse' = 0
          /\ IF o = "fire"
             THEN IncrInjected(f.id, Category(sp, ModeSuffix(f)))
             ELSE UNCHANGED <<counted, injected, byCat>>
    /\ UNCHANGED <<store, elapsed>>

\* The emulator completes the access: a write stores the value the loop
\* left, a read returns it to the CPU.
FinishAccess ==
    /\ call.phase = "loop"
    /\ call.cur > Len(store)
    /\ cells' = IF call.kind = "write"
                THEN [cells EXCEPT ![call.space][call.addr] = call.val]
                ELSE cells
    /\ call' = [call EXCEPT !.phase = "idle"]
    /\ UNCHANGED <<store, active, hist, counted, injected, byCat, inUse,
                   elapsed>>

Next ==
    \/ \E c \in Campaigns : Reload(c)
    \/ ReloadRejected
    \/ Tick
    \/ \E sp \in Spaces, k \in Kinds, a \in Addr, v \in Word : Access(sp, k, a, v)
    \/ SkipFault
    \/ MisconfiguredFault
    \/ ApplyFault
    \/ CouplingNotTriggered
    \/ ApplyCoupling
    \/ FinishAccess

Spec == Init /\ [][Next]_vars

\* The steps of a controller call, all on the vCPU thread.
LoopStep ==
    \/ SkipFault \/ MisconfiguredFault \/ ApplyFault
    \/ CouplingNotTriggered \/ ApplyCoupling \/ FinishAccess

\* The vCPU thread that entered fault_injection_controller_init runs it to
\* the end: the loop neither blocks nor waits for another thread, so a
\* call that can take its next step eventually takes it.
FairSpec == Spec /\ WF_vars(LoopStep)

-----------------------------------------------------------------------------
(***************************************************************************)
(* Properties.                                                             *)
(***************************************************************************)

\* A step that completes a controller call.
Completes == call.phase = "loop" /\ call'.phase = "idle"

\* The loop step that visits list element call.cur and moves on.
Visits == call.phase = "loop" /\ call.cur <= Len(store) /\ call'.cur = call.cur + 1

\* The list elements the dispatcher's filter selects for an access.
Selected(sp, a) == {i \in DOMAIN store : Matches(store[i], sp, a)}

IsDynamic(f) == f.mode.fam \in {"RDF", "IRF", "DRDF"} /\ Len(f.mode.sel) = 2

\* incr_num_injected_faults and id_array agree with one another across
\* every reload, accepted or rejected, and every fault list, duplicate ids
\* included: the total is the number of ids flagged as counted, and it is
\* the sum of the six per-category counters.
CountersConsistent ==
    /\ injected = Cardinality({i \in DOMAIN counted : counted[i]})
    /\ injected = byCat[<<"ram", "trans">>] + byCat[<<"ram", "perm">>]
                  + byCat[<<"cpu", "trans">>] + byCat[<<"cpu", "perm">>]
                  + byCat[<<"reg", "trans">>] + byCat[<<"reg", "perm">>]

\* Apart from a NEW VALUE fault (which replaces the whole word), the
\* faults of the content path only ever change bits of their masks: when
\* a call completes, the value delivered to the CPU or stored, and the
\* cell a read disturbed, differ from what the CPU read or wrote only in
\* bits some selected fault masks, however the tf/wdf/rdf/irf/drdf
\* handlers of several faults on one cell compose.
MaskedOnlyStep ==
    Completes =>
        LET sp == call.space
            a == call.addr
            changed == Flip(call.val, call.orig)
                       \cup (IF call.kind = "read"
                             THEN Flip(cells[sp][a], call.orig) ELSE {})
        IN (\A i \in Selected(sp, a) : store[i].mode.fam # "NEW VALUE")
              => changed \subseteq UNION {store[i].mask : i \in Selected(sp, a)}

\* Every step of every behaviour satisfies MaskedOnlyStep: no completed
\* access, memory or register, alters an unmasked bit.
AccessAltersOnlyMaskedBits == [][MaskedOnlyStep]_vars

\* A dynamic fault (RDFxy, IRFxy, DRDFxy) changes a bit of the value it
\* returns, or of the cell it disturbs, only if log_cell_operations last
\* recorded the transition xy for that bit of that fault; in particular
\* never a bit whose history is still -1 (never written).
DynamicFiresOnlyOnHistory ==
    [][(Visits /\ IsDynamic(store[call.cur])) =>
        LET f == store[call.cur]
            sp == call.space
            a == call.addr
        IN \A b \in Flip(call'.val, call.val) \cup Flip(cells'[sp][a], cells[sp][a]) :
              hist[sp][f.id][b] = Op(f.mode.sel[1], f.mode.sel[2])
      ]_vars

\* A PERMANENT fault is active whenever an access selects it: after every
\* completed call, each selected PERMANENT fault of a mode that applies to
\* the access kind has is_active set.  The re-entry guard address_in_use
\* is meant to suppress only re-entrant calls for the address in flight.
PermanentFaultActiveAfterAccess ==
    [][Completes =>
        \A i \in Selected(call.space, call.addr) :
            (/\ store[i].type = "PERMANENT"
             /\ store[i].cf_address # call.addr
             /\ KindFits(store[i], call.kind)) => active[i]
      ]_vars

\* A deceptive read disturb fault that fires returns to the CPU the
\* forced value it commits to the cell, on the masked bits the cell
\* write covers.
DeceptiveReadReturnsForced ==
    [][(Visits /\ store[call.cur].mode.fam = "DRDF" /\ cells' # cells) =>
        LET f == store[call.cur]
            sp == call.space
            covered == f.mask \cap (IF sp = "mem" THEN TrackedBits ELSE Bits)
        IN call'.val \cap covered = cells'[sp][call.addr] \cap covered
      ]_vars

\* The aggressor value a coupling fault's polarity digit x refers to: the
\* value written to or read from the aggressor when a CFST is triggered
\* by an access to it, the aggressor cell's content otherwise (CFDS's x
\* is the aggressor's value before the access).
AggressorSeen(f) ==
    IF f.mode.fam = "CFST" /\ call.addr = f.address /\ ~Intra(f)
    THEN call.val
    ELSE cells[call.space][f.address]

\* A coupling fault corrupts its victim and nothing else, and only the
\* victim bits it is about: when a list element with a coupling mode is
\* visited, no cell but the victim (cf_address) changes, and the victim
\* (the value delivered when the victim is the accessed cell, and the
\* victim cell) changes only in masked bits whose aggressor bit holds the
\* mode's first polarity digit (inter-cell), or only in masked bits that
\* are not aggressor-flag bits of set_bit (intra-cell).
CouplingConfined ==
    [][(Visits /\ IsCoupling(store[call.cur])) =>
        LET f == store[call.cur]
            sp == call.space
            v == f.cf_address
            changed == Flip(cells'[sp][v], cells[sp][v])
                       \cup (IF call.addr = v THEN Flip(call'.val, call.val) ELSE {})
            allowed == IF Intra(f) THEN VictimBits(f)
                       ELSE f.mask \cap Where(AggressorSeen(f), f.mode.sel[1])
        IN /\ \A c \in Addr \ {v} : cells'[sp][c] = cells[sp][c]
           /\ changed \subseteq allowed
      ]_vars

\* Every memory or register access the controller intercepts completes:
\* the emulator gets its value back and goes on.  A campaign, however
\* malformed, must never crash the hosting emulator; an INTERMITTEND fault
\* whose interval normalises to 0 divides by zero in the handler's window
\* test (controller line 345 and its copies).
AccessCompletes == call.phase = "loop" ~> call.phase = "idle"

=============================================================================
