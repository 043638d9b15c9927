# Formal models of the FIES fault-injection controller

FIES is a fault-injection framework built into QEMU. A configuration file
(XML), loaded through the monitor command `fault-reload`, describes a list of
faults. The emulator calls `fault_injection_controller_init` on every
monitored event: a memory or register read or write, an instruction fetch,
or a time checkpoint. For each event the controller decides which faults of
the list apply, and changes the accessed value, a cell, a condition flag or
an instruction.

## The system's parts

| Part | Source | How it interacts |
|---|---|---|
| Fault list and reload | `fault-injection-library.c` | `qmp_fault_reload` parses the file into the list of `struct Fault`, resets the virtual timer and the counters, and sizes the tables by `getMaxIDInFaultList`. |
| Activation counter | `fault-injection-data-analyzer.c` | `incr_num_injected_faults(id, category)` counts each id once (`id_array`); the six category counters sum to the total. |
| Trigger evaluator | controller 201-493 | `time_normalization` and the PC / TRANSIENT / INTERMITTEND / PERMANENT ladders of `bf`, `new_value`, `rs` and `set_fault_active`. |
| Cell operation history | controller 73-113, 1617-1666 | The last transition written (`OPs_xwy`) per fault id and low bit; the dynamic modes read it. |
| Single-cell modes | controller 250-1605 | BIT-FLIP, NEW VALUE, SF, TF, WDF, RDF, IRF, DRDF and the dynamic RDFxy, IRFxy, DRDFxy. |
| Coupling modes | controller 1682-3935 | CFST, CFDS, CFTR, CFWD, CFRD, CFIR, CFDR on an aggressor/victim pair of cells. |
| Dispatchers | controller 3936-4593, 4605-5010 | Memory and register content, memory and register address, instruction, and the time path. |
| Entry point | controller 5083-5150 | `fault_injection_controller_init`, with the re-entry guard `address_in_use`. |
| Injection primitives | `fault-injection-injector.c` | Bit flip, set/reset, new value, instruction replacement, condition flags, and the lockup toggle. |
| Collector, profiler | `fault-injection-collector.c`, `profiler.c` | Write access logs to files. |

The content path (a memory or register access) and the time path (a
checkpoint between translated blocks) share the fault list, `is_active`,
the cells and `address_in_use`. Both run on the vCPU thread; the monitor's
`fault-reload` runs under QEMU's global lock, which the vCPU holds while it
executes, so a reload happens between two controller calls, never inside one.

## Modules

- **FIWord**: machine words as sets of 1-bits (`W` the width, `MW` is
  `MEMORY_WIDTH`). `&`, `|`, `~`, `^` are set operators; the modes' merge
  `(fault_value & mask) | (value & ~mask)` is `Merge`; `Flip` and `SetReset`
  are the bf and rs primitives; `DebugRead`/`DebugWrite` are the
  `MEMORY_WIDTH/8`-byte `cpu_memory_rw_debug` accesses.
- **FITrigger**: the trigger and type ladders as pure operators. A handler
  ends in "fire", "idle", "skip" (unknown type, `is_active` kept) or "trap".
  `time_normalization` keeps its quirks: the stop time is scaled by the
  timer's unit, the interval always by `SCALE_MS`. A zero interval is a
  division by zero at controller line 345: the constant `DivByZeroTraps`
  says whether the host build traps (x86 SIGFPE) or yields 0 (aarch64).
- **FICoupling**: the value computations of the seven coupling modes, inter-
  and intra-cell, with their polarity tests (`Where`), victim bits and the
  place `new_value` writes the result (the buffer, the victim cell, or cell 0
  after the cfds intra loop).
- **FIEngine**: the content-access path. Variables: `store` (the list),
  `active` (`is_active`), `cells`, `hist` (`ops_on_*_cell`), `counted`
  (`id_array`), `injected`, `byCat` (the counters), `inUse`
  (`address_in_use`), `elapsed` (the timer), `call` (the call in progress).
  Actions: `Reload(c)`, `ReloadRejected` (the list is kept but counters and
  tables are still reset), `Tick`, `Access` (entry with its guard), one loop
  step per element (`SkipFault`, `MisconfiguredFault`, `ApplyFault`,
  `CouplingNotTriggered`, `ApplyCoupling`, each a whole handler with its early
  returns, merge, write-back, `is_active` and counting), and `FinishAccess`
  (QEMU stores or returns the value: modelled from the specification, that
  code is not under `src/`).
- **FITime**: the time path (controller 4343-4546, injector 135-260) behind
  the FI_TIME entry. Variables add `mem`, `regs`, `cpsr`, `pc`, and the
  function statics `saved` (`saved_insn`) and `lockupPc` (`lockup_pc`), which
  survive reloads. `Execute` (the guest runs and moves the pc: from the
  specification) and `GuardReset` (a content handler leaves `address_in_use`
  = 0) are the environment. `Checkpoint` is the entry guard; the loop steps
  are `TimeSkip` (ACCESS triggers, unsupported modes, the `cf_address == pc`
  continue), `FlagFault`, `LockupFault` (`set_fault_active` then
  `do_inject_look_up_error`), `CellTimeFault` (register and RAM bf /
  new_value / rs) and `TimeFinish`.
- **LockupToggle**: the abstract lockup primitive of the specification: a
  machine Armed/Engaged keyed by the lockup address that saves the original
  instruction, replaces it, and writes it back once the pc has moved on.
- **FIEngineProofs**, **FIEngineMaskProofs**, **FITimeProofs**: TLAPS proofs.
- **MC_FIEngine**, **MC_FITime**: the fault lists and programs of the runs.

## Runs

Words have W = 2 bits of which MW = 1 is tracked: a mask bit inside and one
outside the history/debug width. Content runs use addresses {0, 1} (0 is
the value `address_in_use` is reset to), `MaxTime = 2`, and fault windows
(0, 2) ns, which reach before, inside and after every TRANSIENT window. Each
run's constant `Campaigns` holds several lists so that reloads change the
list length and table sizes; they include duplicate ids, a misconfigured
`cf_address`, TIME- and PC-triggered faults the content path must skip,
every single-cell mode and every coupling mode. The time runs use three
addresses (two of code, one of data), registers r0..r2 and `MaxTime` 3.

| Run | Expect | What it shows |
|---|---|---|
| `memory` | pass | Memory accesses, single-cell, coupling and intermittent lists (one with interval "0NS", on a host where division by zero yields 0). `TypeOK`; `CountersConsistent` (the total equals the counted ids and the category sum); `AccessAltersOnlyMaskedBits` (apart from NEW VALUE, a completed access differs from the CPU's value only in bits a selected fault masks, however handlers compose); `DynamicFiresOnlyOnHistory`; `CouplingConfined` (a coupling fault changes its victim cell or value only in the bits its mode and aggressor allow). |
| `register` | pass | `CountersConsistent`, `AccessAltersOnlyMaskedBits`, `DynamicFiresOnlyOnHistory` and `CouplingConfined` for register accesses (whole words, no debug-width truncation), with an rs fault whose set_bit has a 1 outside its mask. |
| `guard_reset_skips` | violation | Handlers end with `address_in_use = 0` (line 956); the guard at 5092 then skips the whole list on every access to address 0, and a PERMANENT fault stays inactive. |
| `drdf_returned_value` | violation | DRDF writes the forced value to the cell but returns the unforced one (line 1229). |
| `coupling_victim_write` | violation | cfst on a write to the victim stores the victim's old bits whatever the aggressor holds (line 1931). |
| `cfds_intra_address_zero` | violation | The cfds intra loop sets `address_in_use = 0` and the result is written to cell 0, not the victim (line 2054). |
| `incorrect_read_persisted` | violation | A later cfrd/cfdr persists an earlier incorrect read into the cell (line 3910). |
| `zero_interval_crash` | violation | With a trapping host, an INTERMITTEND fault with interval 0 kills the emulator in its window: `AccessCompletes` fails (line 345). |
| `time_path` | pass | The time path over every reload sequence of two lists (a permanent and a transient lockup, flag, register and memory faults, unsupported modes): `TimeTypeOK`, and `LockupRefinement`: the `saved_insn`/`lockup_pc` statics implement `LockupToggle`. |
| `lockup_zero_insn` | violation | A lockup on an instruction word 0 (ARM padding) saves 0, the sentinel for "nothing saved": the next call saves the lockup word and the original is lost (injector 143). |
| `lockup_left_engaged` | violation | A transient lockup whose window closes (or a reload) leaves the lockup instruction in memory after the pc has moved on: the restore only runs while the fault is active (controller 4399). |
| `flag_nf` | violation | An NF fault writes bit 29, the carry flag, instead of bit 31 (injector 212). |

Each property of a passing run has a mutant in PROJECT.json, a plausible
bug in a mapped definition, that TLC catches under the run's own cfg.

Divergences seen while modelling and not kept as runs: a dynamic mode with a
mask bit above `MEMORY_WIDTH` forces that bit without history (line 1291);
`time_normalization` scales an interval of "1NS" to 10^6 ns (line 229), so
within any explorable clock bound an NS intermittent fault never reaches an
odd interval; and the time path's entry guard compares the pc with
`address_in_use` (line 5092), so a checkpoint at pc 0 after a content
access applies no time fault, the same root cause as `guard_reset_skips`.
The specification lists the first two as open questions (section 9).

**Fairness.** `FairSpec` is weak fairness on the steps of a controller call
(`LoopStep`). The call runs on the vCPU thread from entry to return and never
waits for another thread, so a step that stays enabled is eventually taken.
Nothing is assumed about the guest, the clock or reloads. Only the
`zero_interval_crash` run uses it: it shows a call that never returns
although every step that is enabled is taken.

## Proofs (tlapm)

- **`TypeCorrect`** (FIEngineProofs): `Spec => []TypeOK`. TypeOK is not
  inductive: it needs every id of the list to index `id_array` and the
  history tables, and coupling addresses to be cells, so the inductive
  invariant is `Inv == TypeOK /\ IdsInRange`, with one lemma per action and
  lemmas on the helpers (`LoggedHistType`, `FaultedValueWord`,
  `CouplingMergeWord`, `IncrInjectedType`, ...).
- **`CountersCorrect`** (FIEngineProofs): `Spec => []CountersConsistent`, from
  `Inv /\ CountersConsistent`: marking an unmarked id adds one element to the
  counted set (`FS_AddElement`) and one to a category; a reload empties both.
- **`TimeTypeCorrect`** (FITimeProofs): `Spec => []TimeTypeOK` for the time
  path, from the type invariant plus the fact that visited faults are list
  elements.
- **`LockupImplementsToggle`** (FITimeProofs): under two hypotheses,
  `CodeWordsNonZero` (no program has a code word 0: the `lockup_zero_insn`
  run shows why it is needed) and `MemFaultsOnData` (time-triggered RAM
  faults target data addresses), `Spec => LockupRefinement`. The refinement
  mapping is `phase = IF saved = {} THEN "armed" ELSE "engaged"`, `at =
  lockupPc`. Its inductive invariant `Engagement` says that when engaged
  `lockupPc` is a code address, and that every code word other than the
  engaged one is non-zero; it is needed because a step of the implementation
  maps to `Engage` only if the word it saves is non-zero. Each step maps to
  `Engage`, `Restore`, `Move`, `DataWrite` or a stutter (`NextRefines`).

- **`MaskedBitsOnly`** (FIEngineMaskProofs): under the hypothesis
  `SingleCellCampaigns` (no list a configuration parses to holds a coupling
  fault), `Spec => AccessAltersOnlyMaskedBits`. The property is a step
  formula (`MaskedOnlyStep`) about the completing step, but what it says is
  decided during the loop, so the inductive invariant `AInv` adds to `Inv`:
  `NoCouplingInStore` (the loaded list has no coupling fault), and `MaskInv`:
  while the loop runs and no selected fault is NEW VALUE, the value in
  flight, and for a read the accessed cell, differ from `call.orig` only in
  `SelMasks`, the union of the selected faults' masks. `AInv` implies
  `MaskedOnlyStep` in the state before the completing step. The argument per
  step: `Access` sets `val = orig` (and a read's `orig` is the cell);
  `ApplyFault` visits a selected fault, and by `MergeFlip`,
  `FaultedValueFlip` and `InjectCellFlip` its handler changes the value and
  the cell written back by rdf/drdf (only on reads: `ReadOnlyKinds`) only in
  that fault's mask, which `FlipTrans` adds to the earlier differences; the
  two-byte debug write keeps the cell's bits above `MEMORY_WIDTH`. The
  hypothesis is needed: a coupling handler merges onto the victim's content
  and writes cells other than the accessed one (see the
  `coupling_victim_write` run); with coupling lists the property is only
  model-checked.
The CASE expressions of the model have disjoint guards (or end in OTHER
after disjoint guards), as the code's `if`/`else if` chains are: a TLA+
CASE with two true guards denotes either arm, which TLC resolves to the
first and a proof cannot.

The assumptions are the ASSUMEs of FIEngine and FITime (well-typed fault
lists, ids in `1..getMaxIDInFaultList`, coupling and cell targets among the
model's cells, register targets r0..r14); TLC evaluates them on every run.

Only TLC checks `AccessAltersOnlyMaskedBits` for lists with coupling
faults, and the action properties `DynamicFiresOnlyOnHistory` and
`CouplingConfined`: neither holds for every campaign (a dynamic mask above
`MEMORY_WIDTH`, an earlier fault of the same call changing the value an rdf
writes back, and the coupling divergences of the violation runs break
them), so there is no theorem to state without hypotheses that would
restate the runs' campaigns. The liveness property `AccessCompletes` is
only model-checked (liveness and ENABLED are out of TLAPS's reach), and
only where it can fail: the `zero_interval_crash` run. On a host whose
division by zero does not trap every loop step is enabled, so the finite
loop completes by its shape under `WF_vars(LoopStep)`, and no passing run
checks it. `TypeOK` is checked by the memory run and proved for every
instance by `TypeCorrect`.

## Not modelled

- XML parsing and validation are abstracted to the set of lists a file can
  parse to; the detected-fault counter and input-file selection are not
  modelled (no property reads them).
- The memory-address, register-address and instruction (FI_INSN) paths, and
  the other entry modes of `fault_injection_controller_init`.
- On the time path: the activation counting, and register targets r15 and the
  CPSR (instruction field 15 and above).
- The collector, profiler, i.MX28 board devices and generated guest-agent
  types: I/O, or not part of the controller.
