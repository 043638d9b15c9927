------------------------------ MODULE FITrigger ------------------------------
(***************************************************************************)
(* When a fault of the list is active: the trigger and type ladders of    *)
(* fault-injection-controller.c.  A fault's timer, duration and interval  *)
(* strings ("<digits><unit>") are records [n, unit]: n is what           *)
(* timer_to_int's strtol returns (0 for a string shorter than 3           *)
(* characters), unit the last two characters, one of Units.               *)
(*                                                                         *)
(* Each handler ends in one of three outcomes: "fire" (inject, count,    *)
(* is_active = 1), "idle" (is_active = 0) or "skip" (the final            *)
(* else { return; } taken for an unknown or missing type, which leaves    *)
(* is_active as it was); or a fourth, "trap": the emulator process is     *)
(* killed by a division by zero inside the handler.                       *)
(***************************************************************************)
EXTENDS Naturals

CONSTANT
    DivByZeroTraps  \* the host build: an integer division by zero raises
                    \* SIGFPE (x86) rather than yielding 0 (aarch64 sdiv)

ASSUME DivAssumption == DivByZeroTraps \in BOOLEAN

Units == {"MS", "US", "NS", "other"}
TimeStr == [n : Nat, unit : Units]

SCALE_MS == 1000000
SCALE_US == 1000
SCALE_NS == 1

\* time_normalization: start and stop are both scaled by the unit of the
\* TIMER string (the duration's own unit is never looked at), the interval
\* is scaled by SCALE_MS whatever the unit, and an unrecognised unit
\* leaves all three unscaled.
TimerScale(f) ==
    CASE f.timer.unit = "MS" -> SCALE_MS
      [] f.timer.unit = "US" -> SCALE_US
      [] f.timer.unit = "NS" -> SCALE_NS
      [] OTHER               -> 1
StartTime(f) == f.timer.n * TimerScale(f)
StopTime(f) == f.duration.n * TimerScale(f)
IntervalTime(f) ==
    f.interval.n * (IF f.timer.unit \in {"MS", "US", "NS"} THEN SCALE_MS ELSE 1)

InWindow(f, t) == StartTime(f) < t /\ t < StopTime(f)

\* (current_timer_value / interval) % 2 == 0, evaluated only inside the
\* window (&& short-circuits).  A zero interval (a "0MS" string, which the
\* validator reports and keeps, or one shorter than 3 characters) is an
\* undefined division: "trap" where the host traps, and a quotient of 0
\* (an even count) where it does not.
IntermittentOutcome(f, t) ==
    CASE ~InWindow(f, t)                   -> "idle"
      [] InWindow(f, t) /\ IntervalTime(f) = 0 ->
            IF DivByZeroTraps THEN "trap" ELSE "fire"
      [] OTHER ->
            IF (t \div IntervalTime(f)) % 2 = 0 THEN "fire" ELSE "idle"

\* The type branches shared by every handler: TRANSIENT fires strictly
\* inside (start, stop), INTERMITTEND (the code's spelling) also needs an
\* even number of elapsed intervals, PERMANENT always fires.
TypeOutcome(f, t) ==
    CASE f.type = "TRANSIENT"    -> IF InWindow(f, t) THEN "fire" ELSE "idle"
      [] f.type = "INTERMITTEND" -> IntermittentOutcome(f, t)
      [] f.type = "PERMANENT"    -> "fire"
      [] OTHER                   -> "skip"

\* fault_injection_controller_bf, _new_value and _rs: a "PC" trigger
\* decides on the pc alone, whatever the type.
ModeOutcome(f, t, pc) ==
    IF f.trigger = "PC"
    THEN IF pc = f.address THEN "fire" ELSE "idle"
    ELSE TypeOutcome(f, t)

\* fault_injection_controller_set_fault_active: a "PC" trigger whose pc
\* does not match falls through to the type branches.
ActiveOutcome(f, t, pc) ==
    IF f.trigger = "PC" /\ pc = f.address THEN "fire" ELSE TypeOutcome(f, t)

\* The "trans"/"perm" half of the category incr_num_injected_faults is
\* given: "perm" exactly when the PERMANENT branch fired.
ModeSuffix(f) ==
    IF f.trigger # "PC" /\ f.type = "PERMANENT" THEN "perm" ELSE "trans"
ActiveSuffix(f, pc) ==
    IF ~(f.trigger = "PC" /\ pc = f.address) /\ f.type = "PERMANENT"
    THEN "perm" ELSE "trans"

\* is_active after a handler with the given outcome.
ActiveAfter(outcome, was) ==
    CASE outcome = "fire" -> TRUE
      [] outcome = "idle" -> FALSE
      [] OTHER            -> was

=============================================================================
