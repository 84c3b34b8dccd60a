------------------------------- MODULE Governor -------------------------------
(***************************************************************************)
(* The resource governor of a worker: how much of the machine may be used, *)
(* from what the owner does, what the hardware says and the owner's pause. *)
(* The desktop worker's governor is modelled; the browser's is the same    *)
(* ramp under fewer signals.  Capacity is counted in steps, not percent,   *)
(* and the label the owner sees (available, throttling, ...) is left out.  *)
(***************************************************************************)
EXTENDS Integers, FiniteSetsExt

CONSTANTS
  Signals,           \* the readings a tick may meet, of the form below
  MaxCapacity,       \* options.maxCapacity
  RampUp, RampDown,  \* RAMP_UP_PER_TICK and RAMP_DOWN_PER_TICK
  Throttled,         \* ceiling while the owner's load is above throttleCpuPct
  Tight, Warm, Hot,  \* ceilings for little free memory and for heat
  Battery            \* ceiling on battery; 0 under pauseOnBattery

Reading == [ready : BOOLEAN, owner : {"idle", "working", "gaming"},
            memory : {"free", "tight", "short"},
            heat : {"cool", "warm", "hot", "critical"},
            power : {"mains", "battery", "low"}]

Ceilings == {Throttled, Tight, Warm, Hot, Battery}

ASSUME GovernorAssumption ==
  /\ Signals \subseteq Reading
  /\ MaxCapacity \in Nat /\ RampUp \in Nat \ {0} /\ RampDown \in Nat \ {0}
  /\ Ceilings \subseteq Nat

VARIABLES
  capacity,          \* ResourceGovernor.capacity
  manualPause,       \* ResourceGovernor.manualPause
  signal             \* what the machine and its owner are like now

governorVars == <<capacity, manualPause, signal>>

\* Ceiling by what limits the machine: each branch of update lowers the target.
Limit(s) ==
  {MaxCapacity}
    \cup (IF s.ready THEN {} ELSE {0})
    \cup (CASE s.owner = "gaming" -> {0} [] s.owner = "working" -> {Throttled} [] OTHER -> {})
    \cup (CASE s.memory = "short" -> {0} [] s.memory = "tight" -> {Tight} [] OTHER -> {})
    \cup (CASE s.heat = "critical" -> {0} [] s.heat = "hot" -> {Hot}
            [] s.heat = "warm" -> {Warm} [] OTHER -> {})
    \cup (CASE s.power = "low" -> {0} [] s.power = "battery" -> {Battery} [] OTHER -> {})
Target(s) == Min(Limit(s))

\* One tick: a step towards the target, small upwards and large downwards.
Ramped_AtOnce(target) == target
Ramped(target) ==
  IF target > capacity
  THEN Min({target, capacity + RampUp})
  ELSE Max({target, capacity - RampDown})

Update == capacity' = (IF manualPause THEN 0 ELSE Ramped(Target(signal))) /\ UNCHANGED manualPause

\* The owner's key: a pause takes capacity to zero at once, resuming leaves it there.
SetManualPause(p) == manualPause' = p /\ capacity' = IF p THEN 0 ELSE capacity

Changes == signal' \in Signals /\ UNCHANGED <<capacity, manualPause>>

GovernorInit == capacity = 0 /\ manualPause = FALSE /\ signal \in Signals
=============================================================================
