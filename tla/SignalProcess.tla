---------------------------- MODULE SignalProcess ----------------------------
(***************************************************************************)
(* rt/SignalProcess.h as DHDOEntry uses it: one BoolInput whose level is   *)
(* filtered by its DebounceMachine in read(), one BoolOutput driven by its *)
(* PulseMachine through setBool() and write(), and the cycle timestamp both*)
(* take from signalProcessNowNs().  The application runs the loop of the   *)
(* architecture document: signalProcessTickNow(), read, process, write,    *)
(* over and over; nothing in the library calls that first function.        *)
(*                                                                         *)
(* Time is CLOCK_MONOTONIC in units of the configured durations.  The      *)
(* clock runs and the pin's level changes at any moment of the loop.       *)
(***************************************************************************)
EXTENDS Integers

CONSTANTS
  Duration,   \* durationNs_ of the pulse; 0 makes it a latch
  Settle,     \* settleNs_ of the debounce
  MaxClock,   \* bound on the clock
  MaxLag,     \* bound on how far it runs ahead of the timestamp in a cycle
  LastEvent   \* bound: no pulse is requested, no level changes after it

ASSUME DurationAssumption == Duration \in Nat /\ Settle \in Nat
ASSUME BoundAssumption == {MaxClock, MaxLag, LastEvent} \subseteq Nat

VARIABLES
  clock,        \* CLOCK_MONOTONIC
  nowNs,        \* gSignalProcessNowNs
  step,         \* where the loop is
  level,        \* the level at the input pin
  rawInput, settleStart, settled, settledV,
                \* the DebounceMachine
  boolVal,      \* boolVal_ of the input: what getBool() returns
  active, expiresAt, latched,
                \* the PulseMachine
  pin,          \* the output's bit in the image
  armedAt,      \* history: the timestamp of the last pulse that was started
  samples       \* history: the last run of equal samples of the input, and
                \* the timestamp of its first

debounce == <<rawInput, settleStart, settled, settledV>>
pulse == <<active, expiresAt, latched>>
vars == <<clock, nowNs, step, level, debounce, boolVal, pulse, pin, armedAt, samples>>

Init ==
  /\ clock \in 0..1
  /\ nowNs = 0
  /\ step = "tick"
  /\ level \in BOOLEAN
  /\ rawInput = FALSE /\ settleStart = 0 /\ settled = FALSE /\ settledV = FALSE
  /\ boolVal = FALSE
  /\ active = FALSE /\ expiresAt = 0 /\ latched = FALSE
  /\ pin = FALSE
  /\ armedAt = 0
  /\ samples = [value |-> FALSE, since |-> 0]

-------------------------------------------------------------------------------
(* Mistakes a change to this code could make; the properties below catch them. *)

(* filter() keeps the old start of the settling time. *)
SettleStartKept(raw) == settleStart

(* filter() starts the settling time anew at every call. *)
SettleStartAnew(raw) == nowNs

(* filter() demands more than the settling time. *)
SettledStrictly(start) == nowNs - start > Settle

(* arm() restarts a pulse that is running. *)
ArmedAgain(v) == v

(* tick() compares with a fresh reading of the clock. *)
ExpiredFresh == clock >= expiresAt

(* tick() waits for the very nanosecond. *)
ExpiredExactly == nowNs = expiresAt

-------------------------------------------------------------------------------
(* DebounceMachine::filter(raw, now), called by read(). *)
Restarted(raw) == raw # rawInput
SettleStart(raw) == IF Restarted(raw) THEN nowNs ELSE settleStart
Settled(start) == nowNs - start >= Settle

Filter(raw) ==
  LET waiting == Restarted(raw) \/ ~settled
      done == waiting /\ Settled(SettleStart(raw))
  IN /\ rawInput' = IF Restarted(raw) THEN raw ELSE rawInput
     /\ settleStart' = SettleStart(raw)
     /\ settled' = (~waiting \/ done)
     /\ settledV' = IF done THEN rawInput' ELSE settledV
     /\ boolVal' = settledV'

(* PulseMachine::arm(v, now), called by setBool(). *)
Armed(v) == v /\ ~active

Arm(v) ==
  IF Duration > 0
    THEN /\ active' = (active \/ v)
         /\ expiresAt' = IF Armed(v) THEN nowNs + Duration ELSE expiresAt
         /\ armedAt' = IF v /\ ~active THEN nowNs ELSE armedAt
         /\ UNCHANGED latched
    ELSE latched' = v /\ UNCHANGED <<active, expiresAt, armedAt>>

(* PulseMachine::tick(now), called by write(): the level of the pin. *)
Expired == nowNs >= expiresAt

PulseTick ==
  /\ active' = (active /\ ~Expired)
  /\ pin' = IF Duration > 0 THEN active' ELSE latched
  /\ UNCHANGED <<expiresAt, latched>>

-------------------------------------------------------------------------------
(* The clock runs; a cycle may last longer than the pulse. *)
Elapse ==
  /\ clock < MaxClock /\ clock < nowNs + MaxLag
  /\ clock' = clock + 1
  /\ UNCHANGED <<nowNs, step, level, debounce, boolVal, pulse, pin, armedAt, samples>>

(* The level at the input pin changes. *)
LevelChange ==
  /\ clock <= LastEvent
  /\ level' = ~level
  /\ UNCHANGED <<clock, nowNs, step, debounce, boolVal, pulse, pin, armedAt, samples>>

(* The top of a cycle: signalProcessTickNow(). *)
TickNow ==
  /\ step = "tick"
  /\ nowNs' = clock
  /\ step' = "read"
  /\ UNCHANGED <<clock, level, debounce, boolVal, pulse, pin, armedAt, samples>>

(* readAll() *)
Read ==
  /\ step = "read"
  /\ Filter(level)
  /\ samples' = IF level = samples.value THEN samples ELSE [value |-> level, since |-> nowNs]
  /\ step' = "process"
  /\ UNCHANGED <<clock, nowNs, level, pulse, pin, armedAt>>

(* setBool(v), as often as the application likes. *)
SetBool(v) ==
  /\ step = "process"
  /\ v => nowNs <= LastEvent
  /\ Arm(v)
  /\ UNCHANGED <<clock, nowNs, step, level, debounce, boolVal, pin, samples>>

ProcessDone ==
  /\ step = "process"
  /\ step' = "write"
  /\ UNCHANGED <<clock, nowNs, level, debounce, boolVal, pulse, pin, armedAt, samples>>

(* writeAll() *)
Write ==
  /\ step = "write"
  /\ PulseTick
  /\ step' = "tick"
  /\ UNCHANGED <<clock, nowNs, level, debounce, boolVal, armedAt, samples>>

Cycle == TickNow \/ Read \/ ProcessDone \/ Write

Next ==
  \/ Elapse
  \/ LevelChange
  \/ \E v \in BOOLEAN : SetBool(v)
  \/ Cycle

Spec == Init /\ [][Next]_vars

(* The clock does not stop and the loop goes on. *)
FairSpec == Spec /\ WF_vars(Elapse) /\ WF_vars(Cycle)

-------------------------------------------------------------------------------
TypeOK ==
  /\ clock \in Nat
  /\ nowNs \in 0..clock
  /\ step \in {"tick", "read", "process", "write"}
  /\ level \in BOOLEAN /\ boolVal \in BOOLEAN
  /\ rawInput \in BOOLEAN /\ settled \in BOOLEAN /\ settledV \in BOOLEAN
  /\ active \in BOOLEAN /\ latched \in BOOLEAN
  /\ pin \in BOOLEAN
  /\ settleStart \in 0..nowNs
  /\ expiresAt \in 0..(nowNs + Duration)
  /\ armedAt \in 0..nowNs
  /\ samples \in [value : BOOLEAN, since : 0..nowNs]

(* SignalProcess.h:98, "Returns true only after the input has been stable    *)
(* (high or low) for settleNs_": the value changes only to one that every    *)
(* sample of the last Settle has had.                                        *)
DebounceStable ==
  [][boolVal' # boolVal =>
       /\ boolVal' = samples'.value
       /\ nowNs - samples'.since >= Settle]_vars

(* And it does so at the first sample that shows the input stable so long.   *)
DebouncePrompt ==
  step \in {"process", "write"} /\ nowNs - samples.since >= Settle => boolVal = samples.value

(* A pulse once begun stays at the pin until its duration is over, and no    *)
(* request made meanwhile makes it longer.                                   *)
PulseLength ==
  [][Duration > 0 =>
       /\ pin /\ ~pin' => nowNs >= armedAt + Duration
       /\ step = "write" /\ step' = "tick" /\ pin' => nowNs < armedAt + Duration]_vars

(* However long the cycle lasts, a pulse begun in it is written out once at  *)
(* least: the cycle has one timestamp.                                       *)
PulseSeen ==
  [][step = "write" /\ step' = "tick" /\ active /\ armedAt = nowNs => pin']_vars

(* A pulse ends. *)
PulseEnds == Duration > 0 => (pin ~> ~pin)

(* The value follows a level that stays. *)
LevelFollowed == <>[](boolVal = level)
===============================================================================
