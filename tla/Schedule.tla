------------------------------- MODULE Schedule -------------------------------
(***************************************************************************)
(* crates/sa-core/schedule.rs: the cron expression that a model proposes,    *)
(* the gate it passes, and the slots of the job that is armed with it.      *)
(*                                                                         *)
(* An expression is the number of its fields and, when the cron crate can   *)
(* read it, the minutes, hours and days of the week it fires at; day of     *)
(* month and month are `*`.  Time is counted in minutes since the epoch,    *)
(* with hours, days and weeks of any length.  Gateway models the ticks and   *)
(* the crashes around a slot.                                              *)
(***************************************************************************)
EXTENDS Naturals, FiniteSets, FiniteSetsExt, Sequences

CONSTANTS
  Hour, Day, Week,     \* the minutes of an hour, the hours of a day, the days
  MIN_INTERVAL,        \* MIN_INTERVAL_SECS, in minutes
  SAMPLE,              \* the fires that validate_cron looks at
  Reply,               \* what a model may answer: lines, and all of it as one
  MaxLate,             \* bound: how late a tick finds a due job
  MaxNow               \* bound: when the last slot is fired

Expr == [fields : Nat, parses : BOOLEAN,
         minutes : SUBSET (0..Hour - 1), hours : SUBSET (0..Day - 1), days : SUBSET (0..Week - 1)]

\* Of the constants; MCExchanges assumes it.
ScheduleAssumption ==
  /\ {Hour, Day, Week, MIN_INTERVAL} \subseteq Nat \ {0}
  /\ SAMPLE \in Nat \ {0, 1}
  /\ \A reply \in Reply : reply.lines \in Seq(Expr) /\ reply.whole \in Expr
  /\ MaxLate \in Nat /\ MaxNow \in Nat

VARIABLES
  cron_expr,   \* the expression of the job, or NoJob
  last_slot,   \* history: the slot fired last, 0 if none
  next_run     \* the slot to fire next

vars == <<cron_expr, last_slot, next_run>>

NoJob == [fields |-> 0]

Cycle == Week * Day * Hour

\* The minutes of the cycle that an expression names.
Slots(expr) == {(d * Day + h) * Hour + m : m \in expr.minutes, h \in expr.hours, d \in expr.days}

\* Exactly five fields, and all of them read.
to_schedule(expr) == expr.fields = 5 /\ expr.parses

Fires(expr) == Slots(expr) # {}

\* The first slot strictly after `after`.
next_fire_unix(expr, after) ==
  CHOOSE t \in (after + 1)..(after + Cycle) :
    /\ t % Cycle \in Slots(expr)
    /\ \A u \in (after + 1)..(t - 1) : u % Cycle \notin Slots(expr)

\* The first n fires after the epoch.
Sample(expr, n) ==
  LET fires[k \in 0..n] == IF k = 0 THEN 0 ELSE next_fire_unix(expr, fires[k - 1])
  IN  [k \in 1..n |-> fires[k]]

\* An operator named Mut... is a faulty variant of a definition after it, kept
\* to show that a property would notice the fault.
MutValidateTen(expr) ==
  /\ to_schedule(expr) /\ Fires(expr)
  /\ LET fires == Sample(expr, SAMPLE - 1)
     IN  \A k \in 2..SAMPLE - 1 : fires[k] - fires[k - 1] >= MIN_INTERVAL

\* No two fires of the sample may be closer than MIN_INTERVAL.
validate_cron(expr) ==
  /\ to_schedule(expr) /\ Fires(expr)
  /\ LET fires == Sample(expr, SAMPLE)
     IN  \A k \in 2..SAMPLE : fires[k] - fires[k - 1] >= MIN_INTERVAL

\* The first line of five words, or else the whole answer.
nl_to_cron(reply) ==
  LET fives == {k \in 1..Len(reply.lines) : reply.lines[k].fields = 5}
  IN  IF fives = {} THEN reply.whole ELSE reply.lines[Min(fives)]
-----------------------------------------------------------------------------
Init == cron_expr = NoJob /\ last_slot = 0 /\ next_run = 0

\* `schedule add`, if the gate lets the proposal pass.
add ==
  /\ cron_expr = NoJob
  /\ \E reply \in Reply :
       /\ validate_cron(nl_to_cron(reply))
       /\ cron_expr' = nl_to_cron(reply)
       /\ \E now \in 0..Cycle - 1 : next_run' = next_fire_unix(nl_to_cron(reply), now)
  /\ UNCHANGED last_slot

\* A tick finds the job due, and moves it to the slot after the tick.
Fire(late) ==
  /\ cron_expr # NoJob /\ next_run <= MaxNow
  /\ last_slot' = next_run
  /\ next_run' = next_fire_unix(cron_expr, next_run + late)
  /\ UNCHANGED cron_expr

Next ==
  \/ add
  \/ \E late \in 0..MaxLate : Fire(late)

Spec == Init /\ [][Next]_vars
-----------------------------------------------------------------------------
\* The fires of an hour, a day or a week that repeats, when the sample holds
\* that many and one more.
Sampled(expr) ==
  \E period \in {Hour, Day * Hour, Cycle} :
    /\ \A t \in 0..Cycle - 1 : t \in Slots(expr) <=> (t + period) % Cycle \in Slots(expr)
    /\ Cardinality({t \in Slots(expr) : t < period}) < SAMPLE

\* The floor of schedule.rs:15 holds between any two slots of a job, at any time
\* and however late its ticks are, though the gate looks at the first eleven
\* fires of 1970 only: it holds when they show the whole of what repeats.  For
\* other expressions it need not (see the README).
SlotsKeepInterval ==
  cron_expr # NoJob /\ last_slot # 0 /\ Sampled(cron_expr) =>
    next_run - last_slot >= MIN_INTERVAL
=============================================================================
