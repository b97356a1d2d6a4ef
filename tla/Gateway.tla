------------------------------ MODULE Gateway -------------------------------
(***************************************************************************)
(* secretagent/src/gateway.rs: the daemon.  One task per connector and the *)
(* scheduler loop share one agent and one Audit behind a tokio mutex, so   *)
(* whole dispatches take turns; `secretagent schedule add | remove` changes *)
(* the table cron_jobs from other processes at any moment.                 *)
(*                                                                         *)
(* What run_task does inside a dispatch is AgentLoop's; here it is a run   *)
(* that takes time and ends Ok or Err.  A cron expression is its period: it *)
(* fires at the multiples of it.  tokio's mutex is a FIFO queue of waiters *)
(* whose head is the holder.                                               *)
(***************************************************************************)
EXTENDS Naturals, Sequences, FiniteSets

CONSTANTS
  Connector,      \* names of the configured connectors
  Cron,           \* periods of the cron expressions that validate_cron accepts
  MIN_INTERVAL,   \* MIN_INTERVAL_SECS
  MaxClock,       \* bound: the clock stops there
  MaxJobs,        \* bound: jobs ever added
  MaxFaults       \* bound: failed mark_fired, and crashes between it and a fire

Scheduler == "scheduler"

Task == Connector \cup {Scheduler}

ASSUME GatewayAssumption ==
  /\ Scheduler \notin Connector
  /\ MIN_INTERVAL \in Nat \ {0}
  /\ Cron \subseteq Nat
  /\ \A c \in Cron : c >= MIN_INTERVAL
  /\ MaxClock \in Nat \ {0}
  /\ MaxJobs \in Nat
  /\ MaxFaults \in Nat

VARIABLES
  clock,      \* unix time
  jobs,       \* the table cron_jobs: the rows
  up,         \* the daemon's process runs
  shutdown,   \* the shutdown future is resolved
  waiters,    \* who holds the audit mutex, and then who waits for it
  sched,      \* the scheduler loop: pc, tick's now, due jobs left, job in hand
  conn,       \* each connector task: pc and whether the sender is allowed
  recorded,   \* whose dispatch made the latest record of the audit log
  fires,      \* history: the latest fire of each job: its slot and its time
  refires,    \* history: how many fires were of a slot fired before
  faults      \* history: how many faults came between a fire and its mark

vars == <<clock, jobs, up, shutdown, waiters, sched, conn, recorded, fires,
          refires, faults>>

tableVars == <<clock, jobs>>
historyVars == <<fires, refires, faults>>

\* Ids are reused (INTEGER PRIMARY KEY without AUTOINCREMENT); uid is the job
\* itself, which the table does not hold.  last_run is only ever listed and has
\* no place here.
Job == [id : 1..MaxJobs, uid : 1..MaxJobs, cron : Cron, next : Nat]

NoJob == [id |-> 0, uid |-> 0, cron |-> 0, next |-> 0]

Idle == [pc |-> "idle", now |-> 0, due |-> {}, job |-> NoJob]

Receiving == [pc |-> "recv", allowed |-> FALSE]

Off == [pc |-> "off", allowed |-> FALSE]
-----------------------------------------------------------------------------
\* An operator named Mut... is a faulty variant of a definition after it, kept
\* to show that a property would notice the fault.
MutNextInclusive(cron, after) == cron * ((after + cron - 1) \div cron)

\* The next fire strictly after a time.
next_fire_unix(cron, after) == cron * (after \div cron + 1)

due_jobs(now) == {j \in jobs : j.next <= now}

\* mark_fired: an UPDATE by id, of no row if the id is gone.
mark_fired(id, next) ==
  {IF j.id = id THEN [j EXCEPT !.next = next] ELSE j : j \in jobs}

\* SQLite's choice for a new row: the largest id and one.
NextId == 1 + Cardinality({i \in 1..MaxJobs : \E j \in jobs : j.id >= i})

Added == {u \in 1..MaxJobs : fires[u].added}

Holder(t) == waiters # <<>> /\ Head(waiters) = t
-----------------------------------------------------------------------------
Init ==
  /\ clock = 1
  /\ jobs = {}
  /\ up = FALSE
  /\ shutdown = FALSE
  /\ waiters = <<>>
  /\ sched = Idle
  /\ conn = [c \in Connector |-> Off]
  /\ recorded = Scheduler
  /\ fires = [u \in 1..MaxJobs |-> [added |-> FALSE, slot |-> 0, at |-> 0]]
  /\ refires = 0
  /\ faults = 0

ClockAdvances ==
  /\ clock < MaxClock
  /\ clock' = clock + 1
  /\ UNCHANGED <<jobs, up, shutdown, waiters, sched, conn, recorded, historyVars>>

\* `schedule add`.
add_cron_job(cron) ==
  /\ Cardinality(Added) < MaxJobs
  /\ LET uid == Cardinality(Added) + 1
     IN  /\ jobs' = jobs \cup {[id |-> NextId, uid |-> uid, cron |-> cron,
                                next |-> next_fire_unix(cron, clock)]}
         /\ fires' = [fires EXCEPT ![uid].added = TRUE]
  /\ UNCHANGED <<clock, up, shutdown, waiters, sched, conn, recorded, refires, faults>>

\* `schedule remove`.
remove_cron_job(j) ==
  /\ jobs' = jobs \ {j}
  /\ UNCHANGED <<clock, up, shutdown, waiters, sched, conn, recorded, historyVars>>

\* run_until, up to the loop.
StartDaemon ==
  /\ ~up
  /\ up' = TRUE
  /\ shutdown' = FALSE
  /\ sched' = Idle
  /\ conn' = [c \in Connector |-> Receiving]
  /\ UNCHANGED <<tableVars, waiters, recorded, historyVars>>
-----------------------------------------------------------------------------
(* The scheduler loop.                                                     *)

\* tick_scheduler: read the clock once and the due jobs once.
Tick ==
  /\ up /\ sched.pc = "idle"
  /\ due_jobs(clock) # {}
  /\ sched' = [pc |-> "job", now |-> clock, due |-> due_jobs(clock), job |-> NoJob]
  /\ UNCHANGED <<tableVars, up, shutdown, waiters, conn, recorded, historyVars>>

\* The soonest due job: with its connector at hand the loop queues for the
\* mutex; with an unknown, unsupported or failing one it skips the fire.
TakeJob ==
  /\ sched.pc = "job"
  /\ \E j \in sched.due :
       /\ \A k \in sched.due : j.next <= k.next
       /\ \/ /\ sched' = [sched EXCEPT !.pc = "lock", !.job = j, !.due = @ \ {j}]
             /\ waiters' = Append(waiters, Scheduler)
          \/ /\ sched' = [sched EXCEPT !.pc = "mark", !.job = j, !.due = @ \ {j}]
             /\ UNCHANGED waiters
  /\ UNCHANGED <<tableVars, up, shutdown, conn, recorded, historyVars>>

TickEnds ==
  /\ sched.pc = "job"
  /\ sched.due = {}
  /\ sched' = Idle
  /\ UNCHANGED <<tableVars, up, shutdown, waiters, conn, recorded, historyVars>>

MutFireWithoutLock ==
  /\ sched.pc = "lock"
  /\ sched' = [sched EXCEPT !.pc = "run"]
  /\ recorded' = Scheduler
  /\ UNCHANGED <<tableVars, up, shutdown, waiters, conn, historyVars>>

\* fire_job: with the mutex, the record cron.fire and then the run.
Fire ==
  /\ sched.pc = "lock" /\ Holder(Scheduler)
  /\ sched' = [sched EXCEPT !.pc = "run"]
  /\ recorded' = Scheduler
  /\ fires' = [fires EXCEPT ![sched.job.uid] =
                 [@ EXCEPT !.slot = sched.job.next, !.at = clock]]
  /\ refires' = IF sched.job.next <= fires[sched.job.uid].slot
                THEN refires + 1 ELSE refires
  /\ UNCHANGED <<tableVars, up, shutdown, waiters, conn, faults>>

\* The record cannot be written: the job does not run.
FireFails ==
  /\ sched.pc = "lock" /\ Holder(Scheduler)
  /\ sched' = [sched EXCEPT !.pc = "mark"]
  /\ waiters' = Tail(waiters)
  /\ UNCHANGED <<tableVars, up, shutdown, conn, recorded, historyVars>>

MutFireErrKeepsLock ==
  /\ sched.pc = "run"
  /\ sched' = [sched EXCEPT !.pc = "mark"]
  /\ \/ waiters' = Tail(waiters)
     \/ UNCHANGED waiters
  /\ UNCHANGED <<tableVars, up, shutdown, conn, recorded, historyVars>>

\* The run and the delivery end, Ok or Err, and the mutex is released.
FireEnds ==
  /\ sched.pc = "run"
  /\ sched' = [sched EXCEPT !.pc = "mark"]
  /\ waiters' = Tail(waiters)
  /\ UNCHANGED <<tableVars, up, shutdown, conn, recorded, historyVars>>

MutMarkOnlyFired ==
  /\ sched.pc = "mark"
  /\ jobs' = IF fires[sched.job.uid].slot = sched.job.next
             THEN mark_fired(sched.job.id,
                             next_fire_unix(sched.job.cron, sched.now))
             ELSE jobs
  /\ sched' = [sched EXCEPT !.pc = "job", !.job = NoJob]
  /\ UNCHANGED <<clock, up, shutdown, waiters, conn, recorded, historyVars>>

\* next_run advances also after a skip or a failure, from the tick's now.
Mark ==
  /\ sched.pc = "mark"
  /\ jobs' = mark_fired(sched.job.id, next_fire_unix(sched.job.cron, sched.now))
  /\ sched' = [sched EXCEPT !.pc = "job", !.job = NoJob]
  /\ UNCHANGED <<clock, up, shutdown, waiters, conn, recorded, historyVars>>

\* mark_fired returns Err: `?` ends the tick with its other jobs.
MarkFails ==
  /\ sched.pc = "mark"
  /\ faults < MaxFaults
  /\ faults' = faults + 1
  /\ sched' = Idle
  /\ UNCHANGED <<tableVars, up, shutdown, waiters, conn, recorded, fires, refires>>
-----------------------------------------------------------------------------
(* A connector task.                                                       *)

\* drive_connector: recv returns a message and the task queues for the mutex.
Recv(c, allowed) ==
  /\ conn[c].pc = "recv"
  /\ conn' = [conn EXCEPT ![c] = [pc |-> "lock", allowed |-> allowed]]
  /\ waiters' = Append(waiters, c)
  /\ UNCHANGED <<tableVars, up, shutdown, sched, recorded, historyVars>>

\* recv returns Ok(None): the task is over.
RecvEnds(c) ==
  /\ conn[c].pc = "recv"
  /\ conn' = [conn EXCEPT ![c] = Off]
  /\ UNCHANGED <<tableVars, up, shutdown, waiters, sched, recorded, historyVars>>

\* dispatch_inbound: a sender outside allow_senders is recorded and dropped,
\* any other is recorded and runs.
Dispatch(c) ==
  /\ conn[c].pc = "lock" /\ Holder(c)
  /\ recorded' = c
  /\ IF conn[c].allowed
     THEN /\ conn' = [conn EXCEPT ![c].pc = "run"]
          /\ UNCHANGED waiters
     ELSE /\ conn' = [conn EXCEPT ![c] = Receiving]
          /\ waiters' = Tail(waiters)
  /\ UNCHANGED <<tableVars, up, shutdown, sched, historyVars>>

\* The record cannot be written: neither the run nor a reply.
DispatchFails(c) ==
  /\ conn[c].pc = "lock" /\ Holder(c)
  /\ conn' = [conn EXCEPT ![c] = Receiving]
  /\ waiters' = Tail(waiters)
  /\ UNCHANGED <<tableVars, up, shutdown, sched, recorded, historyVars>>

\* The run ends with an answer or with Err; either way the guard is dropped.
RunEnds(c) ==
  /\ conn[c].pc = "run"
  /\ \/ conn' = [conn EXCEPT ![c].pc = "send"]
     \/ conn' = [conn EXCEPT ![c] = Receiving]
  /\ waiters' = Tail(waiters)
  /\ UNCHANGED <<tableVars, up, shutdown, sched, recorded, historyVars>>

\* send returns; its error is only logged.
Send(c) ==
  /\ conn[c].pc = "send"
  /\ conn' = [conn EXCEPT ![c] = Receiving]
  /\ UNCHANGED <<tableVars, up, shutdown, waiters, sched, recorded, historyVars>>
-----------------------------------------------------------------------------
(* The end of the daemon.                                                  *)

\* Ctrl-C or SIGTERM.
RequestShutdown ==
  /\ up /\ ~shutdown
  /\ shutdown' = TRUE
  /\ UNCHANGED <<tableVars, up, waiters, sched, conn, recorded, historyVars>>

Halted ==
  /\ up' = FALSE
  /\ shutdown' = FALSE
  /\ waiters' = <<>>
  /\ sched' = Idle
  /\ conn' = [c \in Connector |-> Off]

MutStopJoins ==
  /\ up /\ shutdown
  /\ sched.pc = "idle"
  /\ \A c \in Connector : conn[c].pc = "off"
  /\ Halted
  /\ UNCHANGED <<tableVars, recorded, historyVars>>

\* The loop sees the signal between ticks and aborts the connector tasks
\* wherever they are.
Stop ==
  /\ up /\ shutdown
  /\ sched.pc = "idle"
  /\ Halted
  /\ UNCHANGED <<tableVars, recorded, historyVars>>

\* A job in hand has fired and its row does not say so yet.
Unmarked ==
  /\ sched.pc \in {"run", "mark"}
  /\ fires[sched.job.uid].slot = sched.job.next

\* The process dies.
Crash ==
  /\ up
  /\ IF Unmarked THEN faults < MaxFaults /\ faults' = faults + 1
                 ELSE UNCHANGED faults
  /\ Halted
  /\ UNCHANGED <<tableVars, recorded, fires, refires>>

SchedulerStep ==
  Tick \/ TakeJob \/ TickEnds \/ Fire \/ FireFails \/ FireEnds \/ Mark \/ MarkFails

ConnectorStep(c) == Dispatch(c) \/ DispatchFails(c) \/ RunEnds(c) \/ Send(c)

Next ==
  \/ ClockAdvances
  \/ \E cron \in Cron : add_cron_job(cron)
  \/ \E j \in jobs : remove_cron_job(j)
  \/ StartDaemon
  \/ SchedulerStep
  \/ \E c \in Connector :
       \/ \E allowed \in BOOLEAN : Recv(c, allowed)
       \/ RecvEnds(c)
       \/ ConnectorStep(c)
  \/ RequestShutdown
  \/ Stop
  \/ Crash

Spec == Init /\ [][Next]_vars

\* The tasks are scheduled and a run ends.  Stop needs strong fairness: while
\* ticks are ready too, select! chooses among the two at random.
FairSpec ==
  /\ Spec
  /\ WF_vars(SchedulerStep)
  /\ \A c \in Connector : WF_vars(ConnectorStep(c))
  /\ SF_vars(Stop)
-----------------------------------------------------------------------------
(* Properties.                                                             *)

\* Every variable has its type, ids are unique in the table, and no task waits
\* for the mutex twice.
TypeOK ==
  /\ clock \in 1..MaxClock
  /\ jobs \subseteq Job
  /\ \A j, k \in jobs : j.id = k.id => j = k
  /\ up \in BOOLEAN /\ shutdown \in BOOLEAN
  /\ waiters \in Seq(Task)
  /\ \A i, k \in 1..Len(waiters) : waiters[i] = waiters[k] => i = k
  /\ sched \in [pc : {"idle", "job", "lock", "run", "mark"}, now : Nat,
                due : SUBSET Job, job : Job \cup {NoJob}]
  /\ conn \in [Connector -> [pc : {"off", "recv", "lock", "run", "send"},
                             allowed : BOOLEAN]]
  /\ recorded \in Task
  /\ fires \in [1..MaxJobs -> [added : BOOLEAN, slot : Nat, at : Nat]]
  /\ refires \in Nat
  /\ faults \in 0..MaxFaults

\* The record that opened a dispatch is the latest one in the log as long as
\* it runs: no other dispatch records anything meanwhile, so a record of a run
\* is attributed to the sender or job recorded last (gateway.rs:59-61).
RecordsContiguous ==
  /\ sched.pc = "run" => recorded = Scheduler /\ Holder(Scheduler)
  /\ \A c \in Connector : conn[c].pc = "run" => recorded = c /\ Holder(c)

\* Firing and marking are two steps, so a slot may fire twice; it does so at
\* most once for each crash or failed update between them.  Skips, failed
\* runs, removals, late ticks and orderly shutdowns never repeat a slot.
RefiresExplained == refires <= faults

\* schedule.rs:15: a job does not fire more often than MIN_INTERVAL.
MinIntervalKept ==
  [][\A u \in 1..MaxJobs :
       fires[u].at # 0 /\ fires'[u].at # fires[u].at =>
         fires'[u].at - fires[u].at >= MIN_INTERVAL]_vars

\* A due job leaves its slot: it is fired or skipped and advanced, or removed,
\* or the daemon stops; a message flood on the connectors cannot starve it.
DueJobAdvances ==
  \A u \in 1..MaxJobs, slot \in 1..MaxClock :
    (up /\ clock >= slot /\ \E j \in jobs : j.uid = u /\ j.next = slot)
      ~> (~up \/ ~\E j \in jobs : j.uid = u /\ j.next = slot)

\* A message that was received is answered, rejected or fails, or the daemon
\* stops: nobody waits for the mutex forever.
MessageConcludes ==
  \A c \in Connector : conn[c].pc = "lock" ~> conn[c].pc \in {"recv", "off"}

\* After the signal the daemon stops.
ShutdownCompletes == shutdown ~> ~up
=============================================================================
