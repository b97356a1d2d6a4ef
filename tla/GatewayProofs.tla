---------------------------- MODULE GatewayProofs ----------------------------
(***************************************************************************)
(* Theorems about Gateway, for every set of connectors and cron periods and *)
(* every value of the bounds: dispatches do not interleave in the audit log *)
(* (RecordsContiguous), and a slot is fired again only after a fault        *)
(* (RefiresExplained).                                                     *)
(*                                                                         *)
(* RefiresExplained is not inductive: it does not say which jobs are going  *)
(* to repeat a slot.  Those are the Repeaters, one for each fault that no   *)
(* repetition has used up yet (DebtInv).  That a tick works on a snapshot   *)
(* of the table, and marks rows by ids that are reused, is what TableInv    *)
(* and TimeInv are for.                                                    *)
(***************************************************************************)
EXTENDS Gateway, FiniteSetTheorems, SequenceTheorems, TLAPS

\* The label of a task, and whether it has a place in the queue of the mutex.
Pc(t) == IF t = Scheduler THEN sched.pc ELSE conn[t].pc

Wants(t) == Pc(t) \in {"lock", "run"}

Queue ==
  /\ waiters \in Seq(Task)
  /\ \A i, k \in 1..Len(waiters) : waiters[i] = waiters[k] => i = k
  /\ \A t \in Task, i \in 1..Len(waiters) : waiters[i] = t => Wants(t)

QueueInv ==
  /\ Queue
  /\ ~up => waiters = <<>> /\ \A t \in Task : Pc(t) \in {"idle", "off"}

\* RecordsContiguous, said of labels.
Contiguous == \A t \in Task : Pc(t) = "run" => recorded = t /\ Holder(t)

\* The job in hand, and the jobs of the snapshot that a tick has not marked.
Hand == IF sched.pc \in {"lock", "run", "mark"} THEN {sched.job} ELSE {}

Snapshot == sched.due \cup Hand

\* Uids are given out in order, and an id is at most the latest uid.
CountInv ==
  \E n \in 0..MaxJobs :
    /\ Added = 1..n
    /\ \A u \in (n + 1)..MaxJobs : fires[u].slot = 0
    /\ \A j \in jobs \cup Snapshot : j.id <= n /\ j.uid <= n

\* One row for a job and for an id, in the table and in a snapshot; the row of
\* a job that is still to be marked is as the snapshot has it.
TableInv ==
  /\ \A j, k \in jobs : j.uid = k.uid \/ j.id = k.id => j = k
  /\ \A j, k \in Snapshot : j.uid = k.uid \/ j.id = k.id => j = k
  /\ \A j \in Snapshot, k \in jobs : j.uid = k.uid => j = k
  /\ \A j \in Hand : j \in Job /\ j \notin sched.due
  /\ sched.pc = "idle" => sched.due = {}

\* No slot is fired before its time or skipped backwards.
TimeInv ==
  /\ \A u \in 1..MaxJobs : fires[u].slot <= clock
  /\ sched.pc # "idle" =>
       /\ sched.now <= clock
       /\ \A u \in 1..MaxJobs : fires[u].slot <= sched.now
       /\ \A j \in Snapshot : j.next <= sched.now
  /\ \A j \in jobs \cup Snapshot : fires[j.uid].slot <= j.next

\* The jobs that are going to fire the slot that they fired last.
Repeaters ==
  {u \in 1..MaxJobs :
     /\ \E j \in jobs \cup Snapshot : j.uid = u /\ j.next = fires[u].slot
     /\ sched.pc \in {"run", "mark"} => sched.job.uid # u}

DebtInv == refires + Cardinality(Repeaters) <= faults

Inv == TypeOK /\ QueueInv /\ Contiguous /\ CountInv /\ TableInv /\ TimeInv /\ DebtInv
-----------------------------------------------------------------------------
\* The next fire of a cron expression is in the future.
LEMMA NextFire ==
  ASSUME NEW cron \in Cron, NEW after \in Nat
  PROVE  next_fire_unix(cron, after) \in Nat /\ next_fire_unix(cron, after) > after
<1>1. cron \in Nat /\ cron > 0
  BY GatewayAssumption
<1> DEFINE q == after \div cron
<1>2. q \in Nat /\ after < cron * (q + 1)
  BY <1>1
<1> QED
  BY <1>1, <1>2 DEF next_fire_unix
-----------------------------------------------------------------------------
(* The mutex.  Seen from it, every step is one of these.                   *)

LEMMA ContiguousIs == ASSUME GatewayAssumption PROVE Contiguous <=> RecordsContiguous
<1>1. Scheduler \in Task /\ \A c \in Connector : c \in Task /\ c # Scheduler
  BY GatewayAssumption DEF Task
<1> QED
  BY <1>1 DEF Contiguous, RecordsContiguous, Pc, Task

Same(t) == Pc(t)' = Pc(t)

\* No task comes, goes or begins to run.
Passes ==
  /\ waiters' = waiters /\ recorded' = recorded
  /\ \A t \in Task : Wants(t)' = Wants(t) /\ (Pc(t)' = "run" => Pc(t) = "run")

Enters(t) ==
  /\ ~Wants(t) /\ Pc(t)' = "lock"
  /\ waiters' = Append(waiters, t) /\ recorded' = recorded
  /\ \A k \in Task \ {t} : Same(k)

Runs(t) ==
  /\ Holder(t) /\ Wants(t) /\ Pc(t)' = "run"
  /\ waiters' = waiters /\ recorded' = t
  /\ \A k \in Task \ {t} : Same(k)

Leaves(t) ==
  /\ Holder(t) /\ ~Wants(t)'
  /\ waiters' = Tail(waiters)
  /\ \A k \in Task \ {t} : Same(k)

Halts == waiters' = <<>> /\ \A t \in Task : Pc(t)' \in {"idle", "off"}

\* The labels after a step of one task.
LEMMA SchedulerPc ==
  ASSUME Inv, conn' = conn
  PROVE  \A k \in Task \ {Scheduler} : Same(k)
  BY DEF Same, Pc

LEMMA ConnectorPc ==
  ASSUME Inv, NEW c \in Connector, sched' = sched, NEW new,
         conn' = [conn EXCEPT ![c] = new]
  PROVE  /\ Pc(c) = conn[c].pc /\ Pc(c)' = new.pc
         /\ \A k \in Task \ {c} : Same(k)
<1>1. c # Scheduler /\ conn'[c] = new /\ \A k \in Connector \ {c} : conn'[k] = conn[k]
  BY GatewayAssumption DEF Inv, TypeOK
<1> QED
  BY <1>1 DEF Same, Pc, Task

LEMMA Forms ==
  ASSUME Inv, [Next]_vars
  PROVE  \/ Passes \/ Halts
         \/ \E t \in Task : Enters(t) \/ Runs(t) \/ Leaves(t)
<1> DEFINE Form == Passes \/ Halts \/ \E t \in Task : Enters(t) \/ Runs(t) \/ Leaves(t)
<1> HIDE DEF Form
<1> SUFFICES Form
  BY DEF Form
<1>a. Scheduler \in Task /\ Pc(Scheduler) = sched.pc /\ Pc(Scheduler)' = sched'.pc
  BY DEF Task, Pc
<1>b. \A c \in Connector : c \in Task /\ c # Scheduler
  BY GatewayAssumption DEF Task
<1>c. sched \in [pc : {"idle", "job", "lock", "run", "mark"}, now : Nat,
                 due : SUBSET Job, job : Job \cup {NoJob}]
  BY DEF Inv, TypeOK
<1>0. ASSUME waiters' = waiters, recorded' = recorded, sched'.pc = sched.pc, conn' = conn
      PROVE  Form
  BY <1>0 DEF Form, Passes, Pc, Wants
<1>1. CASE ClockAdvances \/ (\E cron \in Cron : add_cron_job(cron))
           \/ (\E j \in jobs : remove_cron_job(j)) \/ RequestShutdown \/ UNCHANGED vars
  BY <1>0, <1>1 DEF ClockAdvances, add_cron_job, remove_cron_job, RequestShutdown, vars
<1>2. CASE StartDaemon
  <2>1. \A t \in Task : Pc(t) \in {"idle", "off"}
    BY <1>2 DEF StartDaemon, Inv, QueueInv
  <2>2. \A t \in Task : Pc(t)' \in {"idle", "recv"}
    BY <1>2 DEF StartDaemon, Pc, Task, Idle, Receiving
  <2> QED
    BY <1>2, <2>1, <2>2 DEF Form, Passes, Wants, StartDaemon
<1>3. ASSUME waiters' = waiters, recorded' = recorded, conn' = conn,
             sched.pc \notin {"lock", "run"}, sched'.pc \notin {"lock", "run"}
      PROVE  Form
  BY <1>3, <1>a, SchedulerPc DEF Form, Passes, Same, Wants
<1>4. CASE Tick \/ TickEnds \/ Mark \/ MarkFails
  <2>1. sched'.pc \in {"idle", "job"}
    <3>1. CASE Tick \/ TickEnds \/ MarkFails
      BY <3>1 DEF Tick, TickEnds, MarkFails, Idle
    <3>2. CASE Mark
      BY <3>2, <1>c DEF Mark
    <3> QED
      BY <1>4, <3>1, <3>2
  <2>2. /\ waiters' = waiters /\ recorded' = recorded /\ conn' = conn
        /\ sched.pc \notin {"lock", "run"}
    BY <1>4 DEF Tick, TickEnds, Mark, MarkFails
  <2> QED
    BY <2>1, <2>2, <1>3
<1>5. CASE TakeJob
  <2>1. /\ sched.pc = "job" /\ conn' = conn /\ recorded' = recorded
        /\ \/ sched'.pc = "lock" /\ waiters' = Append(waiters, Scheduler)
           \/ sched'.pc = "mark" /\ waiters' = waiters
    BY <1>5, <1>c DEF TakeJob
  <2>2. CASE sched'.pc = "lock" /\ waiters' = Append(waiters, Scheduler)
    BY <2>1, <2>2, <1>a, SchedulerPc DEF Form, Enters, Wants
  <2>3. CASE sched'.pc = "mark" /\ waiters' = waiters
    BY <2>1, <2>3, <1>3
  <2> QED
    BY <2>1, <2>2, <2>3
<1>6. CASE Fire
  <2>1. /\ sched.pc = "lock" /\ Holder(Scheduler) /\ sched'.pc = "run" /\ conn' = conn
        /\ waiters' = waiters /\ recorded' = Scheduler
    BY <1>6, <1>c DEF Fire
  <2> QED
    BY <2>1, <1>a, SchedulerPc DEF Form, Runs, Wants
<1>7. CASE FireFails \/ FireEnds
  <2>1. /\ sched'.pc = "mark" /\ conn' = conn /\ waiters' = Tail(waiters)
    BY <1>7, <1>c DEF FireFails, FireEnds
  <2>2. Holder(Scheduler)
    BY <1>7 DEF FireFails, FireEnds, Inv, Contiguous, Pc, Task
  <2> QED
    BY <2>1, <2>2, <1>a, SchedulerPc DEF Form, Leaves, Wants
<1>8. ASSUME NEW c \in Connector, NEW allowed \in BOOLEAN, Recv(c, allowed)
      PROVE  Form
  <2>1. Pc(c) = "recv" /\ Pc(c)' = "lock" /\ \A k \in Task \ {c} : Same(k)
    <3> DEFINE new == [pc |-> "lock", allowed |-> allowed]
    <3>1. conn[c].pc = "recv" /\ sched' = sched /\ conn' = [conn EXCEPT ![c] = new]
      BY <1>8 DEF Recv
    <3>2. new.pc = "lock"
      OBVIOUS
    <3> HIDE DEF new
    <3> QED
      BY <3>1, <3>2, ConnectorPc
  <2> QED
    BY <1>8, <2>1, <1>b DEF Recv, Form, Enters, Wants
<1>9. ASSUME NEW c \in Connector, waiters' = waiters, recorded' = recorded,
             ~Wants(c), ~Wants(c)', \A k \in Task \ {c} : Same(k)
      PROVE  Form
  BY <1>9 DEF Form, Passes, Same, Wants
<1>10. ASSUME NEW c \in Connector, RecvEnds(c) \/ Send(c)
       PROVE  Form
  <2>1. ~Wants(c) /\ ~Wants(c)' /\ \A k \in Task \ {c} : Same(k)
    BY <1>10, ConnectorPc DEF RecvEnds, Send, Off, Receiving, Wants
  <2> QED
    BY <1>9, <1>10, <2>1 DEF RecvEnds, Send
<1>11. ASSUME NEW c \in Connector, Dispatch(c)
       PROVE  Form
  <2>1. CASE conn[c].allowed
    <3>1. conn' = [conn EXCEPT ![c] = [conn[c] EXCEPT !.pc = "run"]]
      BY <1>11, <2>1 DEF Dispatch
    <3>2. [conn[c] EXCEPT !.pc = "run"].pc = "run"
      BY DEF Inv, TypeOK
    <3>3. Pc(c) = "lock" /\ Pc(c)' = "run" /\ \A k \in Task \ {c} : Same(k)
      BY <1>11, <3>1, <3>2, ConnectorPc DEF Dispatch
    <3> QED
      BY <1>11, <1>b, <2>1, <3>3 DEF Dispatch, Form, Runs, Wants
  <2>2. CASE ~conn[c].allowed
    <3>1. Pc(c)' = "recv" /\ \A k \in Task \ {c} : Same(k)
      BY <1>11, <2>2, ConnectorPc DEF Dispatch, Receiving
    <3> QED
      BY <1>11, <1>b, <2>2, <3>1 DEF Dispatch, Form, Leaves, Wants
  <2> QED
    BY <2>1, <2>2
<1>12. ASSUME NEW c \in Connector, DispatchFails(c)
       PROVE  Form
  <2>1. Pc(c)' = "recv" /\ \A k \in Task \ {c} : Same(k)
    <3>1. sched' = sched /\ conn' = [conn EXCEPT ![c] = Receiving]
      BY <1>12 DEF DispatchFails
    <3>2. Receiving.pc = "recv"
      BY DEF Receiving
    <3> QED
      BY <3>1, <3>2, ConnectorPc
  <2> QED
    BY <1>12, <1>b, <2>1 DEF DispatchFails, Form, Leaves, Wants
<1>13. ASSUME NEW c \in Connector, RunEnds(c)
       PROVE  Form
  <2>1. PICK new : conn' = [conn EXCEPT ![c] = new] /\ new.pc \in {"send", "recv"}
    <3>1. [conn[c] EXCEPT !.pc = "send"].pc = "send"
      BY DEF Inv, TypeOK
    <3>2. \/ conn' = [conn EXCEPT ![c] = [conn[c] EXCEPT !.pc = "send"]]
          \/ conn' = [conn EXCEPT ![c] = Receiving]
      BY <1>13 DEF RunEnds
    <3> QED
      BY <3>1, <3>2 DEF Receiving
  <2>2. Pc(c)' \in {"send", "recv"} /\ \A k \in Task \ {c} : Same(k)
    BY <1>13, <2>1, ConnectorPc DEF RunEnds
  <2>3. Holder(c)
    BY <1>13, <1>b DEF RunEnds, Inv, Contiguous, Pc, Task
  <2> QED
    BY <1>13, <1>b, <2>2, <2>3 DEF RunEnds, Form, Leaves, Wants
<1>14. CASE Stop \/ Crash
  <2>1. waiters' = <<>> /\ sched' = Idle /\ conn' = [c \in Connector |-> Off]
    BY <1>14 DEF Stop, Crash, Halted
  <2>2. \A t \in Task : Pc(t)' \in {"idle", "off"}
    BY <2>1 DEF Pc, Task, Idle, Off
  <2> QED
    BY <2>1, <2>2 DEF Form, Halts
<1> QED
  BY <1>1, <1>2, <1>4, <1>5, <1>6, <1>7, <1>8, <1>10, <1>11, <1>12, <1>13, <1>14
  DEF Next, SchedulerStep, ConnectorStep

LEMMA QueueStep ==
  ASSUME Inv, [Next]_vars
  PROVE  Queue'
<1>0. Queue
  BY DEF Inv, QueueInv
<1>1. CASE Passes
  BY <1>0, <1>1 DEF Passes, Queue
<1>2. CASE Halts
  BY <1>2 DEF Halts, Queue
<1>3. ASSUME NEW t \in Task, Enters(t)
      PROVE  Queue'
  <2>1. /\ waiters' \in Seq(Task) /\ Len(waiters') = Len(waiters) + 1
        /\ \A i \in 1..Len(waiters) : waiters'[i] = waiters[i]
        /\ waiters'[Len(waiters) + 1] = t
    BY <1>0, <1>3 DEF Enters, Queue
  <2>2. \A i \in 1..Len(waiters) : waiters[i] \in Task /\ waiters[i] # t
    BY <1>0, <1>3 DEF Enters, Queue
  <2>3. Wants(t)' /\ \A k \in Task \ {t} : Wants(k) => Wants(k)'
    BY <1>3 DEF Enters, Wants, Same
  <2>4. \A i \in 1..Len(waiters') : i \in 1..Len(waiters) \/ i = Len(waiters) + 1
    BY <2>1, <1>0 DEF Queue
  <2>5. \A k \in Task, i \in 1..Len(waiters') : waiters'[i] = k => Wants(k)'
    BY <1>0, <2>1, <2>2, <2>3, <2>4 DEF Queue
  <2>6. \A i, k \in 1..Len(waiters') : waiters'[i] = waiters'[k] => i = k
    BY <1>0, <2>1, <2>2, <2>4 DEF Queue
  <2> QED
    BY <2>1, <2>5, <2>6 DEF Queue
<1>4. ASSUME NEW t \in Task, Runs(t)
      PROVE  Queue'
  <2>1. waiters' = waiters /\ \A k \in Task : Wants(k) => Wants(k)'
    BY <1>4 DEF Runs, Same, Wants
  <2> QED
    BY <1>0, <2>1 DEF Queue
<1>5. ASSUME NEW t \in Task, Leaves(t)
      PROVE  Queue'
  <2>1. waiters # <<>> /\ waiters[1] = t /\ waiters' = Tail(waiters)
    BY <1>5, <1>0 DEF Leaves, Holder, Queue
  <2>2. /\ waiters' \in Seq(Task) /\ Len(waiters') = Len(waiters) - 1
        /\ \A i \in 1..Len(waiters') : waiters'[i] = waiters[i + 1]
    BY <1>0, <2>1 DEF Queue
  <2>3. \A i \in 1..Len(waiters') : i + 1 \in 1..Len(waiters) /\ waiters'[i] # t
    BY <1>0, <2>1, <2>2 DEF Queue
  <2>4. \A k \in Task \ {t} : Wants(k) => Wants(k)'
    BY <1>5 DEF Leaves, Same, Wants
  <2>5. \A k \in Task, i \in 1..Len(waiters') : waiters'[i] = k => Wants(k)'
    BY <1>0, <2>2, <2>3, <2>4 DEF Queue
  <2>6. \A i, k \in 1..Len(waiters') : waiters'[i] = waiters'[k] => i = k
    <3> SUFFICES ASSUME NEW i \in 1..Len(waiters'), NEW k \in 1..Len(waiters'),
                        waiters'[i] = waiters'[k]
                 PROVE  i = k
      OBVIOUS
    <3>1. waiters[i + 1] = waiters[k + 1]
          /\ i + 1 \in 1..Len(waiters) /\ k + 1 \in 1..Len(waiters)
      BY <2>2, <2>3
    <3>2. i + 1 = k + 1
      BY <1>0, <3>1 DEF Queue
    <3> QED
      BY <3>2
  <2> QED
    BY <2>2, <2>5, <2>6 DEF Queue
<1> QED
  BY Forms, <1>1, <1>2, <1>3, <1>4, <1>5

\* A dispatch that runs holds the mutex, and the others wait for it.
LEMMA ContiguousStep ==
  ASSUME Inv, [Next]_vars
  PROVE  Contiguous'
<1>0. Contiguous
  BY DEF Inv
<1>1. CASE Passes
  BY <1>0, <1>1 DEF Passes, Contiguous, Holder
<1>2. CASE Halts
  BY <1>2 DEF Halts, Contiguous
<1>3. ASSUME NEW t \in Task, Enters(t)
      PROVE  Contiguous'
  <2>1. \A k \in Task : Pc(k)' = "run" => Pc(k) = "run"
    BY <1>3 DEF Enters, Same
  <2>2. waiters # <<>> => waiters' # <<>> /\ Head(waiters') = Head(waiters)
    BY <1>3 DEF Enters, Inv, TypeOK
  <2> QED
    BY <1>0, <1>3, <2>1, <2>2 DEF Enters, Contiguous, Holder
<1>4. ASSUME NEW t \in Task, Runs(t) \/ Leaves(t)
      PROVE  Contiguous'
  <2>1. \A k \in Task \ {t} : Pc(k)' # "run"
    BY <1>0, <1>4 DEF Runs, Leaves, Contiguous, Holder, Same
  <2> QED
    BY <1>4, <2>1 DEF Runs, Leaves, Contiguous, Holder, Wants
<1> QED
  BY Forms, <1>1, <1>2, <1>3, <1>4
-----------------------------------------------------------------------------
(* The table of jobs.  Seen from it, every step is one of these, or adds or *)
(* removes a row.                                                          *)

tableOf == <<jobs, fires, refires>>

Waits ==
  /\ UNCHANGED <<tableOf, faults>> /\ clock' \in Nat /\ clock' >= clock
  /\ \/ sched' = sched
     \/ sched.pc \in {"idle", "job"} /\ sched.due = {} /\ sched' = Idle

Ticks ==
  /\ UNCHANGED <<tableOf, faults, clock>> /\ sched.pc = "idle"
  /\ sched' = [pc |-> "job", now |-> clock, due |-> due_jobs(clock), job |-> NoJob]

Takes ==
  /\ UNCHANGED <<tableOf, faults, clock>> /\ sched.pc = "job"
  /\ \E j \in sched.due, l \in {"lock", "mark"} :
       sched' = [sched EXCEPT !.pc = l, !.job = j, !.due = @ \ {j}]

Ends ==
  /\ UNCHANGED <<tableOf, faults, clock>> /\ sched.pc \in {"lock", "run"}
  /\ sched' = [sched EXCEPT !.pc = "mark"]

Drops ==
  /\ UNCHANGED <<tableOf, clock>> /\ sched' = Idle
  /\ faults' \in {faults, faults + 1}
  /\ Unmarked => faults' = faults + 1

LEMMA TableForms ==
  ASSUME Inv, [Next]_vars
  PROVE  \/ Waits \/ Ticks \/ Takes \/ Ends \/ Drops \/ Fire \/ Mark
         \/ \E cron \in Cron : add_cron_job(cron)
         \/ \E j \in jobs : remove_cron_job(j)
<1> USE DEF vars, tableVars, historyVars, tableOf
<1>a. clock \in Nat /\ faults \in Nat
  BY GatewayAssumption DEF Inv, TypeOK
<1>b. sched.pc = "idle" => sched.due = {}
  BY DEF Inv, TableInv
<1>1. CASE ClockAdvances \/ RequestShutdown \/ UNCHANGED vars
  BY <1>1, <1>a DEF ClockAdvances, RequestShutdown, Waits
<1>2. CASE StartDaemon
  <2>1. sched.pc = "idle"
    <3>1. Pc(Scheduler) \in {"idle", "off"}
      BY <1>2 DEF StartDaemon, Inv, QueueInv, Task
    <3> QED
      BY <3>1 DEF Pc, Inv, TypeOK
  <2> QED
    BY <1>2, <1>a, <1>b, <2>1 DEF StartDaemon, Waits
<1>3. CASE Tick \/ TickEnds
  BY <1>3, <1>a DEF Tick, TickEnds, Ticks, Waits
<1>4. CASE TakeJob
  BY <1>4 DEF TakeJob, Takes
<1>5. CASE FireFails \/ FireEnds
  BY <1>5 DEF FireFails, FireEnds, Ends
<1>6. CASE MarkFails
  BY <1>6 DEF MarkFails, Drops
<1>7. ASSUME NEW c \in Connector, NEW allowed \in BOOLEAN, Recv(c, allowed)
      PROVE  Waits
  BY <1>7, <1>a DEF Recv, Waits
<1>8. ASSUME NEW c \in Connector, RecvEnds(c) \/ ConnectorStep(c)
      PROVE  Waits
  BY <1>8, <1>a
  DEF RecvEnds, ConnectorStep, Dispatch, DispatchFails, RunEnds, Send, Waits
<1>9. CASE Stop
  BY <1>9, <1>a, <1>b DEF Stop, Halted, Waits
<1>10. CASE Crash
  BY <1>10 DEF Crash, Halted, Drops
<1> QED
  BY <1>1, <1>2, <1>3, <1>4, <1>5, <1>6, <1>7, <1>8, <1>9, <1>10
  DEF Next, SchedulerStep

\* A new row has an id of its own, one more than the largest.
LEMMA NextIdFresh ==
  ASSUME Inv, NEW n \in 0..MaxJobs, \A j \in jobs : j.id <= n
  PROVE  NextId \in 1..(n + 1) /\ \A j \in jobs : j.id < NextId
<1> DEFINE S == {i \in 1..MaxJobs : \E j \in jobs : j.id >= i}
<1>0. MaxJobs \in Nat /\ \A j \in jobs : j.id \in 1..MaxJobs
  BY GatewayAssumption DEF Inv, TypeOK, Job
<1>1. S \subseteq 1..n
  BY <1>0
<1>2. IsFiniteSet(S) /\ Cardinality(S) \in 0..n
  <2>1. IsFiniteSet(1..n) /\ Cardinality(1..n) = n
    BY FS_Interval
  <2>2. IsFiniteSet(S) /\ Cardinality(S) <= Cardinality(1..n)
    BY <1>1, <2>1, FS_Subset
  <2> QED
    BY <2>1, <2>2, FS_CardinalityType
<1>3. ASSUME NEW j \in jobs
      PROVE  j.id <= Cardinality(S)
  <2>1. 1..j.id \subseteq S
    BY <1>0
  <2>2. Cardinality(1..j.id) = j.id
    BY <1>0, FS_Interval
  <2> HIDE DEF S
  <2>3. Cardinality(1..j.id) <= Cardinality(S)
    BY <1>2, <2>1, FS_Subset
  <2> QED
    BY <2>2, <2>3
<1>4. NextId = 1 + Cardinality(S)
  BY DEF NextId
<1> HIDE DEF S
<1> QED
  BY <1>0, <1>2, <1>3, <1>4

\* What every step on the table starts from.
LEMMA Known ==
  ASSUME Inv
  PROVE  /\ clock \in Nat /\ faults \in Nat /\ refires \in Nat /\ MaxJobs \in Nat
         /\ jobs \subseteq Job /\ Snapshot \subseteq Job
         /\ fires \in [1..MaxJobs -> [added : BOOLEAN, slot : Nat, at : Nat]]
         /\ sched \in [pc : {"idle", "job", "lock", "run", "mark"}, now : Nat,
                       due : SUBSET Job, job : Job \cup {NoJob}]
  BY GatewayAssumption DEF Inv, TypeOK, TableInv, Snapshot

\* The counts of repetitions and repeaters.
LEMMA RepeatersFinite ==
  ASSUME Inv
  PROVE  IsFiniteSet(Repeaters) /\ Cardinality(Repeaters) \in Nat
<1>1. IsFiniteSet(1..MaxJobs)
  BY Known, FS_Interval
<1>2. Repeaters \subseteq 1..MaxJobs
  BY DEF Repeaters
<1> QED
  BY <1>1, <1>2, FS_Subset, FS_CardinalityType

LEMMA DebtKept ==
  ASSUME Inv, Repeaters' \subseteq Repeaters, refires' = refires,
         faults' \in Nat, faults' >= faults
  PROVE  DebtInv'
<1>1. Cardinality(Repeaters') <= Cardinality(Repeaters) /\ Cardinality(Repeaters') \in Nat
  BY RepeatersFinite, FS_Subset, FS_CardinalityType
<1> QED
  BY <1>1, RepeatersFinite, Known DEF Inv, DebtInv

TableInvs == CountInv /\ TableInv /\ TimeInv /\ DebtInv

LEMMA TicksStep ==
  ASSUME Inv, Ticks
  PROVE  TableInvs'
<1> USE DEF Ticks, tableOf
<1>1. Snapshot' \subseteq jobs /\ Hand' = {} /\ sched'.due = Snapshot'
  BY DEF Snapshot, Hand, due_jobs
<1>2. CountInv'
  BY <1>1 DEF Inv, CountInv, Added
<1>3. TableInv'
  BY <1>1 DEF Inv, TableInv
<1>4. TimeInv'
  <2>1. \A j \in Snapshot' : j.next <= clock
    BY <1>1 DEF due_jobs
  <2> QED
    BY <1>1, <2>1, Known DEF Inv, TimeInv
<1>5. DebtInv'
  <2>1. Repeaters' \subseteq Repeaters
    BY <1>1 DEF Repeaters
  <2> QED
    BY <2>1, DebtKept, Known
<1> QED
  BY <1>2, <1>3, <1>4, <1>5 DEF TableInvs

LEMMA WaitsStep ==
  ASSUME Inv, Waits
  PROVE  TableInvs'
<1> USE DEF Waits, tableOf
<1>1. Snapshot' = Snapshot /\ Hand' = Hand /\ sched'.due = sched.due
  BY DEF Snapshot, Hand, Idle
<1>2. CountInv'
  BY <1>1 DEF Inv, CountInv, Added
<1>3. TableInv'
  BY <1>1 DEF Inv, TableInv
<1>4. TimeInv'
  <2>1. \A u \in 1..MaxJobs : fires'[u].slot <= clock'
    <3>1. \A u \in 1..MaxJobs : fires[u].slot \in Nat /\ fires[u].slot <= clock
      BY Known DEF Inv, TimeInv
    <3> QED
      BY <3>1, Known
  <2>2. sched'.pc # "idle" => sched' = sched /\ sched.now \in Nat
    BY Known DEF Idle
  <2>3. sched'.pc # "idle" =>
          /\ sched'.now <= clock'
          /\ \A u \in 1..MaxJobs : fires'[u].slot <= sched'.now
          /\ \A j \in Snapshot' : j.next <= sched'.now
    BY <1>1, <2>2, Known DEF Inv, TimeInv
  <2>4. \A j \in jobs' \cup Snapshot' : fires'[j.uid].slot <= j.next
    BY <1>1 DEF Inv, TimeInv
  <2> QED
    BY <2>1, <2>3, <2>4 DEF TimeInv
<1>5. DebtInv'
  <2>1. Repeaters' \subseteq Repeaters
    BY <1>1 DEF Repeaters, Idle
  <2> QED
    BY <2>1, DebtKept, Known
<1> QED
  BY <1>2, <1>3, <1>4, <1>5 DEF TableInvs

LEMMA TakesStep ==
  ASSUME Inv, Takes
  PROVE  TableInvs'
<1> USE DEF Takes, tableOf
<1>0. PICK j \in sched.due, l \in {"lock", "mark"} :
        sched' = [sched EXCEPT !.pc = l, !.job = j, !.due = @ \ {j}]
  OBVIOUS
<1>1. /\ sched'.pc = l /\ sched'.job = j /\ sched'.due = sched.due \ {j}
      /\ sched'.now = sched.now
  BY <1>0, Known
<1>2. Hand' = {j} /\ Snapshot' = Snapshot /\ Hand = {} /\ Snapshot = sched.due
  BY <1>0, <1>1 DEF Snapshot, Hand
<1>3. CountInv'
  BY <1>2 DEF Inv, CountInv, Added
<1>4. TableInv'
  BY <1>1, <1>2, Known DEF Inv, TableInv
<1>5. TimeInv'
  BY <1>1, <1>2, Known DEF Inv, TimeInv
<1>6. DebtInv'
  <2>1. Repeaters' \subseteq Repeaters
    BY <1>1, <1>2 DEF Repeaters
  <2> QED
    BY <2>1, DebtKept, Known
<1> QED
  BY <1>3, <1>4, <1>5, <1>6 DEF TableInvs

LEMMA EndsStep ==
  ASSUME Inv, Ends
  PROVE  TableInvs'
<1> USE DEF Ends, tableOf
<1>1. /\ sched'.pc = "mark" /\ sched'.job = sched.job /\ sched'.due = sched.due
      /\ sched'.now = sched.now
  BY Known
<1>2. Hand' = Hand /\ Snapshot' = Snapshot
  BY <1>1 DEF Snapshot, Hand
<1>3. CountInv'
  BY <1>2 DEF Inv, CountInv, Added
<1>4. TableInv'
  BY <1>1, <1>2 DEF Inv, TableInv
<1>5. TimeInv'
  BY <1>1, <1>2 DEF Inv, TimeInv
<1>6. DebtInv'
  <2>1. Repeaters' \subseteq Repeaters
    BY <1>1, <1>2 DEF Repeaters
  <2> QED
    BY <2>1, DebtKept, Known
<1> QED
  BY <1>3, <1>4, <1>5, <1>6 DEF TableInvs

LEMMA RemoveStep ==
  ASSUME Inv, NEW j \in jobs, remove_cron_job(j)
  PROVE  TableInvs'
<1> USE DEF remove_cron_job, historyVars
<1>1. Hand' = Hand /\ Snapshot' = Snapshot /\ jobs' \subseteq jobs
  BY DEF Snapshot, Hand
<1>2. CountInv'
  BY <1>1 DEF Inv, CountInv, Added
<1>3. TableInv'
  BY <1>1 DEF Inv, TableInv
<1>4. TimeInv'
  BY <1>1 DEF Inv, TimeInv
<1>5. DebtInv'
  <2>1. Repeaters' \subseteq Repeaters
    BY <1>1 DEF Repeaters
  <2> QED
    BY <2>1, DebtKept, Known
<1> QED
  BY <1>2, <1>3, <1>4, <1>5 DEF TableInvs

LEMMA AddStep ==
  ASSUME Inv, NEW cron \in Cron, add_cron_job(cron)
  PROVE  TableInvs' /\ jobs' \subseteq Job
<1> USE DEF historyVars
<1>1. PICK n \in 0..MaxJobs :
        /\ Added = 1..n
        /\ \A u \in (n + 1)..MaxJobs : fires[u].slot = 0
        /\ \A j \in jobs \cup Snapshot : j.id <= n /\ j.uid <= n
  BY DEF Inv, CountInv
<1>2. Cardinality(Added) = n /\ n < MaxJobs
  <2>1. Cardinality(1..n) = n
    BY FS_Interval
  <2> QED
    BY <1>1, <2>1 DEF add_cron_job
<1> DEFINE uid == n + 1
           new == [id |-> NextId, uid |-> uid, cron |-> cron,
                   next |-> next_fire_unix(cron, clock)]
<1>3. /\ jobs' = jobs \cup {new} /\ fires' = [fires EXCEPT ![uid].added = TRUE]
      /\ UNCHANGED <<clock, sched, refires, faults>>
  BY <1>2 DEF add_cron_job
<1>4. NextId \in 1..(n + 1) /\ \A j \in jobs : j.id < NextId
  BY <1>1, NextIdFresh
<1>5. new \in Job /\ new.id = NextId /\ new.uid = n + 1 /\ new.next > clock
  <2>1. next_fire_unix(cron, clock) \in Nat /\ next_fire_unix(cron, clock) > clock
    BY Known, NextFire
  <2>2. NextId \in 1..MaxJobs /\ n + 1 \in 1..MaxJobs
    BY <1>2, <1>4, Known
  <2> QED
    BY <2>1, <2>2 DEF Job
<1>6. /\ \A u \in 1..MaxJobs : fires'[u].slot = fires[u].slot
      /\ \A u \in 1..MaxJobs : fires'[u].added <=> fires[u].added \/ u = n + 1
  BY <1>2, <1>3, Known
<1>7. Hand' = Hand /\ Snapshot' = Snapshot /\ sched' = sched
  BY <1>3 DEF Snapshot, Hand
<1>8. fires[n + 1].slot = 0 /\ n + 1 \in 1..MaxJobs
  BY <1>1, <1>2, Known
<1> HIDE DEF new
<1>9. CountInv'
  <2>1. Added' = 1..(n + 1)
    BY <1>1, <1>2, <1>6, Known DEF Added
  <2>2. \A u \in (n + 2)..MaxJobs : fires'[u].slot = 0
    BY <1>1, <1>2, <1>6
  <2>3. \A j \in jobs' \cup Snapshot' : j.id <= n + 1 /\ j.uid <= n + 1
    <3>1. \A j \in jobs \cup Snapshot :
            j.id \in Nat /\ j.uid \in Nat /\ j.id <= n /\ j.uid <= n
      BY <1>1, Known DEF Job
    <3>2. new.id <= n + 1 /\ new.uid <= n + 1
      BY <1>4, <1>5
    <3> QED
      BY <1>3, <1>7, <3>1, <3>2
  <2>4. n + 1 \in 0..MaxJobs /\ (n + 1) + 1 = n + 2
    BY <1>2, Known
  <2> QED
    BY <2>1, <2>2, <2>3, <2>4 DEF CountInv
<1>10. TableInv'
  <2>1. \A j \in jobs : j.id # new.id /\ j.uid # new.uid
    <3>1. \A j \in jobs : j.id \in Nat /\ j.uid \in Nat /\ j.uid <= n
      BY <1>1, Known DEF Job
    <3> QED
      BY <1>4, <1>5, <3>1
  <2>2. \A j \in Snapshot : j.uid # new.uid
    BY <1>1, <1>5, Known DEF Job
  <2> QED
    BY <1>3, <1>7, <2>1, <2>2 DEF Inv, TableInv
<1>11. TimeInv'
  <2>1. fires'[new.uid].slot <= new.next
    BY <1>5, <1>6, <1>8, Known DEF Job
  <2>2. \A j \in jobs \cup Snapshot : fires'[j.uid].slot <= j.next
    BY <1>6, Known DEF Inv, TimeInv, Job
  <2> QED
    BY <1>3, <1>6, <1>7, <2>1, <2>2 DEF Inv, TimeInv
<1>12. DebtInv'
  <2>1. new.next # fires[new.uid].slot
    BY <1>5, <1>8, Known
  <2>2. Repeaters' \subseteq Repeaters
    BY <1>3, <1>6, <1>7, <2>1 DEF Repeaters
  <2> QED
    BY <1>3, <2>2, DebtKept, Known
<1> QED
  BY <1>3, <1>5, <1>9, <1>10, <1>11, <1>12, Known DEF TableInvs

LEMMA FireStep ==
  ASSUME Inv, Fire
  PROVE  TableInvs'
<1> USE DEF tableVars
<1> DEFINE job == sched.job
           u == job.uid
<1>1. job \in Snapshot /\ job \in Job /\ u \in 1..MaxJobs /\ Hand = {job}
  BY Known DEF Fire, Snapshot, Hand, Job
<1>2. /\ sched'.pc = "run" /\ sched'.job = job /\ sched'.due = sched.due
      /\ sched'.now = sched.now /\ sched.pc = "lock"
      /\ UNCHANGED <<jobs, faults, clock>>
  BY Known DEF Fire
<1>3. Hand' = Hand /\ Snapshot' = Snapshot
  BY <1>1, <1>2 DEF Snapshot, Hand
<1>4. /\ fires'[u].slot = job.next /\ fires'[u].added = fires[u].added
      /\ \A v \in 1..MaxJobs \ {u} : fires'[v] = fires[v]
  BY <1>1, Known DEF Fire
<1>5. refires' = IF job.next <= fires[u].slot THEN refires + 1 ELSE refires
  BY DEF Fire
<1> HIDE DEF job
<1>6. CountInv'
  <2>1. Added' = Added
    BY <1>4 DEF Added
  <2>2. PICK n \in 0..MaxJobs :
          /\ Added = 1..n
          /\ \A v \in (n + 1)..MaxJobs : fires[v].slot = 0
          /\ \A j \in jobs \cup Snapshot : j.id <= n /\ j.uid <= n
    BY DEF Inv, CountInv
  <2>3. u <= n
    BY <1>1, <2>2
  <2>4. ASSUME NEW v \in (n + 1)..MaxJobs PROVE fires'[v].slot = 0
    <3>1. v \in 1..MaxJobs /\ v # u
      BY <1>1, <2>3, Known
    <3> QED
      BY <1>4, <2>2, <3>1
  <2> QED
    BY <1>2, <1>3, <2>1, <2>2, <2>4 DEF CountInv
<1>7. TableInv'
  BY <1>2, <1>3 DEF Inv, TableInv
<1>8. TimeInv'
  <2>1. job.next <= sched.now /\ sched.now <= clock /\ fires[u].slot <= job.next
    BY <1>1, <1>2 DEF Inv, TimeInv
  <2>2. \A v \in 1..MaxJobs : fires'[v].slot <= sched.now /\ fires'[v].slot <= clock
    <3> SUFFICES ASSUME NEW v \in 1..MaxJobs
                 PROVE  fires'[v].slot <= sched.now /\ fires'[v].slot <= clock
      OBVIOUS
    <3>1. CASE v = u
      BY <1>1, <1>4, <2>1, <3>1, Known DEF Job
    <3>2. CASE v # u
      <4>1. fires'[v] = fires[v]
        BY <1>4, <3>2
      <4> QED
        BY <1>2, <4>1 DEF Inv, TimeInv
    <3> QED
      BY <3>1, <3>2
  <2>3. \A j \in jobs \cup Snapshot : j.uid = u => j = job
    BY <1>1 DEF Inv, TableInv
  <2>4. \A j \in jobs \cup Snapshot : fires'[j.uid].slot <= j.next
    <3>1. \A j \in jobs \cup Snapshot :
            j.uid \in 1..MaxJobs /\ fires[j.uid].slot <= j.next
      BY Known DEF Inv, TimeInv, Job
    <3>2. fires'[u].slot <= job.next
      BY <1>1, <1>4 DEF Job
    <3> QED
      BY <1>4, <2>3, <3>1, <3>2
  <2> QED
    BY <1>2, <1>3, <2>1, <2>2, <2>4 DEF Inv, TimeInv
<1>9. DebtInv'
  <2>1. Repeaters' \subseteq Repeaters \ {u}
    BY <1>2, <1>3, <1>4 DEF Repeaters
  <2>2. CASE job.next <= fires[u].slot
    <3>1. job.next = fires[u].slot
      BY <1>1, <2>2, Known DEF Inv, TimeInv, Job
    <3>2. u \in Repeaters
      BY <1>1, <1>2, <3>1 DEF Repeaters
    <3>3. /\ IsFiniteSet(Repeaters \ {u})
          /\ Cardinality(Repeaters \ {u}) = Cardinality(Repeaters) - 1
      BY <3>2, RepeatersFinite, FS_RemoveElement
    <3>4. /\ Cardinality(Repeaters') <= Cardinality(Repeaters \ {u})
          /\ Cardinality(Repeaters') \in Nat
      BY <2>1, <3>3, FS_Subset, FS_CardinalityType
    <3> QED
      BY <1>2, <1>5, <2>2, <3>3, <3>4, RepeatersFinite, Known DEF Inv, DebtInv
  <2>3. CASE ~(job.next <= fires[u].slot)
    BY <1>2, <1>5, <2>1, <2>3, DebtKept, Known
  <2> QED
    BY <2>2, <2>3
<1> QED
  BY <1>6, <1>7, <1>8, <1>9 DEF TableInvs

LEMMA MarkStep ==
  ASSUME Inv, Mark
  PROVE  TableInvs' /\ jobs' \subseteq Job
<1> USE DEF historyVars
<1> DEFINE job == sched.job
           next == next_fire_unix(job.cron, sched.now)
           Marked(j) == IF j.id = job.id THEN [j EXCEPT !.next = next] ELSE j
<1>1. job \in Snapshot /\ job \in Job /\ sched.pc = "mark" /\ Hand = {job}
  BY Known DEF Mark, Snapshot, Hand
<1>2. /\ sched'.pc = "job" /\ sched'.due = sched.due /\ sched'.now = sched.now
      /\ UNCHANGED <<faults, clock, refires, fires>>
  BY Known DEF Mark
<1>3. jobs' = {Marked(j) : j \in jobs}
  BY DEF Mark, mark_fired
<1>4. next \in Nat /\ next > sched.now
  BY <1>1, Known, NextFire DEF Job
<1>5. Hand' = {} /\ Snapshot' = sched.due /\ Snapshot = sched.due \cup {job}
  BY <1>1, <1>2 DEF Snapshot, Hand
<1>6. \A j \in jobs :
        /\ Marked(j) \in Job /\ Marked(j).id = j.id /\ Marked(j).uid = j.uid
        /\ j.id = job.id => Marked(j).next = next
        /\ j.id # job.id => Marked(j) = j
  BY <1>4, Known DEF Job
<1> HIDE DEF job, next, Marked
<1>7. CountInv'
  <2>1. PICK n \in 0..MaxJobs :
          /\ Added = 1..n
          /\ \A v \in (n + 1)..MaxJobs : fires[v].slot = 0
          /\ \A j \in jobs \cup Snapshot : j.id <= n /\ j.uid <= n
    BY DEF Inv, CountInv
  <2>2. \A j \in jobs' \cup Snapshot' : j.id <= n /\ j.uid <= n
    BY <1>3, <1>5, <1>6, <2>1
  <2>3. Added' = Added
    BY <1>2 DEF Added
  <2> QED
    BY <1>2, <2>1, <2>2, <2>3 DEF CountInv
<1>8. TableInv'
  <2>1. \A j, k \in jobs' : j.uid = k.uid \/ j.id = k.id => j = k
    BY <1>3, <1>6 DEF Inv, TableInv
  <2>2. \A j \in sched.due : j.uid # job.uid /\ j.id # job.id
    BY <1>1, <1>5 DEF Inv, TableInv
  <2>3. \A j \in sched.due, k \in jobs' : j.uid = k.uid => j = k
    BY <1>3, <1>5, <1>6, <2>2 DEF Inv, TableInv
  <2> QED
    BY <1>2, <1>5, <2>1, <2>3 DEF Inv, TableInv
<1>9. TimeInv'
  <2>1. \A j \in jobs' : fires[j.uid].slot <= j.next
    <3>1. \A j \in jobs : fires[j.uid].slot <= sched.now /\ fires[j.uid].slot <= j.next
      BY <1>1, Known DEF Inv, TimeInv, Job
    <3> QED
      BY <1>3, <1>4, <1>6, <3>1, Known DEF Job
  <2> QED
    BY <1>1, <1>2, <1>5, <2>1 DEF Inv, TimeInv
<1>10. DebtInv'
  <2>1. \A j \in jobs' \cup Snapshot' :
          j.next = fires[j.uid].slot => j \in jobs \cup Snapshot /\ j.uid # job.uid
    <3>1. \A j \in jobs : fires[j.uid].slot <= sched.now
      BY <1>1, Known DEF Inv, TimeInv, Job
    <3>2. \A j \in jobs : j.uid = job.uid => j.id = job.id
      BY <1>1 DEF Inv, TableInv
    <3>3. \A j \in sched.due : j.uid # job.uid
      BY <1>1, <1>5 DEF Inv, TableInv
    <3>4. ASSUME NEW j \in jobs, Marked(j).next = fires[j.uid].slot
          PROVE  Marked(j) = j /\ j.uid # job.uid
      <4>1. fires[j.uid].slot \in Nat /\ fires[j.uid].slot <= sched.now
        BY <3>1, Known DEF Job
      <4>2. j.id # job.id
        BY <1>4, <1>6, <3>4, <4>1, Known
      <4> QED
        BY <1>6, <3>2, <4>2
    <3> QED
      BY <1>3, <1>5, <1>6, <3>3, <3>4
  <2>2. Repeaters' \subseteq Repeaters
    BY <1>2, <2>1 DEF Repeaters, job
  <2> QED
    BY <1>2, <2>2, DebtKept, Known
<1> QED
  BY <1>3, <1>6, <1>7, <1>8, <1>9, <1>10 DEF TableInvs

LEMMA DropsStep ==
  ASSUME Inv, Drops
  PROVE  TableInvs'
<1> USE DEF Drops, tableOf
<1>1. Hand' = {} /\ Snapshot' = {} /\ sched'.due = {} /\ sched'.pc = "idle"
  BY DEF Snapshot, Hand, Idle
<1>2. CountInv'
  BY <1>1 DEF Inv, CountInv, Added
<1>3. TableInv'
  BY <1>1 DEF Inv, TableInv
<1>4. TimeInv'
  BY <1>1 DEF Inv, TimeInv
<1>5. DebtInv'
  <2> DEFINE u == sched.job.uid
  <2>1. Repeaters' \subseteq Repeaters \cup {u}
    BY <1>1 DEF Repeaters
  <2>2. CASE Unmarked
    <3>1. /\ IsFiniteSet(Repeaters \cup {u})
          /\ Cardinality(Repeaters \cup {u}) \in Nat
          /\ Cardinality(Repeaters \cup {u}) <= Cardinality(Repeaters) + 1
      BY RepeatersFinite, FS_AddElement
    <3>2. /\ Cardinality(Repeaters') <= Cardinality(Repeaters \cup {u})
          /\ Cardinality(Repeaters') \in Nat
      BY <2>1, <3>1, FS_Subset, FS_CardinalityType
    <3> QED
      BY <2>2, <3>1, <3>2, RepeatersFinite, Known DEF Inv, DebtInv
  <2>3. CASE ~Unmarked
    <3>1. CASE sched.pc \in {"run", "mark"}
      <4>1. sched.job \in Snapshot /\ sched.job \in Hand
        BY <3>1 DEF Snapshot, Hand
      <4>2. \A j \in jobs : j.uid = u => j = sched.job
        BY <4>1 DEF Inv, TableInv
      <4>3. Repeaters' \subseteq Repeaters
        BY <1>1, <2>3, <3>1, <4>2 DEF Repeaters, Unmarked
      <4> QED
        BY <4>3, DebtKept, Known
    <3>2. CASE sched.pc \notin {"run", "mark"}
      <4>1. Repeaters' \subseteq Repeaters
        BY <1>1, <3>2 DEF Repeaters
      <4> QED
        BY <4>1, DebtKept, Known
    <3> QED
      BY <3>1, <3>2
  <2> QED
    BY <2>2, <2>3
<1> QED
  BY <1>2, <1>3, <1>4, <1>5 DEF TableInvs

LEMMA TableStep ==
  ASSUME Inv, [Next]_vars
  PROVE  TableInvs'
  BY TableForms, WaitsStep, TicksStep, TakesStep, EndsStep, DropsStep, FireStep, MarkStep,
     AddStep, RemoveStep
-----------------------------------------------------------------------------
(* Types, and the theorems.                                                *)

\* The types of the variables that a step can change.
TableTypes ==
  /\ clock \in 1..MaxClock
  /\ jobs \subseteq Job
  /\ fires \in [1..MaxJobs -> [added : BOOLEAN, slot : Nat, at : Nat]]
  /\ refires \in Nat
  /\ faults \in 0..MaxFaults

SchedTypes ==
  sched \in [pc : {"idle", "job", "lock", "run", "mark"}, now : Nat,
             due : SUBSET Job, job : Job \cup {NoJob}]

ConnTypes ==
  conn \in [Connector -> [pc : {"off", "recv", "lock", "run", "send"}, allowed : BOOLEAN]]

LEMMA TableTypesStep ==
  ASSUME Inv, [Next]_vars
  PROVE  TableTypes'
<1> USE GatewayAssumption DEF vars, tableVars, historyVars
<1>0. TableTypes
  BY DEF Inv, TypeOK, TableTypes
<1>1. CASE ClockAdvances
  BY <1>0, <1>1 DEF TableTypes, ClockAdvances
<1>2. CASE MarkFails
  BY <1>0, <1>2 DEF TableTypes, MarkFails
<1>3. CASE StartDaemon \/ Tick \/ TakeJob \/ TickEnds \/ FireFails
           \/ FireEnds \/ RequestShutdown \/ UNCHANGED vars
  BY <1>0, <1>3
  DEF TableTypes, StartDaemon, Tick, TakeJob, TickEnds, FireFails, FireEnds, RequestShutdown
<1>4. ASSUME NEW cron \in Cron, add_cron_job(cron)
      PROVE  TableTypes'
  <2>1. fires' \in [1..MaxJobs -> [added : BOOLEAN, slot : Nat, at : Nat]]
    BY <1>0, <1>4 DEF TableTypes, add_cron_job
  <2> QED
    BY <1>0, <1>4, <2>1, AddStep DEF TableTypes, add_cron_job
<1>5. ASSUME NEW j \in jobs, remove_cron_job(j)
      PROVE  TableTypes'
  BY <1>0, <1>5 DEF TableTypes, remove_cron_job
<1>6. CASE Fire
  <2>1. sched.job \in Job
    BY <1>6, Known DEF Fire, Snapshot, Hand
  <2>2. /\ clock' = clock /\ jobs' = jobs /\ faults' = faults
        /\ refires' \in {refires, refires + 1}
        /\ fires' = [fires EXCEPT ![sched.job.uid] =
                       [@ EXCEPT !.slot = sched.job.next, !.at = clock]]
    BY <1>6 DEF Fire
  <2>3. sched.job.next \in Nat /\ clock \in Nat
    BY <2>1, Known DEF Job
  <2>4. fires' \in [1..MaxJobs -> [added : BOOLEAN, slot : Nat, at : Nat]]
    BY <1>0, <2>2, <2>3 DEF TableTypes
  <2>5. refires' \in Nat
    BY <1>0, <2>2 DEF TableTypes
  <2> QED
    BY <1>0, <2>2, <2>4, <2>5 DEF TableTypes
<1>7. CASE Mark
  BY <1>0, <1>7, MarkStep DEF TableTypes, Mark
<1>8. ASSUME NEW c \in Connector, NEW allowed \in BOOLEAN, Recv(c, allowed)
      PROVE  TableTypes'
  BY <1>0, <1>8 DEF TableTypes, Recv
<1>9. ASSUME NEW c \in Connector, RecvEnds(c) \/ ConnectorStep(c)
      PROVE  TableTypes'
  BY <1>0, <1>9
  DEF TableTypes, RecvEnds, ConnectorStep, Dispatch, DispatchFails, RunEnds, Send
<1>10. CASE Stop \/ Crash
  BY <1>0, <1>10 DEF TableTypes, Stop, Crash, Halted
<1> QED
  BY <1>1, <1>2, <1>3, <1>4, <1>5, <1>6, <1>7, <1>8, <1>9, <1>10 DEF Next, SchedulerStep

LEMMA SchedTypesStep ==
  ASSUME Inv, [Next]_vars
  PROVE  SchedTypes'
<1>0. SchedTypes /\ jobs \subseteq Job /\ clock \in Nat
  BY Known DEF SchedTypes
<1>1. CASE sched' \in {sched, Idle}
  BY <1>0, <1>1 DEF SchedTypes, Idle
<1>2. CASE Waits \/ Drops
  BY <1>1, <1>2 DEF Waits, Drops
<1>3. CASE Ticks
  <2>1. due_jobs(clock) \in SUBSET Job
    BY <1>0 DEF due_jobs
  <2> QED
    BY <1>0, <1>3, <2>1 DEF SchedTypes, Ticks
<1>4. CASE Takes
  <2>1. PICK j \in sched.due, l \in {"lock", "mark"} :
          sched' = [sched EXCEPT !.pc = l, !.job = j, !.due = @ \ {j}]
    BY <1>4 DEF Takes
  <2>2. j \in Job /\ sched.due \ {j} \in SUBSET Job
    BY <1>0 DEF SchedTypes
  <2> QED
    BY <1>0, <2>1, <2>2 DEF SchedTypes
<1>5. CASE Ends \/ Fire \/ Mark
  BY <1>0, <1>5 DEF SchedTypes, Ends, Fire, Mark
<1>6. CASE (\E cron \in Cron : add_cron_job(cron)) \/ (\E j \in jobs : remove_cron_job(j))
  BY <1>1, <1>6 DEF add_cron_job, remove_cron_job
<1> QED
  BY TableForms, <1>2, <1>3, <1>4, <1>5, <1>6

LEMMA ConnTypesStep ==
  ASSUME Inv, [Next]_vars
  PROVE  ConnTypes'
<1>0. ConnTypes
  BY DEF Inv, TypeOK, ConnTypes
<1>a. \A one \in {Receiving, Off} :
        one \in [pc : {"off", "recv", "lock", "run", "send"}, allowed : BOOLEAN]
  <2>1. Receiving \in [pc : {"off", "recv", "lock", "run", "send"}, allowed : BOOLEAN]
    BY DEF Receiving
  <2>2. Off \in [pc : {"off", "recv", "lock", "run", "send"}, allowed : BOOLEAN]
    BY DEF Off
  <2> QED
    BY <2>1, <2>2
<1>1. CASE conn' = conn
  BY <1>0, <1>1 DEF ConnTypes
<1>2. CASE StartDaemon \/ Stop \/ Crash
  <2>1. \E one \in {Receiving, Off} : conn' = [c \in Connector |-> one]
    BY <1>2 DEF StartDaemon, Stop, Crash, Halted
  <2> QED
    BY <1>a, <2>1 DEF ConnTypes
<1>3. ASSUME NEW c \in Connector, NEW allowed \in BOOLEAN, Recv(c, allowed)
      PROVE  ConnTypes'
  BY <1>0, <1>3 DEF ConnTypes, Recv
<1>4. ASSUME NEW c \in Connector, RecvEnds(c) \/ ConnectorStep(c)
      PROVE  ConnTypes'
  <2>1. \/ \E one \in {Receiving, Off} : conn' = [conn EXCEPT ![c] = one]
        \/ \E l \in {"run", "send"} : conn' = [conn EXCEPT ![c].pc = l]
    BY <1>4 DEF RecvEnds, ConnectorStep, Dispatch, DispatchFails, RunEnds, Send
  <2>2. CASE \E one \in {Receiving, Off} : conn' = [conn EXCEPT ![c] = one]
    BY <1>0, <1>a, <2>2 DEF ConnTypes
  <2>3. CASE \E l \in {"run", "send"} : conn' = [conn EXCEPT ![c].pc = l]
    BY <1>0, <2>3 DEF ConnTypes
  <2> QED
    BY <2>1, <2>2, <2>3
<1>5. CASE \/ ClockAdvances \/ SchedulerStep \/ RequestShutdown \/ UNCHANGED vars
           \/ (\E cron \in Cron : add_cron_job(cron))
           \/ (\E j \in jobs : remove_cron_job(j))
  BY <1>1, <1>5
  DEF ClockAdvances, SchedulerStep, RequestShutdown, vars, add_cron_job, remove_cron_job,
      Tick, TakeJob, TickEnds, Fire, FireFails, FireEnds, Mark, MarkFails
<1> QED
  BY <1>2, <1>3, <1>4, <1>5 DEF Next

\* The process is up or not, and the last record is of a task.
LEMMA UpStep ==
  ASSUME Inv, [Next]_vars
  PROVE  /\ up' \in BOOLEAN /\ shutdown' \in BOOLEAN /\ recorded' \in Task
         /\ (~up => waiters = <<>> /\ \A t \in Task : Pc(t) \in {"idle", "off"})'
<1>1. up \in BOOLEAN /\ shutdown \in BOOLEAN /\ recorded \in Task
  BY DEF Inv, TypeOK
<1>2. up' \in BOOLEAN /\ shutdown' \in BOOLEAN
  BY <1>1
  DEF Next, vars, ClockAdvances, SchedulerStep, RequestShutdown, add_cron_job, StartDaemon,
      remove_cron_job, Tick, TakeJob, TickEnds, Fire, FireFails, FireEnds, Mark, MarkFails,
      Recv, RecvEnds, ConnectorStep, Dispatch, DispatchFails, RunEnds, Send, Stop, Crash,
      Halted
<1>3. recorded' \in Task
  BY <1>1
  DEF Next, vars, ClockAdvances, SchedulerStep, RequestShutdown, add_cron_job, StartDaemon,
      remove_cron_job, Tick, TakeJob, TickEnds, Fire, FireFails, FireEnds, Mark, MarkFails,
      Recv, RecvEnds, ConnectorStep, Dispatch, DispatchFails, RunEnds, Send, Stop, Crash,
      Task
<1>4. ASSUME ~up'
      PROVE  waiters' = <<>> /\ \A t \in Task : Pc(t)' \in {"idle", "off"}
  <2>1. CASE Stop \/ Crash
    BY <2>1 DEF Stop, Crash, Halted, Pc, Task, Idle, Off
  <2>2. CASE ~(Stop \/ Crash)
    <3>1. ~up
      BY <1>4, <2>2
      DEF Next, vars, ClockAdvances, SchedulerStep, RequestShutdown, add_cron_job, StartDaemon,
          remove_cron_job, Tick, TakeJob, TickEnds, Fire, FireFails, FireEnds, Mark, MarkFails,
          Recv, RecvEnds, ConnectorStep, Dispatch, DispatchFails, RunEnds, Send
    <3>2. waiters = <<>> /\ sched.pc = "idle" /\ \A c \in Connector : conn[c].pc = "off"
      <4>1. \A t \in Task : Pc(t) \in {"idle", "off"}
        BY <3>1 DEF Inv, QueueInv
      <4>2. Scheduler \in Task /\ \A c \in Connector : c \in Task /\ c # Scheduler
        BY GatewayAssumption DEF Task
      <4> QED
        BY <3>1, <4>1, <4>2 DEF Pc, Inv, QueueInv, TypeOK
    <3>3. UNCHANGED <<waiters, sched, conn>>
      BY <1>4, <2>2, <3>1, <3>2
      DEF Next, vars, ClockAdvances, SchedulerStep, RequestShutdown, add_cron_job, StartDaemon,
          remove_cron_job, Tick, TakeJob, TickEnds, Fire, FireFails, FireEnds, Mark, MarkFails,
          Recv, RecvEnds, ConnectorStep, Dispatch, DispatchFails, RunEnds, Send
    <3> QED
      BY <3>1, <3>3 DEF Inv, QueueInv, Pc
  <2> QED
    BY <2>1, <2>2
<1> QED
  BY <1>2, <1>3, <1>4

LEMMA InitInv == ASSUME Init PROVE Inv
<1> USE GatewayAssumption DEF Init
<1>1. TypeOK
  <2>1. TableTypes
    BY DEF TableTypes
  <2>2. SchedTypes
    BY DEF SchedTypes, Idle
  <2>3. ConnTypes
    BY DEF ConnTypes, Off
  <2>4. waiters \in Seq(Task) /\ Len(waiters) = 0 /\ recorded \in Task
    BY DEF Task
  <2>5. up \in BOOLEAN /\ shutdown \in BOOLEAN
    OBVIOUS
  <2>6. \A j, k \in jobs : j.id = k.id => j = k
    OBVIOUS
  <2> QED
    BY <2>1, <2>2, <2>3, <2>4, <2>5, <2>6 DEF TypeOK, TableTypes, SchedTypes, ConnTypes
<1>2. \A t \in Task : Pc(t) \in {"idle", "off"}
  BY DEF Pc, Task, Idle, Off
<1>3. QueueInv /\ Contiguous
  BY <1>2 DEF QueueInv, Queue, Contiguous
<1>4. Hand = {} /\ Snapshot = {} /\ Added = {} /\ Repeaters = {}
  BY DEF Hand, Snapshot, Idle, Added, Repeaters
<1>5. CountInv
  <2>1. 0 \in 0..MaxJobs /\ 1..0 = {} /\ 0 + 1 = 1
    OBVIOUS
  <2>2. \A u \in 1..MaxJobs : fires[u].slot = 0
    OBVIOUS
  <2>3. jobs \cup Snapshot = {}
    BY <1>4
  <2> HIDE DEF Init
  <2> QED
    BY <1>4, <2>1, <2>2, <2>3 DEF CountInv
<1>6. TableInv /\ TimeInv
  BY <1>4 DEF TableInv, TimeInv, Idle
<1>7. DebtInv
  BY <1>4, FS_EmptySet DEF DebtInv
<1> QED
  BY <1>1, <1>3, <1>5, <1>6, <1>7 DEF Inv

LEMMA InvStep == ASSUME Inv, [Next]_vars PROVE Inv'
<1>1. TableTypes' /\ SchedTypes' /\ ConnTypes'
  BY TableTypesStep, SchedTypesStep, ConnTypesStep
<1>2. Queue' /\ Contiguous' /\ TableInvs'
  BY QueueStep, ContiguousStep, TableStep
<1>3. QueueInv'
  BY <1>2, UpStep DEF QueueInv
<1>4. (\A j, k \in jobs : j.id = k.id => j = k)'
  BY <1>2 DEF TableInvs, TableInv
<1>5. TypeOK'
  BY <1>1, <1>2, <1>4, UpStep DEF TypeOK, TableTypes, SchedTypes, ConnTypes, Queue
<1> QED
  BY <1>2, <1>3, <1>5 DEF Inv, TableInvs

LEMMA Invariant == Spec => []Inv
  BY InitInv, InvStep, PTL DEF Spec

\* Every variable has its type, ids are unique, and no task waits twice.
THEOREM TypeCorrect == Spec => []TypeOK
<1>1. Inv => TypeOK
  BY DEF Inv
<1> QED
  BY Invariant, <1>1, PTL

\* While a dispatch runs, whatever is recorded is its own: the mutex is held
\* from its first record to its end, by it alone (gateway.rs:59-61).
THEOREM DispatchesContiguous == Spec => []RecordsContiguous
<1>1. Inv => RecordsContiguous
  BY ContiguousIs, GatewayAssumption DEF Inv
<1> QED
  BY Invariant, <1>1, PTL

\* However jobs are added and removed, ids reused and ticks late: every fire of
\* a slot that was fired before has a fault of its own between fire and mark.
THEOREM RepetitionsExplained == Spec => []RefiresExplained
<1>1. Inv => RefiresExplained
  BY RepeatersFinite, Known DEF Inv, DebtInv, RefiresExplained
<1> QED
  BY Invariant, <1>1, PTL
==============================================================================
