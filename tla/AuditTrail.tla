----------------------------- MODULE AuditTrail -----------------------------
(***************************************************************************)
(* What the audit log promises its callers, with no file in sight: a       *)
(* sequence of events that only grows at its end, a prefix of which is     *)
(* durable, and a crash that takes back nothing durable.                   *)
(*                                                                         *)
(* AuditLog implements this under the conditions its README section names; *)
(* the agent and the gateway models use an audit trail of this shape.      *)
(***************************************************************************)
EXTENDS Naturals, Sequences

CONSTANT Event

VARIABLES
  trail,     \* the events recorded, oldest first
  durable    \* how many of them are known to survive a crash

trailVars == <<trail, durable>>

TrailInit ==
  /\ trail = <<>>
  /\ durable = 0

\* One event is recorded.
Record ==
  /\ \E ev \in Event : trail' = Append(trail, ev)
  /\ UNCHANGED durable

\* Everything recorded so far becomes durable.
Persist ==
  /\ durable' = Len(trail)
  /\ UNCHANGED trail

\* A crash keeps some prefix that has at least the durable events.
Lose ==
  \E n \in durable..Len(trail) :
    /\ trail' = SubSeq(trail, 1, n)
    /\ durable' = n

TrailNext == Record \/ Persist \/ Lose

TrailSpec == TrailInit /\ [][TrailNext]_trailVars
=============================================================================
