----------------------------- MODULE MCAuditLog -----------------------------
(* Symmetry and view of AuditLog's runs. *)
EXTENDS AuditLog, TLC

\* The log treats all processes alike and all events alike.
Symmetry == Permutations(Proc) \cup Permutations(Event)

\* No action reads acked: a run whose property does not either may ignore it.
WithoutAcked == <<lines, tail, synced, audit, pc, pending, minted>>
=============================================================================
