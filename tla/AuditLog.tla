------------------------------ MODULE AuditLog ------------------------------
(***************************************************************************)
(* crates/sa-audit: the hash-chained JSONL audit log.                      *)
(*                                                                         *)
(* The file is `lines`, its newline-terminated lines, and `tail`, what     *)
(* follows the last newline.  A line is the sequence of the fragments that *)
(* the write calls left on it: a fragment is <<e>> for the whole text of   *)
(* Entry e and <<>> for a part of one.  A line parses exactly when it is   *)
(* one whole fragment, so two records on one line, a cut record and an     *)
(* empty line are all what serde_json rejects.                             *)
(*                                                                         *)
(* blake3 is taken as collision free: the hash of (seq, prev, event) is    *)
(* the sequence prev with <<seq, event>> appended, so a hash is the whole  *)
(* history it commits to and <<>> is the "" of the genesis entry.          *)
(*                                                                         *)
(* Every process of the binary that calls Audit::open on the data          *)
(* directory's log (gateway, run, tui, skill activate, voice, self-update) *)
(* is a member of Proc with its own Audit value.                           *)
(***************************************************************************)
EXTENDS Naturals, Sequences, FiniteSets

CONSTANTS
  Proc,        \* processes that may hold an Audit
  Event,       \* audited events (action, key_id and principal together)
  NoEvent,     \* no append is in progress
  MaxWrites,   \* bound: fragments on the file, and different records ever
  Faults       \* which faults happen beside crashes between whole lines

FaultKinds ==
  { "byte_cut",      \* a crash may cut the file, or an append, anywhere
    "short_write",   \* a write call fails after some of its bytes
    "edit" }         \* another program edits the file

ASSUME AuditAssumption ==
  /\ NoEvent \notin Event
  /\ MaxWrites \in Nat
  /\ Faults \subseteq FaultKinds

VARIABLES
  lines,      \* newline-terminated lines of the file
  tail,       \* the unterminated rest of the file
  synced,     \* how much of the file is on disk: n lines and t fragments
  audit,      \* the Audit value of each process: seq and last_hash
  pc,         \* where each process is in open/append_synced
  pending,    \* the event each process is appending
  minted,     \* history: every hash any append ever computed
  acked       \* history: hashes whose append_synced returned Ok

vars == <<lines, tail, synced, audit, pc, pending, minted, acked>>

Hash == Seq(Nat \X Event)

Entry == [seq : Nat, prev : Hash, event : Event, hash : Hash]

Fragment == {f \in Seq(Entry) : Len(f) <= 1}

Torn == <<>>

Line == Seq(Fragment)

\* "closed": no Audit; "idle": between appends; "json": the record is
\* written and its newline is not; "line": the line is complete, the Audit
\* value is updated, and sync_all has not returned.
PC == {"closed", "idle", "json", "line"}
-----------------------------------------------------------------------------
(* Reading the file.                                                       *)

\* An operator named Mut... is a faulty variant of the definition after it,
\* kept to show that a property would notice the fault.
MutEntryHash(seq, prev, event) == Append(prev, <<event, seq>>)

entry_hash(seq, prev, event) == Append(prev, <<seq, event>>)

\* str::lines: an empty tail is no line.
Content == IF tail = <<>> THEN lines ELSE Append(lines, tail)

Parses(line) == Len(line) = 1 /\ line[1] # Torn

EntryAt(i) == Content[i][1][1]

\* How many lines both readers expect to parse: a final line that does not
\* is a torn one and ends the loop.
ReadableCount ==
  LET n == Len(Content)
  IN  IF n > 0 /\ ~Parses(Content[n]) THEN n - 1 ELSE n

\* Audit::open and read_events return Err on a bad line that is not last.
open_ok == \A i \in 1..ReadableCount : Parses(Content[i])

\* The events read_events returns when it does not return Err.
read_events == [i \in 1..ReadableCount |-> EntryAt(i).event]

MutRecoveredSameSeq ==
  IF ReadableCount = 0
  THEN [seq |-> 0, last_hash |-> <<>>]
  ELSE [seq |-> EntryAt(ReadableCount).seq,
        last_hash |-> EntryAt(ReadableCount).hash]

\* The Audit value open builds: it follows the last line that parsed.
Recovered ==
  IF ReadableCount = 0
  THEN [seq |-> 0, last_hash |-> <<>>]
  ELSE [seq |-> EntryAt(ReadableCount).seq + 1,
        last_hash |-> EntryAt(ReadableCount).hash]

PrevHash(i) == IF i = 1 THEN <<>> ELSE EntryAt(i - 1).hash

MutVerifyNoHash ==
  \A i \in 1..Len(Content) :
    /\ Parses(Content[i])
    /\ EntryAt(i).seq = i - 1
    /\ EntryAt(i).prev = PrevHash(i)

verify_chain ==
  \A i \in 1..Len(Content) :
    /\ Parses(Content[i])
    /\ EntryAt(i).seq = i - 1
    /\ EntryAt(i).prev = PrevHash(i)
    /\ EntryAt(i).hash
         = entry_hash(EntryAt(i).seq, EntryAt(i).prev, EntryAt(i).event)
-----------------------------------------------------------------------------
(* The operations of an Audit value.                                       *)

\* What stands for the Audit of a process that has none.
NoAudit == [seq |-> 0, last_hash |-> <<>>]

Init ==
  /\ lines = <<>>
  /\ tail = <<>>
  /\ synced = [n |-> 0, t |-> 0]
  /\ audit = [p \in Proc |-> NoAudit]
  /\ pc = [p \in Proc |-> "closed"]
  /\ pending = [p \in Proc |-> NoEvent]
  /\ minted = {}
  /\ acked = {}

MutOpenTruncates(p) ==
  /\ pc[p] = "closed"
  /\ open_ok
  /\ audit' = [audit EXCEPT ![p] = [seq |-> 0, last_hash |-> <<>>]]
  /\ pc' = [pc EXCEPT ![p] = "idle"]
  /\ lines' = <<>>
  /\ tail' = <<>>
  /\ synced' = [n |-> 0, t |-> 0]
  /\ UNCHANGED <<pending, minted, acked>>

\* Audit::open.  When it returns Err the process has no Audit and the file
\* is as it was, so that outcome is no step.
Open(p) ==
  /\ pc[p] = "closed"
  /\ open_ok
  /\ audit' = [audit EXCEPT ![p] = Recovered]
  /\ pc' = [pc EXCEPT ![p] = "idle"]
  /\ UNCHANGED <<lines, tail, synced, pending, minted, acked>>

\* The Audit value is dropped (the command ends, the daemon stops).
Close(p) ==
  /\ pc[p] = "idle"
  /\ pc' = [pc EXCEPT ![p] = "closed"]
  /\ audit' = [audit EXCEPT ![p] = NoAudit]
  /\ UNCHANGED <<lines, tail, synced, pending, minted, acked>>

NextEntry(p, ev) ==
  [seq   |-> audit[p].seq,
   prev  |-> audit[p].last_hash,
   event |-> ev,
   hash  |-> entry_hash(audit[p].seq, audit[p].last_hash, ev)]

\* Bound of the model, not of the code.
MayWrite ==
  /\ Len(lines) + Len(tail) < MaxWrites
  /\ Cardinality(minted) < MaxWrites

\* append, first write call of writeln!: the serialised entry.
WriteEntry(p, ev) ==
  /\ pc[p] = "idle"
  /\ MayWrite
  /\ tail' = Append(tail, <<NextEntry(p, ev)>>)
  /\ minted' = minted \cup {NextEntry(p, ev).hash}
  /\ pending' = [pending EXCEPT ![p] = ev]
  /\ pc' = [pc EXCEPT ![p] = "json"]
  /\ UNCHANGED <<lines, synced, audit, acked>>

\* The first write call fails part-way: append returns Err and the Audit
\* value is as it was.
WriteEntryFails(p) ==
  /\ "short_write" \in Faults
  /\ pc[p] = "idle"
  /\ MayWrite
  /\ tail' = Append(tail, Torn)
  /\ UNCHANGED <<lines, synced, audit, pc, pending, minted, acked>>

\* append, second write call: the newline; then last_hash and seq advance.
WriteNewline(p) ==
  /\ pc[p] = "json"
  /\ lines' = Append(lines, tail)
  /\ tail' = <<>>
  /\ audit' = [audit EXCEPT ![p] =
       [seq |-> @.seq + 1, last_hash |-> NextEntry(p, pending[p]).hash]]
  /\ pending' = [pending EXCEPT ![p] = NoEvent]
  /\ pc' = [pc EXCEPT ![p] = "line"]
  /\ UNCHANGED <<synced, minted, acked>>

\* The second write call fails: append returns Err, the record stays on the
\* file without its newline and the Audit value is as it was.
WriteNewlineFails(p) ==
  /\ "short_write" \in Faults
  /\ pc[p] = "json"
  /\ pending' = [pending EXCEPT ![p] = NoEvent]
  /\ pc' = [pc EXCEPT ![p] = "idle"]
  /\ UNCHANGED <<lines, tail, synced, audit, minted, acked>>

MutSyncSkipped(p) ==
  /\ pc[p] = "line"
  /\ acked' = acked \cup {audit[p].last_hash}
  /\ pc' = [pc EXCEPT ![p] = "idle"]
  /\ UNCHANGED <<lines, tail, synced, audit, pending, minted>>

\* append_synced: sync_all returns, everything written so far is on disk and
\* the caller goes on to dispatch.
Sync(p) ==
  /\ pc[p] = "line"
  /\ synced' = [n |-> Len(lines), t |-> Len(tail)]
  /\ acked' = acked \cup {audit[p].last_hash}
  /\ pc' = [pc EXCEPT ![p] = "idle"]
  /\ UNCHANGED <<lines, tail, audit, pending, minted>>

\* sync_all fails: append_synced returns Err after append succeeded.
SyncFails(p) ==
  /\ pc[p] = "line"
  /\ pc' = [pc EXCEPT ![p] = "idle"]
  /\ UNCHANGED <<lines, tail, synced, audit, pending, minted, acked>>
-----------------------------------------------------------------------------
(* What happens to the processes and to the file from outside.             *)

\* A process is killed or panics: what it wrote stays in the page cache.
Kill(p) ==
  /\ pc[p] # "closed"
  /\ pc[p] = "json" => "byte_cut" \in Faults
  /\ pc' = [pc EXCEPT ![p] = "closed"]
  /\ audit' = [audit EXCEPT ![p] = NoAudit]
  /\ pending' = [pending EXCEPT ![p] = NoEvent]
  /\ UNCHANGED <<lines, tail, synced, minted, acked>>

LineAt(k) == IF k <= Len(lines) THEN lines[k] ELSE tail

\* The machine stops: k whole lines survive and, where a crash may cut
\* anywhere, j fragments of the next line, then perhaps part of one more.
\* What was synced survives.  What is on disk after the restart stays.
PowerLoss(k, j, torn) ==
  /\ k = synced.n => j >= synced.t
  /\ torn => j < Len(LineAt(k + 1))
  /\ j > 0 \/ torn => "byte_cut" \in Faults
  /\ lines' = SubSeq(lines, 1, k)
  /\ tail' = LET kept == SubSeq(LineAt(k + 1), 1, j)
             IN  IF torn THEN Append(kept, Torn) ELSE kept
  /\ synced' = [n |-> k, t |-> IF torn THEN j + 1 ELSE j]
  /\ pc' = [p \in Proc |-> "closed"]
  /\ audit' = [p \in Proc |-> NoAudit]
  /\ pending' = [p \in Proc |-> NoEvent]
  /\ UNCHANGED <<minted, acked>>

\* Another program rewrites the file while no process has it open: it
\* changes an event in place, swaps two lines or removes one.
Edited(new) ==
  /\ "edit" \in Faults
  /\ \A p \in Proc : pc[p] = "closed"
  /\ lines' = new
  /\ synced' = [n |-> Len(new), t |-> Len(tail)]
  /\ UNCHANGED <<tail, audit, pc, pending, minted, acked>>

EditEvent(i, ev) ==
  /\ Parses(lines[i])
  /\ Edited([lines EXCEPT ![i] = <<<<[lines[i][1][1] EXCEPT !.event = ev]>>>>])

SwapLines(i, j) ==
  Edited([lines EXCEPT ![i] = lines[j], ![j] = lines[i]])

RemoveLine(i) ==
  Edited(SubSeq(lines, 1, i - 1) \o SubSeq(lines, i + 1, Len(lines)))

Next ==
  \/ \E p \in Proc :
       \/ Open(p)
       \/ Close(p)
       \/ \E ev \in Event : WriteEntry(p, ev)
       \/ WriteEntryFails(p)
       \/ WriteNewline(p)
       \/ WriteNewlineFails(p)
       \/ Sync(p)
       \/ SyncFails(p)
       \/ Kill(p)
  \/ \E k \in synced.n..Len(lines) : \E j \in 0..Len(LineAt(k + 1)) :
       \E torn \in BOOLEAN : PowerLoss(k, j, torn)
  \/ \E i \in 1..Len(lines) :
       \/ \E ev \in Event : EditEvent(i, ev)
       \/ \E j \in 1..(i - 1) : SwapLines(i, j)
       \/ RemoveLine(i)

Spec == Init /\ [][Next]_vars
-----------------------------------------------------------------------------
(* Properties.                                                             *)

\* Every variable has its type, and the part of the file known to be on
\* disk is a part of the file.
TypeOK ==
  /\ lines \in Seq(Line)
  /\ tail \in Line
  /\ synced \in [n : Nat, t : Nat]
  /\ synced.n <= Len(lines)
  /\ audit \in [Proc -> [seq : Nat, last_hash : Hash]]
  /\ pc \in [Proc -> PC]
  /\ pending \in [Proc -> Event \cup {NoEvent}]
  /\ minted \subseteq Hash
  /\ acked \subseteq Hash

\* verify_chain answers true in every state, in the middle of an append and
\* after any number of crashes and restarts too.  The code means it for the
\* one writer that sa-audit's documentation speaks of (lib.rs:30-32).
ChainVerifies == verify_chain

\* A record whose append_synced returned Ok can be read back from then on,
\* behind every record before it: the caller dispatched an irreversible
\* action on the strength of it.  (A hash is the history it commits to.)
AckedReadable ==
  /\ open_ok
  /\ \A h \in acked :
       /\ Len(h) <= Len(read_events)
       /\ \A i \in 1..Len(h) : read_events[i] = h[i][2]

\* Whatever happened to the file, if verify_chain accepts it then its events,
\* in order, are exactly the history some process had when it appended its
\* latest record: crashes, failed writes, concurrent writers, edits in place,
\* reordering and removal cannot produce an accepted file that nobody wrote.
\* (Removing whole lines at the end is accepted, as lib.rs:110-118 says.)
VerifiedIsHistory ==
  verify_chain =>
    [i \in 1..Len(Content) |-> <<EntryAt(i).seq, EntryAt(i).event>>]
      \in minted \cup {<<>>}

\* The events of the completed lines are an audit trail: the log implements
\* what the rest of the program relies on.
Trail == INSTANCE AuditTrail WITH
           trail   <- [i \in 1..Len(lines) |-> lines[i][1][1].event],
           durable <- synced.n

ImplementsTrail == Trail!TrailSpec
=============================================================================
