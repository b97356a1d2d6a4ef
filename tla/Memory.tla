-------------------------------- MODULE Memory --------------------------------
(***************************************************************************)
(* crates/sa-memory and its callers in crates/sa-core: several processes    *)
(* (the daemon, chat, run, summarize, skill) on one SQLite database.        *)
(*                                                                         *)
(* A statement outside a transaction is one step, and so is a transaction   *)
(* whose first statement writes.  A deferred transaction that reads first   *)
(* keeps the snapshot of its read: SQLite refuses its first write           *)
(* (SQLITE_BUSY_SNAPSHOT) if anyone has committed since.  A process that    *)
(* dies loses its open transaction and nothing else.                       *)
(*                                                                         *)
(* A message is its row id; the text of a summary is the set of messages it *)
(* was made from.  One skill stands for all: rows of different names do not *)
(* meet.                                                                   *)
(***************************************************************************)
EXTENDS Naturals, Sequences, FiniteSets

CONSTANTS
  Proc,                 \* processes
  Session,              \* session ids
  SCHEMA_VERSION,       \* lib.rs: the last migration
  SUMMARY_KEEP_RECENT,  \* sa-core: messages a summary leaves out
  MaxMsgs,              \* bound: rows of messages
  MaxRuns,              \* bound: recorded uses of the skill
  MaxKills              \* bound: processes killed

\* Of the constants; MCInstallation assumes it.
MemoryAssumption ==
  /\ SCHEMA_VERSION \in Nat \ {0}
  /\ SUMMARY_KEEP_RECENT \in Nat
  /\ MaxMsgs \in Nat /\ MaxRuns \in Nat /\ MaxKills \in Nat

VARIABLES
  version,   \* schema_meta
  tables,    \* the migrations whose tables exist
  messages,  \* table messages: session and role of each row, by id
  summaries, \* table session_summaries
  skill,     \* tables skills and skill_versions: the row of the skill
  pc,        \* where each process is
  loc,       \* its locals
  kills      \* history: processes killed so far

vars == <<version, tables, messages, summaries, skill, pc, loc, kills>>

NoSummary == [through |-> 0, covers |-> {}]

Absent == [runs |-> 0, versions |-> <<>>]

\* overtaken: another process has stored a summary of the session since this
\* one read it; stale: another one has committed since the snapshot was taken.
NoLocals == [session |-> CHOOSE s \in Session : TRUE, current |-> 0, all |-> {},
             watermark |-> 0, covers |-> {}, overtaken |-> FALSE, next |-> 0,
             stale |-> FALSE]

\* all_messages: the ids of a session.
all_messages(s) == {i \in 1..Len(messages) : messages[i].session = s}

\* lib.rs all[..cutoff]: all but the last SUMMARY_KEEP_RECENT.
UpToCutoff(S) ==
  {i \in S : SUMMARY_KEEP_RECENT < Cardinality({k \in S : k >= i})}

LastOf(S) == CHOOSE i \in S : \A k \in S : k <= i

\* A commit makes the snapshots of all open transactions stale.
Committed(locals) ==
  [q \in Proc |-> [locals[q] EXCEPT !.stale = @ \/ pc[q] = "using"]]
-----------------------------------------------------------------------------
\* A database that does not exist yet, or one an older version left.
Init ==
  /\ version \in 0..SCHEMA_VERSION
  /\ tables = 1..version
  /\ messages = <<>>
  /\ summaries = [s \in Session |-> NoSummary]
  /\ skill = Absent
  /\ pc = [p \in Proc |-> "off"]
  /\ loc = [p \in Proc |-> NoLocals]
  /\ kills = 0

Goto(p, l) == pc' = [pc EXCEPT ![p] = l]

\* The locals once a command of p has ended.
Forgotten(p, locals) == [locals EXCEPT ![p] = NoLocals]

rows == <<messages, summaries, skill>>

\* Store::open and migrate up to the read of schema_meta, outside a transaction.
ReadVersion(p) ==
  /\ pc[p] \in {"off", "refused"}
  /\ Goto(p, IF version >= SCHEMA_VERSION THEN "ready" ELSE "migrating")
  /\ loc' = [loc EXCEPT ![p].current = IF version >= SCHEMA_VERSION THEN 0 ELSE version]
  /\ UNCHANGED <<version, tables, rows, kills>>

MutMigrate(p) ==
  /\ pc[p] = "migrating"
  /\ \E last \in (loc[p].current + 1)..SCHEMA_VERSION :
       LET todo == (loc[p].current + 1)..last
       IN  IF (todo \ {1}) \cap tables = {}
           THEN /\ tables' = tables \cup todo
                /\ version' = IF last = SCHEMA_VERSION THEN last ELSE version
                /\ Goto(p, IF last = SCHEMA_VERSION THEN "ready" ELSE "off")
           ELSE Goto(p, "refused") /\ UNCHANGED <<version, tables>>
  /\ loc' = Forgotten(p, Committed(loc))
  /\ UNCHANGED <<rows, kills>>

\* The transaction of migrate: every migration above the version that was read.
\* Only the first one tolerates a table that exists; a failure rolls back.
Migrate(p) ==
  /\ pc[p] = "migrating"
  /\ LET todo == (loc[p].current + 1)..SCHEMA_VERSION
     IN  IF (todo \ {1}) \cap tables = {}
         THEN /\ tables' = tables \cup todo
              /\ version' = SCHEMA_VERSION
              /\ loc' = Forgotten(p, Committed(loc))
              /\ Goto(p, "ready")
         ELSE /\ Goto(p, "refused")
              /\ loc' = Forgotten(p, loc)
              /\ UNCHANGED <<version, tables>>
  /\ UNCHANGED <<rows, kills>>

\* add_message, in one statement with the trigger that indexes it.
add_message(s, role) ==
  /\ Len(messages) < MaxMsgs
  /\ messages' = Append(messages, [session |-> s, role |-> role])

\* Agent::turn stores the user's message and asks the provider.
Turn(p, s) ==
  /\ pc[p] = "ready"
  /\ add_message(s, "user")
  /\ Goto(p, "streaming")
  /\ loc' = Committed([loc EXCEPT ![p].session = s])
  /\ UNCHANGED <<version, tables, summaries, skill, kills>>

\* The stream is drained to its end.
StreamEnds(p) ==
  /\ pc[p] = "streaming"
  /\ add_message(loc[p].session, "assistant")
  /\ Goto(p, "ready")
  /\ loc' = Forgotten(p, Committed(loc))
  /\ UNCHANGED <<version, tables, summaries, skill, kills>>

\* provider.chat returns Err, or the caller drops the stream: no reply is
\* stored (chat.rs leaves at the first Err of a chunk).
StreamDropped(p) ==
  /\ pc[p] = "streaming"
  /\ Goto(p, "ready")
  /\ loc' = Forgotten(p, loc)
  /\ UNCHANGED <<version, tables, rows, kills>>
-----------------------------------------------------------------------------
\* summarize_session: all_messages.
ReadMessages(p, s) ==
  /\ pc[p] = "ready"
  /\ UpToCutoff(all_messages(s)) # {}
  /\ Goto(p, "counted")
  /\ loc' = [loc EXCEPT ![p].session = s, ![p].all = all_messages(s),
                        ![p].overtaken = FALSE]
  /\ UNCHANGED <<version, tables, rows, kills>>

MutReadWithoutEmptyCheck(p) ==
  /\ pc[p] = "counted"
  /\ LET prior == summaries[loc[p].session]
         older == {i \in UpToCutoff(loc[p].all) : i > prior.through}
     IN  /\ Goto(p, "completing")
         /\ loc' = [loc EXCEPT ![p].watermark = LastOf(UpToCutoff(loc[p].all)),
                               ![p].covers = prior.covers \cup older,
                               ![p].all = {}, ![p].overtaken = FALSE]
  /\ UNCHANGED <<version, tables, rows, kills>>

MutWatermarkOfAll(p) ==
  /\ pc[p] = "counted"
  /\ LET prior == summaries[loc[p].session]
         older == {i \in UpToCutoff(loc[p].all) : i > prior.through}
     IN  /\ older # {}
         /\ Goto(p, "completing")
         /\ loc' = [loc EXCEPT ![p].watermark = LastOf(loc[p].all),
                               ![p].covers = prior.covers \cup older,
                               ![p].all = {}, ![p].overtaken = FALSE]
  /\ UNCHANGED <<version, tables, rows, kills>>

\* summarize_session: summary, and what it and the rows leave to summarize.
ReadSummary(p) ==
  /\ pc[p] = "counted"
  /\ LET prior == summaries[loc[p].session]
         older == {i \in UpToCutoff(loc[p].all) : i > prior.through}
     IN  IF older = {} THEN Goto(p, "ready") /\ loc' = Forgotten(p, loc)
         ELSE /\ Goto(p, "completing")
              /\ loc' = [loc EXCEPT ![p].watermark = LastOf(UpToCutoff(loc[p].all)),
                                    ![p].covers = prior.covers \cup older,
                                    ![p].all = {}, ![p].overtaken = FALSE]
  /\ UNCHANGED <<version, tables, rows, kills>>

\* provider.complete returns Err.
CompleteFails(p) ==
  /\ pc[p] = "completing"
  /\ Goto(p, "ready")
  /\ loc' = Forgotten(p, loc)
  /\ UNCHANGED <<version, tables, rows, kills>>

\* set_summary, whatever the row holds by now.
SetSummary(p) ==
  /\ pc[p] = "completing"
  /\ LET s == loc[p].session
     IN  /\ summaries' = [summaries EXCEPT ![s] = [through |-> loc[p].watermark,
                                                   covers |-> loc[p].covers]]
         /\ loc' = Forgotten(p, Committed([q \in Proc |->
                     IF pc[q] = "completing" /\ loc[q].session = s
                     THEN [loc[q] EXCEPT !.overtaken = TRUE] ELSE loc[q]]))
  /\ Goto(p, "ready")
  /\ UNCHANGED <<version, tables, messages, skill, kills>>
-----------------------------------------------------------------------------
\* learn_from_trajectory: get_skill_by_name finds nothing.
FindNoSkill(p) ==
  /\ pc[p] = "ready"
  /\ skill = Absent
  /\ Goto(p, "creating")
  /\ UNCHANGED <<version, tables, rows, loc, kills>>

\* create_skill: the row and its first version in one transaction; UNIQUE(name)
\* refuses a second one, looks_like_secret any.
CreateSkill(p) ==
  /\ pc[p] = "creating"
  /\ Goto(p, "ready")
  /\ \/ skill = Absent /\ skill' = [runs |-> 0, versions |-> <<1>>] /\ loc' = Committed(loc)
     \/ UNCHANGED <<skill, loc>>
  /\ UNCHANGED <<version, tables, messages, summaries, kills>>

\* record_skill_use: the snapshot, with the id and MAX(version).
BeginUse(p) ==
  /\ pc[p] = "ready"
  /\ skill # Absent /\ skill.runs < MaxRuns
  /\ Goto(p, "using")
  /\ loc' = [loc EXCEPT ![p].next = Len(skill.versions) + 1, ![p].stale = FALSE]
  /\ UNCHANGED <<version, tables, rows, kills>>

MutCommitUseIgnoresConflict(p) ==
  /\ pc[p] = "using"
  /\ Goto(p, "ready")
  /\ skill' = [runs |-> skill.runs + 1,
               versions |-> IF loc[p].next <= Len(skill.versions) THEN skill.versions
                            ELSE Append(skill.versions, loc[p].next)]
  /\ loc' = Forgotten(p, Committed(loc))
  /\ UNCHANGED <<version, tables, messages, summaries, kills>>

\* Its two writes and the commit, or SQLITE_BUSY_SNAPSHOT; the caller ignores
\* the Err.
CommitUse(p) ==
  /\ pc[p] = "using"
  /\ Goto(p, "ready")
  /\ IF loc[p].stale THEN UNCHANGED skill /\ loc' = Forgotten(p, loc)
     ELSE /\ skill' = [runs |-> skill.runs + 1,
                       versions |-> Append(skill.versions, loc[p].next)]
          /\ loc' = Forgotten(p, Committed(loc))
  /\ UNCHANGED <<version, tables, messages, summaries, kills>>

\* The process ends, or is killed between two statements.
Kill(p) ==
  /\ pc[p] \notin {"off", "refused"}
  /\ \/ pc[p] = "ready" /\ UNCHANGED kills
     \/ pc[p] # "ready" /\ kills < MaxKills /\ kills' = kills + 1
  /\ Goto(p, "off")
  /\ loc' = [loc EXCEPT ![p] = NoLocals]
  /\ UNCHANGED <<version, tables, rows>>

Step(p) ==
  \/ ReadVersion(p) \/ Migrate(p)
  \/ \E s \in Session : Turn(p, s) \/ ReadMessages(p, s)
  \/ StreamEnds(p) \/ StreamDropped(p)
  \/ ReadSummary(p) \/ CompleteFails(p) \/ SetSummary(p)
  \/ FindNoSkill(p) \/ CreateSkill(p) \/ BeginUse(p) \/ CommitUse(p)
  \/ Kill(p)

Next == \E p \in Proc : Step(p)

Spec == Init /\ [][Next]_vars
-----------------------------------------------------------------------------
(* Properties.                                                             *)

\* The schema is the one its version names after every crash and race of opens,
\* and a process whose migration was refused finds a finished one when it tries
\* again ("a half-applied migration must never leave a wedged schema",
\* lib.rs:260).
SchemaWhole ==
  /\ tables = 1..version
  /\ \A p \in Proc : pc[p] = "refused" => version = SCHEMA_VERSION

\* A stored summary was made from exactly the session's messages up to its
\* watermark, although rows, prior summary and result are read and written in
\* separate statements around an await (lib.rs:222-262 of sa-core).
SummaryCovers ==
  \A s \in Session :
    summaries[s].covers = {i \in all_messages(s) : i <= summaries[s].through}

\* The watermark goes back only if another summary of the session was stored
\* while this one was awaited.
RegressExplained ==
  [][\A s \in Session : summaries'[s].through < summaries[s].through =>
       \E p \in Proc : /\ pc[p] = "completing" /\ loc[p].session = s
                       /\ loc[p].overtaken]_vars

\* The lineage of the skill has the versions 1, 2, ... without gap or repetition,
\* one for its creation and one for each recorded use, though uses race.
LineageComplete ==
  skill # Absent => skill.versions = [i \in 1..(skill.runs + 1) |-> i]
=============================================================================
