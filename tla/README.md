# secretagent: TLA+ models and proofs

`secretagent` is a personal agent in Rust: a command-line program and a daemon
that let a language model call tools on an operator's behalf, keep a memory in
SQLite and a hash-chained audit log in a file, take messages from chat
connectors and run scheduled jobs.  This directory models the parts of it that
keep state, model-checks them with TLC and proves theorems about them with
TLAPS.  Paths below are relative to the repository; `PROJECT.json` maps every
definition to the lines it stands for.

## 1. Inventory

| Part | Where | State | Operations |
| --- | --- | --- | --- |
| Audit log | `crates/sa-audit` | `audit.jsonl`; per `Audit` value `seq`, `last_hash` | `open`, `append`, `append_synced`, `verify_chain`, `read_events` |
| Run authority | `crates/sa-core-types` `principal.rs`, `policy.rs` | a `RunContext` per call | `operator`, `remote`, `subagent_of`, the `may_*` tests, `approval_required` |
| Agent loop | `crates/sa-core` `lib.rs`, `eval.rs` | the frames of `run_task`; `Trajectory` | `run_task`, `learn_from_trajectory`, `turn`, `summarize_session` |
| Memory | `crates/sa-memory` | tables `messages`, `skills`, `skill_versions`, `session_summaries`, `cron_jobs`, `user_model`, `schema_meta` | `open`, `migrate`, and one SQL statement or transaction each |
| Scheduler | `crates/sa-core/src/schedule.rs`, `secretagent/src/schedule.rs`, `gateway.rs` | `cron_jobs`; a tick's `now` and due jobs | `schedule add`, `remove`, `tick_scheduler`, `fire_job` |
| Gateway | `secretagent/src/gateway.rs` | tasks, one tokio mutex around `Audit`, the shutdown future | `run_until`, `drive_connector`, `dispatch_inbound` |
| Connectors | `crates/sa-connectors` | offset, buffer, socket, ring of seen envelopes | `recv`, `send` |
| Vault | `crates/sa-vault` | a map in memory, `store.age` | `open_or_init`, `set`, `get`, `flush` |
| Self-update | `secretagent/src/self_update.rs` | staged file, executable | fetch, verify, stage, record, swap |
| Backup, restore, export | `secretagent/src/ops.rs` | copies of the four artifacts | `backup`, `restore`, `export` |
| Tools, egress, MCP | `crates/sa-tools` | registry; per MCP server one connection with request ids | `run`, redirect loop, `request` |
| Execution backends | `crates/sa-exec` | a child process | `run` |
| Providers | `crates/sa-providers` | none | `act`, `chat`, `complete` |
| Configuration, service, doctor, main | `config.rs`, `setup.rs`, `service/`, ... | files read at start | start-up and printing |

**How they interact.**  Every entry point (`run`, `tui`, `voice`, a connector
dispatch, a cron fire) builds a `RunContext` and calls `Agent::run_task` with
`&mut Audit`.  `run_task` reads and writes the memory store one statement at a
time, awaits the provider, records every tool call with `append_synced` and
then runs the tool; the synthetic tool `subagent` calls `run_task` again.  In
the daemon all dispatches share one `Audit` behind one tokio mutex, held from
the first record of a dispatch to the end of its run.  Other processes (a CLI
run, `schedule add`, `skill activate`) use the same SQLite database and the same
`audit.jsonl` at the same time, with nothing between them but SQLite's locks and
`O_APPEND`.

**What is hard.**  Crashes inside an append and what the next process makes of
the tail; two processes on one log; state read before an `await` and used after
it; the order of record and effect; authority along a chain of subagents;
firing and marking a job in two steps; one mutex under everything; shutdown
seen only between ticks; at-least-once transports with memory-only cursors;
read-modify-write of whole files.  `PROJECT.json` lists each one under
`hazards`, at its line, with the properties that would catch it, or why there is
none.

**What makes each part correct.**

- *Audit log*: an acknowledged record survives and is readable; the chain of a
  log nobody touched verifies; an accepted log is a history that was written.
- *Authority*: a side effect is traced to consent at the root of the run; the
  nesting is bounded; a remote or a subagent never writes a skill.
- *Agent loop*: the record precedes the effect; an injected skill was approved
  with that body; records tell the truth; every run ends.
- *Scheduler and gateway*: dispatches do not interleave in the log; a slot
  fires once unless a fault explains it; due jobs, messages and shutdown
  conclude.
- *Connectors*: a message is dispatched once between two restarts, one for the
  agent is dispatched in the end, and what the transport forgets was dispatched,
  but for a mail or a Discord event that an error took before it was read.
- *Memory*: a summary is made of exactly the messages below its watermark; a
  schema is never between two versions; a skill's lineage has each version once.
- *Data directory*: a secret that was set survives any death; a backup decrypts;
  the database is never put together from two lineages, and misses committed rows
  only where a restore says so.
- *Self-update*: a complete binary is always there; what is in place was signed,
  hashed and recorded; a downgrade has an explanation.
- *MCP client*: every request ends; an answer belongs to the request it is taken
  for; what a timeout leaves behind costs at most one later request.
- *Registry*: a tool's name stands for what the approval gate takes it for.
- *Egress*: every contact, behind every redirect, was vetted.
- *Child processes*: a call returns all output or fails; code is started once.
- *Context*: the messages of a request take turns, and a call has its result behind it.
- *Cron gate*: the slots of an armed job keep the floor.
- *Files*: no path leads `write_file` out of the write roots.

## 2. Modules

| Module | Models |
| --- | --- |
| `AuditTrail` | the abstract promise: a sequence of events that grows at its end, a durable prefix, a crash that takes back nothing durable |
| `AuditLog` | `sa-audit`: the file, the `Audit` values of any number of processes, the page cache, crashes and edits |
| `AgentLoop` | `principal.rs`, `approval_required`, `run_task`, `learn_from_trajectory` and the skill table |
| `Gateway` | the daemon's tasks, the audit mutex, the scheduler and `cron_jobs` |
| `Inbox` | the abstract promise of a connector: a message is handed over once between two restarts, and once more for each doubt |
| `Delivery` | `sa-connectors` and `drive_connector`: Telegram, Slack, Discord and e-mail against their transports |
| `Memory` | `sa-memory` and its callers: migration, messages, summaries, the lineage of a skill, from several processes |
| `DataDir` | the vault, the database with its write-ahead log, `backup` and `restore` as sequences of file operations |
| `SelfUpdate` | `self-update`: fetch, verify, stage, record and swap on Unix and Windows, from several commands |
| `McpClient` | `McpClient` and `McpConnection::connect` with a server behind two bounded pipes |
| `Toolbox` | `build_registry`: builtins, MCP servers and `op_tools` registering under names |
| `Egress` | the redirect loop of `egress_request` with its resolver |
| `Execution` | one child process: `sa-exec`'s backends, `execute_code`'s override, voice and `op_tools` |
| `Dialogue` | the contexts of `turn`, `summarize_session` and `run_task`, and what the two providers make of them |
| `Schedule` | `nl_to_cron`, `validate_cron` and `next_fire_unix` |
| `FileTools` | `path_allowed`, `read_file`, `write_file`, and code under landlock, on a tree with links |
| `MCInstallation` | `Memory`, `DataDir` and `SelfUpdate` side by side |
| `MCExchanges` | `Delivery`, `McpClient`, `Toolbox`, `Egress`, `Execution`, `Dialogue`, `Schedule` and `FileTools` side by side |
| `MCAuditLog`, `MCAgentLoop` | symmetry, views and constant functions for TLC |
| `AuditLogProofs`, `AgentLoopProofs`, `GatewayProofs` | theorems about the module each is named for |
| `InstallationProofs`, `DataDirProofs` | theorems about `Memory` and `SelfUpdate`, and about `DataDir` |
| `DeliveryProofs`, `ProtocolProofs`, `ExchangesProofs` | theorems about `Delivery`, about `Dialogue` and `McpClient`, and about the other parts of `MCExchanges` |

**How they fit together.**  `AuditLog` implements `AuditTrail` (property and
theorem).  `AgentLoop` relies on that: its `trail` is a set of records that only
grows, an append either puts the record there or fails, and a failed or killed
append may have put it there.  `Gateway` in turn treats what `run_task` does as
one run that takes time and ends `Ok` or `Err`, which `AgentLoop`'s `RunsEnd`
justifies.  `Delivery` implements `Inbox`; its step "dispatch" is the run that
`Gateway` models around the mutex.  `Toolbox` says what stands behind the names
that `AgentLoop`'s gate goes by.  `Memory` and `Dialogue` split `turn` between the
rows it reads and writes and the request it makes of them; `Schedule` justifies
that `Gateway` has an expression of a fixed period.

**Side by side.**  The parts in `MCInstallation`, and those in `MCExchanges`, share
no variable, so a behaviour of all of them is one behaviour of each: an
invariant or an action property of one part holds in the product if it holds
alone.  The product is enormous and says no more, so the variable `part`
chooses one part per behaviour, its steps leave the other parts as they begin,
and an execution of the sum is an execution of one part.  These modules also
evaluate the assumptions on the constants of the parts (`InstallationAssumption`,
`ExchangesAssumption`).

Operators named `Mut...` are faulty variants of the definition that follows.
They are used only to confirm that each property notices the fault.

### AuditLog

The file is `lines` (each ended by a newline) and `tail` (bytes behind the last
newline).  A line is a sequence of fragments: one fragment is one entry written
by one process, or `Torn`; a line of two fragments is two writes glued
together, which is what a tail without a newline becomes.  `writeln!` on a
`File` makes two write calls, the entry and the newline, so `append` is
`WriteEntry` and `WriteNewline`, and `append_synced` adds `Sync`.  A crash of
the process (`Kill`) keeps the page cache; `PowerLoss` keeps any prefix that has
at least what was synced.  A hash is the history it commits to (a sequence of
`<<seq, event>>` pairs), which makes blake3 injective and nothing more.
`open`, `verify_chain` and `read_events` are the operators `open_ok`/`Recovered`,
`verify_chain` and `read_events` over the same content, each with its own rule
for a last line that does not parse.

`Faults` says what may happen besides whole-line power loss: `"byte_cut"` (a
crash cuts anywhere), `"short_write"` (a write fails part-way), `"edit"`
(another program changes the file).  `minted` and `acked` are history.

### AgentLoop

A process is a stack of frames, one per active `run_task`.  The label of a frame
is the point between two steps another process can see: one SQL statement, one
`append_synced`, one provider call or one tool execution.  `?` on the store, the
provider or the audit is `Abort` or `AuditFails`; both return to the frame below
because the code turns a subagent's `Err` into data.  Text is abstract: `Slug`
is a constant function on tasks, the model's answers and the FTS5 ranking are
arbitrary choices, a skill body is the run that drafted it.  The counters
`runs`, `score` and the lineage table are left out, as nothing here depends on
them; message rows are kept with the provenance they are stored with.

### Gateway

Each connector task and the scheduler loop is a program counter; `waiters` is
tokio's FIFO mutex.  A cron expression is its period.  A tick reads the clock and
the due rows once; a job in hand is fired (or skipped when its connector is
unknown or cannot be built) and then marked by id, with the tick's `now`.  Ids
are reused as SQLite reuses them, while `uid` names the job itself for the
properties.  `schedule add` and `remove` happen at any moment.  `Halted` aborts
every task wherever it is, for the shutdown and for a crash.

### Delivery

The task of one connector is a program counter; `held` is what its transport
would hand over again.  Telegram's `offset` confirms the updates below it with
the next poll; a Slack envelope is acknowledged, noted in the ring `seen`, then
run; a Discord event comes once, and a receive error may take what waits in the
socket.  The mail server is the one of RFC 3501 (section 6.4.5): `FETCH RFC822`
is `BODY[]`, which sets `\Seen` as the server answers, so that `Fetch` takes the
mail out of `held`, and the `STORE` behind it repeats what is so.  `FetchFails` is a
connection that breaks anywhere in between: before the server has set the flag,
after it and before the mail was read (then the mail is `unread` for good), or
behind the mail.  Transport errors, lost acknowledgements and answers, new
sockets and the death of the daemon happen anywhere.  `doubts` counts the mails that
were read and whose `\Seen` the server did not keep, the only thing that lets
`ImplementsInbox` hand a message over again.

### Memory

A statement is one step, and so is a transaction whose first statement writes.
A deferred transaction that reads first (`record_skill_use`) is two: SQLite
refuses its write if anyone has committed since the read.  `migrate` reads the
version outside its transaction, so two opens of one new database race, and the
loser is refused.  A summary's text is the set of messages it was made from,
which is what `SummaryCovers` compares with its watermark.

### DataDir

A write of a file is its truncation and then its bytes; a rename is one step;
processes die between any two.  A vault file is the identity it is encrypted to
and its map.  A write-ahead log belongs to a lineage of the database, and SQLite
replays it onto whatever `memory.db` it finds: `Mixed` is the result of the wrong
one.  `raced`, `cut` and `under` record the circumstances the properties exclude:
overlapping writers of the vault, a restore that was interrupted and not
repeated, and a restore under an open database.  `rows` counts what was committed,
and goes back only where a restore puts an older database in place; `stripped`
says that a restore without a database took away a log that held committed rows
(section 4).

### SelfUpdate

A binary is the release it was built for, `Forged` any other bytes.  The mirror
may answer each request from another release.  On Windows a running file can be
moved but not replaced, on Unix `current_exe` of a replaced binary names
another file.  Any request, write or rename fails, and the command dies, between
any two steps.

### McpClient, Toolbox, Egress, Execution

A line of JSON-RPC travels in pieces through bounded pipes, so a timeout leaves
half a line behind on either side; the server answers late and in any order,
says things unasked and may end.  `Toolbox` registers everything in the order of
the code, each part with any configuration.  In `Egress` a name resolves
differently at every lookup and every host redirects anywhere.  In `Execution`
the child is any short program of reads and writes, and both sides block on
their pipes.

### Dialogue, Schedule, FileTools

`Dialogue` builds the messages of each request from rows, recalls and tool calls,
and translates them as each provider does.  `Schedule` computes fires in a
calendar of small hours, days and weeks.  `FileTools` has a tree with links, the
kernel's walk of a path beside the code's (`normalize`, `resolves_within`), and
confined code that adds links between two calls of the tools.

## 3. Runs

| Run | Expect | Shows |
| --- | --- | --- |
| `audit_sole` | pass | one writer, whole-line crashes: `ChainVerifies`, `AckedReadable`, `ImplementsTrail`, `TypeOK` |
| `audit_faults` | pass | two writers and every fault: `VerifiedIsHistory` |
| `audit_torn` | violation of `AckedReadable` | a torn tail swallows the next acknowledged record |
| `audit_two_writers` | violation of `ChainVerifies` | two processes fork the chain |
| `agent_authority` | pass | `DispatchesRecorded`, `RunsEnd`, `TypeOK` with an operator or a daemon, nested subagents, failures and kills |
| `agent_skills` | pass | `SideEffectsAuthorised`, `NestingBounded`, `InjectedApproved`, `CreationsTruthful`, `SkillsWrittenByOperators` with three processes and three runs |
| `agent_slug` | violation of `ActivatesOwnTask` | two tasks of one slug share a draft |
| `gateway` | pass | `RecordsContiguous`, `RefiresExplained`, `DueJobAdvances`, `MessageConcludes`, `ShutdownCompletes` |
| `gateway_interval` | violation of `MinIntervalKept` | a late slot and the next one fire closer than the floor |
| `installation` | pass | `Memory`: `SchemaWhole`, `SummaryCovers`, `LineageComplete`, `RegressExplained`; `DataDir`: `SecretsKept`, `BackupDecrypts`, `DatabaseSound`; `SelfUpdate`: `BinarySurvives`, `InstalledRecorded`, `DowngradeExplained` |
| `exchanges` | pass | `Delivery`: `ImplementsInbox`, `NothingLost`, `MessageDispatched`; `McpClient`: `AftermathBounded`, `RequestsEnd`; `RegistrySound`; `ContactsVetted`; `Execution`: `StartedOnce`, `CallEnds`; `WellFormed`; `SlotsKeepInterval`; `PathsContained` |
| `dialogue_summary` | violation of `SummaryReachesModel` | Anthropic's `translate` drops the recap of the summary |

### Bounds, and why they are enough

- `MaxWrites` (4, or 3 with faults): two records before a crash, one glued or
  lost, one after it; a fork needs two appends.  `MayWrite` is the only guard it
  appears in.
- `audit_faults` uses the symmetry of processes and of events and a view without
  `acked`, which no action reads and `VerifiedIsHistory` does not mention.
- `MaxRuns` (3 in `agent_skills`): draft, approve, reuse, by three processes in any
  interleaving.  `agent_skills` identifies states that differ only in messages,
  effects and records other than `skill.create`: no action reads any of those
  and none of its properties do.  `Operators` are symmetric.
- `MAX_TOOL_STEPS` 2 and depth 1 in `agent_authority` (a denied call and an executed
  one, in a subagent too), 1 and the code's own depth 2 in `agent_skills`.
- `Gateway`: two jobs (so that an id is reused and one tick has two), clock 3
  (on-time, late and missed slots), one connector against the scheduler, one
  fault.  `MaxFaults` limits the failed marks and the crashes between fire and
  mark; other crashes are unlimited.
- `installation`: two processes (two vault users, two updates) race for
  everything; `SCHEMA_VERSION` is 3 (5 in the code, `sa-memory/src/lib.rs:5`), which
  is enough for an open to die between two migrations and for another to find it so;
  four messages with one kept
  verbatim allow a summary, a second one and a late one; two uses of the skill
  can conflict.  `MaxWrites` 2 is shared by secrets and rows, and with one backup
  and two restores reaches a restore of an old copy, its interruption and its
  repetition.  `MaxLosses` 2 lets a process die with committed rows in its log and a
  restore stop after that.  `MaxFaults` 2 are the failures of an update: one to fail
  and one to fail again on the way back.  `MaxIds` 1 lets the identity be
  created once; with 2 and `MaxLosses` 1 the same properties hold (4.5 million
  states, five minutes).  Three releases are needed for one command to overtake another.
- `exchanges`, `Delivery`: four messages, one of them not for the agent; the ring
  of 3 (256 in the code) with a window of 1 makes it overflow; two transport errors and
  one end of the daemon.  The assumption `SEEN_CAP > 2 * Window` says what the
  ring needs to be of use; Slack's own window is not documented.
- `McpClient`: two calls, two messages per request, one piece per pipe, two
  unasked lines: enough for a late answer to meet the next request and for both
  sides to block.
- `Egress`: a name, a public address, a private one and its mapped form; two
  redirects, so that the cap is met.  `Execution`: input 2 and up to three
  operations on pipes of one piece, so that each of the three pipes can be full.
- `Schedule`: hours of 7 minutes, days of 2 hours, weeks of one day, a floor of 2
  and a sample of 4 have the same proportions of long and short gaps as 60, 24,
  7, 5 and 11, and every set of minutes and hours is enumerated.
- `Dialogue`: five rows, two of them recent; three requests.  `FileTools`: two
  names, paths of three components, three trees, up to six nodes, which is a link made by
  confined code and a path through it.
- Deadlock is checked in the audit runs.  `AgentLoop` stops when `MaxRuns` runs are
  over, and `Gateway` when the clock and the jobs are used up, so their
  configurations turn the check off; `RunsEnd`, `MessageConcludes`,
  `DueJobAdvances` and `ShutdownCompletes` say there what a deadlock would break.
  The parts of `installation` and `exchanges` end (a call returns, a bound is
  used up), so deadlock is off there too; `MessageDispatched`, `RequestsEnd` and
  `CallEnds` are the corresponding properties.

### Fairness

`AgentLoop!FairSpec`: weak fairness of one process's next step.  It assumes that
a provider call and a tool return (with an error perhaps); the providers set no
timeout of their own, so this is an assumption about the endpoint.
`Gateway!FairSpec`: weak fairness of the scheduler's and of each connector's
own steps (tokio polls a ready task, a run ends by `RunsEnd`), none for
receiving a message, the clock, `add`, `remove`, signals or crashes.  `Stop` has
strong fairness: `select!` picks at random among the signal and a ready tick, so
a signal that is seen again and again is taken in the end.  A `mark_fired` that
failed forever would keep a job due forever; `MaxFaults` excludes that.

`Delivery`: weak fairness of the task's own step (tokio polls it) and of the
transport's push of each message it still holds (Slack and Discord push, the
others answer polls); none for arrivals, errors or crashes, which their bounds end.
`McpClient`: weak fairness of the two timers alone; nothing is asked of the
server, which is the point of `RequestsEnd`.  `Execution`: weak fairness of the
parent's and of the child's next step, where a step that blocks on a pipe is not
enabled.  The remaining parts have only safety properties.

## 4. Findings

Each is a run that must end in a counterexample.

1. `audit_torn`: `append_synced` promises a record that survives and the README a
   log that tolerates a torn final line.  `open` skips such a line but leaves it
   in place, and the next record is written onto it: acknowledged, synced and
   unreadable; one more and the log cannot be opened.
2. `audit_two_writers`: the sole-writer invariant is kept per crate, not per file.
   The daemon and any CLI command that records hold their own `seq` and
   `last_hash`, and both append.
3. `agent_slug`: the comment says that only the skill *this exact task* authored
   may auto-activate; the test is equality of slugs, which different tasks share.
4. `gateway_interval`: the floor between fires holds between slots, not between fires.
5. `dialogue_summary`: with the Anthropic provider the recap of the rolling
   summary is a second system message, and `translate` keeps only the first.

Other observations, which no document of the repository contradicts:

- `validate_cron` judges an expression by its first eleven fires after the epoch.
  `0,5,10,15,20,25,30,35,40,45,50,56 * * * *` passes and fires at :56 and at :00,
  four minutes apart; an expression can also have its first short gap right
  behind the sample.  `SlotsKeepInterval` is therefore stated for expressions
  whose repeating part (`Sampled`) the sample shows whole.
- `Agent::turn` stores the user's message before it assembles the context, so the
  message is in the context twice, which the providers merge.
- `restore` of a backup that has no `memory.db` still removes the sidecars of the
  live one (`ops.rs:133-140`).  If the last process that had the database open was
  killed, its log holds rows that were committed and not yet moved into the file:
  they are gone, though the restore is complete and nothing was open.  `DatabaseSound`
  is stated with this case (`stripped`) apart.
- `poll_inbox` reads a mail with `UID FETCH RFC822` (`email.rs:112`), not
  `BODY.PEEK[]`, so the server marks it `\Seen` when it answers.  If the connection
  breaks behind that and before the mail was read (`email.rs:113-115`), the next
  `SEARCH UNSEEN` does not find it: the mail never runs, with no process dead.
  The error is reported, as `email.rs:89-91` says, but the mail is not named.  The
  explicit `STORE` comes too late to make a difference either way.  `NothingLost`
  and `MessageDispatched` say what remains: one error loses one mail at most, and
  every other mail is dispatched.
- A death inside `write_0600` leaves an empty identity, and the vault cannot be
  opened again before someone removes it; no secret has been stored by then.
- When neither the code nor its output fits a pipe, `pipe_code` and `spawn_capture`
  wait for a child that waits for them; `CallEnds` is stated for the other calls.

## 5. Proofs

`AuditLogProofs` proves, for every set of processes and events:

- `TypeCorrect`: `Spec => []TypeOK`, with all faults.
- `SoleWriterChain`, `SoleWriterAcked`: `[]ChainVerifies` and `[]AckedReadable`,
  assuming `SoleWriter` (at most one process) and `Faults = {}`.
- `SoleWriterImplementsTrail`: `Spec => ImplementsTrail` under the same assumptions.
- `AcceptedIsHistory`: `[]VerifiedIsHistory`, with all faults and any number of
  writers.

Neither assumption can be dropped: `audit_two_writers` refutes the first theorem
without `SoleWriter`, and `audit_torn` the second without `Faults = {}`.

**The argument.**  `ChainVerifies` is not inductive: it says nothing of the record
that is half written, nor of the `Audit` value the next record is computed from.
`SoleInv` adds what is missing:

- `Chained(lines)`: line *i* is one entry with `seq = i - 1`, the hash of its
  predecessor as `prev`, and the hash of its own content;
- `TailOK`: the tail is empty, or is the one entry that follows the last line;
- `HandleOK`: the open `Audit` has the length and last hash of `lines`;
- `AckedOnDisk`: every acknowledged hash is that of a line within `synced`.

`SoleStep` proves it action by action; `ChainedAppend` and `ChainedPrefix` are the
two facts about chains that every action reduces to (an append that follows, a
prefix that a power loss leaves).  `AckedReadable` then follows because the hash
of line *i* spells the events of lines 1 to *i* (`ContentChained`).
The refinement maps `WriteNewline` to `Record`, `Sync` to `Persist`, `PowerLoss` to
`Lose`, and the rest to stutters.  `AcceptedIsHistory` rests on a weaker
invariant, `HashesMinted` (every hash in the file was minted by an append), and on
the fact that the recomputed hash of the last accepted line is the whole content.

`AgentLoopProofs` proves every safety property of the runs of `AgentLoop` that
pass, for every set of processes, tasks, tools and allow lists, every `Slug` and
`Bare`, and every value of the bounds; nothing is assumed beyond
`AgentAssumption`:

- `TypeCorrect`, `NestingIsBounded`, `SideEffectsAreAuthorised`,
  `DispatchesAreRecorded`, `InjectionsAreApproved`, `CreationsAreTruthful`:
  `Spec => []` of the invariant each is named for;
- `OperatorsWriteSkills`: `Spec => SkillsWrittenByOperators`, an action property.

**The argument.**  None of the invariants is inductive: each speaks of the last
frame or of what it did, and a return uncovers the frame below it.  Three
inductive invariants are layered, the later ones using the earlier:

- `StackInv`: of one process's frames, the first has a context its entry point
  builds, the others are subagents; depth plus position is constant; every frame
  but the last is `"waiting"`; and each frame satisfies what its label needs
  (`FrameInv`), the label it reaches after the append it is in (`Where`)
  included.  The last point carries the authority decided before `append_synced`
  over to the execution after it.
- `RecordInv`: for every frame below the last, the spawn of the one above it is
  on record under the steps so far (`Spawned`), and so is the call of a tool in
  execution (`Dispatched`).
- `SkillInv`: an active body is consented to, an absent skill has none, injected
  bodies are those of active skills, and a run about to record `skill.create` has
  its own body in the table.  Across processes it rests on `Grows`: no step
  changes a body that is there or deactivates a skill.

Actions are proved by form: each replaces the last frame (`Replaces`), removes it
(`Return`), adds one (`Spawns`, `Begins`) or drops all (`Dies`), as the `...Form`
lemmas show, and each invariant has one lemma per form.

`GatewayProofs` proves for every set of connectors and expressions and every
bound:

- `TypeCorrect`: `Spec => []TypeOK`;
- `DispatchesContiguous`: `Spec => []RecordsContiguous`;
- `RepetitionsExplained`: `Spec => []RefiresExplained`.

**The argument.**  `RecordsContiguous` follows from the mutex: `QueueInv` says that
the holder is the only one past its first record and that no one waits twice,
`Contiguous` that only the dispatch of the holder can be the open one at the end
of the log.  For it each step is one of five forms seen from the mutex
(`Passes`, `Enters`, `Runs`, `Leaves`, `Halts`).  For `RefiresExplained` a step is one of
five forms seen from the table (`Waits`, `Ticks`, `Takes`, `Ends`, `Drops`).  A job
is about to repeat a slot when it is due again at a slot it has fired, or is in
hand with one (`Repeaters`); `DebtInv` bounds the repetitions so far and those
about to come by the faults that explain them.

`InstallationProofs` proves for every number of processes, sessions, migrations,
releases and every bound, of the specification of `MCInstallation`:
`SchemaStaysWhole`, `SummariesCover`, `LineageIsComplete`, `RegressionsExplained`
(`Memory`) and `BinariesSurvive`, `InstallationsRecorded`, `DowngradesExplained`
(`SelfUpdate`).

**The argument.**  `SchemaInv`: a migration in progress starts from the version
that is there, or is too late.  `SummaryInv`: a list that was read is what the
session had up to some row (`Upto`), so that whatever is added meanwhile, the
summary in the making covers exactly the messages up to its watermark;
`CutoffIsPart` shows that leaving out the newest messages keeps that form.  It is
past the stored watermark unless it was overtaken, which is the reason for
`RegressExplained`.  `SkillInv`: a use whose snapshot is fresh adds the version that
is next.  What a step does to other processes is the one lemma `OthersKept`.
`UpdateInv`: a command has a signed version newer than its own from the comparison
on, staged whole from the write on, recorded from the record on
(`CommandInv`), and on Windows the binary of a live command is one of the two
files (`FilesInv`), so that a file that does not run can go.

`DataDirProofs` proves, of the same specification, for every number of processes
and keys, with deaths between any two file operations: `SecretsAreKept`,
`BackupsDecrypt` and `DatabaseStaysSound`.

**The argument.**  `DirInv == DirTypes /\ CommandInv /\ VaultInv /\ DatabaseInv`.  Until
writers of the vault have overlapped (`raced`) there is one identity *I* such that
`VaultOf(I)`: whatever file or process has an identity has *I* or a torn one
(`OneIdentity`), nothing has been stored before it is whole (`Birth`), a vault in
memory that is not stale has the acknowledged secrets, and one that is being
written those and the one being set (`InStep`), the store has the acknowledged
secrets under *I* unless a restore is about to bring them (`Kept`), and a backup
and the stages of a restore have the identity that belongs to their store
(`Copied`, `Restored`).  `DatabaseInv` says of each stage of a restore which lineage the
database and its log are of, and that file and log together have the committed
rows, unless the log was `stripped`: between the stages they may differ, which is
why `DatabaseSound` alone is not inductive.

`DeliveryProofs` proves for every connector, any messages, flaws, window and
capacity of the ring with `SEEN_CAP > 2 * Window`, any faults and crashes:
`MessagesAreKept` (`[]NothingLost`) and `TaskImplementsInbox`, the refinement of
`Inbox`.

**The argument.**  `DeliveryInv == DeliveryTypes /\ KindInv /\ LostInv /\ OnceInv`, with
one conjunct per transport.  `LostInv` says where a message that is not concluded
is: held, in memory, on a socket, lost with the process or `unread`; its part
`ErrorsCost` counts the mails that are `unread` against the errors so far.  `OnceInv` says which messages may still be
handed over: what the task has taken is `Due` (running it keeps the promise), and
what no offset, ring entry or flag says was taken is `Fresh` (due, and not in
memory).  For Slack this is a fact about the ring: entries are at most a
window out of order (`Spans`), so that what has fallen out of a ring of more
than two windows cannot be held any more.  `Dispatch` is
`Inbox`'s `Hand`, a mail read whose flag the server did not keep its `Doubt`, the end
of the daemon its `Restart`, and every other step a stutter.

`ProtocolProofs` proves `RequestsAreWellFormed` for any rows, recalls and tool
calls, both providers, and `AftermathIsBounded` for any number of calls, pipes of
any size and a server that says anything at any time.

**The argument.**  For `Dialogue`: what `translate` has put out after each message is
a function defined by recursion on the message's number; `OutsExist` shows that
this recursion defines one, `OutsAre` what it is, and `PushTakesTurns`, carried
along the loop by induction, that two messages of one role are never adjacent.
`Answered`, that every call is followed by its results, holds of each context
that the three callers build (`DialogueInv`).  For `McpClient`:
`McpInv == McpTypes /\ PhaseInv /\ ResultInv /\ BrokenInv /\ GarbledInv`.  The
conjuncts of the last two are countings: a broken line is read where the stream
starts without the head of a line, which is so once for each cut
(`broken + Headless(Coming) <= cuts`); a line the server cannot read is a head
that no tail follows, of which there is one for each torn write
(`garbled + Cardinality(Torn(Going)) <= torn`).

`ExchangesProofs` proves of the specification of `MCExchanges`:

- `ContactsAreVetted` for every policy, all hosts, addresses and bounds, with an
  invariant that ties the requests sent to the redirects followed (`ContactsInv`)
  and each stage of the loop to what was vetted before it (`VettedInv`);
- `CodeStartsOnce`, for which it matters that the override is only open before
  anything was started (`StartedInv`);
- `NamesStandForTools` for any words in the names: `ToolboxInv` says for each stage
  of `build_registry` which names the registry has and of what form they are, and
  `RegisterKeeps` that a later registration takes none of them over;
- `JobsKeepInterval` for hours, days and weeks of any length, any floor and sample;
- `CallsAreContained` for any trees, roots, paths and links.

**Schedule.**  `SlotsKeepInterval` comes down to a fact about numbers.  `UptoNext` says that
`next_fire_unix` adds one to the number of slots up to a minute, so that the *k*-th
entry of the sample is the *k*-th slot (`SampleCounts`).  An expression whose
repeating part is in the sample has a period with fewer slots than the sample has
entries (`SampledHasPeriod`).  Two neighbouring slots, wherever they are, are
shifted by whole periods into the first one, where both are in the sample and
the gate has compared them (`SlotsApart`).  `ScheduleInv` ties the job to this: its
expression has passed the gate, and its next run is a slot behind the last one.

**FileTools.**  `FileInv` says that the tree is one (`IsTree`: what exists is in a
directory that exists, and a link leads to the real place of something), of
which `TreePrefix` concludes that every prefix of a place is a directory.  For a
write, let *E* be the last place that the kernel's walk along the path finds.
`ResolvesBeneath`: if `resolves_within` holds for a root that exists, *E* is beneath
the root's real place, since otherwise the component behind *E* would exist.
`MadeSoFar` and `MadeBeyond`: `create_dir_all` makes nothing up to *E*, and behind it
only directories beneath *E*, as no `..` follows; so the file is beneath *E* as
well (`WriteStep`).  For a read, the place that a path leads to is the one its
text names (`PlaceIsText`), and so is a root (`RootIsPlace`).

**Recursion.**  tlapm cannot reason about `RECURSIVE` operators, nor instantiate the
library's induction theorems, which take an operator.  Here everything recursive
that a theorem needs is a function, and induction is done with a set in place of
the predicate (`InductionOverNat`, from the well-foundedness of `<`):
`LoopExists` shows that a loop of *n* steps defines a function, `LoopStays` that it
stays in a set, and the lemmas about `Places`, `create_dir_all`, `normalize`, `Sample`
and `translate` rest on them.

**Only model-checked**: the liveness properties (`RunsEnd`, `DueJobAdvances`,
`MessageConcludes`, `ShutdownCompletes`, `MessageDispatched`, `RequestsEnd`, `CallEnds`),
since liveness under fairness and `ENABLED` are out of the prover's reach, and the
five counterexamples.  Every invariant and action property of a run that passes is
proved.

## 6. Not modelled, and why

- *No state*: argument parsing, printing, `export`, `doctor`, the service installer,
  `main`; `Tainted`, a compile-time wrapper; parsing of configuration and of
  streamed bodies, and the headers of a redirected request.
- *Single writes of one row* that nothing reads back into a decision: preferences,
  the numeric score of a skill.
- *The kernel and the hardware*: landlock enforces the rules it is given; power
  loss is modelled for the audit log, which calls `sync_data`, and not for the
  vault, restore and self-update, which promise nothing about it.
- `Delivery`: a reply is sent once, best effort; a mail server that does not set
  `\Seen` when it answers `FETCH RFC822`, against RFC 3501, and another client that
  reads or deletes the agent's mail.
- `Egress`: a proxy that reqwest takes from the environment.
- `McpClient`: the content of results; a line over the limit leaves one broken rest
  behind, where a longer one would leave several.  `Toolbox`: server names that contain `::`
  themselves.
- `Execution`: a child that leaves its pipes to a grandchild, a speech-to-text
  command that reads the terminal it inherits.  Neither `execute_code` nor a
  provider call has a time limit in the code.
- `Dialogue`: that the first message of a request to Anthropic may be the
  assistant's.
- `FileTools`: `PathsContained` excludes what the code treats by the text of the
  path alone: a write root that does not exist (compared lexically), a link to
  nothing (`resolves_within` takes it for absent), and, for reading, trees with
  links, where `..` need not mean what it says, and read roots written with `..`,
  which are compared as text too.  The tree does not change between the check and
  the use of one call.
- `Schedule`: the fields day of month and month, which are `*`.

## 7. What could come next

Power loss in `DataDir` once the code syncs its files; a composition of `Gateway`
with a `Delivery` per connector; write roots that do not exist yet in `FileTools`,
once the code resolves them.
