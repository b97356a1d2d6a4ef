----------------------------- MODULE AgentLoop ------------------------------
(***************************************************************************)
(* crates/sa-core: Agent::run_task, the authority that                     *)
(* sa-core-types::principal grants a run, and the skill store of sa-memory *)
(* it reads and writes.                                                    *)
(*                                                                         *)
(* Every process runs one task at a time: the daemon's dispatches share    *)
(* one mutex around the Audit, and a CLI command is one run.  A run is a   *)
(* stack of frames, one per active call of run_task, because a subagent is *)
(* a recursive call; a process is idle when its stack is empty.  A step is *)
(* one SQL statement on the shared store, one append_synced, one provider  *)
(* round trip or one tool execution, so the steps of different processes   *)
(* interleave between the statements that one process makes.               *)
(*                                                                         *)
(* Text is abstract: a task is a value with a slug, a skill body is the    *)
(* identity of the run that drafted it, and the model's answers, the       *)
(* outcome of a tool and the FTS5 ranking are arbitrary choices.           *)
(***************************************************************************)
EXTENDS Naturals, Sequences, FiniteSets

CONSTANTS
  Operators,            \* CLI processes
  Daemons,              \* processes whose runs come from connectors, jobs and voice
  AllowLists,           \* the frozen allow lists of bindings and jobs
  Task,                 \* task texts
  Slug,                 \* what eval::slug makes of each task
  NoSkill,              \* no skill is injected
  Tool,                 \* names the model may call
  Bare,                 \* what follows the last "::" of each name
  Registered,           \* tools that Registry::get finds
  MAX_TOOL_STEPS,
  MAX_SUBAGENT_DEPTH,
  MaxRuns,              \* bound: runs that all processes start together
  Crashes               \* whether a process may be killed in a run

Proc == Operators \cup Daemons

Name == {Slug[t] : t \in Task}

\* A "task" argument that is absent or blank.
NoTask == ""

ASSUME AgentAssumption ==
  /\ Operators \cap Daemons = {}
  /\ "" \notin Task
  /\ Task \subseteq DOMAIN Slug
  /\ NoSkill \notin Name
  /\ Tool \subseteq DOMAIN Bare
  /\ "subagent" \notin Tool
  /\ MAX_TOOL_STEPS \in Nat \ {0}
  /\ MAX_SUBAGENT_DEPTH \in Nat
  /\ MaxRuns \in Nat
  /\ Crashes \in BOOLEAN

VARIABLES
  stack,      \* the frames of run_task on each process, root first
  runs,       \* how many runs each process has started
  skills,     \* the table skills, by name
  messages,   \* the table messages
  trail,      \* the audit log: which call recorded which event
  effects,    \* history: every tool execution
  approved    \* history: skill bodies that an operator consented to

vars == <<stack, runs, skills, messages, trail, effects, approved>>
-----------------------------------------------------------------------------
(* Principals and what they may do.                                        *)

operator(auto_approve) ==
  [principal |-> "operator", auto_approve |-> auto_approve,
   allow_list |-> {}, depth |-> MAX_SUBAGENT_DEPTH]

remote(allow_list) ==
  [principal |-> "remote", auto_approve |-> FALSE,
   allow_list |-> allow_list, depth |-> 0]

\* An operator named Mut... is a faulty variant of a definition after it, kept
\* to show that a property would notice the fault.
MutSubagentKeepsDepth(ctx) ==
  [principal |-> "subagent", auto_approve |-> FALSE,
   allow_list |-> {}, depth |-> ctx.depth]

MutSubagentAsOperator(ctx) ==
  [principal |-> "operator", auto_approve |-> TRUE,
   allow_list |-> {}, depth |-> IF ctx.depth = 0 THEN 0 ELSE ctx.depth - 1]

\* The parent that Principal::Subagent boxes is the frame below.
subagent_of(ctx) ==
  [principal |-> "subagent", auto_approve |-> FALSE,
   allow_list |-> {}, depth |-> IF ctx.depth = 0 THEN 0 ELSE ctx.depth - 1]

RootContext(p) ==
  IF p \in Operators THEN {operator(b) : b \in BOOLEAN}
                     ELSE {remote(a) : a \in AllowLists}

approval_required(tool) ==
  Bare[tool] \in {"write_file", "shell", "execute_code", "activate_skill"}

\* A subagent asks its parent, the frame below it, so the answer is that of
\* the nearest frame that is no subagent.
may_run_side_effect(frames, tool) ==
  \E i \in 1..Len(frames) :
    /\ \A k \in (i + 1)..Len(frames) : frames[k].ctx.principal = "subagent"
    /\ \/ /\ frames[i].ctx.principal = "operator"
          /\ frames[i].ctx.auto_approve
       \/ /\ frames[i].ctx.principal = "remote"
          /\ Bare[tool] \in frames[i].ctx.allow_list

may_auto_activate_skill(ctx) ==
  ctx.principal = "operator" /\ ctx.auto_approve

MutSubagentPersists(ctx) == ctx.principal # "remote"

may_persist(ctx) == ctx.principal = "operator"

provenance(ctx) == IF ctx.principal = "operator" THEN "trusted" ELSE "untrusted"

\* The label is "operator", "remote:..." or "subagent:" before the parent's:
\* the root's kind and how many subagents deep.
audit_label(frames) == <<frames[1].ctx.principal, Len(frames) - 1>>
-----------------------------------------------------------------------------
(* Frames.                                                                 *)

\* Where a frame is in run_task:
\*   "begin"     about to store the user message
\*   "activate"  about to activate its own draft
\*   "recall"    about to look for an active skill
\*   "act"       about to ask the provider, or out of steps
\*   "tool"      executing `call`
\*   "waiting"   for the subagent above it
\*   "answer"    about to store the answer
\*   "learn"     about to read or score the skill of this run
\*   "create"    about to insert a draft skill
\*   "log"       in append_synced of `event`, to continue at `then`
\*   "done"      about to return Ok
Label == {"begin", "activate", "recall", "act", "tool", "waiting", "answer",
          "learn", "create", "log", "done"}

\* skills.body and skills.created_from_session: the run and its task.
Body == [by : Proc, run : Nat, task : Task]

Context == [principal : {"operator", "remote", "subagent"},
            auto_approve : BOOLEAN, allow_list : SUBSET UNION AllowLists,
            depth : 0..MAX_SUBAGENT_DEPTH]

AuditAction == {"none", "skill.activate", "skill.activate.denied", "skill.reuse",
                "skill.create", "subagent.denied", "subagent.spawn",
                "tool.denied", "tool"}

AuditKey == Name \cup Tool \cup {NoSkill, "subagent"}

NoEvent == [action |-> "none", key |-> NoSkill]

NewFrame(ctx, task) ==
  [ctx |-> ctx, task |-> task, pc |-> "begin", steps |-> 0, errors |-> FALSE,
   reused |-> NoSkill, injected |-> {}, call |-> NoSkill,
   event |-> NoEvent, then |-> "done"]

Top(p) == stack[p][Len(stack[p])]

At(p, label) == stack[p] # <<>> /\ Top(p).pc = label

Goto(p, frame) == stack' = [stack EXCEPT ![p][Len(stack[p])] = frame]

\* The frame after append_synced of action for key returns Ok goes to then.
Logging(frame, action, key, then) ==
  [frame EXCEPT !.pc = "log", !.event = [action |-> action, key |-> key],
                !.then = then]

\* The frames after the top call returns, Ok or Err: a subagent's error is
\* data for its parent like its answer.
Popped(frames) ==
  LET n == Len(frames) - 1
  IN  IF n = 0 THEN <<>>
      ELSE [SubSeq(frames, 1, n) EXCEPT ![n].pc = "act"]

Return(p) == stack' = [stack EXCEPT ![p] = Popped(stack[p])]

\* The identity of the call in progress: process, run and the step counters
\* down the stack, which is what "::sub.{steps}" makes of a session name.
CallId(p) ==
  [by |-> p, run |-> runs[p],
   path |-> [i \in 1..Len(stack[p]) |-> stack[p][i].steps]]

Own(p) == Slug[Top(p).task]

Exists(n) == skills[n].status # "absent"

Absent == [status |-> "absent", provenance |-> "untrusted", body |-> {}]
-----------------------------------------------------------------------------
Init ==
  /\ stack = [p \in Proc |-> <<>>]
  /\ runs = [p \in Proc |-> 0]
  /\ skills = [n \in Name |-> Absent]
  /\ messages = {}
  /\ trail = {}
  /\ effects = {}
  /\ approved = {}

\* Bound of the model, not of the code.
MayStart == Cardinality(UNION {{p} \X (1..runs[p]) : p \in Proc}) < MaxRuns

\* run.rs, tui.rs, gateway::dispatch_inbound, gateway::fire_job: run_task with
\* the context that the entry point builds.
Start(p, ctx, task) ==
  /\ stack[p] = <<>>
  /\ MayStart
  /\ stack' = [stack EXCEPT ![p] = <<NewFrame(ctx, task)>>]
  /\ runs' = [runs EXCEPT ![p] = @ + 1]
  /\ UNCHANGED <<skills, messages, trail, effects, approved>>

\* `secretagent skill activate`: the row first, then the record.
ActivateCommand(p, n) ==
  /\ p \in Operators
  /\ stack[p] = <<>>
  /\ MayStart
  /\ Exists(n)
  /\ skills' = [skills EXCEPT ![n].status = "active", ![n].provenance = "trusted"]
  /\ approved' = approved \cup {<<n, skills[n].body>>}
  /\ stack' = [stack EXCEPT ![p] = <<Logging(NewFrame(operator(FALSE), NoTask),
                                             "skill.activate", n, "done")>>]
  /\ runs' = [runs EXCEPT ![p] = @ + 1]
  /\ UNCHANGED <<messages, trail, effects>>

\* Store the user message, read the preferences, look the own skill up.
Begin(p) ==
  /\ At(p, "begin")
  /\ messages' = messages \cup
       {[id |-> CallId(p), role |-> "user", task |-> Top(p).task,
         provenance |-> provenance(Top(p).ctx)]}
  /\ LET own == skills[Own(p)]
         draft == own.status = "draft" /\ own.provenance # "trusted"
     IN  Goto(p,
           IF ~draft THEN [Top(p) EXCEPT !.pc = "recall"]
           ELSE IF may_auto_activate_skill(Top(p).ctx)
                THEN [Top(p) EXCEPT !.pc = "activate"]
                ELSE Logging(Top(p), "skill.activate.denied", Own(p), "recall"))
  /\ UNCHANGED <<runs, skills, trail, effects, approved>>

\* activate_skill under the operator's standing consent for this task.
Activate(p) ==
  /\ At(p, "activate")
  /\ skills' = [skills EXCEPT ![Own(p)].status = "active",
                              ![Own(p)].provenance = "trusted"]
  /\ approved' = IF Len(stack[p]) = 1 /\ Top(p).ctx = operator(TRUE)
                 THEN approved \cup {<<Own(p), skills[Own(p)].body>>}
                 ELSE approved
  /\ Goto(p, Logging(Top(p), "skill.activate", Own(p), "recall"))
  /\ UNCHANGED <<runs, messages, trail, effects>>

\* active_matching_skills(task, 1): the best match of any status, and then
\* only if it is active and Trusted.  Its body enters the system message.
Recall(p) ==
  /\ At(p, "recall")
  /\ \/ \E best \in {n \in Name : Exists(n)} :
          /\ skills[best].status = "active"
          /\ skills[best].provenance = "trusted"
          /\ Goto(p, Logging([Top(p) EXCEPT !.reused = best,
                                            !.injected = skills[best].body],
                             "skill.reuse", best, "act"))
     \/ Goto(p, [Top(p) EXCEPT !.pc = "act"])
  /\ UNCHANGED <<runs, skills, messages, trail, effects, approved>>

MutTextUnbounded(p) ==
  /\ At(p, "act")
  /\ Goto(p, [Top(p) EXCEPT !.steps = @ + 1, !.pc = "answer"])
  /\ UNCHANGED <<runs, skills, messages, trail, effects, approved>>

\* provider.act answers with text.
ActText(p) ==
  /\ At(p, "act")
  /\ Top(p).steps < MAX_TOOL_STEPS
  /\ Goto(p, [Top(p) EXCEPT !.steps = @ + 1, !.pc = "answer"])
  /\ UNCHANGED <<runs, skills, messages, trail, effects, approved>>

MutDeniedIsFree(p, tool) ==
  /\ At(p, "act")
  /\ Top(p).steps < MAX_TOOL_STEPS
  /\ IF approval_required(tool) /\ ~may_run_side_effect(stack[p], tool)
     THEN Goto(p, Logging(Top(p), "tool.denied", tool, "act"))
     ELSE Goto(p, Logging([Top(p) EXCEPT !.steps = @ + 1, !.call = tool],
                          "tool", tool, "tool"))
  /\ UNCHANGED <<runs, skills, messages, trail, effects, approved>>

MutRunBeforeAudit(p, tool) ==
  /\ At(p, "act")
  /\ Top(p).steps < MAX_TOOL_STEPS
  /\ IF approval_required(tool) /\ ~may_run_side_effect(stack[p], tool)
     THEN Goto(p, Logging([Top(p) EXCEPT !.steps = @ + 1],
                          "tool.denied", tool, "act"))
     ELSE Goto(p, [Top(p) EXCEPT !.steps = @ + 1, !.call = tool, !.pc = "tool"])
  /\ UNCHANGED <<runs, skills, messages, trail, effects, approved>>

\* provider.act calls a tool: denied, or recorded and then executed.
ActTool(p, tool) ==
  /\ At(p, "act")
  /\ Top(p).steps < MAX_TOOL_STEPS
  /\ LET f == [Top(p) EXCEPT !.steps = @ + 1]
     IN  IF approval_required(tool) /\ ~may_run_side_effect(stack[p], tool)
         THEN Goto(p, Logging(f, "tool.denied", tool, "act"))
         ELSE Goto(p, Logging([f EXCEPT !.call = tool], "tool", tool, "tool"))
  /\ UNCHANGED <<runs, skills, messages, trail, effects, approved>>

\* provider.act calls the synthetic tool "subagent" with a task or without.
ActSubagent(p, task) ==
  /\ At(p, "act")
  /\ Top(p).steps < MAX_TOOL_STEPS
  /\ LET f == [Top(p) EXCEPT !.steps = @ + 1]
     IN  IF Top(p).ctx.depth = 0 \/ task = NoTask
         THEN Goto(p, Logging(f, "subagent.denied", "subagent", "act"))
         ELSE Goto(p, Logging([f EXCEPT !.call = task],
                              "subagent.spawn", "subagent", "waiting"))
  /\ UNCHANGED <<runs, skills, messages, trail, effects, approved>>

\* The loop has made MAX_TOOL_STEPS round trips: Ok, and nothing learned.
StepLimit(p) ==
  /\ At(p, "act")
  /\ Top(p).steps = MAX_TOOL_STEPS
  /\ Return(p)
  /\ UNCHANGED <<runs, skills, messages, trail, effects, approved>>

Record(p) ==
  [id |-> CallId(p), action |-> Top(p).event.action, key |-> Top(p).event.key,
   principal |-> audit_label(stack[p])]

\* append_synced returns Ok: the record is on disk and the call goes on.
AuditOk(p) ==
  /\ At(p, "log")
  /\ trail' = trail \cup {Record(p)}
  /\ LET f == [Top(p) EXCEPT !.pc = Top(p).then, !.event = NoEvent,
                             !.then = "done"]
         called == [stack EXCEPT ![p][Len(stack[p])] = f]
     IN  IF f.pc = "waiting"
         THEN stack' = [called EXCEPT ![p] =
                Append(@, NewFrame(subagent_of(f.ctx), f.call))]
         ELSE stack' = called
  /\ UNCHANGED <<runs, skills, messages, effects, approved>>

\* append_synced returns Err, with the record on disk or not: `?` ends the
\* call.
AuditFails(p) ==
  /\ At(p, "log")
  /\ trail' \in {trail, trail \cup {Record(p)}}
  /\ Return(p)
  /\ UNCHANGED <<runs, skills, messages, effects, approved>>

\* The tool runs (if it is registered), with an error or without one.
RunTool(p) ==
  /\ At(p, "tool")
  /\ \E failed \in BOOLEAN :
       /\ Top(p).call \notin Registered => failed
       /\ Goto(p, [Top(p) EXCEPT !.pc = "act", !.call = NoSkill,
                                 !.errors = @ \/ failed])
  /\ effects' = IF Top(p).call \in Registered
                THEN effects \cup {[id |-> CallId(p), tool |-> Top(p).call,
                                    principal |-> audit_label(stack[p])]}
                ELSE effects
  /\ UNCHANGED <<runs, skills, messages, trail, approved>>

\* Store the answer; an operator's run goes on to learn.
Answer(p) ==
  /\ At(p, "answer")
  /\ messages' = messages \cup
       {[id |-> CallId(p), role |-> "assistant", task |-> Top(p).task,
         provenance |-> "none"]}
  /\ IF may_persist(Top(p).ctx)
     THEN Goto(p, [Top(p) EXCEPT !.pc = "learn"])
     ELSE Return(p)
  /\ UNCHANGED <<runs, skills, trail, effects, approved>>

MutReuseRefines(p) ==
  /\ At(p, "learn")
  /\ IF Top(p).reused # NoSkill
     THEN /\ skills' = [skills EXCEPT ![Top(p).reused].body =
                          {[by |-> p, run |-> runs[p], task |-> Top(p).task]}]
          /\ Return(p)
     ELSE /\ \E recallable \in BOOLEAN :
               IF ~Top(p).errors /\ recallable /\ ~Exists(Own(p))
               THEN Goto(p, [Top(p) EXCEPT !.pc = "create"])
               ELSE Return(p)
          /\ UNCHANGED skills
  /\ UNCHANGED <<runs, messages, trail, effects, approved>>

\* learn_from_trajectory: record_skill_use changes only counters and lineage;
\* a success with no skill of that name goes on to create one.
Learn(p) ==
  /\ At(p, "learn")
  /\ \E recallable \in BOOLEAN :
       IF /\ Top(p).reused = NoSkill
          /\ ~Top(p).errors
          /\ recallable
          /\ ~Exists(Own(p))
       THEN Goto(p, [Top(p) EXCEPT !.pc = "create"])
       ELSE Return(p)
  /\ UNCHANGED <<runs, skills, messages, trail, effects, approved>>

MutCreateReplaces(p) ==
  /\ At(p, "create")
  /\ skills' = [skills EXCEPT ![Own(p)] =
       [@ EXCEPT !.status = IF @ = "absent" THEN "draft" ELSE @,
                 !.body = {[by |-> p, run |-> runs[p], task |-> Top(p).task]}]]
  /\ Goto(p, Logging(Top(p), "skill.create", Own(p), "done"))
  /\ UNCHANGED <<runs, messages, trail, effects, approved>>

\* create_skill: the INSERT fails on the UNIQUE name if another process was
\* first, or on a body that looks like a secret; neither is an error.
Create(p) ==
  /\ At(p, "create")
  /\ \/ /\ ~Exists(Own(p))
        /\ skills' = [skills EXCEPT ![Own(p)] =
             [status |-> "draft", provenance |-> "untrusted",
              body |-> {[by |-> p, run |-> runs[p], task |-> Top(p).task]}]]
        /\ Goto(p, Logging(Top(p), "skill.create", Own(p), "done"))
     \/ /\ Return(p)
        /\ UNCHANGED skills
  /\ UNCHANGED <<runs, messages, trail, effects, approved>>

Done(p) ==
  /\ At(p, "done")
  /\ Return(p)
  /\ UNCHANGED <<runs, skills, messages, trail, effects, approved>>

\* The store or the provider returns Err and `?` ends the call.  The insert
\* of create_skill is not here: its error is dropped.
Abort(p) ==
  /\ stack[p] # <<>>
  /\ Top(p).pc \in {"begin", "activate", "recall", "act", "answer", "learn"}
  /\ Top(p).pc = "act" => Top(p).steps < MAX_TOOL_STEPS
  /\ Return(p)
  /\ UNCHANGED <<runs, skills, messages, trail, effects, approved>>

\* The process dies in the middle of a run; a record that it was appending
\* may have reached the disk.
Kill(p) ==
  /\ Crashes
  /\ stack[p] # <<>>
  /\ stack' = [stack EXCEPT ![p] = <<>>]
  /\ \/ UNCHANGED trail
     \/ At(p, "log") /\ trail' = trail \cup {Record(p)}
  /\ UNCHANGED <<runs, skills, messages, effects, approved>>

\* What the run itself does next.
Step(p) ==
  \/ Begin(p)
  \/ Activate(p)
  \/ Recall(p)
  \/ ActText(p)
  \/ \E tool \in Tool : ActTool(p, tool)
  \/ \E task \in Task \cup {NoTask} : ActSubagent(p, task)
  \/ StepLimit(p)
  \/ AuditOk(p)
  \/ AuditFails(p)
  \/ RunTool(p)
  \/ Answer(p)
  \/ Learn(p)
  \/ Create(p)
  \/ Done(p)
  \/ Abort(p)

Next ==
  \E p \in Proc :
    \/ \E ctx \in RootContext(p), task \in Task : Start(p, ctx, task)
    \/ \E n \in Name : ActivateCommand(p, n)
    \/ Step(p)
    \/ Kill(p)

Spec == Init /\ [][Next]_vars

\* A run that can take a step takes one.
FairSpec == Spec /\ \A p \in Proc : WF_vars(Step(p))
-----------------------------------------------------------------------------
(* Properties.                                                             *)

Frame == [ctx : Context, task : Task \cup {NoTask}, pc : Label,
          steps : 0..MAX_TOOL_STEPS, errors : BOOLEAN,
          reused : Name \cup {NoSkill}, injected : SUBSET Body,
          call : Tool \cup Task \cup {NoSkill},
          event : [action : AuditAction, key : AuditKey], then : Label]

CallIds == [by : Proc, run : Nat, path : Seq(0..MAX_TOOL_STEPS)]

AuditRecord == [id : CallIds, action : AuditAction, key : AuditKey,
                principal : {"operator", "remote", "subagent"} \X Nat]

\* Every variable has its type.
TypeOK ==
  /\ stack \in [Proc -> Seq(Frame)]
  /\ runs \in [Proc -> Nat]
  /\ skills \in [Name -> [status : {"absent", "draft", "active"},
                          provenance : {"trusted", "untrusted"},
                          body : SUBSET Body]]
  /\ messages \subseteq
       [id : CallIds, role : {"user", "assistant"}, task : Task,
        provenance : {"trusted", "untrusted", "none"}]
  /\ trail \subseteq AuditRecord
  /\ effects \subseteq
       [id : CallIds, tool : Tool,
        principal : {"operator", "remote", "subagent"} \X Nat]
  /\ approved \subseteq Name \X SUBSET Body

\* Nothing runs unrecorded: for every tool that was ever executed, and for
\* every subagent that is running, the call that asked for it has its own
\* record on disk, with the tool's name and the principal's label, whatever
\* failed or died since (lib.rs:467-473, 424-428).
DispatchesRecorded ==
  /\ \A e \in effects :
       [id |-> e.id, action |-> "tool", key |-> e.tool,
        principal |-> e.principal] \in trail
  /\ \A p \in Proc : \A i \in 2..Len(stack[p]) :
       \E r \in trail :
         /\ r.action = "subagent.spawn"
         /\ r.id = [by |-> p, run |-> runs[p],
                    path |-> SubSeq(CallId(p).path, 1, i - 1)]

\* A tool that needs approval runs only if the root of its run has it: an
\* operator's --yes or the frozen allow list of the binding or job, however
\* many subagents are between them (principal.rs:86-96).
SideEffectsAuthorised ==
  \A p \in Proc : At(p, "tool") /\ approval_required(Top(p).call) =>
    LET root == stack[p][1].ctx
    IN  \/ root.principal = "operator" /\ root.auto_approve
        \/ root.principal = "remote" /\ Bare[Top(p).call] \in root.allow_list

\* Subagents nest no deeper than the budget their root was given, so a run
\* of the daemon never has one (principal.rs:4-7, 49-53).
NestingBounded ==
  \A p \in Proc : stack[p] # <<>> =>
    Len(stack[p]) <= 1 + stack[p][1].ctx.depth

\* A skill body in a system message is one that an operator consented to for
\* the skill of that name, and is still what the table holds: no draft, no
\* body changed after the consent, no consent of a subagent or a remote.
InjectedApproved ==
  \A p \in Proc : \A i \in 1..Len(stack[p]) :
    LET f == stack[p][i]
    IN  f.reused # NoSkill =>
          /\ <<f.reused, f.injected>> \in approved
          /\ f.injected = skills[f.reused].body

\* What a skill.create record says is so: the row was drafted by the run that
\* recorded it, also when two processes draft the same name at once.
CreationsTruthful ==
  \A r \in trail : r.action = "skill.create" =>
    \E b \in skills[r.key].body : b.by = r.id.by /\ b.run = r.id.run

\* Only an operator's own run or command changes the skills, never a subagent
\* of it, a remote or a job.
SkillsWrittenByOperators ==
  [][skills' # skills =>
       \E p \in Operators :
         /\ stack'[p] # stack[p]
         /\ Len(stack[p]) <= 1
         /\ stack[p] # <<>> => stack[p][1].ctx.principal = "operator"]_vars

\* lib.rs:317-319: a run auto-activates only the skill that this exact task
\* authored, never the draft of an unrelated one.
ActivatesOwnTask ==
  \A p \in Proc :
    At(p, "log") /\ Top(p).event.action = "skill.activate" /\ Top(p).task # NoTask =>
      \A b \in skills[Top(p).event.key].body : b.task = Top(p).task

\* Every run of a task ends: the step bound and the nesting bound suffice,
\* provided the provider and the tools answer.
RunsEnd == \A p \in Proc : stack[p] # <<>> ~> stack[p] = <<>>
=============================================================================
