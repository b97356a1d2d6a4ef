----------------------------- MODULE MCExchanges ------------------------------
(***************************************************************************)
(* The eight parts of a process that deal with something outside it: the    *)
(* connectors (Delivery), an MCP server (McpClient), the registry that the  *)
(* servers and the config fill (Toolbox), the network (Egress), a child     *)
(* process (Execution), the model (Dialogue), what it proposes as a cron     *)
(* expression (Schedule) and the files of the machine (FileTools).  As in    *)
(* MCInstallation they share no variable, so that a behaviour of all of them *)
(* is eight behaviours side by side: `part` chooses the one that a behaviour *)
(* follows, and the others stay as they begin.                              *)
(***************************************************************************)
EXTENDS Integers, Sequences, TLC

CONSTANTS Kind, MaxMsgs, Flaws, SEEN_CAP, Window, MaxFaults, MaxCrashes,
          MaxCalls, MAX_MESSAGES_PER_REQUEST, PipeRoom, MaxNoise,
          Word, MaxServers, MaxOpTools,
          Name, Addr, Private, Mapped, MAX_REDIRECTS, MAX_BODY,
          PIPE, MaxInput, MaxOps,
          ProviderKind, SUMMARY_KEEP_RECENT, RECENT, MAX_TOOL_STEPS, MaxRows,
          Hour, Day, Week, MIN_INTERVAL, SAMPLE, Reply, MaxLate, MaxNow,
          FileName, Tree, Roots, Depth, MaxNodes

VARIABLES
  part,
  kind, arrived, held, pc, buf, hand, offset, ws, seen, uids, handed, doubts, concluded,
  dropped, unread, faults, crashes,
  stage, next_id, id, phase, todo, line, count, stdin, stdout, half, asked, out, closed,
  result, noise, cuts, broken, torn, garbled,
  search_url, mcp, op_tools, tools, tpc, first,
  egress_allow, epc, url, addr, hops, body, contacts,
  caller, backend, enforced, allow_unsandboxed, input, program, xpc, how, left, at, status,
  pipes, got, started,
  provider, rows, through, mode, ctx, steps, sent,
  cron_expr, last_slot, next_run,
  read_roots, write_roots, nodes, text

deliveryVars == <<kind, arrived, held, pc, buf, hand, offset, ws, seen, uids, handed, doubts,
                  concluded, dropped, unread, faults, crashes>>

mcpVars == <<stage, next_id, id, phase, todo, line, count, stdin, stdout, half, asked, out,
             closed, result, noise, cuts, broken, torn, garbled>>

toolboxVars == <<search_url, mcp, op_tools, tools, tpc, first>>

egressVars == <<egress_allow, epc, url, addr, hops, body, contacts>>

executionVars == <<caller, backend, enforced, allow_unsandboxed, input, program, xpc, how,
                   left, at, status, pipes, got, started>>

dialogueVars == <<provider, rows, through, mode, ctx, steps, sent>>

scheduleVars == <<cron_expr, last_slot, next_run>>

fileVars == <<read_roots, write_roots, nodes, text>>

vars == <<part, deliveryVars, mcpVars, toolboxVars, egressVars, executionVars, dialogueVars,
          scheduleVars, fileVars>>

Del == INSTANCE Delivery

Mcp == INSTANCE McpClient WITH buf <- line

Box == INSTANCE Toolbox WITH pc <- tpc

Net == INSTANCE Egress WITH pc <- epc, buf <- body

Exe == INSTANCE Execution WITH pc <- xpc

Dia == INSTANCE Dialogue WITH kind <- provider, Kind <- ProviderKind

Sch == INSTANCE Schedule

Fil == INSTANCE FileTools WITH Name <- FileName

\* The second message is not for the agent, whatever the connector.
MCFlaws == [m \in 1..MaxMsgs |-> IF m = 2 THEN {"no_text", "no_sender", "bot"} ELSE {}]

\* A mapped form of the private address.
MCMapped == [a \in Addr |-> IF a = "::ffff:lo" THEN "lo" ELSE a]

\* A line of prose, one of five words, and the expressions of five fields.
MCChat == [fields |-> 3, parses |-> FALSE, minutes |-> {}, hours |-> {}, days |-> {}]

MCNoise == [MCChat EXCEPT !.fields = 5]

MCCron == [fields : {5}, parses : {TRUE}, minutes : SUBSET (0..Hour - 1),
           hours : SUBSET (0..Day - 1), days : {0..Week - 1}]

\* Every expression behind a line of prose, an expression behind five words of
\* prose, and one spread over two lines.
MCReply ==
  {[lines |-> <<MCChat, cron>>, whole |-> MCNoise] : cron \in MCCron}
  \cup {[lines |-> <<MCNoise, cron>>, whole |-> MCChat] : cron \in MCCron}
  \cup {[lines |-> <<MCChat, MCChat>>, whole |-> cron] : cron \in MCCron}

\* A file of the user, and a root /w that is missing, a directory or a link.
MCTree ==
  LET user == <<>> :> Fil!Dir @@ <<"o">> :> Fil!Dir @@ <<"o", "o">> :> Fil!File
  IN  {user, user @@ <<"w">> :> Fil!Dir, user @@ <<"w">> :> Fil!LinkTo(<<"o">>)}

MCRoots == {{<<"w">>}, {<<"w">>, <<"o", "w">>}}

ASSUME ExchangesAssumption ==
  /\ Del!DeliveryAssumption /\ Mcp!McpAssumption /\ Box!ToolboxAssumption
  /\ Net!EgressAssumption /\ Exe!ExecutionAssumption /\ Dia!DialogueAssumption
  /\ Sch!ScheduleAssumption /\ Fil!FileToolsAssumption

Init ==
  /\ part \in {"delivery", "mcp", "toolbox", "egress", "execution", "dialogue",
              "schedule", "file_tools"}
  /\ Sch!Init
  /\ IF part = "file_tools" THEN Fil!Init
     ELSE /\ read_roots = {} /\ write_roots = {} /\ nodes = [place \in {<<>>} |-> Fil!Dir]
          /\ text = Fil!None
  /\ Del!Init /\ (part # "delivery" => kind = "telegram")
  /\ IF part = "mcp" THEN Mcp!Init
     ELSE /\ stage = "skipped" /\ next_id = 1 /\ id = 0 /\ phase = "idle"
          /\ todo = <<>> /\ line = <<>> /\ count = 0 /\ stdin = <<>> /\ stdout = <<>>
          /\ half = <<>> /\ asked = {} /\ out = <<>> /\ closed = TRUE
          /\ result = [id |-> 0, for |-> 0, kind |-> "none"]
          /\ noise = 0 /\ cuts = 0 /\ broken = 0 /\ torn = 0 /\ garbled = 0
  /\ Box!Init /\ (part # "toolbox" => ~search_url /\ mcp = 0 /\ op_tools = 0)
  /\ Dia!Init /\ (part # "dialogue" => provider = "openai")
  /\ IF part = "egress" THEN Net!Init
     ELSE /\ egress_allow = {} /\ epc = "idle" /\ url = "none" /\ addr = "none"
          /\ hops = 0 /\ body = 0 /\ contacts = <<>>
  /\ IF part = "execution"
     THEN Exe!Init /\ (caller \notin {"execute_code", "shell"} => backend = "local" /\ enforced)
     ELSE /\ caller = "none" /\ backend = "local" /\ enforced = TRUE
          /\ allow_unsandboxed = FALSE /\ input = 0 /\ program = <<>> /\ xpc = "failed"
          /\ how = "none" /\ left = 0 /\ at = 0 /\ status = "none"
          /\ pipes = [in |-> 0, out |-> 0, err |-> 0] /\ got = [out |-> 0, err |-> 0]
          /\ started = <<>>

\* A step of each part, and the steps its fairness is about.
Of(name, step, others) == part = name /\ step /\ UNCHANGED <<part, others>>

ofDelivery == <<mcpVars, toolboxVars, egressVars, executionVars, dialogueVars, scheduleVars,
                fileVars>>

DeliveryTask == Of("delivery", Del!TaskStep, ofDelivery)

DeliveryPush(m) == Of("delivery", Del!Push(m), ofDelivery)

DeliveryNext == Of("delivery", Del!Next, ofDelivery)

ofMcp == <<deliveryVars, toolboxVars, egressVars, executionVars, dialogueVars, scheduleVars,
           fileVars>>

McpTimeout == Of("mcp", Mcp!Timeout, ofMcp)

McpConnectTimeout == Of("mcp", Mcp!ConnectTimeout, ofMcp)

McpNext == Of("mcp", Mcp!Next, ofMcp)

ToolboxNext ==
  Of("toolbox", Box!Next, <<deliveryVars, mcpVars, egressVars, executionVars, dialogueVars,
                            scheduleVars, fileVars>>)

EgressNext ==
  Of("egress", Net!Next, <<deliveryVars, mcpVars, toolboxVars, executionVars, dialogueVars,
                           scheduleVars, fileVars>>)

ofExecution == <<deliveryVars, mcpVars, toolboxVars, egressVars, dialogueVars, scheduleVars,
                 fileVars>>

ExecutionParent == Of("execution", Exe!ParentStep, ofExecution)

ExecutionChild == Of("execution", Exe!ChildStep, ofExecution)

ExecutionNext == Of("execution", Exe!Next, ofExecution)

DialogueNext ==
  Of("dialogue", Dia!Next, <<deliveryVars, mcpVars, toolboxVars, egressVars, executionVars,
                             scheduleVars, fileVars>>)

ScheduleNext ==
  Of("schedule", Sch!Next, <<deliveryVars, mcpVars, toolboxVars, egressVars, executionVars,
                             dialogueVars, fileVars>>)

FileToolsNext ==
  Of("file_tools", Fil!Next, <<deliveryVars, mcpVars, toolboxVars, egressVars, executionVars,
                               dialogueVars, scheduleVars>>)

Next ==
  \/ DeliveryNext \/ McpNext \/ ToolboxNext \/ EgressNext \/ ExecutionNext \/ DialogueNext
  \/ ScheduleNext \/ FileToolsNext

\* The fairness of each part that has one, as its module says.
Fairness ==
  /\ WF_vars(DeliveryTask) /\ \A m \in 1..MaxMsgs : WF_vars(DeliveryPush(m))
  /\ WF_vars(McpTimeout) /\ WF_vars(McpConnectTimeout)
  /\ WF_vars(ExecutionParent) /\ WF_vars(ExecutionChild)

Spec == Init /\ [][Next]_vars /\ Fairness
-----------------------------------------------------------------------------
\* Delivery: what the transport has let go of was dispatched, or is in memory.
NothingLost == Del!NothingLost

\* Delivery: a message runs once between two restarts.
ImplementsInbox == Del!ImplementsInbox

\* Delivery: every message for the agent is dispatched in the end.
MessageDispatched == Del!MessageDispatched

\* McpClient: what a request that is given up leaves behind is harmless.
AftermathBounded == Mcp!AftermathBounded

\* McpClient: connecting ends, and every call does.
RequestsEnd == Mcp!RequestsEnd

\* Toolbox: a name stands for the tool it says.
RegistrySound == Box!RegistrySound

\* Egress: every contact was vetted, and there are few of them.
ContactsVetted == part = "egress" => Net!ContactsVetted

\* Execution: a call returns the whole output, or fails.
CallEnds == Exe!CallEnds

\* Execution: the code of a call is started once.
StartedOnce == Exe!StartedOnce

\* Dialogue: the messages of a request take turns, and a call has its result.
WellFormed == Dia!WellFormed

\* Schedule: the slots of a job keep the floor, if the gate saw all their gaps.
SlotsKeepInterval == Sch!SlotsKeepInterval

\* FileTools: nothing outside the write roots is changed by way of a link.
PathsContained == Fil!PathsContained
=============================================================================
