------------------------------ MODULE Dialogue ------------------------------
(***************************************************************************)
(* What the model is sent: the context that a turn of a chat and a run of   *)
(* the agent loop put together (crates/sa-core), and the request that the   *)
(* two providers make of it (crates/sa-providers).  AgentLoop models what   *)
(* run_task does between its requests, Memory the tables behind `rows`.     *)
(*                                                                         *)
(* A message is its role, the id of its tool call if it has one, and what   *)
(* its content is: a text, the preamble, or the recap of the summary.       *)
(***************************************************************************)
EXTENDS Naturals, Sequences, SequencesExt, FiniteSets

CONSTANTS
  Kind,                 \* the provider kinds in use
  SUMMARY_KEEP_RECENT,  \* sa-core: rows that are not summarized
  RECENT,               \* sa-core: the recent rows of a context
  MAX_TOOL_STEPS,       \* sa-core: requests of a run
  MaxRows               \* bound: rows of the session

\* Of the constants; MCExchanges assumes it.
DialogueAssumption ==
  /\ Kind \subseteq {"openai", "anthropic"}
  /\ SUMMARY_KEEP_RECENT \in Nat /\ RECENT \in Nat \ {0}
  /\ MAX_TOOL_STEPS \in Nat \ {0} /\ MaxRows \in Nat

VARIABLES
  kind,     \* provider.kind
  rows,     \* the roles of the session's rows in `messages`
  through,  \* the watermark of its summary, 0 without one
  mode,     \* "idle", or the operation that has a request out
  ctx,      \* the messages in OpenAI's format
  steps,    \* requests of this run
  sent      \* the last request: the system texts and the messages in it

vars == <<kind, rows, through, mode, ctx, steps, sent>>

msg(role, content) == [role |-> role, id |-> 0, content |-> content]

Init ==
  /\ kind \in Kind
  /\ rows = <<>> /\ through = 0
  /\ mode = "idle" /\ ctx = <<>> /\ steps = 0
  /\ sent = [system |-> <<>>, messages |-> <<>>]
-----------------------------------------------------------------------------
(* The providers.                                                          *)

\* Each block a message.
MutPushAlways(out, role, block) == Append(out, [role |-> role, blocks |-> <<block>>])

\* anthropic.rs: a block joins the last message if the role is the same.
push_block(out, role, block) ==
  IF out # <<>> /\ Last(out).role = role
    THEN [out EXCEPT ![Len(out)].blocks = Append(@, block)]
    ELSE Append(out, [role |-> role, blocks |-> <<block>>])

\* The block of a message, and whose it is: a tool's result is a user's block.
block(m) ==
  [type |-> CASE m.role = "tool" -> "tool_result"
              [] m.role = "assistant" /\ m.id # 0 -> "tool_use"
              [] OTHER -> "text",
   id |-> m.id]

speaker(m) == IF m.role = "assistant" THEN "assistant" ELSE "user"

\* anthropic.rs: what the loop has put out after k messages; the first system
\* message becomes `system`, the later ones are skipped.
outs(messages) ==
  LET out[k \in 0..Len(messages)] ==
        IF k = 0 THEN <<>>
        ELSE IF messages[k].role = "system" THEN out[k - 1]
        ELSE push_block(out[k - 1], speaker(messages[k]), block(messages[k]))
  IN out

translate(messages) ==
  LET system == SelectSeq(messages, LAMBDA m : m.role = "system")
  IN [system |-> SubSeq(system, 1, IF system = <<>> THEN 0 ELSE 1),
      messages |-> outs(messages)[Len(messages)]]

\* openai.rs: the messages as they are.
as_is(messages) ==
  [system |-> SelectSeq(messages, LAMBDA m : m.role = "system"),
   messages |-> messages]

build_body(messages) == IF kind = "anthropic" THEN translate(messages) ELSE as_is(messages)

\* What a response of content blocks asks for: its first tool call, by its id, or
\* (0) its text.
Responses == UNION {[1..n -> 0..2] : n \in 0..2}

parse_action(response) ==
  LET calls == {i \in 1..Len(response) : response[i] # 0}
  IN IF calls = {} THEN 0 ELSE response[CHOOSE i \in calls : \A j \in calls : i <= j]

\* One request, chat's or act's.
Sends(messages) == ctx' = messages /\ sent' = build_body(messages)
-----------------------------------------------------------------------------
(* A turn of a chat.                                                       *)

\* The rows recalled, which may be any, and the recent ones, each once and
\* oldest first.
Picked(stored, recalled) ==
  LET n == Len(stored)
      ids == {i \in 1..n : i \in recalled \/ i > n - RECENT}
      nth(k) == CHOOSE i \in ids : Cardinality({j \in ids : j <= i}) = k
  IN [k \in 1..Cardinality(ids) |-> msg(stored[nth(k)], "text")]

\* The recap of the summary leads the history, and the turn's message ends it.
assemble_context(stored, recalled) ==
  (IF through > 0 THEN <<msg("system", "recap")>> ELSE <<>>)
    \o Picked(stored, recalled) \o <<msg("user", "text")>>

\* turn: the user's message is stored, then the context is put together.
Turn(recalled) ==
  /\ mode = "idle" /\ Len(rows) + 2 <= MaxRows
  /\ rows' = Append(rows, "user")
  /\ Sends(<<msg("system", "preamble")>> \o assemble_context(rows', recalled))
  /\ mode' = "turn"
  /\ UNCHANGED <<kind, through, steps>>

\* The stream ends, with an error or without: what has come of the reply is
\* stored.
TurnReplied ==
  /\ mode = "turn"
  /\ rows' = Append(rows, "assistant") /\ mode' = "idle"
  /\ UNCHANGED <<kind, through, ctx, steps, sent>>

\* The request fails, or the stream is dropped: the user's message stays alone.
TurnFails ==
  /\ mode = "turn"
  /\ mode' = "idle"
  /\ UNCHANGED <<kind, rows, through, ctx, steps, sent>>

\* summarize_session: all but the recent rows, if one of them is new.
Summarize ==
  /\ mode = "idle" /\ Len(rows) > SUMMARY_KEEP_RECENT
  /\ Len(rows) - SUMMARY_KEEP_RECENT > through
  /\ through' = Len(rows) - SUMMARY_KEEP_RECENT
  /\ UNCHANGED <<kind, rows, mode, ctx, steps, sent>>
-----------------------------------------------------------------------------
(* A run of the agent loop.                                                *)

RunTask ==
  /\ mode = "idle" /\ Len(rows) + 2 <= MaxRows
  /\ rows' = Append(rows, "user")
  /\ Sends(<<msg("system", "preamble"), msg("user", "text")>>)
  /\ mode' = "run" /\ steps' = 1
  /\ UNCHANGED <<kind, through>>

\* A tool call under the id that it carries ("call_0" or "toolu_0" if it has
\* none): the call and its result, whatever it is, go into the next request.
CallsTool(id) ==
  LET call == [role |-> "assistant", id |-> id, content |-> "call"]
      result == [role |-> "tool", id |-> id, content |-> "text"]
  IN IF steps < MAX_TOOL_STEPS
       THEN Sends(ctx \o <<call, result>>) /\ steps' = steps + 1 /\ UNCHANGED <<rows, mode>>
       ELSE mode' = "idle" /\ UNCHANGED <<rows, ctx, sent, steps>>

\* An answer is stored.
Answers ==
  /\ rows' = Append(rows, "assistant") /\ mode' = "idle"
  /\ UNCHANGED <<ctx, steps, sent>>

\* The loop of run_task on a response of the model.
Act(response) ==
  /\ mode = "run"
  /\ LET action == parse_action(response)
     IN IF action = 0 THEN Answers ELSE CallsTool(action)
  /\ UNCHANGED <<kind, through>>

ActFails ==
  /\ mode = "run"
  /\ mode' = "idle"
  /\ UNCHANGED <<kind, rows, through, ctx, steps, sent>>

Next ==
  \/ TurnReplied \/ TurnFails \/ Summarize
  \/ RunTask \/ ActFails
  \/ \E recalled \in SUBSET (1..Len(rows)) : Turn(recalled)
  \/ \E response \in Responses : Act(response)

Spec == Init /\ [][Next]_vars
-----------------------------------------------------------------------------
(* Properties.                                                             *)

Calls(m) == IF kind = "anthropic" THEN \E i \in 1..Len(m.blocks) : m.blocks[i].type = "tool_use"
                                  ELSE m.role = "assistant" /\ m.id # 0

\* What a message answers first: the result of a tool call.
Responds(m, call) ==
  IF kind = "anthropic"
    THEN m.role = "user" /\ m.blocks[1] = [type |-> "tool_result", id |-> Last(call.blocks).id]
    ELSE m.role = "tool" /\ m.id = call.id

\* Whatever rows are recalled, whichever requests have failed and however ids
\* repeat, no two adjacent messages of a request have the same role, and each call
\* is followed at once by its result (anthropic.rs:121-123).  Which role comes first
\* and texts that are empty are left aside.
WellFormed ==
  LET ms == sent.messages
  IN \A i \in 1..Len(ms) :
       /\ kind = "anthropic" /\ i < Len(ms) => ms[i].role # ms[i + 1].role
       /\ Calls(ms[i]) => i < Len(ms) /\ Responds(ms[i + 1], ms[i])

\* README.md:91-94: the summary is surfaced into the context so that the agent
\* retains the gist: the request of a turn has it.
SummaryReachesModel ==
  mode = "turn" /\ through > 0 =>
    \E i \in 1..Len(sent.system) : sent.system[i].content = "recap"
=============================================================================
