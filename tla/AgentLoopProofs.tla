-------------------------- MODULE AgentLoopProofs ---------------------------
(***************************************************************************)
(* Proofs about AgentLoop for every set of processes, tasks, tools, allow  *)
(* lists and bounds.                                                       *)
(*                                                                         *)
(* The argument has three layers, each an inductive invariant that uses    *)
(* those before it: what the frames of one process look like (StackInv),   *)
(* what they have on record (RecordInv), and how they relate to the shared *)
(* table of skills (SkillInv).                                             *)
(***************************************************************************)
EXTENDS AgentLoop, SequenceTheorems, TLAPS

\* Where a frame is once the append it may be in has returned.
Where(f) == IF f.pc = "log" THEN f.then ELSE f.pc

\* A frame by itself.
FrameInv(f) ==
  /\ f.pc = "log" => f.then # "log"
  /\ Where(f) # "done" => f.task \in Task
  /\ Where(f) = "tool" => f.call \in Tool
  /\ Where(f) = "waiting" => f.call \in Task /\ f.ctx.depth # 0
  /\ Where(f) = "activate" => may_auto_activate_skill(f.ctx)
  /\ Where(f) \in {"learn", "create"} => may_persist(f.ctx)
  /\ f.pc = "log" /\ f.then = "tool" =>
       f.event = [action |-> "tool", key |-> f.call]
  /\ f.pc = "log" /\ f.then = "waiting" =>
       f.event = [action |-> "subagent.spawn", key |-> "subagent"]

\* What the root of a run may do by itself.
RootMay(root, tool) ==
  \/ root.principal = "operator" /\ root.auto_approve
  \/ root.principal = "remote" /\ Bare[tool] \in root.allow_list

Authorised(root, f) ==
  Where(f) = "tool" /\ approval_required(f.call) => RootMay(root, f.call)

\* The frames of one process.
Lineage(p, s) ==
  /\ s # <<>> => s[1].ctx \in RootContext(p)
  /\ \A i \in 2..Len(s) : s[i].ctx.principal = "subagent"
  /\ \A i \in 1..Len(s) : s[i].ctx.depth + i = s[1].ctx.depth + 1
  /\ \A i \in 1..Len(s) : i # Len(s) => s[i].pc = "waiting"
  /\ \A i \in 1..Len(s) : FrameInv(s[i]) /\ Authorised(s[1].ctx, s[i])

StackInv ==
  /\ stack \in [Proc -> Seq(Frame)]
  /\ \A p \in Proc : Lineage(p, stack[p])
-----------------------------------------------------------------------------
(* Contexts and frames.                                                    *)

LEMMA Bounds ==
  /\ MAX_TOOL_STEPS \in Nat /\ MAX_TOOL_STEPS >= 1
  /\ MAX_SUBAGENT_DEPTH \in Nat
<1>1. MAX_TOOL_STEPS \in Nat /\ MAX_TOOL_STEPS # 0 /\ MAX_SUBAGENT_DEPTH \in Nat
  BY AgentAssumption, Zenon DEF AgentAssumption
<1> QED
  BY <1>1

LEMMA SubagentContext ==
  ASSUME NEW ctx \in Context, ctx.depth # 0
  PROVE  /\ subagent_of(ctx) \in Context
         /\ subagent_of(ctx).principal = "subagent"
         /\ subagent_of(ctx).depth = ctx.depth - 1
         /\ ctx.depth \in Nat
<1>1. ctx.depth \in 0..MAX_SUBAGENT_DEPTH
  BY DEF Context
<1>2. ctx.depth \in Nat /\ ctx.depth - 1 \in 0..MAX_SUBAGENT_DEPTH
  BY <1>1, Bounds
<1>3. subagent_of(ctx) = [principal |-> "subagent", auto_approve |-> FALSE,
                          allow_list |-> {}, depth |-> ctx.depth - 1]
  BY DEF subagent_of
<1>4. {} \in SUBSET UNION AllowLists
  OBVIOUS
<1>5. subagent_of(ctx) \in Context
  BY <1>2, <1>3, <1>4 DEF Context
<1> QED
  BY <1>2, <1>3, <1>5

LEMMA NewFrameType ==
  ASSUME NEW ctx \in Context, NEW task \in Task \cup {NoTask}
  PROVE  /\ NewFrame(ctx, task) \in Frame
         /\ NewFrame(ctx, task).ctx = ctx
         /\ NewFrame(ctx, task).task = task
         /\ NewFrame(ctx, task).pc = "begin"
<1>1. 0 \in 0..MAX_TOOL_STEPS
  BY Bounds
<1>2. NoEvent \in [action : AuditAction, key : AuditKey]
  BY DEF NoEvent, AuditAction, AuditKey
<1>3. NoSkill \in Name \cup {NoSkill} /\ NoSkill \in Tool \cup Task \cup {NoSkill}
  OBVIOUS
<1>4. "begin" \in Label /\ "done" \in Label
  BY DEF Label
<1> QED
  BY <1>1, <1>2, <1>3, <1>4 DEF NewFrame, Frame

LEMMA EntryContext ==
  ASSUME NEW p \in Proc, NEW ctx \in RootContext(p)
  PROVE  ctx \in Context
<1>1. 0 \in 0..MAX_SUBAGENT_DEPTH /\ MAX_SUBAGENT_DEPTH \in 0..MAX_SUBAGENT_DEPTH
  BY Bounds
<1>2. {} \in SUBSET UNION AllowLists /\ \A a \in AllowLists : a \in SUBSET UNION AllowLists
  OBVIOUS
<1>3. \A b \in BOOLEAN : operator(b) \in Context
  BY <1>1, <1>2 DEF operator, Context
<1>4. \A a \in AllowLists : remote(a) \in Context
  BY <1>1, <1>2 DEF remote, Context
<1> QED
  BY <1>3, <1>4 DEF RootContext

LEMMA Redirected ==
  ASSUME NEW f \in Frame
  PROVE  /\ [f EXCEPT !.pc = "act"] \in Frame
         /\ [f EXCEPT !.pc = "act"].pc = "act"
         /\ [f EXCEPT !.pc = "act"].ctx = f.ctx
         /\ [f EXCEPT !.pc = "act"].steps = f.steps
         /\ [f EXCEPT !.pc = "act"].reused = f.reused
         /\ [f EXCEPT !.pc = "act"].injected = f.injected
BY DEF Frame, Label
-----------------------------------------------------------------------------
(* Sequences of frames.                                                    *)

LEMMA NonEmpty ==
  ASSUME NEW s \in Seq(Frame), s # <<>>
  PROVE  Len(s) \in Nat /\ Len(s) >= 1 /\ Len(s) \in 1..Len(s) /\ 1 \in 1..Len(s)
<1> HIDE DEF Frame
<1> QED
  BY EmptySeq

LEMMA TopFrame ==
  ASSUME NEW p \in Proc, stack \in [Proc -> Seq(Frame)], stack[p] # <<>>
  PROVE  Top(p) \in Frame
<1> HIDE DEF Frame
<1> QED
  BY NonEmpty, ElementOfSeq DEF Top

\* What replacing the last frame leaves.
LEMMA ReplaceTop ==
  ASSUME NEW s \in Seq(Frame), s # <<>>, NEW f \in Frame, NEW t,
         t = [s EXCEPT ![Len(s)] = f]
  PROVE  /\ t \in Seq(Frame)
         /\ Len(t) = Len(s)
         /\ t # <<>>
         /\ t[Len(s)] = f
         /\ \A i \in 1..Len(s) : i # Len(s) => t[i] = s[i]
<1> HIDE DEF Frame
<1>1. Len(s) \in 1..Len(s) /\ Len(s) >= 1
  BY NonEmpty
<1>2. t \in Seq(Frame) /\ Len(t) = Len(s)
  BY <1>1, ExceptSeq
<1>3. \A i \in 1..Len(s) : t[i] = IF i = Len(s) THEN f ELSE s[i]
  BY <1>1, ExceptSeq
<1>4. t # <<>>
  BY <1>1, <1>2
<1> QED
  BY <1>1, <1>2, <1>3, <1>4

\* What a return leaves.
LEMMA Prefix ==
  ASSUME NEW S, NEW s \in Seq(S), NEW n \in 0..Len(s)
  PROVE  /\ SubSeq(s, 1, n) \in Seq(S)
         /\ Len(SubSeq(s, 1, n)) = n
         /\ \A i \in 1..n : SubSeq(s, 1, n)[i] = s[i]
<1>1. Len(s) \in Nat /\ n \in Nat /\ n <= Len(s)
  OBVIOUS
<1>2. \A i \in 1..n : s[i] \in S
  BY <1>1
<1>3. /\ SubSeq(s, 1, n) \in Seq(S)
      /\ Len(SubSeq(s, 1, n)) = IF 1 <= n THEN n - 1 + 1 ELSE 0
      /\ \A i \in 1..(n - 1 + 1) : SubSeq(s, 1, n)[i] = s[1 + i - 1]
  BY <1>1, <1>2, SubSeqProperties
<1>4. \A i \in 1..n : SubSeq(s, 1, n)[i] = s[i]
  <2>1. \A i \in 1..n : i \in 1..(n - 1 + 1) /\ 1 + i - 1 = i
    BY <1>1
  <2> QED
    BY <1>3, <2>1
<1>5. Len(SubSeq(s, 1, n)) = n
  BY <1>1, <1>3
<1> QED
  BY <1>3, <1>4, <1>5

\* What a return leaves.
LEMMA PoppedFrames ==
  ASSUME NEW s \in Seq(Frame), s # <<>>
  PROVE  /\ Popped(s) \in Seq(Frame)
         /\ Len(Popped(s)) = Len(s) - 1
         /\ Len(s) # 1 => Popped(s)[Len(s) - 1] = [s[Len(s) - 1] EXCEPT !.pc = "act"]
         /\ \A i \in 1..(Len(s) - 1) : i # Len(s) - 1 => Popped(s)[i] = s[i]
<1> DEFINE n == Len(s) - 1
           u == SubSeq(s, 1, n)
<1>1. n \in Nat /\ n \in 0..Len(s) /\ Len(s) \in Nat
  <2> HIDE DEF Frame
  <2> QED
    BY NonEmpty
<1>2. CASE n = 0
  <2>1. Popped(s) = <<>>
    BY <1>2 DEF Popped
  <2>2. <<>> \in Seq(Frame) /\ Len(<<>>) = 0 /\ 1..0 = {}
    BY EmptySeq
  <2>3. Len(s) = 1
    BY <1>1, <1>2
  <2> QED
    BY <2>1, <2>2, <2>3
<1>3. CASE n # 0
  <2>1. n \in 1..n /\ n \in 1..Len(s)
    <3> HIDE DEF n, u
    <3> QED
      BY <1>1, <1>3
  <2>2. u \in Seq(Frame) /\ Len(u) = n /\ \A i \in 1..n : u[i] = s[i]
    BY <1>1, Prefix
  <2>3. s[n] \in Frame
    BY <2>1, ElementOfSeq
  <2>4. [s[n] EXCEPT !.pc = "act"] \in Frame
    BY <2>3 DEF Frame, Label
  <2>5. Popped(s) = [u EXCEPT ![n] = [u[n] EXCEPT !.pc = "act"]]
    BY <1>3 DEF Popped
  <2>6. Popped(s) = [u EXCEPT ![n] = [s[n] EXCEPT !.pc = "act"]]
    BY <2>1, <2>2, <2>5
  <2> HIDE DEF u, n
  <2>7. /\ Popped(s) \in Seq(Frame)
        /\ Len(Popped(s)) = n
        /\ \A i \in 1..n : Popped(s)[i] =
             IF i = n THEN [s[n] EXCEPT !.pc = "act"] ELSE u[i]
    BY <2>1, <2>2, <2>4, <2>6, ExceptSeq
  <2> QED
    BY <2>1, <2>2, <2>7 DEF n
<1> QED
  BY <1>2, <1>3
-----------------------------------------------------------------------------
(* What one process does to its own frames.                                *)

\* A frame that a call may put in place of its last one.
Successor(s, f) ==
  /\ f \in Frame
  /\ f.ctx = s[Len(s)].ctx
  /\ FrameInv(f)
  /\ Authorised(s[1].ctx, f)

LEMMA ReplaceLineage ==
  ASSUME NEW p \in Proc, NEW s \in Seq(Frame), s # <<>>, Lineage(p, s),
         NEW f, Successor(s, f), NEW t, t = [s EXCEPT ![Len(s)] = f]
  PROVE  Lineage(p, t)
<1>1. /\ t \in Seq(Frame)
      /\ Len(t) = Len(s)
      /\ t # <<>>
      /\ t[Len(s)] = f
      /\ \A i \in 1..Len(s) : i # Len(s) => t[i] = s[i]
  BY ReplaceTop DEF Successor
<1>2. Len(s) \in Nat /\ Len(s) \in 1..Len(s) /\ 1 \in 1..Len(s)
  BY NonEmpty
<1>3. \A i \in 1..Len(s) : t[i].ctx = s[i].ctx
  BY <1>1, <1>2 DEF Successor
<1>4. t[1].ctx = s[1].ctx
  BY <1>2, <1>3
<1>5. t[1].ctx \in RootContext(p)
  BY <1>4 DEF Lineage
<1>6. \A i \in 2..Len(t) : t[i].ctx.principal = "subagent"
  <2>1. \A i \in 2..Len(s) : i \in 1..Len(s)
    BY <1>2
  <2> QED
    BY <1>1, <1>3, <2>1 DEF Lineage
<1>7. \A i \in 1..Len(t) : t[i].ctx.depth + i = t[1].ctx.depth + 1
  BY <1>1, <1>3, <1>4 DEF Lineage
<1>8. \A i \in 1..Len(t) : i # Len(t) => t[i].pc = "waiting"
  BY <1>1 DEF Lineage
<1>9. \A i \in 1..Len(t) : FrameInv(t[i]) /\ Authorised(t[1].ctx, t[i])
  BY <1>1, <1>4 DEF Lineage, Successor
<1> QED
  BY <1>5, <1>6, <1>7, <1>8, <1>9 DEF Lineage

LEMMA PoppedLineage ==
  ASSUME NEW p \in Proc, NEW s \in Seq(Frame), s # <<>>, Lineage(p, s)
  PROVE  Lineage(p, Popped(s))
<1> DEFINE n == Len(s) - 1
           t == Popped(s)
<1>1. n \in Nat /\ Len(s) = n + 1 /\ 1..n \subseteq 1..Len(s) /\ Len(s) \notin 1..n
  BY NonEmpty
<1>2. /\ t \in Seq(Frame)
      /\ Len(t) = n
      /\ Len(s) # 1 => t[n] = [s[n] EXCEPT !.pc = "act"]
      /\ \A i \in 1..n : i # n => t[i] = s[i]
  BY PoppedFrames
<1> HIDE DEF n, t
<1>3. CASE n = 0
  <2>1. t = <<>> /\ 1..Len(t) = {} /\ 2..Len(t) = {}
    BY <1>2, <1>3, EmptySeq
  <2> QED
    BY <2>1 DEF Lineage, t
<1>4. CASE n # 0
  <2>1. n \in 1..n /\ 1 \in 1..n /\ Len(s) # 1 /\ n # Len(s)
    BY <1>1, <1>4
  <2>2. t[n] = [s[n] EXCEPT !.pc = "act"] /\ s[n] \in Frame
    BY <1>1, <1>2, <2>1, ElementOfSeq
  <2>3. \A i \in 1..n : t[i].ctx = s[i].ctx
    <3>1. t[n].ctx = s[n].ctx
      BY <2>2, Redirected
    <3> QED
      BY <1>2, <3>1
  <2>4. t[1].ctx = s[1].ctx
    BY <2>1, <2>3
  <2>5. t[1].ctx \in RootContext(p)
    BY <2>4 DEF Lineage
  <2>6. \A i \in 2..n : t[i].ctx.principal = "subagent"
    <3>1. \A i \in 2..n : i \in 1..n /\ i \in 2..Len(s)
      BY <1>1
    <3> QED
      BY <2>3, <3>1 DEF Lineage
  <2>7. \A i \in 1..n : t[i].ctx.depth + i = t[1].ctx.depth + 1
    BY <1>1, <2>3, <2>4 DEF Lineage
  <2>8. \A i \in 1..n : i # n => t[i].pc = "waiting"
    BY <1>1, <1>2 DEF Lineage
  <2>9. s[n].pc = "waiting" /\ FrameInv(s[n])
    BY <1>1, <2>1 DEF Lineage
  <2>10. FrameInv(t[n]) /\ Authorised(t[1].ctx, t[n])
    BY <2>2, <2>9 DEF Frame, FrameInv, Authorised, Where
  <2>11. \A i \in 1..n : FrameInv(t[i]) /\ Authorised(t[1].ctx, t[i])
    BY <1>1, <1>2, <2>4, <2>10 DEF Lineage
  <2> QED
    BY <1>2, <2>5, <2>6, <2>7, <2>8, <2>11 DEF Lineage, t
<1> QED
  BY <1>3, <1>4

LEMMA SpawnLineage ==
  ASSUME NEW p \in Proc, NEW s \in Seq(Frame), s # <<>>, Lineage(p, s),
         s[Len(s)].pc = "waiting",
         NEW t, t = Append(s, NewFrame(subagent_of(s[Len(s)].ctx), s[Len(s)].call))
  PROVE  t \in Seq(Frame) /\ Lineage(p, t) /\ Len(t) = Len(s) + 1
<1> DEFINE f == s[Len(s)]
           g == NewFrame(subagent_of(f.ctx), f.call)
           n == Len(s)
<1>1. n \in Nat /\ n >= 1 /\ n \in 1..n /\ 1 \in 1..n
  BY NonEmpty
<1>2. f \in Frame
  BY <1>1, ElementOfSeq
<1>3. FrameInv(f)
  BY <1>1 DEF Lineage
<1>4. f.call \in Task /\ f.ctx \in Context /\ f.ctx.depth # 0
  BY <1>2, <1>3 DEF FrameInv, Where, Frame
<1>5. /\ g \in Frame
      /\ g.ctx = subagent_of(f.ctx)
      /\ g.task = f.call
      /\ g.pc = "begin"
  BY <1>4, SubagentContext, NewFrameType
<1>6. /\ g.ctx.principal = "subagent"
      /\ g.ctx.depth = f.ctx.depth - 1
      /\ f.ctx.depth \in Nat
  BY <1>4, <1>5, SubagentContext
<1>8. FrameInv(g) /\ \A c : Authorised(c, g)
  BY <1>4, <1>5 DEF FrameInv, Authorised, Where
<1>9. t = Append(s, g)
  OBVIOUS
<1> HIDE DEF f, g, n
<1>10. t \in Seq(Frame) /\ Len(t) = n + 1 /\ \A i \in 1..n : t[i] = s[i]
  BY <1>5, <1>9 DEF n
<1>11. t[n + 1] = g
  BY <1>9 DEF n
<1>12. t # <<>> /\ t[1] = s[1]
  BY <1>1, <1>10
<1>13. \A i \in 1..(n + 1) : i \in 1..n \/ i = n + 1
  BY <1>1
<1>14. t[1].ctx \in RootContext(p)
  BY <1>12 DEF Lineage
<1>15. \A i \in 2..Len(t) : t[i].ctx.principal = "subagent"
  <2>1. \A i \in 2..(n + 1) : (i \in 2..n /\ i \in 1..n) \/ i = n + 1
    BY <1>1
  <2> QED
    BY <1>6, <1>10, <1>11, <2>1 DEF Lineage, n
<1>16. \A i \in 1..Len(t) : t[i].ctx.depth + i = t[1].ctx.depth + 1
  <2>1. f.ctx.depth + n = t[1].ctx.depth + 1
    BY <1>1, <1>12 DEF Lineage, n, f
  <2>2. f.ctx.depth \in Nat
    BY <1>6
  <2>3. g.ctx.depth = f.ctx.depth - 1
    BY <1>6
  <2>4. f.ctx.depth - 1 + (n + 1) = f.ctx.depth + n
    <3>1. \A d \in Nat : d - 1 + (n + 1) = d + n
      BY <1>1
    <3> QED
      BY <2>2, <3>1
  <2>5. t[n + 1].ctx.depth + (n + 1) = t[1].ctx.depth + 1
    BY <1>11, <2>1, <2>3, <2>4
  <2>6. \A i \in 1..n : t[i].ctx.depth + i = t[1].ctx.depth + 1
    BY <1>10, <1>12 DEF Lineage, n
  <2> QED
    BY <1>10, <1>13, <2>5, <2>6
<1>17. \A i \in 1..Len(t) : i # Len(t) => t[i].pc = "waiting"
  BY <1>10, <1>13 DEF Lineage, n
<1>18. \A i \in 1..Len(t) : FrameInv(t[i]) /\ Authorised(t[1].ctx, t[i])
  BY <1>8, <1>10, <1>11, <1>12, <1>13 DEF Lineage, n
<1> QED
  BY <1>10, <1>14, <1>15, <1>16, <1>17, <1>18 DEF Lineage, n
-----------------------------------------------------------------------------
(* Steps.                                                                  *)

\* The forms a step takes.
Replaces(p, f) == Successor(stack[p], f) /\ Goto(p, f)

Spawns(p, f) ==
  LET s == [stack[p] EXCEPT ![Len(stack[p])] = f]
  IN  /\ Successor(stack[p], f)
      /\ f.pc = "waiting"
      /\ stack' = [stack EXCEPT ![p] =
                     Append(s, NewFrame(subagent_of(f.ctx), f.call))]

Begins(p, f) ==
  /\ stack[p] = <<>>
  /\ stack' = [stack EXCEPT ![p] = <<f>>]
  /\ f \in Frame
  /\ f.ctx \in RootContext(p)
  /\ FrameInv(f)
  /\ Where(f) # "tool"

Dies(p) == stack' = [stack EXCEPT ![p] = <<>>]

LEMMA SetFrames ==
  ASSUME StackInv, NEW p \in Proc, NEW s \in Seq(Frame), Lineage(p, s),
         stack' = [stack EXCEPT ![p] = s]
  PROVE  StackInv'
<1>1. stack' \in [Proc -> Seq(Frame)]
  BY DEF StackInv
<1>2. \A q \in Proc : stack'[q] = IF q = p THEN s ELSE stack[q]
  BY DEF StackInv
<1>3. \A q \in Proc : Lineage(q, stack'[q])
  BY <1>2 DEF StackInv
<1> QED
  BY <1>1, <1>3 DEF StackInv

LEMMA ReplacesInv ==
  ASSUME StackInv, NEW p \in Proc, stack[p] # <<>>, NEW f, Replaces(p, f)
  PROVE  StackInv' /\ stack' = [stack EXCEPT ![p] = [@ EXCEPT ![Len(stack[p])] = f]]
<1> DEFINE t == [stack[p] EXCEPT ![Len(stack[p])] = f]
<1>1. stack[p] \in Seq(Frame) /\ Lineage(p, stack[p])
  BY DEF StackInv
<1>2. t \in Seq(Frame) /\ Lineage(p, t)
  BY <1>1, ReplaceTop, ReplaceLineage DEF Replaces, Successor
<1>3. stack' = [stack EXCEPT ![p] = t]
  BY DEF Replaces, Goto, StackInv
<1> QED
  BY <1>2, <1>3, SetFrames

LEMMA ReturnInv ==
  ASSUME StackInv, NEW p \in Proc, stack[p] # <<>>, Return(p)
  PROVE  StackInv'
<1>1. stack[p] \in Seq(Frame) /\ Lineage(p, stack[p])
  BY DEF StackInv
<1>2. Popped(stack[p]) \in Seq(Frame) /\ Lineage(p, Popped(stack[p]))
  BY <1>1, PoppedFrames, PoppedLineage
<1> QED
  BY <1>2, SetFrames DEF Return

LEMMA SpawnsInv ==
  ASSUME StackInv, NEW p \in Proc, stack[p] # <<>>, NEW f, Spawns(p, f)
  PROVE  StackInv'
<1> DEFINE n == Len(stack[p])
           s == [stack[p] EXCEPT ![n] = f]
           t == Append(s, NewFrame(subagent_of(f.ctx), f.call))
<1>1. stack[p] \in Seq(Frame) /\ Lineage(p, stack[p])
  BY DEF StackInv
<1>2. s \in Seq(Frame) /\ s # <<>> /\ Len(s) = n /\ s[n] = f
  BY <1>1, ReplaceTop DEF Spawns, Successor
<1>3. Lineage(p, s)
  BY <1>1, ReplaceLineage DEF Spawns
<1>4. s[Len(s)] = f /\ f.pc = "waiting"
  BY <1>2 DEF Spawns
<1>5. t = Append(s, NewFrame(subagent_of(s[Len(s)].ctx), s[Len(s)].call))
  BY <1>4
<1>6. t \in Seq(Frame) /\ Lineage(p, t)
  <2> HIDE DEF s, t
  <2> QED
    BY <1>2, <1>3, <1>4, <1>5, SpawnLineage
<1>7. stack' = [stack EXCEPT ![p] = t]
  BY DEF Spawns
<1> QED
  BY <1>6, <1>7, SetFrames

LEMMA BeginsInv ==
  ASSUME StackInv, NEW p \in Proc, NEW f, Begins(p, f)
  PROVE  StackInv'
<1> DEFINE s == <<f>>
<1>1. s \in Seq(Frame) /\ Len(s) = 1 /\ s[1] = f
  BY DEF Begins
<1>2. 1..1 = {1} /\ 2..1 = {}
  OBVIOUS
<1>3. Lineage(p, s)
  BY <1>1, <1>2 DEF Lineage, Begins, Authorised
<1> QED
  BY <1>1, <1>3, SetFrames DEF Begins

LEMMA DiesInv ==
  ASSUME StackInv, NEW p \in Proc, Dies(p)
  PROVE  StackInv'
<1>1. <<>> \in Seq(Frame) /\ 1..Len(<<>>) = {} /\ 2..Len(<<>>) = {}
  OBVIOUS
<1>2. Lineage(p, <<>>)
  BY <1>1 DEF Lineage
<1> QED
  BY <1>1, <1>2, SetFrames DEF Dies
-----------------------------------------------------------------------------
(* Every action of the loop takes one of these forms.                      *)

LEMMA LoggingFrame ==
  ASSUME NEW f \in Frame, NEW action \in AuditAction, NEW key \in AuditKey,
         NEW then \in Label, NEW g, g = Logging(f, action, key, then)
  PROVE  /\ g \in Frame
         /\ g.pc = "log" /\ g.then = then
         /\ g.event = [action |-> action, key |-> key]
         /\ g.event.action = action
         /\ g.ctx = f.ctx /\ g.task = f.task /\ g.call = f.call
         /\ g.steps = f.steps
         /\ g.reused = f.reused /\ g.injected = f.injected
BY DEF Logging, Frame, Label

LEMMA MovedFrame ==
  ASSUME NEW f \in Frame, NEW label \in Label
  PROVE  LET g == [f EXCEPT !.pc = label]
         IN  /\ g \in Frame
             /\ g.pc = label
             /\ g.ctx = f.ctx /\ g.task = f.task /\ g.call = f.call
             /\ g.steps = f.steps
             /\ g.reused = f.reused /\ g.injected = f.injected
BY DEF Frame

LEMMA SteppedFrame ==
  ASSUME NEW f \in Frame, f.steps < MAX_TOOL_STEPS
  PROVE  LET g == [f EXCEPT !.steps = @ + 1]
         IN  /\ g \in Frame
             /\ g.pc = f.pc
             /\ g.ctx = f.ctx /\ g.task = f.task /\ g.call = f.call
             /\ g.reused = f.reused /\ g.injected = f.injected
<1>1. f.steps \in 0..MAX_TOOL_STEPS
  BY DEF Frame
<1>2. f.steps + 1 \in 0..MAX_TOOL_STEPS
  BY <1>1, Bounds
<1> QED
  BY <1>2 DEF Frame

LEMMA CallingFrame ==
  ASSUME NEW f \in Frame, NEW call \in Tool \cup Task \cup {NoSkill}
  PROVE  LET g == [f EXCEPT !.call = call]
         IN  /\ g \in Frame
             /\ g.pc = f.pc /\ g.steps = f.steps
             /\ g.ctx = f.ctx /\ g.task = f.task /\ g.call = call
             /\ g.reused = f.reused /\ g.injected = f.injected
BY DEF Frame

LEMMA SkillNames ==
  ASSUME NEW task \in Task
  PROVE  Slug[task] \in Name /\ Slug[task] \in AuditKey
BY DEF Name, AuditKey

\* The frame at the top, and what the invariant says of it.
LEMMA AtTop ==
  ASSUME StackInv, NEW p \in Proc, stack[p] # <<>>
  PROVE  /\ stack[p] \in Seq(Frame)
         /\ Top(p) \in Frame
         /\ Top(p) = stack[p][Len(stack[p])]
         /\ FrameInv(Top(p))
         /\ Authorised(stack[p][1].ctx, Top(p))
         /\ Top(p).ctx \in Context
         /\ Top(p).pc # "log" /\ Top(p).pc # "done" =>
              Top(p).task \in Task /\ Own(p) \in Name /\ Own(p) \in AuditKey
<1>1. stack[p] \in Seq(Frame) /\ Lineage(p, stack[p])
  BY DEF StackInv
<1>2. Len(stack[p]) \in 1..Len(stack[p])
  BY <1>1, NonEmpty
<1>3. Top(p) \in Frame
  BY TopFrame DEF StackInv
<1>4. FrameInv(Top(p)) /\ Authorised(stack[p][1].ctx, Top(p))
  BY <1>1, <1>2 DEF Lineage, Top
<1>5. Top(p).ctx \in Context
  BY <1>3 DEF Frame
<1>6. ASSUME Top(p).pc # "log" /\ Top(p).pc # "done" PROVE Top(p).task \in Task
  BY <1>4, <1>6 DEF FrameInv, Where
<1> QED
  BY <1>1, <1>3, <1>4, <1>5, <1>6, SkillNames DEF Top, Own

\* A frame that goes to a label without a condition of its own.
LEMMA PlainSuccessor ==
  ASSUME StackInv, NEW p \in Proc, stack[p] # <<>>, NEW f \in Frame,
         f.ctx = Top(p).ctx, f.task = Top(p).task, f.task \in Task,
         \/ Where(f) \in {"begin", "recall", "act", "answer", "done"}
         \/ Where(f) = "activate" /\ may_auto_activate_skill(f.ctx)
         \/ Where(f) \in {"learn", "create"} /\ may_persist(f.ctx)
  PROVE  Successor(stack[p], f)
<1>1. f.pc = "log" => f.then # "log"
  BY DEF Where
<1> QED
  BY <1>1 DEF Successor, FrameInv, Authorised, Where, Top

LEMMA MayRunAuthorised ==
  ASSUME NEW p \in Proc, NEW s \in Seq(Frame), s # <<>>, Lineage(p, s),
         NEW tool, may_run_side_effect(s, tool)
  PROVE  RootMay(s[1].ctx, tool)
<1>1. PICK i \in 1..Len(s) :
        \/ s[i].ctx.principal = "operator" /\ s[i].ctx.auto_approve
        \/ /\ s[i].ctx.principal = "remote"
           /\ Bare[tool] \in s[i].ctx.allow_list
  BY DEF may_run_side_effect
<1>2. i \in 2..Len(s) => s[i].ctx.principal = "subagent"
  BY DEF Lineage
<1>3. i = 1
  <2>1. Len(s) \in Nat
    OBVIOUS
  <2>2. i \notin 2..Len(s)
    BY <1>1, <1>2
  <2> QED
    BY <2>1, <2>2
<1> QED
  BY <1>1, <1>3 DEF RootMay

\* A step that replaces the last frame by one that asks for nothing new.
Advances(p, f) ==
  /\ Replaces(p, f)
  /\ f.pc \notin {"waiting", "tool"}
  /\ f.pc = "log" => f.event.action # "skill.create"
  /\ \/ f.reused = Top(p).reused /\ f.injected = Top(p).injected
     \/ /\ f.reused \in Name
        /\ skills[f.reused].status = "active"
        /\ f.injected = skills[f.reused].body

Keeps(f, g) ==
  /\ g.ctx = f.ctx
  /\ g.task = f.task
  /\ g.reused = f.reused
  /\ g.injected = f.injected

LEMMA MoveForm ==
  ASSUME StackInv, NEW p \in Proc, stack[p] # <<>>,
         NEW h \in Frame, Keeps(Top(p), h), h.task \in Task,
         NEW label \in Label,
         \/ label \in {"begin", "recall", "act", "answer", "done"}
         \/ label = "activate" /\ may_auto_activate_skill(h.ctx)
         \/ label \in {"learn", "create"} /\ may_persist(h.ctx),
         Goto(p, [h EXCEPT !.pc = label])
  PROVE  \E f \in Frame : Advances(p, f)
<1> DEFINE f == [h EXCEPT !.pc = label]
<1>1. /\ f \in Frame /\ f.pc = label
      /\ f.ctx = h.ctx /\ f.task = h.task
      /\ f.reused = h.reused /\ f.injected = h.injected
  BY MovedFrame
<1>2. label # "log" /\ label \notin {"waiting", "tool"}
  OBVIOUS
<1>3. Goto(p, f)
  OBVIOUS
<1> HIDE DEF f
<1>4. Successor(stack[p], f)
  BY <1>1, <1>2, PlainSuccessor DEF Keeps, Where
<1> QED
  BY <1>1, <1>2, <1>3, <1>4 DEF Advances, Replaces, Keeps

LEMMA LogForm ==
  ASSUME StackInv, NEW p \in Proc, stack[p] # <<>>,
         NEW h \in Frame, Keeps(Top(p), h), h.task \in Task,
         NEW action \in AuditAction, NEW key \in AuditKey, NEW then \in Label,
         then \in {"recall", "act", "done"}, action # "skill.create",
         NEW f, f = Logging(h, action, key, then), Goto(p, f)
  PROVE  f \in Frame /\ Advances(p, f)
<1>1. /\ f \in Frame
      /\ f.pc = "log" /\ f.then = then
      /\ f.event = [action |-> action, key |-> key]
      /\ f.event.action = action
      /\ f.ctx = h.ctx /\ f.task = h.task /\ f.call = h.call
      /\ f.steps = h.steps
      /\ f.reused = h.reused /\ f.injected = h.injected
  BY LoggingFrame
<1>2. Successor(stack[p], f)
  BY <1>1, PlainSuccessor DEF Keeps, Where
<1> QED
  BY <1>1, <1>2 DEF Advances, Replaces, Keeps

\* The provider's call counted.
LEMMA Counted ==
  ASSUME StackInv, NEW p \in Proc, At(p, "act"), Top(p).steps < MAX_TOOL_STEPS
  PROVE  LET h == [Top(p) EXCEPT !.steps = @ + 1]
         IN  h \in Frame /\ Keeps(Top(p), h) /\ h.task \in Task
<1>1. stack[p] # <<>> /\ Top(p).pc = "act"
  BY DEF At
<1>2. Top(p) \in Frame /\ Top(p).task \in Task
  BY <1>1, AtTop
<1> QED
  BY <1>2, SteppedFrame DEF Keeps

\* A frame that asks for a tool or a subagent, on its way to the log.
LEMMA CallForm ==
  ASSUME StackInv, NEW p \in Proc, stack[p] # <<>>,
         NEW h \in Frame, Keeps(Top(p), h), h.task \in Task,
         NEW call \in Tool \cup Task, NEW action, NEW key, NEW then,
         \/ /\ then = "tool" /\ action = "tool" /\ key = call /\ call \in Tool
            /\ approval_required(call) => RootMay(stack[p][1].ctx, call)
         \/ /\ then = "waiting" /\ action = "subagent.spawn" /\ key = "subagent"
            /\ call \in Task /\ h.ctx.depth # 0,
         Goto(p, Logging([h EXCEPT !.call = call], action, key, then))
  PROVE  \E f \in Frame : Advances(p, f)
<1> DEFINE c == [h EXCEPT !.call = call]
           f == Logging(c, action, key, then)
<1>1. action \in AuditAction /\ key \in AuditKey /\ then \in Label
  BY DEF AuditAction, AuditKey, Label
<1>2. /\ c \in Frame /\ c.call = call
      /\ c.ctx = h.ctx /\ c.task = h.task
      /\ c.reused = h.reused /\ c.injected = h.injected
  BY CallingFrame
<1>3. Goto(p, f)
  OBVIOUS
<1>4. /\ f \in Frame /\ f.pc = "log" /\ f.then = then /\ f.call = c.call
      /\ f.event = [action |-> action, key |-> key] /\ f.event.action = action
      /\ f.ctx = c.ctx /\ f.task = c.task
      /\ f.reused = c.reused /\ f.injected = c.injected
  <2> HIDE DEF c
  <2> QED
    BY <1>1, <1>2, LoggingFrame
<1> HIDE DEF f, c
<1>5. FrameInv(f)
  BY <1>2, <1>4 DEF FrameInv, Where
<1>6. Authorised(stack[p][1].ctx, f)
  BY <1>2, <1>4 DEF Authorised, Where
<1>7. Successor(stack[p], f)
  BY <1>2, <1>4, <1>5, <1>6 DEF Successor, Keeps, Top
<1> QED
  BY <1>2, <1>3, <1>4, <1>7 DEF Advances, Replaces, Keeps
-----------------------------------------------------------------------------
(* The actions, one by one.                                                *)

LEMMA ActToolForm ==
  ASSUME StackInv, NEW p \in Proc, NEW tool \in Tool, ActTool(p, tool)
  PROVE  \E f \in Frame : Advances(p, f)
<1> DEFINE h == [Top(p) EXCEPT !.steps = @ + 1]
<1>1. At(p, "act") /\ stack[p] # <<>> /\ Top(p).steps < MAX_TOOL_STEPS
  BY DEF ActTool, At
<1>2. h \in Frame /\ Keeps(Top(p), h) /\ h.task \in Task
  BY <1>1, Counted
<1>3. tool \in AuditKey /\ "tool.denied" \in AuditAction /\ "act" \in Label
  BY DEF AuditKey, AuditAction, Label
<1>4. CASE approval_required(tool) /\ ~may_run_side_effect(stack[p], tool)
  <2> DEFINE f == Logging(h, "tool.denied", tool, "act")
  <2>1. Goto(p, f)
    BY <1>4 DEF ActTool
  <2>2. f = Logging(h, "tool.denied", tool, "act")
    OBVIOUS
  <2> HIDE DEF h, f
  <2> QED
    BY <1>1, <1>2, <1>3, <2>1, <2>2, LogForm
<1>5. CASE ~(approval_required(tool) /\ ~may_run_side_effect(stack[p], tool))
  <2>1. Goto(p, Logging([h EXCEPT !.call = tool], "tool", tool, "tool"))
    BY <1>5 DEF ActTool
  <2> HIDE DEF h
  <2>2. approval_required(tool) => RootMay(stack[p][1].ctx, tool)
    BY <1>1, <1>5, MayRunAuthorised DEF StackInv
  <2> QED
    BY <1>1, <1>2, <2>1, <2>2, CallForm
<1> QED
  BY <1>4, <1>5

LEMMA ActSubagentForm ==
  ASSUME StackInv, NEW p \in Proc, NEW task \in Task \cup {NoTask},
         ActSubagent(p, task)
  PROVE  \E f \in Frame : Advances(p, f)
<1> DEFINE h == [Top(p) EXCEPT !.steps = @ + 1]
<1>1. At(p, "act") /\ stack[p] # <<>> /\ Top(p).steps < MAX_TOOL_STEPS
  BY DEF ActSubagent, At
<1>2. h \in Frame /\ Keeps(Top(p), h) /\ h.task \in Task
  BY <1>1, Counted
<1>3. "subagent" \in AuditKey /\ "subagent.denied" \in AuditAction
      /\ "act" \in Label
  BY DEF AuditKey, AuditAction, Label
<1>4. CASE Top(p).ctx.depth = 0 \/ task = NoTask
  <2> DEFINE f == Logging(h, "subagent.denied", "subagent", "act")
  <2>1. Goto(p, f)
    BY <1>4 DEF ActSubagent
  <2>2. f = Logging(h, "subagent.denied", "subagent", "act")
    OBVIOUS
  <2> HIDE DEF h, f
  <2> QED
    BY <1>1, <1>2, <1>3, <2>1, <2>2, LogForm
<1>5. CASE ~(Top(p).ctx.depth = 0 \/ task = NoTask)
  <2>1. Goto(p, Logging([h EXCEPT !.call = task], "subagent.spawn", "subagent",
                        "waiting"))
    BY <1>5 DEF ActSubagent
  <2> HIDE DEF h
  <2>2. task \in Task /\ h.ctx.depth # 0
    BY <1>2, <1>5 DEF Keeps
  <2> QED
    BY <1>1, <1>2, <2>1, <2>2, CallForm
<1> QED
  BY <1>4, <1>5

LEMMA BeginForm ==
  ASSUME StackInv, NEW p \in Proc, Begin(p)
  PROVE  \E f \in Frame : Advances(p, f)
<1> DEFINE own == skills[Own(p)]
           draft == own.status = "draft" /\ own.provenance # "trusted"
<1>1. stack[p] # <<>> /\ Top(p).pc = "begin"
  BY DEF Begin, At
<1>2. Top(p) \in Frame /\ Top(p).task \in Task /\ Own(p) \in AuditKey
  BY <1>1, AtTop
<1>3. Keeps(Top(p), Top(p))
  BY DEF Keeps
<1>4. "recall" \in Label /\ "activate" \in Label
  BY DEF Label
<1>5. CASE ~draft
  <2>1. Goto(p, [Top(p) EXCEPT !.pc = "recall"])
    BY <1>5 DEF Begin
  <2> QED
    BY <1>1, <1>2, <1>3, <1>4, <2>1, MoveForm
<1>6. CASE draft /\ may_auto_activate_skill(Top(p).ctx)
  <2>1. Goto(p, [Top(p) EXCEPT !.pc = "activate"])
    BY <1>6 DEF Begin
  <2> QED
    BY <1>1, <1>2, <1>3, <1>4, <1>6, <2>1, MoveForm
<1>7. CASE draft /\ ~may_auto_activate_skill(Top(p).ctx)
  <2> DEFINE f == Logging(Top(p), "skill.activate.denied", Own(p), "recall")
  <2>1. Goto(p, f)
    BY <1>7 DEF Begin
  <2>2. f = Logging(Top(p), "skill.activate.denied", Own(p), "recall")
    OBVIOUS
  <2>3. "skill.activate.denied" \in AuditAction
    BY DEF AuditAction
  <2> HIDE DEF f
  <2> QED
    BY <1>1, <1>2, <1>3, <1>4, <2>1, <2>2, <2>3, LogForm
<1> QED
  BY <1>5, <1>6, <1>7

LEMMA ActivateForm ==
  ASSUME StackInv, NEW p \in Proc, Activate(p)
  PROVE  \E f \in Frame : Advances(p, f)
<1> DEFINE f == Logging(Top(p), "skill.activate", Own(p), "recall")
<1>1. stack[p] # <<>> /\ Top(p).pc = "activate"
  BY DEF Activate, At
<1>2. Top(p) \in Frame /\ Top(p).task \in Task /\ Own(p) \in AuditKey
  BY <1>1, AtTop
<1>3. Keeps(Top(p), Top(p))
  BY DEF Keeps
<1>4. "recall" \in Label /\ "skill.activate" \in AuditAction
  BY DEF Label, AuditAction
<1>5. Goto(p, f) /\ f = Logging(Top(p), "skill.activate", Own(p), "recall")
  BY DEF Activate
<1> HIDE DEF f
<1> QED
  BY <1>1, <1>2, <1>3, <1>4, <1>5, LogForm

LEMMA RecallForm ==
  ASSUME StackInv, skills \in [Name -> [status : {"absent", "draft", "active"},
                                        provenance : {"trusted", "untrusted"},
                                        body : SUBSET Body]],
         NEW p \in Proc, Recall(p)
  PROVE  \E f \in Frame : Advances(p, f)
<1>1. stack[p] # <<>> /\ Top(p).pc = "recall"
  BY DEF Recall, At
<1>2. Top(p) \in Frame /\ Top(p).task \in Task
  BY <1>1, AtTop
<1>3. CASE Goto(p, [Top(p) EXCEPT !.pc = "act"])
  <2>1. Keeps(Top(p), Top(p)) /\ "act" \in Label
    BY DEF Keeps, Label
  <2> QED
    BY <1>1, <1>2, <1>3, <2>1, MoveForm
<1>4. ASSUME NEW best \in Name,
             skills[best].status = "active",
             Goto(p, Logging([Top(p) EXCEPT !.reused = best,
                                            !.injected = skills[best].body],
                             "skill.reuse", best, "act"))
      PROVE  \E f \in Frame : Advances(p, f)
  <2> DEFINE h == [Top(p) EXCEPT !.reused = best, !.injected = skills[best].body]
             f == Logging(h, "skill.reuse", best, "act")
  <2>1. /\ h \in Frame /\ h.reused = best /\ h.injected = skills[best].body
        /\ h.ctx = Top(p).ctx /\ h.task = Top(p).task
    <3>1. skills[best].body \in SUBSET Body
      OBVIOUS
    <3> QED
      BY <1>2, <3>1 DEF Frame
  <2>2. "act" \in Label /\ "skill.reuse" \in AuditAction /\ best \in AuditKey
    BY DEF Label, AuditAction, AuditKey
  <2>3. Goto(p, f) /\ f = Logging(h, "skill.reuse", best, "act")
    BY <1>4
  <2> HIDE DEF f, h
  <2>4. /\ f \in Frame
        /\ f.pc = "log" /\ f.then = "act"
        /\ f.event = [action |-> "skill.reuse", key |-> best]
        /\ f.event.action = "skill.reuse"
        /\ f.ctx = h.ctx /\ f.task = h.task /\ f.call = h.call
        /\ f.steps = h.steps
        /\ f.reused = h.reused /\ f.injected = h.injected
    BY <2>1, <2>2, <2>3, LoggingFrame
  <2>5. Successor(stack[p], f)
    BY <1>1, <1>2, <2>1, <2>4, PlainSuccessor DEF Where
  <2> QED
    BY <1>4, <2>1, <2>3, <2>4, <2>5 DEF Advances, Replaces
<1> QED
  BY <1>3, <1>4 DEF Recall

LEMMA ActTextForm ==
  ASSUME StackInv, NEW p \in Proc, ActText(p)
  PROVE  \E f \in Frame : Advances(p, f)
<1> DEFINE h == [Top(p) EXCEPT !.steps = @ + 1]
<1>1. At(p, "act") /\ stack[p] # <<>> /\ Top(p).steps < MAX_TOOL_STEPS
  BY DEF ActText, At
<1>2. h \in Frame /\ Keeps(Top(p), h) /\ h.task \in Task
  BY <1>1, Counted
<1>3. Goto(p, [h EXCEPT !.pc = "answer"])
  <2>1. [Top(p) EXCEPT !.steps = @ + 1, !.pc = "answer"] = [h EXCEPT !.pc = "answer"]
    OBVIOUS
  <2> QED
    BY <2>1 DEF ActText
<1>4. "answer" \in Label
  BY DEF Label
<1> HIDE DEF h
<1> QED
  BY <1>1, <1>2, <1>3, <1>4, MoveForm

LEMMA RunToolForm ==
  ASSUME StackInv, NEW p \in Proc, RunTool(p)
  PROVE  \E f \in Frame : Advances(p, f)
<1>1. stack[p] # <<>> /\ Top(p).pc = "tool"
  BY DEF RunTool, At
<1>2. Top(p) \in Frame /\ Top(p).task \in Task
  BY <1>1, AtTop
<1>3. PICK failed \in BOOLEAN :
        Goto(p, [Top(p) EXCEPT !.pc = "act", !.call = NoSkill,
                               !.errors = @ \/ failed])
  BY DEF RunTool
<1> DEFINE h == [Top(p) EXCEPT !.call = NoSkill, !.errors = @ \/ failed]
<1>4. h \in Frame /\ Keeps(Top(p), h)
  BY <1>2 DEF Frame, Keeps
<1>5. [Top(p) EXCEPT !.pc = "act", !.call = NoSkill, !.errors = @ \/ failed]
        = [h EXCEPT !.pc = "act"]
  BY <1>2 DEF Frame
<1>6. h.task \in Task /\ "act" \in Label
  BY <1>2, <1>4 DEF Keeps, Label
<1>7. Goto(p, [h EXCEPT !.pc = "act"])
  BY <1>3, <1>5
<1> HIDE DEF h
<1> QED
  BY <1>1, <1>4, <1>6, <1>7, MoveForm

LEMMA AnswerForm ==
  ASSUME StackInv, NEW p \in Proc, Answer(p)
  PROVE  Return(p) \/ \E f \in Frame : Advances(p, f)
<1>1. stack[p] # <<>> /\ Top(p).pc = "answer"
  BY DEF Answer, At
<1>2. Top(p) \in Frame /\ Top(p).task \in Task
  BY <1>1, AtTop
<1>3. Keeps(Top(p), Top(p)) /\ "learn" \in Label
  BY DEF Keeps, Label
<1>4. CASE may_persist(Top(p).ctx)
  <2>1. Goto(p, [Top(p) EXCEPT !.pc = "learn"])
    BY <1>4 DEF Answer
  <2> QED
    BY <1>1, <1>2, <1>3, <1>4, <2>1, MoveForm
<1> QED
  BY <1>4 DEF Answer

LEMMA LearnForm ==
  ASSUME StackInv, NEW p \in Proc, Learn(p)
  PROVE  Return(p) \/ \E f \in Frame : Advances(p, f)
<1>1. stack[p] # <<>> /\ Top(p).pc = "learn"
  BY DEF Learn, At
<1>2. Top(p) \in Frame /\ Top(p).task \in Task /\ FrameInv(Top(p))
  BY <1>1, AtTop
<1>3. Keeps(Top(p), Top(p)) /\ "create" \in Label
  BY DEF Keeps, Label
<1>4. may_persist(Top(p).ctx)
  BY <1>1, <1>2 DEF FrameInv, Where
<1>5. CASE Goto(p, [Top(p) EXCEPT !.pc = "create"])
  BY <1>1, <1>2, <1>3, <1>4, <1>5, MoveForm
<1> QED
  BY <1>5 DEF Learn

\* A draft was inserted: the one step whose record says skill.create.
Creates(p, f) ==
  /\ Replaces(p, f)
  /\ f.pc = "log" /\ f.then = "done"
  /\ f.event = [action |-> "skill.create", key |-> Own(p)]
  /\ f.reused = Top(p).reused /\ f.injected = Top(p).injected

Drafts(p) ==
  /\ ~Exists(Own(p))
  /\ skills' = [skills EXCEPT ![Own(p)] =
       [status |-> "draft", provenance |-> "untrusted",
        body |-> {[by |-> p, run |-> runs[p], task |-> Top(p).task]}]]

LEMMA CreateForm ==
  ASSUME StackInv, NEW p \in Proc, Create(p)
  PROVE  \/ Return(p) /\ skills' = skills
         \/ Drafts(p) /\ \E f \in Frame : Creates(p, f)
<1> DEFINE f == Logging(Top(p), "skill.create", Own(p), "done")
<1>1. stack[p] # <<>> /\ Top(p).pc = "create"
  BY DEF Create, At
<1>2. Top(p) \in Frame /\ Top(p).task \in Task /\ Own(p) \in AuditKey
  BY <1>1, AtTop
<1>3. "done" \in Label /\ "skill.create" \in AuditAction
  BY DEF Label, AuditAction
<1>4. f = Logging(Top(p), "skill.create", Own(p), "done")
  OBVIOUS
<1>5. (Goto(p, f) /\ Drafts(p)) \/ (Return(p) /\ skills' = skills)
  BY DEF Create, Drafts
<1> HIDE DEF f
<1>6. /\ f \in Frame
      /\ f.pc = "log" /\ f.then = "done"
      /\ f.event = [action |-> "skill.create", key |-> Own(p)]
      /\ f.event.action = "skill.create"
      /\ f.ctx = Top(p).ctx /\ f.task = Top(p).task /\ f.call = Top(p).call
      /\ f.steps = Top(p).steps
      /\ f.reused = Top(p).reused /\ f.injected = Top(p).injected
  BY <1>2, <1>3, <1>4, LoggingFrame
<1>7. Successor(stack[p], f)
  BY <1>1, <1>2, <1>6, PlainSuccessor DEF Where
<1> QED
  BY <1>5, <1>6, <1>7 DEF Creates, Replaces

\* The frame whose record is on disk.
Recorded(p, f) ==
  /\ Top(p).pc = "log"
  /\ f.pc = Top(p).then
  /\ f.ctx = Top(p).ctx /\ f.call = Top(p).call /\ f.steps = Top(p).steps
  /\ f.reused = Top(p).reused /\ f.injected = Top(p).injected

LEMMA AuditOkForm ==
  ASSUME StackInv, NEW p \in Proc, AuditOk(p)
  PROVE  \E f \in Frame :
           /\ Recorded(p, f)
           /\ f.pc # "log"
           /\ IF f.pc = "waiting" THEN Spawns(p, f) ELSE Replaces(p, f)
<1> DEFINE f == [Top(p) EXCEPT !.pc = Top(p).then, !.event = NoEvent,
                               !.then = "done"]
           called == [stack EXCEPT ![p][Len(stack[p])] = f]
<1>1. stack[p] # <<>> /\ Top(p).pc = "log"
  BY DEF AuditOk, At
<1>2. Top(p) \in Frame /\ FrameInv(Top(p)) /\ Authorised(stack[p][1].ctx, Top(p))
  BY <1>1, AtTop
<1>3. NoEvent \in [action : AuditAction, key : AuditKey] /\ "done" \in Label
  BY DEF NoEvent, AuditAction, AuditKey, Label
<1>4. /\ f \in Frame
      /\ f.pc = Top(p).then
      /\ f.ctx = Top(p).ctx /\ f.call = Top(p).call /\ f.steps = Top(p).steps
      /\ f.reused = Top(p).reused /\ f.injected = Top(p).injected
      /\ f.task = Top(p).task
  BY <1>2, <1>3 DEF Frame
<1>5. f.pc = "waiting" =>
        stack' = [called EXCEPT ![p] = Append(@, NewFrame(subagent_of(f.ctx), f.call))]
  BY DEF AuditOk
<1>6. f.pc # "waiting" => stack' = called
  BY DEF AuditOk
<1>7. /\ called[p] = [stack[p] EXCEPT ![Len(stack[p])] = f]
      /\ called = [stack EXCEPT ![p] = [stack[p] EXCEPT ![Len(stack[p])] = f]]
  <2> HIDE DEF f
  <2> QED
    BY DEF StackInv
<1> HIDE DEF f
<1>8. f.pc # "log" /\ FrameInv(f)
  BY <1>1, <1>2, <1>4 DEF FrameInv, Where
<1>9. Authorised(stack[p][1].ctx, f)
  BY <1>1, <1>2, <1>4 DEF Authorised, FrameInv, Where
<1>10. Successor(stack[p], f)
  BY <1>4, <1>8, <1>9 DEF Successor, Top
<1>11. Recorded(p, f)
  BY <1>1, <1>4 DEF Recorded
<1>12. CASE f.pc = "waiting"
  <2> DEFINE g == NewFrame(subagent_of(f.ctx), f.call)
             s == [stack[p] EXCEPT ![Len(stack[p])] = f]
  <2>1. stack' = [called EXCEPT ![p] = Append(called[p], g)]
    BY <1>5, <1>12
  <2>2. stack' = [stack EXCEPT ![p] = Append(s, g)]
    <3>1. called[p] = s /\ called = [stack EXCEPT ![p] = s]
      BY <1>7
    <3> HIDE DEF called, s, g
    <3>2. \A x : [called EXCEPT ![p] = x] = [stack EXCEPT ![p] = x]
      BY <3>1
    <3> QED
      BY <2>1, <3>1, <3>2
  <2>3. Spawns(p, f)
    BY <1>10, <1>12, <2>2 DEF Spawns
  <2> QED
    BY <1>4, <1>8, <1>11, <1>12, <2>3
<1>13. CASE f.pc # "waiting"
  <2>1. Goto(p, f)
    BY <1>6, <1>13 DEF Goto
  <2>2. Replaces(p, f)
    BY <1>10, <2>1 DEF Replaces
  <2> QED
    BY <1>4, <1>8, <1>11, <1>13, <2>2
<1> QED
  BY <1>12, <1>13

LEMMA StartForm ==
  ASSUME StackInv, NEW p \in Proc, NEW ctx \in RootContext(p), NEW task \in Task,
         Start(p, ctx, task)
  PROVE  \E f \in Frame : Begins(p, f) /\ f.pc = "begin" /\ f.reused = NoSkill
<1> DEFINE f == NewFrame(ctx, task)
<1>1. /\ f \in Frame /\ f.ctx = ctx /\ f.task = task /\ f.pc = "begin"
  BY EntryContext, NewFrameType
<1>2. f.reused = NoSkill
  BY DEF NewFrame
<1>3. stack[p] = <<>> /\ stack' = [stack EXCEPT ![p] = <<f>>]
  BY DEF Start
<1> HIDE DEF f
<1>4. FrameInv(f) /\ Where(f) # "tool"
  BY <1>1 DEF FrameInv, Where
<1> QED
  BY <1>1, <1>2, <1>3, <1>4 DEF Begins

LEMMA ActivateCommandForm ==
  ASSUME StackInv, NEW p \in Proc, NEW n \in Name, ActivateCommand(p, n)
  PROVE  \E f \in Frame :
           /\ Begins(p, f)
           /\ f.pc = "log" /\ f.event.action = "skill.activate"
           /\ f.reused = NoSkill
<1> DEFINE h == NewFrame(operator(FALSE), NoTask)
           f == Logging(h, "skill.activate", n, "done")
<1>1. operator(FALSE) \in RootContext(p)
  BY DEF ActivateCommand, RootContext
<1>2. NoTask \in Task \cup {NoTask}
  OBVIOUS
<1>3. h \in Frame /\ h.ctx = operator(FALSE) /\ h.pc = "begin"
  BY <1>1, <1>2, EntryContext, NewFrameType
<1>4. h.reused = NoSkill
  BY DEF NewFrame
<1>5. "skill.activate" \in AuditAction /\ n \in AuditKey /\ "done" \in Label
  BY DEF AuditAction, AuditKey, Label
<1>6. stack[p] = <<>> /\ stack' = [stack EXCEPT ![p] = <<f>>]
  BY DEF ActivateCommand
<1>7. f = Logging(h, "skill.activate", n, "done")
  OBVIOUS
<1> HIDE DEF f, h
<1>8. /\ f \in Frame
      /\ f.pc = "log" /\ f.then = "done"
      /\ f.event = [action |-> "skill.activate", key |-> n]
      /\ f.event.action = "skill.activate"
      /\ f.ctx = h.ctx /\ f.task = h.task /\ f.call = h.call
      /\ f.steps = h.steps
      /\ f.reused = h.reused /\ f.injected = h.injected
  BY <1>3, <1>5, <1>7 DEF Logging, Frame, Label
<1>9. FrameInv(f) /\ Where(f) # "tool"
  BY <1>8 DEF FrameInv, Where
<1> QED
  BY <1>1, <1>3, <1>4, <1>6, <1>8, <1>9 DEF Begins
-----------------------------------------------------------------------------
(* The frames of every process stay as StackInv says.                      *)

\* What StackInv needs to know of the table.
SkillsType ==
  skills \in [Name -> [status : {"absent", "draft", "active"},
                       provenance : {"trusted", "untrusted"},
                       body : SUBSET Body]]

LEMMA AdvancesInv ==
  ASSUME StackInv, NEW p \in Proc, stack[p] # <<>>,
         NEW f \in Frame, Advances(p, f)
  PROVE  StackInv'
BY ReplacesInv DEF Advances

\* The steps that only replace or remove the last frame.
Quiet(p) ==
  \/ Begin(p) \/ Activate(p) \/ Recall(p) \/ ActText(p)
  \/ \E tool \in Tool : ActTool(p, tool)
  \/ \E task \in Task \cup {NoTask} : ActSubagent(p, task)
  \/ StepLimit(p) \/ AuditFails(p) \/ RunTool(p)
  \/ Answer(p) \/ Learn(p) \/ Done(p) \/ Abort(p)

LEMMA QuietForm ==
  ASSUME StackInv, SkillsType, NEW p \in Proc, Quiet(p)
  PROVE  /\ stack[p] # <<>>
         /\ Return(p) \/ \E f \in Frame : Advances(p, f)
<1>1. CASE Begin(p)
  BY <1>1, BeginForm DEF Begin, At
<1>2. CASE Activate(p)
  BY <1>2, ActivateForm DEF Activate, At
<1>3. CASE Recall(p)
  BY <1>3, RecallForm DEF Recall, At, SkillsType
<1>4. CASE ActText(p)
  BY <1>4, ActTextForm DEF ActText, At
<1>5. ASSUME NEW tool \in Tool, ActTool(p, tool)
      PROVE  stack[p] # <<>> /\ (Return(p) \/ \E f \in Frame : Advances(p, f))
  BY <1>5, ActToolForm DEF ActTool, At
<1>6. ASSUME NEW task \in Task \cup {NoTask}, ActSubagent(p, task)
      PROVE  stack[p] # <<>> /\ (Return(p) \/ \E f \in Frame : Advances(p, f))
  BY <1>6, ActSubagentForm DEF ActSubagent, At
<1>7. CASE StepLimit(p)
  BY <1>7 DEF StepLimit, At
<1>8. CASE AuditFails(p)
  BY <1>8 DEF AuditFails, At
<1>9. CASE RunTool(p)
  BY <1>9, RunToolForm DEF RunTool, At
<1>10. CASE Answer(p)
  BY <1>10, AnswerForm DEF Answer, At
<1>11. CASE Learn(p)
  BY <1>11, LearnForm DEF Learn, At
<1>12. CASE Done(p)
  BY <1>12 DEF Done, At
<1>13. CASE Abort(p)
  BY <1>13 DEF Abort
<1> QED
  BY <1>1, <1>2, <1>3, <1>4, <1>5, <1>6, <1>7, <1>8, <1>9, <1>10, <1>11,
     <1>12, <1>13 DEF Quiet

\* Every step of the system, by how it changes the frames.
LEMMA Cases ==
  ASSUME [Next]_vars
  PROVE  \/ UNCHANGED vars
         \/ \E p \in Proc :
              \/ \E ctx \in RootContext(p), task \in Task : Start(p, ctx, task)
              \/ \E n \in Name : ActivateCommand(p, n)
              \/ Quiet(p)
              \/ Create(p)
              \/ AuditOk(p)
              \/ Kill(p)
BY DEF Next, Step, Quiet

LEMMA StackStep ==
  ASSUME StackInv, SkillsType, [Next]_vars
  PROVE  StackInv'
<1>1. CASE UNCHANGED vars
  BY <1>1 DEF vars, StackInv
<1>2. ASSUME NEW p \in Proc, NEW ctx \in RootContext(p), NEW task \in Task,
             Start(p, ctx, task)
      PROVE  StackInv'
  BY <1>2, StartForm, BeginsInv
<1>3. ASSUME NEW p \in Proc, NEW n \in Name, ActivateCommand(p, n)
      PROVE  StackInv'
  BY <1>3, ActivateCommandForm, BeginsInv
<1>4. ASSUME NEW p \in Proc, Quiet(p) PROVE StackInv'
  BY <1>4, QuietForm, AdvancesInv, ReturnInv
<1>5. ASSUME NEW p \in Proc, Create(p) PROVE StackInv'
  <2>1. stack[p] # <<>>
    BY <1>5 DEF Create, At
  <2> QED
    BY <1>5, <2>1, CreateForm, ReturnInv, ReplacesInv DEF Creates
<1>6. ASSUME NEW p \in Proc, AuditOk(p) PROVE StackInv'
  <2>1. stack[p] # <<>>
    BY <1>6 DEF AuditOk, At
  <2>2. PICK f \in Frame :
          IF f.pc = "waiting" THEN Spawns(p, f) ELSE Replaces(p, f)
    BY <1>6, AuditOkForm
  <2> QED
    BY <2>1, <2>2, SpawnsInv, ReplacesInv
<1>7. ASSUME NEW p \in Proc, Kill(p) PROVE StackInv'
  BY <1>7, DiesInv DEF Kill, Dies
<1> QED
  BY <1>1, <1>2, <1>3, <1>4, <1>5, <1>6, <1>7, Cases

LEMMA StackInit == Init => StackInv
<1> SUFFICES ASSUME Init PROVE StackInv
  OBVIOUS
<1>1. <<>> \in Seq(Frame) /\ 1..Len(<<>>) = {} /\ 2..Len(<<>>) = {}
  OBVIOUS
<1>2. \A p \in Proc : Lineage(p, <<>>)
  BY <1>1 DEF Lineage
<1>3. stack = [p \in Proc |-> <<>>]
  BY DEF Init
<1> QED
  BY <1>1, <1>2, <1>3 DEF StackInv
-----------------------------------------------------------------------------
(* Types.                                                                  *)

LEMMA CallIdType ==
  ASSUME StackInv, runs \in [Proc -> Nat], NEW p \in Proc
  PROVE  CallId(p) \in CallIds
<1> DEFINE n == Len(stack[p])
           path == [i \in 1..n |-> stack[p][i].steps]
<1>1. stack[p] \in Seq(Frame) /\ n \in Nat
  BY DEF StackInv
<1>2. \A i \in 1..n : stack[p][i] \in Frame
  BY <1>1, ElementOfSeq
<1>3. \A i \in 1..n : stack[p][i].steps \in 0..MAX_TOOL_STEPS
  BY <1>2 DEF Frame
<1>4. path \in [1..n -> 0..MAX_TOOL_STEPS]
  BY <1>3
<1>5. path \in Seq(0..MAX_TOOL_STEPS)
  BY <1>1, <1>4, SeqDef
<1>6. CallId(p) = [by |-> p, run |-> runs[p], path |-> path]
  BY DEF CallId
<1> HIDE DEF n, path
<1> QED
  BY <1>5, <1>6 DEF CallIds

LEMMA LabelType ==
  ASSUME StackInv, NEW p \in Proc, stack[p] # <<>>
  PROVE  audit_label(stack[p]) \in {"operator", "remote", "subagent"} \X Nat
<1>1. stack[p] \in Seq(Frame) /\ 1 \in 1..Len(stack[p]) /\ Len(stack[p]) - 1 \in Nat
  BY NonEmpty DEF StackInv
<1>2. stack[p][1] \in Frame
  BY <1>1, ElementOfSeq
<1>3. stack[p][1].ctx.principal \in {"operator", "remote", "subagent"}
  BY <1>2 DEF Frame, Context
<1> QED
  BY <1>1, <1>3 DEF audit_label

LEMMA RecordType ==
  ASSUME StackInv, runs \in [Proc -> Nat], NEW p \in Proc, stack[p] # <<>>
  PROVE  Record(p) \in AuditRecord
<1>1. Top(p).event \in [action : AuditAction, key : AuditKey]
  BY AtTop DEF Frame
<1>2. Top(p).event.action \in AuditAction /\ Top(p).event.key \in AuditKey
  BY <1>1
<1> QED
  BY <1>2, CallIdType, LabelType DEF Record, AuditRecord

RestType ==
  /\ runs \in [Proc -> Nat]
  /\ SkillsType
  /\ messages \subseteq
       [id : CallIds, role : {"user", "assistant"}, task : Task,
        provenance : {"trusted", "untrusted", "none"}]
  /\ trail \subseteq AuditRecord
  /\ effects \subseteq
       [id : CallIds, tool : Tool,
        principal : {"operator", "remote", "subagent"} \X Nat]
  /\ approved \subseteq Name \X SUBSET Body

TypeInv == StackInv /\ RestType

LEMMA TypeInvImpliesTypeOK == TypeInv => TypeOK
BY DEF TypeInv, RestType, SkillsType, StackInv, TypeOK

\* A skill with another status is a skill; its body keeps.
LEMMA ActivatedType ==
  ASSUME SkillsType, NEW n \in Name,
         skills' = [skills EXCEPT ![n].status = "active", ![n].provenance = "trusted"]
  PROVE  /\ SkillsType'
         /\ \A m \in Name :
              /\ skills'[m].body = skills[m].body
              /\ skills'[m].status = IF m = n THEN "active" ELSE skills[m].status
<1> DEFINE row == [skills[n] EXCEPT !.status = "active", !.provenance = "trusted"]
<1>1. skills[n] \in [status : {"absent", "draft", "active"},
                     provenance : {"trusted", "untrusted"}, body : SUBSET Body]
  BY DEF SkillsType
<1>2. /\ row \in [status : {"absent", "draft", "active"},
                  provenance : {"trusted", "untrusted"}, body : SUBSET Body]
      /\ row.body = skills[n].body
      /\ row.status = "active"
  BY <1>1
<1>3. skills' = [skills EXCEPT ![n] = row]
  BY DEF SkillsType
<1> HIDE DEF row
<1>4. \A m \in Name : skills'[m] = IF m = n THEN row ELSE skills[m]
  BY <1>3 DEF SkillsType
<1>5. SkillsType'
  BY <1>2, <1>3 DEF SkillsType
<1>6. ASSUME NEW m \in Name
      PROVE  /\ skills'[m].body = skills[m].body
             /\ skills'[m].status = IF m = n THEN "active" ELSE skills[m].status
  <2>1. CASE m = n
    BY <1>2, <1>4, <2>1
  <2>2. CASE m # n
    <3>1. skills'[m] = skills[m]
      BY <1>4, <2>2
    <3>2. skills'[m].body = skills[m].body
      BY <3>1, Zenon
    <3>3. skills'[m].status = skills[m].status
      BY <3>1, Zenon
    <3> QED
      BY <2>2, <3>2, <3>3, Zenon
  <2> QED
    BY <2>1, <2>2
<1> QED
  BY <1>5, <1>6

LEMMA CreatedType ==
  ASSUME TypeInv, NEW p \in Proc, At(p, "create"), Drafts(p)
  PROVE  /\ SkillsType'
         /\ stack[p] # <<>> /\ Top(p).pc = "create"
         /\ Own(p) \in Name /\ ~Exists(Own(p))
         /\ skills'[Own(p)].status = "draft"
         /\ [by |-> p, run |-> runs[p], task |-> Top(p).task] \in skills'[Own(p)].body
         /\ \A m \in Name : m # Own(p) => skills'[m] = skills[m]
<1> DEFINE b == [by |-> p, run |-> runs[p], task |-> Top(p).task]
           row == [status |-> "draft", provenance |-> "untrusted", body |-> {b}]
<1>1. stack[p] # <<>> /\ Top(p).pc = "create"
  BY DEF At
<1>2. Top(p).task \in Task /\ Own(p) \in Name
  BY <1>1, AtTop DEF TypeInv
<1>3. skills' = [skills EXCEPT ![Own(p)] = row] /\ ~Exists(Own(p))
  BY DEF Drafts
<1>4. b \in Body
  BY <1>2 DEF Body, TypeInv, RestType
<1>5. /\ row \in [status : {"absent", "draft", "active"},
                  provenance : {"trusted", "untrusted"}, body : SUBSET Body]
      /\ row.status = "draft" /\ b \in row.body
  <2> HIDE DEF b
  <2> QED
    BY <1>4
<1> HIDE DEF row, b
<1>6. SkillsType'
  BY <1>3, <1>5 DEF SkillsType, TypeInv, RestType
<1>7. \A m \in Name : skills'[m] = IF m = Own(p) THEN row ELSE skills[m]
  BY <1>3 DEF SkillsType, TypeInv, RestType
<1> QED
  BY <1>1, <1>2, <1>3, <1>5, <1>6, <1>7 DEF b

LEMMA RestStep == TypeInv /\ [Next]_vars => RestType'
<1> SUFFICES ASSUME TypeInv, [Next]_vars PROVE RestType'
  OBVIOUS
<1> USE DEF TypeInv, RestType
<1>1. CASE UNCHANGED vars
  BY <1>1 DEF vars, SkillsType
<1>2. ASSUME NEW p \in Proc, NEW ctx, NEW task, Start(p, ctx, task)
      PROVE  RestType'
  BY <1>2 DEF Start, SkillsType
<1>3. ASSUME NEW p \in Proc, NEW n \in Name, ActivateCommand(p, n)
      PROVE  RestType'
  <2>1. SkillsType'
    BY <1>3, ActivatedType DEF ActivateCommand
  <2>2. <<n, skills[n].body>> \in Name \X SUBSET Body
    BY DEF SkillsType
  <2> QED
    BY <1>3, <2>1, <2>2 DEF ActivateCommand
<1>4. ASSUME NEW p \in Proc, Begin(p) PROVE RestType'
  <2>1. stack[p] # <<>> /\ Top(p).pc = "begin"
    BY <1>4 DEF Begin, At
  <2>2. Top(p).task \in Task /\ CallId(p) \in CallIds
    BY <2>1, AtTop, CallIdType
  <2>3. provenance(Top(p).ctx) \in {"trusted", "untrusted", "none"}
    BY DEF provenance
  <2> QED
    BY <1>4, <2>2, <2>3 DEF Begin, SkillsType
<1>5. ASSUME NEW p \in Proc, Activate(p) PROVE RestType'
  <2>1. stack[p] # <<>> /\ Top(p).pc = "activate"
    BY <1>5 DEF Activate, At
  <2>2. Own(p) \in Name
    BY <2>1, AtTop
  <2>3. SkillsType'
    BY <1>5, <2>2, ActivatedType DEF Activate
  <2>4. <<Own(p), skills[Own(p)].body>> \in Name \X SUBSET Body
    BY <2>2 DEF SkillsType
  <2> QED
    BY <1>5, <2>3, <2>4 DEF Activate
<1>6. ASSUME NEW p \in Proc,
             \/ Recall(p) \/ ActText(p)
             \/ \E tool \in Tool : ActTool(p, tool)
             \/ \E task \in Task \cup {NoTask} : ActSubagent(p, task)
             \/ StepLimit(p) \/ Learn(p) \/ Done(p) \/ Abort(p)
      PROVE  RestType'
  BY <1>6 DEF Recall, ActText, ActTool, ActSubagent, StepLimit, Learn, Done,
              Abort, SkillsType
<1>7. ASSUME NEW p \in Proc, AuditOk(p) \/ AuditFails(p) \/ Kill(p)
      PROVE  RestType'
  <2>1. stack[p] # <<>>
    BY <1>7 DEF AuditOk, AuditFails, Kill, At
  <2>2. Record(p) \in AuditRecord
    BY <2>1, RecordType
  <2>3. trail' \in {trail, trail \cup {Record(p)}}
    BY <1>7 DEF AuditOk, AuditFails, Kill
  <2>4. UNCHANGED <<runs, skills, messages, effects, approved>>
    BY <1>7 DEF AuditOk, AuditFails, Kill
  <2> QED
    BY <2>2, <2>3, <2>4 DEF SkillsType
<1>8. ASSUME NEW p \in Proc, RunTool(p) PROVE RestType'
  <2>1. stack[p] # <<>> /\ Top(p).pc = "tool"
    BY <1>8 DEF RunTool, At
  <2>2. Top(p).call \in Tool
    BY <2>1, AtTop DEF FrameInv, Where
  <2>3. CallId(p) \in CallIds
        /\ audit_label(stack[p]) \in {"operator", "remote", "subagent"} \X Nat
    BY <2>1, CallIdType, LabelType
  <2> QED
    BY <1>8, <2>2, <2>3 DEF RunTool, SkillsType
<1>9. ASSUME NEW p \in Proc, Answer(p) PROVE RestType'
  <2>1. stack[p] # <<>> /\ Top(p).pc = "answer"
    BY <1>9 DEF Answer, At
  <2>2. Top(p).task \in Task /\ CallId(p) \in CallIds
    BY <2>1, AtTop, CallIdType
  <2> QED
    BY <1>9, <2>2 DEF Answer, SkillsType
<1>10. ASSUME NEW p \in Proc, Create(p) PROVE RestType'
  <2>1. SkillsType'
    BY <1>10, CreatedType, CreateForm DEF SkillsType, Create
  <2> QED
    BY <1>10, <2>1 DEF Create
<1> QED
  BY <1>1, <1>2, <1>3, <1>4, <1>5, <1>6, <1>7, <1>8, <1>9, <1>10, Cases DEF Quiet

LEMMA TypeInit == Init => TypeInv
<1> SUFFICES ASSUME Init PROVE TypeInv
  OBVIOUS
<1>1. Absent \in [status : {"absent", "draft", "active"},
                  provenance : {"trusted", "untrusted"}, body : SUBSET Body]
  BY DEF Absent
<1>2. RestType
  BY <1>1 DEF Init, RestType, SkillsType
<1> QED
  BY <1>2, StackInit DEF TypeInv

LEMMA TypeStep == TypeInv /\ [Next]_vars => TypeInv'
BY StackStep, RestStep DEF TypeInv, RestType

LEMMA TypeInvariant == Spec => []TypeInv
<1> QED
  BY TypeInit, TypeStep, PTL DEF Spec

\* Every variable has its type, whatever is interleaved, fails or dies
\* (lib.rs:265-497, run_task).
THEOREM TypeCorrect == Spec => []TypeOK
<1> QED
  BY TypeInvariant, TypeInvImpliesTypeOK, PTL

\* No run nests deeper than its root's budget (principal.rs:4-7, 49-53).
THEOREM NestingIsBounded == Spec => []NestingBounded
<1>1. TypeInv => NestingBounded
  <2> SUFFICES ASSUME TypeInv, NEW p \in Proc, stack[p] # <<>>
               PROVE  Len(stack[p]) <= 1 + stack[p][1].ctx.depth
    BY DEF NestingBounded
  <2> DEFINE n == Len(stack[p])
  <2>1. stack[p] \in Seq(Frame) /\ Lineage(p, stack[p])
    BY DEF TypeInv, StackInv
  <2>2. n \in Nat /\ n \in 1..n /\ 1 \in 1..n
    BY <2>1, NonEmpty
  <2>3. \A f \in Frame : f.ctx.depth \in Nat
    <3>1. \A c \in Context : c.depth \in 0..MAX_SUBAGENT_DEPTH
      BY DEF Context
    <3>2. \A f \in Frame : f.ctx \in Context
      BY DEF Frame
    <3> QED
      BY <3>1, <3>2, Bounds
  <2>4. stack[p][n].ctx.depth \in Nat /\ stack[p][1].ctx.depth \in Nat
    BY <2>1, <2>2, <2>3, ElementOfSeq
  <2>5. stack[p][n].ctx.depth + n = stack[p][1].ctx.depth + 1
    BY <2>1, <2>2 DEF Lineage
  <2>6. \A a, b, c \in Nat : a + b = c + 1 => b <= 1 + c
    OBVIOUS
  <2> HIDE DEF n
  <2> QED
    BY <2>2, <2>4, <2>5, <2>6 DEF n
<1> QED
  BY <1>1, TypeInvariant, PTL

\* A tool that needs approval runs only under its root's authority, however
\* many subagents are between them (principal.rs:86-96).
THEOREM SideEffectsAreAuthorised == Spec => []SideEffectsAuthorised
<1>1. TypeInv => SideEffectsAuthorised
  <2> SUFFICES ASSUME TypeInv, NEW p \in Proc, At(p, "tool"),
                      approval_required(Top(p).call)
               PROVE  RootMay(stack[p][1].ctx, Top(p).call)
    BY DEF SideEffectsAuthorised, RootMay
  <2>1. stack[p] # <<>> /\ Where(Top(p)) = "tool"
    BY DEF At, Where
  <2> QED
    BY <2>1, AtTop DEF Authorised, TypeInv
<1> QED
  BY <1>1, TypeInvariant, PTL

\* Subagents aside, a frame is its process's root, so one that acts as an
\* operator is the only frame of an operator's process.
LEMMA OperatorIsRoot ==
  ASSUME StackInv, NEW p \in Proc, stack[p] # <<>>,
         Top(p).ctx.principal = "operator"
  PROVE  /\ p \in Operators
         /\ Len(stack[p]) = 1
         /\ Len(stack[p]) <= 1
         /\ stack[p][1].ctx.principal = "operator"
         /\ Top(p).ctx \in {operator(b) : b \in BOOLEAN}
<1>1. stack[p] \in Seq(Frame) /\ Lineage(p, stack[p])
  BY DEF StackInv
<1>2. Len(stack[p]) \in Nat /\ Len(stack[p]) >= 1
  BY <1>1, NonEmpty
<1>3. Len(stack[p]) \notin 2..Len(stack[p])
  BY <1>1 DEF Lineage, Top
<1>4. Len(stack[p]) = 1
  <2>1. \A k \in Nat : k >= 1 /\ k \notin 2..k => k = 1
    OBVIOUS
  <2> QED
    BY <1>2, <1>3, <2>1
<1>5. stack[p][1].ctx \in RootContext(p) /\ Top(p).ctx = stack[p][1].ctx
  BY <1>1, <1>4 DEF Lineage, Top
<1>6. \A a \in AllowLists : remote(a).principal = "remote"
  BY DEF remote
<1>7. p \in Operators
  BY <1>5, <1>6 DEF RootContext
<1>8. Top(p).ctx \in {operator(b) : b \in BOOLEAN}
  BY <1>5, <1>7 DEF RootContext
<1>9. Len(stack[p]) <= 1
  BY <1>4
<1> QED
  BY <1>4, <1>5, <1>7, <1>8, <1>9

\* No step changes the skills but a run or a command of an operator, and no
\* subagent of one (principal.rs:98-108, lib.rs:317-357, 530-603).
THEOREM OperatorsWriteSkills == Spec => SkillsWrittenByOperators
<1> DEFINE Claim ==
      skills' # skills =>
        \E p \in Operators :
          /\ stack'[p] # stack[p]
          /\ Len(stack[p]) <= 1
          /\ stack[p] # <<>> => stack[p][1].ctx.principal = "operator"
<1>1. ASSUME TypeInv, NEW p \in Proc, stack[p] # <<>>, NEW f \in Frame,
             f.pc # Top(p).pc, Replaces(p, f)
      PROVE  stack'[p] # stack[p]
  <2>1. stack[p] \in Seq(Frame)
    BY <1>1 DEF TypeInv, StackInv
  <2>2. stack'[p] = [stack[p] EXCEPT ![Len(stack[p])] = f]
    BY <1>1 DEF Replaces, Goto, TypeInv, StackInv
  <2>3. stack'[p][Len(stack[p])] = f
    BY <1>1, <2>1, <2>2, ReplaceTop
  <2> QED
    BY <1>1, <2>3 DEF Top
<1>2. ASSUME TypeInv, [Next]_vars PROVE Claim
  <2> SUFFICES ASSUME skills' # skills
               PROVE  \E p \in Operators :
                        /\ stack'[p] # stack[p]
                        /\ Len(stack[p]) <= 1
                        /\ stack[p] # <<>> => stack[p][1].ctx.principal = "operator"
    OBVIOUS
  <2>1. PICK p \in Proc :
          \/ \E n \in Name : ActivateCommand(p, n)
          \/ Activate(p)
          \/ Create(p)
    BY <1>2, Cases DEF Start, Quiet, AuditOk, Kill, Begin, Recall, ActText, ActTool,
       ActSubagent, StepLimit, AuditFails, RunTool, Answer, Learn, Done, Abort, vars
  <2>2. ASSUME NEW n \in Name, ActivateCommand(p, n)
        PROVE  p \in Operators /\ stack'[p] # stack[p] /\ stack[p] = <<>>
    <3>1. \E f \in Frame : Begins(p, f)
      BY <1>2, <2>2, ActivateCommandForm DEF TypeInv
    <3>2. \E f : stack'[p] = <<f>>
      BY <1>2, <3>1 DEF Begins, TypeInv, StackInv
    <3>3. stack[p] = <<>> /\ p \in Operators
      BY <2>2 DEF ActivateCommand
    <3> QED
      BY <3>2, <3>3
  <2>3. CASE Activate(p)
    <3>1. stack[p] # <<>> /\ Top(p).pc = "activate"
      BY <2>3 DEF Activate, At
    <3>2. FrameInv(Top(p))
      BY <1>2, <3>1, AtTop DEF TypeInv
    <3>3. Top(p).ctx.principal = "operator"
      BY <3>1, <3>2 DEF FrameInv, Where, may_auto_activate_skill
    <3>4. PICK f \in Frame : Advances(p, f) /\ f.pc = "log"
      <4>1. Top(p) \in Frame /\ Top(p).task \in Task /\ Own(p) \in AuditKey
        BY <1>2, <3>1, AtTop DEF TypeInv
      <4>2. "recall" \in Label /\ "skill.activate" \in AuditAction /\ Keeps(Top(p), Top(p))
        BY DEF Label, AuditAction, Keeps
      <4> DEFINE f == Logging(Top(p), "skill.activate", Own(p), "recall")
      <4>3. Goto(p, f) /\ f = Logging(Top(p), "skill.activate", Own(p), "recall")
        BY <2>3 DEF Activate
      <4>4. f.pc = "log"
        BY <4>1 DEF Logging, Frame
      <4> HIDE DEF f
      <4>5. f \in Frame /\ Advances(p, f)
        BY <1>2, <3>1, <4>1, <4>2, <4>3, LogForm DEF TypeInv
      <4> QED
        BY <4>4, <4>5
    <3>5. stack'[p] # stack[p]
      BY <1>1, <1>2, <3>1, <3>4 DEF Advances
    <3>6. p \in Operators /\ Len(stack[p]) <= 1
          /\ stack[p][1].ctx.principal = "operator"
      BY <1>2, <3>1, <3>3, OperatorIsRoot DEF TypeInv
    <3> QED
      BY <3>5, <3>6, Zenon
  <2>4. CASE Create(p)
    <3>1. stack[p] # <<>> /\ Top(p).pc = "create"
      BY <2>4 DEF Create, At
    <3>2. FrameInv(Top(p))
      BY <1>2, <3>1, AtTop DEF TypeInv
    <3>3. Top(p).ctx.principal = "operator"
      BY <3>1, <3>2 DEF FrameInv, Where, may_persist
    <3>4. \E f \in Frame : Creates(p, f)
      BY <1>2, <2>4, CreateForm DEF TypeInv
    <3>5. stack'[p] # stack[p]
      BY <1>1, <1>2, <3>1, <3>4 DEF Creates
    <3>6. p \in Operators /\ Len(stack[p]) <= 1
          /\ stack[p][1].ctx.principal = "operator"
      BY <1>2, <3>1, <3>3, OperatorIsRoot DEF TypeInv
    <3> QED
      BY <3>5, <3>6, Zenon
  <2> QED
    BY <2>1, <2>2, <2>3, <2>4
<1>3. TypeInv /\ [Next]_vars => [Claim]_vars
  BY <1>2
<1>4. SkillsWrittenByOperators <=> [][Claim]_vars
  BY DEF SkillsWrittenByOperators
<1> HIDE DEF Claim
<1> QED
  BY <1>3, <1>4, TypeInvariant, PTL DEF Spec
-----------------------------------------------------------------------------
(* Nothing runs unrecorded.  The frames below the last one were spawned by *)
(* calls on record, and so was the tool that the last one is executing.    *)

Steps(s, n) == [k \in 1..n |-> s[k].steps]

Spawned(p, s, r, log) ==
  \A i \in 1..(Len(s) - 1) :
    \E e \in log : /\ e.action = "subagent.spawn"
                   /\ e.id = [by |-> p, run |-> r, path |-> Steps(s, i)]

Dispatched(p, s, r, log) ==
  s # <<>> /\ s[Len(s)].pc = "tool" =>
    [id |-> [by |-> p, run |-> r, path |-> Steps(s, Len(s))],
     action |-> "tool", key |-> s[Len(s)].call,
     principal |-> audit_label(s)] \in log

FramesRecorded ==
  \A p \in Proc : /\ Spawned(p, stack[p], runs[p], trail)
                  /\ Dispatched(p, stack[p], runs[p], trail)

EffectsRecorded ==
  \A e \in effects :
    [id |-> e.id, action |-> "tool", key |-> e.tool,
     principal |-> e.principal] \in trail

RecordInv == FramesRecorded /\ EffectsRecorded

LEMMA SpawnedPrefix ==
  ASSUME NEW p, NEW r, NEW s, NEW t, NEW n \in Nat, NEW log, NEW log2,
         Spawned(p, s, r, log), log \subseteq log2,
         Len(s) \in Nat, Len(t) \in Nat, Len(t) <= n + 1, n + 1 <= Len(s),
         \A k \in 1..n : t[k].steps = s[k].steps
  PROVE  Spawned(p, t, r, log2)
<1> SUFFICES ASSUME NEW i \in 1..(Len(t) - 1)
             PROVE  \E e \in log2 :
                      /\ e.action = "subagent.spawn"
                      /\ e.id = [by |-> p, run |-> r, path |-> Steps(t, i)]
  BY DEF Spawned
<1>1. i \in 1..(Len(s) - 1) /\ 1..i \subseteq 1..n
  OBVIOUS
<1>2. Steps(t, i) = Steps(s, i)
  BY <1>1 DEF Steps
<1> QED
  BY <1>1, <1>2 DEF Spawned

LEMMA SetRecorded ==
  ASSUME StackInv, RecordInv, NEW p \in Proc, NEW t,
         stack' = [stack EXCEPT ![p] = t],
         trail \subseteq trail',
         \A q \in Proc : q # p => runs'[q] = runs[q],
         Spawned(p, t, runs'[p], trail'),
         Dispatched(p, t, runs'[p], trail')
  PROVE  FramesRecorded'
<1> SUFFICES ASSUME NEW q \in Proc
             PROVE  /\ Spawned(q, stack'[q], runs'[q], trail')
                    /\ Dispatched(q, stack'[q], runs'[q], trail')
  BY DEF FramesRecorded
<1>1. CASE q = p
  <2>1. stack'[p] = t
    BY DEF StackInv
  <2> QED
    BY <1>1, <2>1
<1>2. CASE q # p
  <2>1. stack'[q] = stack[q] /\ runs'[q] = runs[q]
    BY <1>2 DEF StackInv
  <2>2. Spawned(q, stack[q], runs[q], trail) /\ Dispatched(q, stack[q], runs[q], trail)
    BY DEF RecordInv, FramesRecorded
  <2>3. Spawned(q, stack[q], runs[q], trail')
    BY <2>2 DEF Spawned
  <2>4. Dispatched(q, stack[q], runs[q], trail')
    BY <2>2 DEF Dispatched
  <2> QED
    BY <2>1, <2>3, <2>4
<1> QED
  BY <1>1, <1>2

LEMMA ReplacesRecorded ==
  ASSUME StackInv, RecordInv, NEW p \in Proc, stack[p] # <<>>,
         NEW f \in Frame, Replaces(p, f), f.pc # "tool",
         runs' = runs, trail \subseteq trail'
  PROVE  FramesRecorded'
<1> DEFINE n == Len(stack[p])
           t == [stack[p] EXCEPT ![n] = f]
<1>1. stack[p] \in Seq(Frame) /\ n \in Nat /\ n >= 1
  BY NonEmpty DEF StackInv
<1>2. /\ t \in Seq(Frame) /\ Len(t) = n /\ t[n] = f
      /\ \A i \in 1..n : i # n => t[i] = stack[p][i]
  BY <1>1, ReplaceTop
<1>3. stack' = [stack EXCEPT ![p] = t]
  BY DEF Replaces, Goto, StackInv
<1> HIDE DEF t
<1>4. \A k \in 1..(n - 1) : t[k].steps = stack[p][k].steps
  BY <1>1, <1>2
<1>5. Spawned(p, stack[p], runs[p], trail)
  BY DEF RecordInv, FramesRecorded
<1>6. /\ n - 1 \in Nat /\ Len(t) \in Nat
      /\ Len(t) <= (n - 1) + 1 /\ (n - 1) + 1 <= Len(stack[p])
  BY <1>1, <1>2
<1>7. Spawned(p, t, runs[p], trail')
  <2>1. \A m \in Nat : /\ Len(t) <= m + 1 /\ m + 1 <= Len(stack[p])
                       /\ \A k \in 1..m : t[k].steps = stack[p][k].steps
                       => Spawned(p, t, runs[p], trail')
    BY <1>1, <1>5, <1>6, SpawnedPrefix
  <2> QED
    BY <1>4, <1>6, <2>1
<1>8. Dispatched(p, t, runs[p], trail')
  BY <1>2 DEF Dispatched
<1> QED
  BY <1>3, <1>7, <1>8, SetRecorded

LEMMA ReturnRecorded ==
  ASSUME StackInv, RecordInv, NEW p \in Proc, stack[p] # <<>>, Return(p),
         runs' = runs, trail \subseteq trail'
  PROVE  FramesRecorded'
<1> DEFINE n == Len(stack[p]) - 1
           t == Popped(stack[p])
<1>1. stack[p] \in Seq(Frame) /\ n \in Nat /\ Len(stack[p]) = n + 1
  BY NonEmpty DEF StackInv
<1>2. /\ t \in Seq(Frame) /\ Len(t) = n
      /\ n # 0 => t[n] = [stack[p][n] EXCEPT !.pc = "act"] /\ stack[p][n] \in Frame
      /\ \A i \in 1..n : i # n => t[i] = stack[p][i]
  <2>1. n # 0 => n \in 1..Len(stack[p]) /\ Len(stack[p]) # 1
    <3> HIDE DEF n, t
    <3> QED
      BY <1>1
  <2>2. n # 0 => stack[p][n] \in Frame
    BY <1>1, <2>1, ElementOfSeq
  <2> QED
    BY <1>1, <2>1, <2>2, PoppedFrames
<1>3. stack' = [stack EXCEPT ![p] = t]
  BY DEF Return
<1> HIDE DEF t, n
<1>4. \A k \in 1..n : t[k].steps = stack[p][k].steps
  <2>1. n # 0 => t[n].steps = stack[p][n].steps
    BY <1>2, Redirected
  <2>2. \A k \in 1..n : n # 0
    BY <1>1
  <2> QED
    BY <1>2, <2>1, <2>2
<1>5. Spawned(p, stack[p], runs[p], trail)
  BY DEF RecordInv, FramesRecorded
<1>6. Len(t) \in Nat /\ Len(t) <= n + 1 /\ n + 1 <= Len(stack[p]) /\ Len(stack[p]) \in Nat
  BY <1>1, <1>2
<1>7. Spawned(p, t, runs[p], trail')
  BY <1>1, <1>4, <1>5, <1>6, SpawnedPrefix
<1>8. Dispatched(p, t, runs[p], trail')
  <2>1. t # <<>> => n # 0
    BY <1>2, EmptySeq
  <2>2. n # 0 => t[n].pc = "act"
    BY <1>2, Redirected
  <2> QED
    BY <1>2, <2>1, <2>2 DEF Dispatched
<1> QED
  BY <1>3, <1>7, <1>8, SetRecorded

LEMMA CallIdSteps ==
  ASSUME NEW p
  PROVE  CallId(p) = [by |-> p, run |-> runs[p],
                      path |-> Steps(stack[p], Len(stack[p]))]
BY DEF CallId, Steps

LEMMA BeginsRecorded ==
  ASSUME StackInv, RecordInv, NEW p \in Proc,
         NEW f \in Frame, Begins(p, f), f.pc # "tool",
         trail' = trail, \A q \in Proc : q # p => runs'[q] = runs[q]
  PROVE  FramesRecorded'
<1> DEFINE t == <<f>>
<1>1. Len(t) = 1 /\ t[1] = f /\ 1..(1 - 1) = {}
  OBVIOUS
<1>2. stack' = [stack EXCEPT ![p] = t]
  BY DEF Begins
<1> HIDE DEF t
<1>3. Spawned(p, t, runs'[p], trail') /\ Dispatched(p, t, runs'[p], trail')
  BY <1>1 DEF Spawned, Dispatched
<1> QED
  BY <1>2, <1>3, SetRecorded

LEMMA DiesRecorded ==
  ASSUME StackInv, RecordInv, NEW p \in Proc, Dies(p),
         runs' = runs, trail \subseteq trail'
  PROVE  FramesRecorded'
<1>1. 1..(Len(<<>>) - 1) = {}
  OBVIOUS
<1>2. Spawned(p, <<>>, runs'[p], trail') /\ Dispatched(p, <<>>, runs'[p], trail')
  BY <1>1 DEF Spawned, Dispatched
<1> QED
  BY <1>2, SetRecorded DEF Dies

\* The record is written before the tool runs or the subagent starts.
LEMMA AuditOkRecorded ==
  ASSUME StackInv, RecordInv, NEW p \in Proc, AuditOk(p)
  PROVE  FramesRecorded'
<1> DEFINE n == Len(stack[p])
<1>1. stack[p] # <<>> /\ Top(p).pc = "log" /\ runs' = runs
      /\ trail' = trail \cup {Record(p)}
  BY DEF AuditOk, At
<1>2. stack[p] \in Seq(Frame) /\ n \in Nat /\ n >= 1 /\ n \in 1..n
  BY <1>1, NonEmpty DEF StackInv
<1>3. PICK f \in Frame :
        /\ Recorded(p, f)
        /\ f.pc # "log"
        /\ IF f.pc = "waiting" THEN Spawns(p, f) ELSE Replaces(p, f)
  BY AuditOkForm
<1>4. FrameInv(Top(p)) /\ Top(p) = stack[p][n]
  BY <1>1, AtTop
<1>5. CASE f.pc # "waiting" /\ f.pc # "tool"
  <2>1. trail \subseteq trail' /\ Replaces(p, f)
    BY <1>1, <1>3, <1>5
  <2> QED
    BY <1>1, <1>5, <2>1, ReplacesRecorded
<1> DEFINE s == [stack[p] EXCEPT ![n] = f]
<1>6. /\ s \in Seq(Frame) /\ Len(s) = n /\ s # <<>> /\ s[n] = f
      /\ \A i \in 1..n : i # n => s[i] = stack[p][i]
  BY <1>1, <1>2, ReplaceTop
<1> HIDE DEF s
<1>7. \A k \in 1..n : s[k].steps = stack[p][k].steps
  BY <1>3, <1>4, <1>6 DEF Recorded
<1>8. \A i \in 1..n : Steps(s, i) = Steps(stack[p], i)
  <2> SUFFICES ASSUME NEW i \in 1..n PROVE Steps(s, i) = Steps(stack[p], i)
    OBVIOUS
  <2>1. 1..i \subseteq 1..n
    BY <1>2
  <2> QED
    BY <1>7, <2>1 DEF Steps
<1>9. Spawned(p, stack[p], runs[p], trail)
  BY DEF RecordInv, FramesRecorded
<1>10. Spawned(p, s, runs[p], trail')
  <2> SUFFICES ASSUME NEW i \in 1..(Len(s) - 1)
               PROVE  \E e \in trail' :
                        /\ e.action = "subagent.spawn"
                        /\ e.id = [by |-> p, run |-> runs[p], path |-> Steps(s, i)]
    BY DEF Spawned
  <2>1. i \in 1..(n - 1) /\ i \in 1..n
    BY <1>2, <1>6
  <2> QED
    BY <1>1, <1>8, <1>9, <2>1 DEF Spawned
<1>11. Record(p).id = [by |-> p, run |-> runs[p], path |-> Steps(s, n)]
  BY <1>2, <1>8, CallIdSteps DEF Record
<1>12. CASE f.pc = "tool"
  <2>1. Replaces(p, f)
    BY <1>3, <1>12
  <2>2. stack' = [stack EXCEPT ![p] = s]
    BY <2>1 DEF Replaces, Goto, StackInv, s
  <2>3. Top(p).then = "tool"
    BY <1>3, <1>12 DEF Recorded
  <2>4. Top(p).event = [action |-> "tool", key |-> f.call]
    BY <1>1, <1>3, <1>4, <2>3 DEF FrameInv, Recorded
  <2>5. audit_label(s) = audit_label(stack[p])
    <3>1. s[1].ctx = stack[p][1].ctx
      BY <1>2, <1>3, <1>4, <1>6 DEF Recorded
    <3> QED
      BY <1>6, <3>1 DEF audit_label
  <2>6. Record(p) = [id |-> [by |-> p, run |-> runs[p], path |-> Steps(s, n)],
                     action |-> "tool", key |-> f.call,
                     principal |-> audit_label(s)]
    BY <1>11, <2>4, <2>5 DEF Record
  <2>7. Dispatched(p, s, runs[p], trail')
    BY <1>1, <1>6, <2>6 DEF Dispatched
  <2> QED
    BY <1>1, <1>10, <2>2, <2>7, SetRecorded
<1>13. CASE f.pc = "waiting"
  <2> DEFINE g == NewFrame(subagent_of(f.ctx), f.call)
             t == Append(s, g)
  <2>1. Spawns(p, f)
    BY <1>3, <1>13
  <2>2. stack' = [stack EXCEPT ![p] = t]
    BY <2>1 DEF Spawns, s
  <2>3. Top(p).then = "waiting"
    BY <1>3, <1>13 DEF Recorded
  <2>4. Record(p).action = "subagent.spawn"
    BY <1>1, <1>4, <2>3 DEF FrameInv, Record
  <2>5. f.ctx \in Context /\ FrameInv(f) /\ Where(f) = "waiting"
    BY <1>13, <2>1 DEF Spawns, Successor, Frame, Where
  <2>6. f.ctx.depth # 0 /\ f.call \in Task
    BY <2>5 DEF FrameInv
  <2>7. g \in Frame /\ g.pc = "begin"
    BY <2>5, <2>6, SubagentContext, NewFrameType
  <2> HIDE DEF g
  <2>8. t \in Seq(Frame) /\ Len(t) = n + 1 /\ t[n + 1] = g
        /\ \A i \in 1..n : t[i] = s[i]
    BY <1>2, <1>6, <2>7
  <2> HIDE DEF t
  <2>9. Spawned(p, t, runs[p], trail')
    <3> SUFFICES ASSUME NEW i \in 1..(Len(t) - 1)
                 PROVE  \E e \in trail' :
                          /\ e.action = "subagent.spawn"
                          /\ e.id = [by |-> p, run |-> runs[p], path |-> Steps(t, i)]
      BY DEF Spawned
    <3>1. i \in 1..n /\ 1..i \subseteq 1..n
      BY <1>2, <2>8
    <3>2. Steps(t, i) = Steps(s, i)
      BY <2>8, <3>1 DEF Steps
    <3>3. CASE i = n
      BY <1>1, <1>11, <2>4, <3>2, <3>3
    <3>4. CASE i # n
      <4>1. i \in 1..(Len(s) - 1)
        BY <1>2, <1>6, <3>1, <3>4
      <4> QED
        BY <1>10, <3>2, <4>1 DEF Spawned
    <3> QED
      BY <3>3, <3>4
  <2>10. Dispatched(p, t, runs[p], trail')
    BY <2>7, <2>8 DEF Dispatched
  <2>11. trail \subseteq trail'
    BY <1>1
  <2> QED
    BY <1>1, <2>2, <2>9, <2>10, <2>11, SetRecorded
<1> QED
  BY <1>5, <1>12, <1>13

LEMMA QuietRecorded ==
  ASSUME TypeInv, RecordInv, NEW p \in Proc, Quiet(p)
  PROVE  RecordInv'
<1>1. stack[p] # <<>> /\ (Return(p) \/ \E f \in Frame : Advances(p, f))
  BY QuietForm DEF TypeInv, RestType
<1>2. runs' = runs /\ trail \subseteq trail'
  BY DEF Quiet, Begin, Activate, Recall, ActText, ActTool, ActSubagent, StepLimit,
         AuditFails, RunTool, Answer, Learn, Done, Abort
<1>3. FramesRecorded'
  BY <1>1, <1>2, ReturnRecorded, ReplacesRecorded DEF Advances, TypeInv
<1>4. CASE RunTool(p)
  <2>1. stack[p] # <<>> /\ Top(p).pc = "tool"
    BY <1>4 DEF RunTool, At
  <2>2. [id |-> CallId(p), action |-> "tool", key |-> Top(p).call,
         principal |-> audit_label(stack[p])] \in trail
    BY <2>1, CallIdSteps DEF RecordInv, FramesRecorded, Dispatched, Top
  <2>3. \/ effects' = effects
        \/ effects' = effects \cup {[id |-> CallId(p), tool |-> Top(p).call,
                                     principal |-> audit_label(stack[p])]}
    BY <1>4 DEF RunTool
  <2> QED
    BY <1>2, <1>3, <2>2, <2>3 DEF RecordInv, EffectsRecorded
<1>5. CASE ~RunTool(p)
  <2>1. effects' = effects
    BY <1>5 DEF Quiet, Begin, Activate, Recall, ActText, ActTool, ActSubagent,
                StepLimit, AuditFails, Answer, Learn, Done, Abort
  <2> QED
    BY <1>2, <1>3, <2>1 DEF RecordInv, EffectsRecorded
<1> QED
  BY <1>4, <1>5

LEMMA RecordStep == TypeInv /\ RecordInv /\ [Next]_vars => RecordInv'
<1> SUFFICES ASSUME TypeInv, RecordInv, [Next]_vars PROVE RecordInv'
  OBVIOUS
<1> USE DEF TypeInv
<1>1. CASE UNCHANGED vars
  BY <1>1 DEF vars, RecordInv, FramesRecorded, EffectsRecorded
<1>2. ASSUME NEW p \in Proc, NEW ctx \in RootContext(p), NEW task \in Task,
             Start(p, ctx, task)
      PROVE  RecordInv'
  <2>1. \E f \in Frame : Begins(p, f) /\ f.pc = "begin"
    BY <1>2, StartForm
  <2>2. /\ trail' = trail /\ effects' = effects
        /\ \A q \in Proc : q # p => runs'[q] = runs[q]
    BY <1>2 DEF Start, RestType
  <2>3. FramesRecorded'
    BY <2>1, <2>2, BeginsRecorded
  <2> QED
    BY <2>2, <2>3 DEF RecordInv, EffectsRecorded
<1>3. ASSUME NEW p \in Proc, NEW n \in Name, ActivateCommand(p, n)
      PROVE  RecordInv'
  <2>1. \E f \in Frame : Begins(p, f) /\ f.pc = "log"
    BY <1>3, ActivateCommandForm
  <2>2. /\ trail' = trail /\ effects' = effects
        /\ \A q \in Proc : q # p => runs'[q] = runs[q]
    BY <1>3 DEF ActivateCommand, RestType
  <2>3. FramesRecorded'
    BY <2>1, <2>2, BeginsRecorded
  <2> QED
    BY <2>2, <2>3 DEF RecordInv, EffectsRecorded
<1>4. ASSUME NEW p \in Proc, Quiet(p) PROVE RecordInv'
  BY <1>4, QuietRecorded
<1>5. ASSUME NEW p \in Proc, Create(p) PROVE RecordInv'
  <2>1. /\ stack[p] # <<>> /\ runs' = runs /\ trail' = trail /\ effects' = effects
    BY <1>5 DEF Create, At
  <2>2. Return(p) \/ \E f \in Frame : Replaces(p, f) /\ f.pc = "log"
    BY <1>5, CreateForm DEF Creates
  <2>3. FramesRecorded'
    BY <2>1, <2>2, ReturnRecorded, ReplacesRecorded
  <2> QED
    BY <2>1, <2>3 DEF RecordInv, EffectsRecorded
<1>6. ASSUME NEW p \in Proc, AuditOk(p) PROVE RecordInv'
  <2>1. trail \subseteq trail' /\ effects' = effects
    BY <1>6 DEF AuditOk
  <2>2. FramesRecorded'
    BY <1>6, AuditOkRecorded
  <2> QED
    BY <2>1, <2>2 DEF RecordInv, EffectsRecorded
<1>7. ASSUME NEW p \in Proc, Kill(p) PROVE RecordInv'
  <2>1. Dies(p) /\ runs' = runs /\ trail \subseteq trail' /\ effects' = effects
    BY <1>7 DEF Kill, Dies
  <2>2. FramesRecorded'
    BY <2>1, DiesRecorded
  <2> QED
    BY <2>1, <2>2 DEF RecordInv, EffectsRecorded
<1> QED
  BY <1>1, <1>2, <1>3, <1>4, <1>5, <1>6, <1>7, Cases

LEMMA RecordInit == Init => RecordInv
<1> SUFFICES ASSUME Init PROVE RecordInv
  OBVIOUS
<1>1. 1..(Len(<<>>) - 1) = {}
  OBVIOUS
<1>2. \A p \in Proc : \A r, log : Spawned(p, <<>>, r, log) /\ Dispatched(p, <<>>, r, log)
  BY <1>1 DEF Spawned, Dispatched
<1>3. \A p \in Proc : stack[p] = <<>>
  BY DEF Init
<1>4. effects = {}
  BY DEF Init
<1> QED
  BY <1>2, <1>3, <1>4 DEF RecordInv, FramesRecorded, EffectsRecorded

\* Every tool execution and every running subagent has its own record on
\* disk, whatever failed or died since (lib.rs:424-428, 467-473).
THEOREM DispatchesAreRecorded == Spec => []DispatchesRecorded
<1>1. TypeInv /\ RecordInv => DispatchesRecorded
  <2> SUFFICES ASSUME TypeInv, RecordInv PROVE DispatchesRecorded
    OBVIOUS
  <2>1. ASSUME NEW p \in Proc, NEW i \in 2..Len(stack[p])
        PROVE  \E r \in trail :
                 /\ r.action = "subagent.spawn"
                 /\ r.id = [by |-> p, run |-> runs[p],
                            path |-> SubSeq(CallId(p).path, 1, i - 1)]
    <3> DEFINE n == Len(stack[p])
               path == CallId(p).path
    <3>1. n \in Nat /\ i - 1 \in 1..(n - 1) /\ i - 1 \in 0..n /\ i - 1 \in Nat
          /\ 1..(i - 1) \subseteq 1..n
      BY DEF TypeInv, StackInv
    <3>2. path = Steps(stack[p], n) /\ path \in Seq(0..MAX_TOOL_STEPS)
      <4>1. CallId(p) \in CallIds
        BY CallIdType DEF TypeInv, RestType
      <4> QED
        BY <4>1, CallIdSteps DEF CallIds
    <3>3. Len(path) = n
      <4> HIDE DEF path, n
      <4>1. DOMAIN path = 1..n
        BY <3>2 DEF Steps
      <4> QED
        BY <3>1, <3>2, <4>1
    <3> HIDE DEF path, n
    <3>4. SubSeq(path, 1, i - 1) = Steps(stack[p], i - 1)
      <4> DEFINE u == SubSeq(path, 1, i - 1)
      <4>1. /\ u \in Seq(0..MAX_TOOL_STEPS) /\ Len(u) = i - 1
            /\ \A k \in 1..(i - 1) : u[k] = path[k]
        <5>1. \A m \in 0..Len(path) :
                /\ SubSeq(path, 1, m) \in Seq(0..MAX_TOOL_STEPS)
                /\ Len(SubSeq(path, 1, m)) = m
                /\ \A k \in 1..m : SubSeq(path, 1, m)[k] = path[k]
          <6>1. \A S : \A q \in Seq(S) : \A m \in 0..Len(q) :
                  /\ SubSeq(q, 1, m) \in Seq(S)
                  /\ Len(SubSeq(q, 1, m)) = m
                  /\ \A k \in 1..m : SubSeq(q, 1, m)[k] = q[k]
            BY Prefix, Zenon
          <6> QED
            BY <3>2, <6>1, Zenon
        <5>2. i - 1 \in 0..Len(path)
          BY <3>1, <3>3
        <5> QED
          BY <5>1, <5>2, Zenon
      <4> HIDE DEF u
      <4>2. \A k \in 1..(i - 1) : u[k] = stack[p][k].steps
        BY <3>1, <3>2, <4>1 DEF Steps
      <4>3. u = [k \in 1..(i - 1) |-> u[k]]
        BY <4>1
      <4>4. u = Steps(stack[p], i - 1)
        BY <4>2, <4>3 DEF Steps
      <4> QED
        BY <4>4 DEF u
    <3>5. \E e \in trail :
            /\ e.action = "subagent.spawn"
            /\ e.id = [by |-> p, run |-> runs[p], path |-> Steps(stack[p], i - 1)]
      BY <3>1 DEF RecordInv, FramesRecorded, Spawned, n
    <3> QED
      BY <3>4, <3>5 DEF path
  <2> QED
    BY <2>1 DEF DispatchesRecorded, RecordInv, EffectsRecorded
<1>2. Spec => []RecordInv
  BY RecordInit, RecordStep, TypeInvariant, PTL DEF Spec
<1> QED
  BY <1>1, <1>2, TypeInvariant, PTL
-----------------------------------------------------------------------------
(* The table of skills.  A body never changes once it is there, and what   *)
(* is active was consented to, so that what a frame has injected and what  *)
(* a skill.create record says stay true while others run.                  *)

ActiveApproved ==
  \A n \in Name : /\ skills[n].status = "active" =>
                       <<n, skills[n].body>> \in approved
                  /\ ~Exists(n) => skills[n].body = {}

Injected(table, f) ==
  f.reused # NoSkill => /\ f.reused \in Name
                        /\ table[f.reused].status = "active"
                        /\ f.injected = table[f.reused].body

\* A body of skill n that run r of process p drafted.
DraftedBy(table, n, p, r) ==
  n \in Name /\ \E b \in table[n].body : b.by = p /\ b.run = r

\* The frames of p in its run r, which may be about to record a draft.
FramesSound(table, p, s, r) ==
  /\ \A i \in 1..Len(s) : Injected(table, s[i])
  /\ s # <<>> /\ s[Len(s)].pc = "log" /\ s[Len(s)].event.action = "skill.create" =>
       DraftedBy(table, s[Len(s)].event.key, p, r)

CreationsRecorded ==
  \A e \in trail : e.action = "skill.create" =>
    DraftedBy(skills, e.key, e.id.by, e.id.run)

SkillInv ==
  /\ ActiveApproved
  /\ \A p \in Proc : FramesSound(skills, p, stack[p], runs[p])
  /\ CreationsRecorded

\* What a step may do to the table.
Grows ==
  /\ \A n \in Name : /\ skills[n].status = "active" => skills'[n].status = "active"
                     /\ Exists(n) => skills'[n].body = skills[n].body
  /\ ActiveApproved'

LEMMA ActivationGrows ==
  ASSUME TypeInv, ActiveApproved, NEW n \in Name,
         skills' = [skills EXCEPT ![n].status = "active", ![n].provenance = "trusted"],
         approved' = approved \cup {<<n, skills[n].body>>}
  PROVE  Grows
<1>1. \A m \in Name :
        /\ skills'[m].body = skills[m].body
        /\ skills'[m].status = IF m = n THEN "active" ELSE skills[m].status
  BY ActivatedType DEF TypeInv, RestType
<1>2. ASSUME NEW m \in Name
      PROVE  /\ skills'[m].status = "active" => <<m, skills'[m].body>> \in approved'
             /\ skills'[m].status = "absent" => skills'[m].body = {}
             /\ skills[m].status = "active" => skills'[m].status = "active"
  <2>1. CASE m = n
    <3>1. skills'[m].status = "active" /\ skills'[m].body = skills[n].body
      BY <1>1, <2>1
    <3>2. <<m, skills'[m].body>> \in approved'
      BY <2>1, <3>1
    <3> QED
      BY <3>1, <3>2
  <2>2. CASE m # n
    <3>1. skills'[m].status = skills[m].status /\ skills'[m].body = skills[m].body
      BY <1>1, <2>2
    <3>2. /\ skills[m].status = "active" => <<m, skills[m].body>> \in approved'
          /\ skills[m].status = "absent" => skills[m].body = {}
      BY DEF ActiveApproved, Exists
    <3> QED
      BY <3>1, <3>2, Zenon
  <2> QED
    BY <2>1, <2>2
<1>3. ActiveApproved'
  BY <1>2 DEF ActiveApproved, Exists
<1> QED
  BY <1>1, <1>2, <1>3 DEF Grows

LEMMA SameGrows ==
  ASSUME ActiveApproved, skills' = skills, approved' = approved
  PROVE  Grows
BY DEF Grows, ActiveApproved, Exists

LEMMA TableGrows ==
  ASSUME TypeInv, ActiveApproved, [Next]_vars
  PROVE  Grows
<1>1. CASE UNCHANGED vars
  BY <1>1, SameGrows DEF vars
<1>2. ASSUME NEW p \in Proc, NEW n \in Name, ActivateCommand(p, n)
      PROVE  Grows
  BY <1>2, ActivationGrows DEF ActivateCommand
<1>3. ASSUME NEW p \in Proc, Activate(p) PROVE Grows
  <2>1. stack[p] # <<>> /\ Top(p).pc = "activate"
    BY <1>3 DEF Activate, At
  <2>2. Own(p) \in Name /\ FrameInv(Top(p))
    BY <2>1, AtTop DEF TypeInv
  <2>3. Top(p).ctx.principal = "operator" /\ Top(p).ctx.auto_approve
    BY <2>1, <2>2 DEF FrameInv, Where, may_auto_activate_skill
  <2>4. Len(stack[p]) = 1 /\ Top(p).ctx \in {operator(b) : b \in BOOLEAN}
    BY <2>1, <2>3, OperatorIsRoot DEF TypeInv
  <2>5. ~operator(FALSE).auto_approve
    BY DEF operator
  <2>6. Top(p).ctx = operator(TRUE)
    BY <2>3, <2>4, <2>5
  <2>7. /\ skills' = [skills EXCEPT ![Own(p)].status = "active",
                                    ![Own(p)].provenance = "trusted"]
        /\ approved' = approved \cup {<<Own(p), skills[Own(p)].body>>}
    BY <1>3, <2>4, <2>6 DEF Activate
  <2> QED
    BY <2>2, <2>7, ActivationGrows
<1>4. ASSUME NEW p \in Proc, Create(p) PROVE Grows
  <2>1. CASE skills' = skills
    BY <1>4, <2>1, SameGrows DEF Create
  <2>2. CASE skills' # skills
    <3>1. At(p, "create") /\ Drafts(p)
      BY <1>4, <2>2, CreateForm DEF Create, TypeInv
    <3>2. /\ Own(p) \in Name /\ ~Exists(Own(p))
          /\ skills'[Own(p)].status = "draft"
          /\ \A m \in Name : m # Own(p) => skills'[m] = skills[m]
      BY <3>1, CreatedType
    <3>3. approved' = approved
      BY <1>4 DEF Create
    <3>4. ASSUME NEW m \in Name
          PROVE  /\ skills'[m].status = "active" => <<m, skills'[m].body>> \in approved'
                 /\ skills'[m].status = "absent" => skills'[m].body = {}
                 /\ skills[m].status = "active" => skills'[m].status = "active"
                 /\ Exists(m) => skills'[m].body = skills[m].body
      <4>1. CASE m = Own(p)
        BY <3>2, <4>1 DEF Exists
      <4>2. CASE m # Own(p)
        <5>1. skills'[m] = skills[m]
          BY <3>2, <4>2
        <5> QED
          BY <3>3, <5>1 DEF ActiveApproved, Exists
      <4> QED
        BY <4>1, <4>2
    <3>5. ActiveApproved'
      BY <3>4 DEF ActiveApproved, Exists
    <3> QED
      BY <3>4, <3>5 DEF Grows
  <2> QED
    BY <2>1, <2>2
<1>5. ASSUME NEW p \in Proc,
             \/ \E ctx \in RootContext(p), task \in Task : Start(p, ctx, task)
             \/ Quiet(p) /\ ~Activate(p)
             \/ AuditOk(p)
             \/ Kill(p)
      PROVE  Grows
  <2>1. skills' = skills /\ approved' = approved
    BY <1>5 DEF Start, Quiet, AuditOk, Kill, Begin, Recall, ActText, ActTool,
       ActSubagent, StepLimit, AuditFails, RunTool, Answer, Learn, Done, Abort
  <2> QED
    BY <2>1, SameGrows
<1> QED
  BY <1>1, <1>2, <1>3, <1>4, <1>5, Cases

\* What held of the old table holds of the new one.
LEMMA InjectedStays ==
  ASSUME Grows, NEW f, Injected(skills, f)
  PROVE  Injected(skills', f)
BY DEF Grows, Injected, Exists

LEMMA DraftStays ==
  ASSUME Grows, ActiveApproved, NEW n, NEW p, NEW r, DraftedBy(skills, n, p, r)
  PROVE  DraftedBy(skills', n, p, r)
<1>1. n \in Name /\ skills[n].body # {}
  BY DEF DraftedBy
<1>2. Exists(n)
  BY <1>1 DEF ActiveApproved
<1>3. skills'[n].body = skills[n].body
  BY <1>1, <1>2 DEF Grows
<1> QED
  BY <1>1, <1>3 DEF DraftedBy

LEMMA FramesStay ==
  ASSUME Grows, ActiveApproved, NEW p, NEW s, NEW r, FramesSound(skills, p, s, r)
  PROVE  FramesSound(skills', p, s, r)
BY InjectedStays, DraftStays DEF FramesSound

LEMMA SetSound ==
  ASSUME StackInv, SkillInv, Grows, NEW p \in Proc, NEW t,
         stack' = [stack EXCEPT ![p] = t],
         \A q \in Proc : q # p => runs'[q] = runs[q],
         FramesSound(skills', p, t, runs'[p])
  PROVE  \A q \in Proc : FramesSound(skills', q, stack'[q], runs'[q])
<1> SUFFICES ASSUME NEW q \in Proc
             PROVE  FramesSound(skills', q, stack'[q], runs'[q])
  OBVIOUS
<1>1. CASE q = p
  <2>1. stack'[p] = t
    BY DEF StackInv
  <2> QED
    BY <1>1, <2>1
<1>2. CASE q # p
  <2>1. stack'[q] = stack[q] /\ runs'[q] = runs[q]
    BY <1>2 DEF StackInv
  <2>2. FramesSound(skills, q, stack[q], runs[q])
    BY DEF SkillInv
  <2>3. FramesSound(skills', q, stack[q], runs[q])
    BY <2>2, FramesStay DEF SkillInv
  <2> QED
    BY <2>1, <2>3
<1> QED
  BY <1>1, <1>2

LEMMA ReplacesSound ==
  ASSUME StackInv, SkillInv, Grows, NEW p \in Proc, stack[p] # <<>>, runs' = runs,
         NEW f \in Frame, Replaces(p, f), Injected(skills', f),
         f.pc = "log" /\ f.event.action = "skill.create" =>
           DraftedBy(skills', f.event.key, p, runs[p])
  PROVE  \A q \in Proc : FramesSound(skills', q, stack'[q], runs'[q])
<1> DEFINE n == Len(stack[p])
           t == [stack[p] EXCEPT ![n] = f]
<1>1. stack[p] \in Seq(Frame) /\ n \in Nat
  BY NonEmpty DEF StackInv
<1>2. /\ t \in Seq(Frame) /\ Len(t) = n /\ t[n] = f
      /\ \A i \in 1..n : i # n => t[i] = stack[p][i]
  BY <1>1, ReplaceTop
<1>3. stack' = [stack EXCEPT ![p] = t]
  BY DEF Replaces, Goto, StackInv
<1> HIDE DEF t
<1>4. \A i \in 1..n : Injected(skills', stack[p][i])
  <2>1. \A i \in 1..n : Injected(skills, stack[p][i])
    BY DEF SkillInv, FramesSound
  <2> QED
    BY <2>1, InjectedStays
<1>5. \A i \in 1..n : Injected(skills', t[i])
  BY <1>2, <1>4
<1>6. FramesSound(skills', p, t, runs[p])
  BY <1>2, <1>5 DEF FramesSound
<1> QED
  BY <1>3, <1>6, SetSound

LEMMA ReturnSound ==
  ASSUME StackInv, SkillInv, Grows, NEW p \in Proc, stack[p] # <<>>, runs' = runs,
         Return(p)
  PROVE  \A q \in Proc : FramesSound(skills', q, stack'[q], runs'[q])
<1> DEFINE n == Len(stack[p]) - 1
           t == Popped(stack[p])
<1>1. stack[p] \in Seq(Frame) /\ n \in Nat /\ Len(stack[p]) = n + 1
  BY NonEmpty DEF StackInv
<1>2. stack' = [stack EXCEPT ![p] = t]
  BY DEF Return
<1>3. n # 0 => n \in 1..Len(stack[p]) /\ Len(stack[p]) # 1
  <2> HIDE DEF n, t
  <2> QED
    BY <1>1
<1>4. n # 0 => stack[p][n] \in Frame
  BY <1>1, <1>3, ElementOfSeq
<1>5. /\ t \in Seq(Frame) /\ Len(t) = n
      /\ n # 0 => t[n] = [stack[p][n] EXCEPT !.pc = "act"]
      /\ \A i \in 1..n : i # n => t[i] = stack[p][i]
  BY <1>1, <1>3, PoppedFrames
<1> HIDE DEF t, n
<1>6. \A i \in 1..n : Injected(skills', stack[p][i])
  <2>1. \A i \in 1..n : Injected(skills, stack[p][i])
    BY <1>1 DEF SkillInv, FramesSound
  <2> QED
    BY <2>1, InjectedStays
<1>7. \A i \in 1..n : n # 0 /\ n \in 1..n
  BY <1>1
<1>8. n # 0 => t[n].pc = "act" /\ t[n].reused = stack[p][n].reused
               /\ t[n].injected = stack[p][n].injected
  BY <1>4, <1>5, Redirected
<1>9. \A i \in 1..n : Injected(skills', t[i])
  <2> SUFFICES ASSUME NEW i \in 1..n PROVE Injected(skills', t[i])
    OBVIOUS
  <2>1. CASE i = n
    BY <1>6, <1>7, <1>8, <2>1 DEF Injected
  <2>2. CASE i # n
    BY <1>5, <1>6, <2>2
  <2> QED
    BY <2>1, <2>2
<1>10. t # <<>> => t[Len(t)].pc = "act"
  BY <1>5, <1>8, EmptySeq
<1>11. FramesSound(skills', p, t, runs[p])
  BY <1>5, <1>9, <1>10 DEF FramesSound
<1> QED
  BY <1>2, <1>11, SetSound

LEMMA SpawnsSound ==
  ASSUME StackInv, SkillInv, Grows, NEW p \in Proc, stack[p] # <<>>, runs' = runs,
         NEW f \in Frame, Spawns(p, f), Injected(skills', f)
  PROVE  \A q \in Proc : FramesSound(skills', q, stack'[q], runs'[q])
<1> DEFINE n == Len(stack[p])
           s == [stack[p] EXCEPT ![n] = f]
           g == NewFrame(subagent_of(f.ctx), f.call)
           t == Append(s, g)
<1>1. stack[p] \in Seq(Frame) /\ n \in Nat /\ n >= 1
  BY NonEmpty DEF StackInv
<1>2. /\ s \in Seq(Frame) /\ Len(s) = n /\ s[n] = f
      /\ \A i \in 1..n : i # n => s[i] = stack[p][i]
  BY <1>1, ReplaceTop
<1>3. stack' = [stack EXCEPT ![p] = t]
  BY DEF Spawns
<1>4. f.ctx \in Context /\ FrameInv(f) /\ Where(f) = "waiting"
  BY DEF Spawns, Successor, Frame, Where
<1>5. f.ctx.depth # 0 /\ f.call \in Task
  BY <1>4 DEF FrameInv
<1>6. g \in Frame /\ g.pc = "begin"
  BY <1>4, <1>5, SubagentContext, NewFrameType
<1>7. g.reused = NoSkill
  BY DEF NewFrame
<1> HIDE DEF s, g
<1>8. t \in Seq(Frame) /\ Len(t) = n + 1 /\ t[n + 1] = g
      /\ \A i \in 1..n : t[i] = s[i]
  BY <1>1, <1>2, <1>6
<1> HIDE DEF t
<1>9. \A i \in 1..n : Injected(skills', stack[p][i])
  <2>1. \A i \in 1..n : Injected(skills, stack[p][i])
    BY DEF SkillInv, FramesSound
  <2> QED
    BY <2>1, InjectedStays
<1>10. \A i \in 1..n : Injected(skills', t[i])
  BY <1>2, <1>8, <1>9
<1>11. Injected(skills', t[n + 1])
  BY <1>7, <1>8 DEF Injected
<1>12. \A i \in 1..Len(t) : Injected(skills', t[i])
  <2>1. \A i \in 1..(n + 1) : i \in 1..n \/ i = n + 1
    BY <1>1
  <2> QED
    BY <1>8, <1>10, <1>11, <2>1
<1>13. FramesSound(skills', p, t, runs[p])
  BY <1>6, <1>8, <1>12 DEF FramesSound
<1> QED
  BY <1>3, <1>13, SetSound

LEMMA BeginsSound ==
  ASSUME StackInv, SkillInv, Grows, NEW p \in Proc,
         \A q \in Proc : q # p => runs'[q] = runs[q],
         NEW f \in Frame, Begins(p, f), f.reused = NoSkill,
         f.pc = "log" => f.event.action # "skill.create"
  PROVE  \A q \in Proc : FramesSound(skills', q, stack'[q], runs'[q])
<1> DEFINE t == <<f>>
<1>1. Len(t) = 1 /\ t[1] = f /\ 1..1 = {1}
  OBVIOUS
<1>2. stack' = [stack EXCEPT ![p] = t]
  BY DEF Begins
<1> HIDE DEF t
<1>3. FramesSound(skills', p, t, runs'[p])
  BY <1>1 DEF FramesSound, Injected
<1> QED
  BY <1>2, <1>3, SetSound

LEMMA DiesSound ==
  ASSUME StackInv, SkillInv, Grows, NEW p \in Proc, Dies(p), runs' = runs
  PROVE  \A q \in Proc : FramesSound(skills', q, stack'[q], runs'[q])
<1>1. 1..Len(<<>>) = {}
  OBVIOUS
<1>2. FramesSound(skills', p, <<>>, runs'[p])
  BY <1>1 DEF FramesSound
<1> QED
  BY <1>2, SetSound DEF Dies

LEMMA TopSound ==
  ASSUME StackInv, SkillInv, NEW p \in Proc, stack[p] # <<>>
  PROVE  /\ Injected(skills, Top(p))
         /\ Top(p).pc = "log" /\ Top(p).event.action = "skill.create" =>
              DraftedBy(skills, Top(p).event.key, p, runs[p])
<1>1. stack[p] \in Seq(Frame) /\ Len(stack[p]) \in 1..Len(stack[p])
  BY NonEmpty DEF StackInv
<1> QED
  BY <1>1 DEF SkillInv, FramesSound, Top

LEMMA CreationsStay ==
  ASSUME StackInv, SkillInv, Grows, NEW p \in Proc,
         \/ trail' = trail
         \/ At(p, "log") /\ trail' = trail \cup {Record(p)}
  PROVE  CreationsRecorded'
<1> SUFFICES ASSUME NEW e \in trail', e.action = "skill.create"
             PROVE  DraftedBy(skills', e.key, e.id.by, e.id.run)
  BY DEF CreationsRecorded
<1>1. CASE e \in trail
  <2>1. DraftedBy(skills, e.key, e.id.by, e.id.run)
    BY <1>1 DEF SkillInv, CreationsRecorded
  <2> QED
    BY <2>1, DraftStays DEF SkillInv
<1>2. CASE e \notin trail
  <2>1. At(p, "log") /\ e = Record(p)
    BY <1>2
  <2>2. stack[p] # <<>> /\ Top(p).pc = "log"
    BY <2>1 DEF At
  <2>3. /\ e.action = Top(p).event.action /\ e.key = Top(p).event.key
        /\ e.id = CallId(p)
    BY <2>1 DEF Record
  <2>4. e.id.by = p /\ e.id.run = runs[p]
    BY <2>3 DEF CallId
  <2>5. DraftedBy(skills, e.key, p, runs[p])
    BY <2>2, <2>3, TopSound
  <2> QED
    BY <2>4, <2>5, DraftStays DEF SkillInv
<1> QED
  BY <1>1, <1>2

LEMMA QuietSound ==
  ASSUME TypeInv, SkillInv, Grows, NEW p \in Proc, Quiet(p)
  PROVE  \A q \in Proc : FramesSound(skills', q, stack'[q], runs'[q])
<1>1. stack[p] # <<>> /\ (Return(p) \/ \E f \in Frame : Advances(p, f))
  BY QuietForm DEF TypeInv, RestType
<1>2. runs' = runs
  BY DEF Quiet, Begin, Activate, Recall, ActText, ActTool, ActSubagent, StepLimit,
         AuditFails, RunTool, Answer, Learn, Done, Abort
<1>3. CASE Return(p)
  BY <1>1, <1>2, <1>3, ReturnSound DEF TypeInv
<1>4. ASSUME NEW f \in Frame, Advances(p, f)
      PROVE  \A q \in Proc : FramesSound(skills', q, stack'[q], runs'[q])
  <2>1. Injected(skills, f)
    <3>1. Injected(skills, Top(p))
      BY <1>1, TopSound DEF TypeInv
    <3> QED
      BY <1>4, <3>1 DEF Advances, Injected
  <2>2. Injected(skills', f)
    BY <2>1, InjectedStays
  <2>3. Replaces(p, f) /\ ~(f.pc = "log" /\ f.event.action = "skill.create")
    BY <1>4 DEF Advances
  <2> QED
    BY <1>1, <1>2, <2>2, <2>3, ReplacesSound DEF TypeInv
<1> QED
  BY <1>1, <1>3, <1>4

LEMMA SkillStep == TypeInv /\ SkillInv /\ [Next]_vars => SkillInv'
<1> SUFFICES ASSUME TypeInv, SkillInv, [Next]_vars PROVE SkillInv'
  OBVIOUS
<1>1. Grows /\ ActiveApproved' /\ StackInv
  BY TableGrows DEF SkillInv, Grows, TypeInv
<1>2. SUFFICES /\ \A q \in Proc : FramesSound(skills', q, stack'[q], runs'[q])
               /\ CreationsRecorded'
  BY <1>1 DEF SkillInv
<1>3. CASE UNCHANGED vars
  BY <1>3 DEF vars, SkillInv, CreationsRecorded
<1>4. ASSUME NEW p \in Proc, NEW ctx \in RootContext(p), NEW task \in Task,
             Start(p, ctx, task)
      PROVE  /\ \A q \in Proc : FramesSound(skills', q, stack'[q], runs'[q])
             /\ CreationsRecorded'
  <2>1. \E f \in Frame : Begins(p, f) /\ f.pc = "begin" /\ f.reused = NoSkill
    BY <1>1, <1>4, StartForm
  <2>2. trail' = trail /\ \A q \in Proc : q # p => runs'[q] = runs[q]
    BY <1>4 DEF Start, TypeInv, RestType
  <2> QED
    BY <1>1, <2>1, <2>2, BeginsSound, CreationsStay
<1>5. ASSUME NEW p \in Proc, NEW n \in Name, ActivateCommand(p, n)
      PROVE  /\ \A q \in Proc : FramesSound(skills', q, stack'[q], runs'[q])
             /\ CreationsRecorded'
  <2>1. PICK f \in Frame : /\ Begins(p, f)
                           /\ f.event.action = "skill.activate"
                           /\ f.reused = NoSkill
    BY <1>1, <1>5, ActivateCommandForm
  <2>2. trail' = trail /\ \A q \in Proc : q # p => runs'[q] = runs[q]
    BY <1>5 DEF ActivateCommand, TypeInv, RestType
  <2>3. f.event.action # "skill.create"
    BY <2>1
  <2> QED
    BY <1>1, <2>1, <2>2, <2>3, BeginsSound, CreationsStay
<1>6. ASSUME NEW p \in Proc, Quiet(p)
      PROVE  /\ \A q \in Proc : FramesSound(skills', q, stack'[q], runs'[q])
             /\ CreationsRecorded'
  <2>1. \/ trail' = trail
        \/ At(p, "log") /\ trail' = trail \cup {Record(p)}
    BY <1>6 DEF Quiet, Begin, Activate, Recall, ActText, ActTool, ActSubagent,
                StepLimit, AuditFails, RunTool, Answer, Learn, Done, Abort
  <2> QED
    BY <1>1, <1>6, <2>1, QuietSound, CreationsStay
<1>7. ASSUME NEW p \in Proc, Create(p)
      PROVE  /\ \A q \in Proc : FramesSound(skills', q, stack'[q], runs'[q])
             /\ CreationsRecorded'
  <2>1. stack[p] # <<>> /\ At(p, "create") /\ runs' = runs /\ trail' = trail
    BY <1>7 DEF Create, At
  <2>2. CASE Return(p)
    BY <1>1, <2>1, <2>2, ReturnSound, CreationsStay
  <2>3. ASSUME Drafts(p), NEW f \in Frame, Creates(p, f)
        PROVE  \A q \in Proc : FramesSound(skills', q, stack'[q], runs'[q])
    <3>1. Injected(skills', f)
      <4>1. Injected(skills, Top(p))
        BY <1>1, <2>1, TopSound
      <4>2. Injected(skills, f)
        BY <2>3, <4>1 DEF Creates, Injected
      <4> QED
        BY <1>1, <4>2, InjectedStays
    <3>2. DraftedBy(skills', Own(p), p, runs[p])
      <4>1. /\ Own(p) \in Name
            /\ [by |-> p, run |-> runs[p], task |-> Top(p).task]
                 \in skills'[Own(p)].body
        BY <2>1, <2>3, CreatedType
      <4> QED
        BY <4>1 DEF DraftedBy
    <3>3. Replaces(p, f) /\ f.event.key = Own(p)
      BY <2>3 DEF Creates
    <3> QED
      BY <1>1, <2>1, <3>1, <3>2, <3>3, ReplacesSound
  <2> QED
    BY <1>1, <1>7, <2>1, <2>2, <2>3, CreateForm, CreationsStay
<1>8. ASSUME NEW p \in Proc, AuditOk(p)
      PROVE  /\ \A q \in Proc : FramesSound(skills', q, stack'[q], runs'[q])
             /\ CreationsRecorded'
  <2>1. stack[p] # <<>> /\ At(p, "log") /\ runs' = runs
        /\ trail' = trail \cup {Record(p)}
    BY <1>8 DEF AuditOk, At
  <2>2. PICK f \in Frame :
          /\ Recorded(p, f)
          /\ f.pc # "log"
          /\ IF f.pc = "waiting" THEN Spawns(p, f) ELSE Replaces(p, f)
    BY <1>1, <1>8, AuditOkForm
  <2>3. Injected(skills', f)
    <3>1. Injected(skills, Top(p))
      BY <1>1, <2>1, TopSound
    <3>2. Injected(skills, f)
      BY <2>2, <3>1 DEF Recorded, Injected
    <3> QED
      BY <1>1, <3>2, InjectedStays
  <2>4. \A q \in Proc : FramesSound(skills', q, stack'[q], runs'[q])
    BY <1>1, <2>1, <2>2, <2>3, SpawnsSound, ReplacesSound
  <2> QED
    BY <1>1, <2>1, <2>4, CreationsStay
<1>9. ASSUME NEW p \in Proc, Kill(p)
      PROVE  /\ \A q \in Proc : FramesSound(skills', q, stack'[q], runs'[q])
             /\ CreationsRecorded'
  <2>1. Dies(p) /\ runs' = runs
    BY <1>9 DEF Kill, Dies
  <2>2. \/ trail' = trail
        \/ At(p, "log") /\ trail' = trail \cup {Record(p)}
    BY <1>9 DEF Kill
  <2> QED
    BY <1>1, <2>1, <2>2, DiesSound, CreationsStay
<1> QED
  BY <1>3, <1>4, <1>5, <1>6, <1>7, <1>8, <1>9, Cases

LEMMA SkillInit == Init => SkillInv
<1> SUFFICES ASSUME Init PROVE SkillInv
  OBVIOUS
<1>1. ActiveApproved
  BY DEF Init, ActiveApproved, Absent, Exists
<1>2. 1..Len(<<>>) = {}
  OBVIOUS
<1>3. \A p \in Proc : FramesSound(skills, p, <<>>, runs[p])
  BY <1>2 DEF FramesSound
<1>4. \A p \in Proc : stack[p] = <<>>
  BY DEF Init
<1>5. CreationsRecorded
  BY DEF Init, CreationsRecorded
<1> QED
  BY <1>1, <1>3, <1>4, <1>5 DEF SkillInv

LEMMA SkillInvariant == Spec => []SkillInv
<1> QED
  BY SkillInit, SkillStep, TypeInvariant, PTL DEF Spec

\* What a run reads from an injected skill is what an operator consented to
\* under that name, and is still in the table (lib.rs:317-384).
THEOREM InjectionsAreApproved == Spec => []InjectedApproved
<1>1. TypeInv /\ SkillInv => InjectedApproved
  <2> SUFFICES ASSUME TypeInv, SkillInv, NEW p \in Proc,
                      NEW i \in 1..Len(stack[p]), stack[p][i].reused # NoSkill
               PROVE  /\ <<stack[p][i].reused, stack[p][i].injected>> \in approved
                      /\ stack[p][i].injected = skills[stack[p][i].reused].body
    BY DEF InjectedApproved
  <2>1. Injected(skills, stack[p][i])
    BY DEF SkillInv, FramesSound
  <2> QED
    BY <2>1 DEF Injected, SkillInv, ActiveApproved
<1> QED
  BY <1>1, TypeInvariant, SkillInvariant, PTL

\* A skill.create record names a row that the recording run drafted, though
\* processes race to draft the same name (lib.rs:530-603).
THEOREM CreationsAreTruthful == Spec => []CreationsTruthful
<1>1. SkillInv => CreationsTruthful
  BY DEF SkillInv, CreationsRecorded, DraftedBy, CreationsTruthful
<1> QED
  BY <1>1, SkillInvariant, PTL
=============================================================================
