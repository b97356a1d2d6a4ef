--------------------------- MODULE ProtocolProofs ---------------------------
(***************************************************************************)
(* Theorems about the two protocols that a run speaks, for every length of   *)
(* a run and every value of the bounds: the messages API of the model        *)
(* (Dialogue) and, to an MCP server, JSON-RPC over two pipes (McpClient).    *)
(* What translate has put out is known by induction over its loop.           *)
(***************************************************************************)
EXTENDS DeliveryProofs, NaturalsInduction, WellFoundedInduction

(* The requests of a dialogue.                                             *)

\* A message in OpenAI's format, and a context in which every call is followed
\* by its result.
Message == [role : {"system", "user", "assistant", "tool"}, id : Nat,
            content : {"text", "preamble", "recap", "call"}]

Called(m) == m.role = "assistant" /\ m.id # 0

Answered(ms) ==
  /\ ms \in Seq(Message)
  /\ \A i \in 1..Len(ms) :
       Called(ms[i]) => i < Len(ms) /\ ms[i + 1].role = "tool" /\ ms[i + 1].id = ms[i].id

\* What push_block makes of such a context, message by message: the roles take
\* turns, each call but the one just pushed has its result, and of the last
\* message's blocks the last one is the call.
Block == [type : {"tool_result", "tool_use", "text"}, id : Nat]

Pushed == [role : {"user", "assistant"}, blocks : Seq(Block)]

HasCall(m) == \E i \in 1..Len(m.blocks) : m.blocks[i].type = "tool_use"

Result(c) == [type |-> "tool_result", id |-> c]

TakesTurns(o) ==
  /\ o \in Seq(Pushed)
  /\ \A i \in 1..Len(o) :
       /\ o[i].blocks # <<>>
       /\ HasCall(o[i]) => o[i].role = "assistant"
       /\ i < Len(o) => o[i].role # o[i + 1].role
       /\ i < Len(o) /\ HasCall(o[i]) =>
            o[i + 1].blocks[1] = Result(o[i].blocks[Len(o[i].blocks)].id)

Open(o) == o # <<>> /\ HasCall(o[Len(o)])

OpenFor(o, c) == o[Len(o)].blocks[Len(o[Len(o)].blocks)].id = c

\* One more block.
LEMMA LongerMessage ==
  ASSUME NEW m \in Pushed, NEW b \in Block, m.blocks # <<>>
  PROVE  LET n == [m EXCEPT !.blocks = Append(@, b)]
         IN /\ n \in Pushed /\ n.role = m.role /\ n.blocks # <<>>
            /\ n.blocks[1] = m.blocks[1] /\ n.blocks[Len(n.blocks)] = b
            /\ HasCall(n) <=> HasCall(m) \/ b.type = "tool_use"
<1> DEFINE n == [m EXCEPT !.blocks = Append(@, b)]
           s == m.blocks
           t == Append(s, b)
<1>1. s \in Seq(Block) /\ m.role \in {"user", "assistant"}
  BY DEF Pushed
<1>2. n = [role |-> m.role, blocks |-> t] /\ n.role = m.role /\ n.blocks = t
  <2>1. m = [role |-> m.role, blocks |-> s]
    BY DEF Pushed
  <2> HIDE DEF s
  <2>2. n = [[role |-> m.role, blocks |-> s] EXCEPT !.blocks = t]
    BY <2>1
  <2> DEFINE who == m.role
  <2> HIDE DEF t, who
  <2>3. [[role |-> who, blocks |-> s] EXCEPT !.blocks = t] = [role |-> who, blocks |-> t]
    OBVIOUS
  <2>4. n = [role |-> who, blocks |-> t]
    BY <2>2, <2>3 DEF who
  <2> HIDE DEF n
  <2> QED
    BY <2>4 DEF who
<1> HIDE DEF n, s
<1>3. /\ t \in Seq(Block) /\ Len(t) = Len(s) + 1 /\ Len(s) \in Nat /\ t[Len(s) + 1] = b
      /\ \A i \in 1..Len(s) : t[i] = s[i]
  BY <1>1
<1>4. s # <<>> => Len(s) > 0
  BY <1>1
<1> HIDE DEF t
<1>5. t # <<>> /\ (s # <<>> => t[1] = s[1]) /\ t[Len(t)] = b
  BY <1>3, <1>4
<1>6. HasCall(n) <=> \E i \in 1..Len(t) : t[i].type = "tool_use"
  BY <1>2 DEF HasCall
<1>7. HasCall(m) <=> \E i \in 1..Len(s) : s[i].type = "tool_use"
  BY DEF HasCall, s
<1>8. HasCall(n) => HasCall(m) \/ b.type = "tool_use"
  <2> SUFFICES ASSUME NEW i \in 1..Len(t), t[i].type = "tool_use", b.type # "tool_use"
               PROVE  HasCall(m)
    BY <1>6
  <2>1. i \in 1..Len(s)
    BY <1>3
  <2> QED
    BY <1>3, <1>7, <2>1
<1>9. HasCall(m) \/ b.type = "tool_use" => HasCall(n)
  <2>1. \A i \in 1..Len(s) : i \in 1..Len(t)
    BY <1>3
  <2>2. Len(s) + 1 \in 1..Len(t)
    BY <1>3
  <2> QED
    BY <1>3, <1>6, <1>7, <2>1, <2>2
<1>10. n \in Pushed
  BY <1>1, <1>2, <1>3 DEF Pushed
<1> QED
  BY <1>2, <1>5, <1>8, <1>9, <1>10 DEF n, s

\* A block of its own.
LEMMA NewMessage ==
  ASSUME NEW who \in {"user", "assistant"}, NEW b \in Block
  PROVE  LET n == [role |-> who, blocks |-> <<b>>]
         IN /\ n \in Pushed /\ n.role = who /\ n.blocks # <<>>
            /\ n.blocks[1] = b /\ n.blocks[Len(n.blocks)] = b
            /\ HasCall(n) <=> b.type = "tool_use"
<1> DEFINE n == [role |-> who, blocks |-> <<b>>]
<1>1. n \in Pushed /\ n.role = who /\ n.blocks = <<b>> /\ Len(<<b>>) = 1 /\ <<b>>[1] = b
  BY DEF Pushed
<1>2. <<b>> # <<>>
  OBVIOUS
<1> HIDE DEF n
<1>3. HasCall(n) <=> \E i \in 1..1 : <<b>>[i].type = "tool_use"
  BY <1>1 DEF HasCall
<1>4. HasCall(n) <=> b.type = "tool_use"
  BY <1>1, <1>3
<1> QED
  BY <1>1, <1>2, <1>4 DEF n

\* A block is pushed; one that is pushed while a call is open is its result.
LEMMA PushTakesTurns ==
  ASSUME NEW o, TakesTurns(o), NEW who \in {"user", "assistant"}, NEW b \in Block,
         b.type = "tool_use" => who = "assistant",
         Open(o) => who = "user" /\ b.type = "tool_result" /\ OpenFor(o, b.id)
  PROVE  LET p == Dia!push_block(o, who, b)
         IN TakesTurns(p) /\ (Open(p) <=> b.type = "tool_use") /\ OpenFor(p, b.id)
<1> DEFINE p == Dia!push_block(o, who, b)
           N == Len(o)
           joins == o # <<>> /\ o[N].role = who
<1>1. /\ o \in Seq(Pushed) /\ N \in Nat
      /\ o # <<>> => N > 0 /\ o[N] \in Pushed /\ N \in 1..N
      /\ \A i \in 1..N : o[i] \in Pushed
  BY DEF TakesTurns
<1>2. CASE joins
  <2> DEFINE n == [o[N] EXCEPT !.blocks = Append(@, b)]
  <2>1. p = [o EXCEPT ![N] = n]
    BY <1>2 DEF Dia!push_block, Dia!Last
  <2>2. o[N] \in Pushed /\ o[N].blocks # <<>> /\ N \in 1..N /\ N > 0
    BY <1>1, <1>2 DEF TakesTurns
  <2>3. /\ n \in Pushed /\ n.role = o[N].role /\ n.blocks # <<>>
        /\ n.blocks[1] = o[N].blocks[1] /\ n.blocks[Len(n.blocks)] = b
        /\ HasCall(n) <=> HasCall(o[N]) \/ b.type = "tool_use"
    BY <2>2, LongerMessage
  <2>4. ~HasCall(o[N])
    <3> SUFFICES ASSUME HasCall(o[N]) PROVE FALSE
      OBVIOUS
    <3>1. who = "user"
      BY <1>2 DEF Open
    <3>2. o[N].role = "assistant"
      BY <2>2 DEF TakesTurns
    <3> QED
      BY <1>2, <3>1, <3>2
  <2> HIDE DEF n
  <2>5. /\ p \in Seq(Pushed) /\ Len(p) = N /\ p[N] = n
        /\ \A i \in 1..N : i # N => p[i] = o[i]
    BY <1>1, <2>1, <2>2, <2>3
  <2> HIDE DEF p
  <2>6. ASSUME NEW i \in 1..N
        PROVE  /\ p[i].blocks # <<>>
               /\ HasCall(p[i]) => p[i].role = "assistant"
               /\ i < N => p[i].role # p[i + 1].role
               /\ i < N /\ HasCall(p[i]) =>
                    p[i + 1].blocks[1] = Result(p[i].blocks[Len(p[i].blocks)].id)
    <3>1. CASE i = N
      BY <1>2, <2>2, <2>3, <2>4, <2>5, <3>1
    <3>2. CASE i < N
      <4>1. i + 1 \in 1..N /\ p[i] = o[i]
        BY <1>1, <2>5, <3>2
      <4>2. p[i + 1].role = o[i + 1].role /\ p[i + 1].blocks[1] = o[i + 1].blocks[1]
        BY <2>3, <2>5, <4>1
      <4> QED
        BY <3>2, <4>1, <4>2 DEF TakesTurns
    <3> QED
      BY <1>1, <3>1, <3>2
  <2>7. TakesTurns(p)
    BY <2>5, <2>6 DEF TakesTurns
  <2>8. p # <<>>
    BY <2>2, <2>5
  <2> QED
    BY <2>3, <2>4, <2>5, <2>7, <2>8 DEF Open, OpenFor, p
<1>3. CASE ~joins
  <2> DEFINE n == [role |-> who, blocks |-> <<b>>]
  <2>1. p = Append(o, n)
    BY <1>3 DEF Dia!push_block, Dia!Last
  <2>3. /\ n \in Pushed /\ n.role = who /\ n.blocks # <<>>
        /\ n.blocks[1] = b /\ n.blocks[Len(n.blocks)] = b
        /\ HasCall(n) <=> b.type = "tool_use"
    BY NewMessage
  <2> HIDE DEF n
  <2>5. /\ p \in Seq(Pushed) /\ Len(p) = N + 1 /\ p[N + 1] = n
        /\ \A i \in 1..N : p[i] = o[i]
    BY <1>1, <2>1, <2>3
  <2> HIDE DEF p
  <2>6. ASSUME NEW i \in 1..N + 1
        PROVE  /\ p[i].blocks # <<>>
               /\ HasCall(p[i]) => p[i].role = "assistant"
               /\ i < N + 1 => p[i].role # p[i + 1].role
               /\ i < N + 1 /\ HasCall(p[i]) =>
                    p[i + 1].blocks[1] = Result(p[i].blocks[Len(p[i].blocks)].id)
    <3>1. CASE i = N + 1
      BY <2>3, <2>5, <3>1
    <3>2. CASE i = N
      <4>1. o # <<>> /\ i \in 1..N /\ p[i] = o[N] /\ p[i + 1] = n
        BY <1>1, <2>5, <3>2
      <4>2. o[N].role # who
        BY <1>3, <4>1
      <4>3. o[N].blocks # <<>> /\ (HasCall(o[N]) => o[N].role = "assistant")
        BY <3>2, <4>1 DEF TakesTurns
      <4>4. HasCall(o[N]) => b.type = "tool_result" /\ b.id = o[N].blocks[Len(o[N].blocks)].id
        BY <4>1 DEF Open, OpenFor
      <4>5. b.type = "tool_result" => b = Result(b.id)
        BY DEF Block, Result
      <4> QED
        BY <2>3, <3>2, <4>1, <4>2, <4>3, <4>4, <4>5
    <3>3. CASE i < N
      <4>1. i \in 1..N /\ i + 1 \in 1..N /\ p[i] = o[i] /\ p[i + 1] = o[i + 1]
        BY <1>1, <2>5, <3>3
      <4> QED
        BY <3>3, <4>1 DEF TakesTurns
    <3> QED
      BY <1>1, <3>1, <3>2, <3>3
  <2>7. TakesTurns(p)
    BY <2>5, <2>6 DEF TakesTurns
  <2>8. p # <<>>
    BY <1>1, <2>5
  <2> QED
    BY <2>3, <2>5, <2>7, <2>8 DEF Open, OpenFor, p
<1> QED
  BY <1>2, <1>3
-----------------------------------------------------------------------------
(* The loop of translate: what holds of its output message by message.     *)

\* Induction over the natural numbers, with a set for the predicate.
LEMMA InductionOverNat ==
  ASSUME NEW S \in SUBSET Nat, 0 \in S, \A n \in S : n + 1 \in S
  PROVE  S = Nat
<1> DEFINE R == OpToRel(<, Nat)
<1>1. IsWellFoundedOn(R, Nat)
  BY NatLessThanWellFounded
<1> SUFFICES ASSUME Nat \ S # {} PROVE FALSE
  OBVIOUS
<1>2. Nat \ S \subseteq Nat
  OBVIOUS
<1> HIDE DEF R
<1>3. PICK x \in Nat \ S : \A y \in Nat \ S : ~(<<y, x>> \in R)
  BY <1>1, <1>2, WFMin
<1>4. x # 0 /\ x - 1 \in Nat \ S
  BY <1>3
<1>5. <<x - 1, x>> \in R
  BY <1>4 DEF R, OpToRel
<1> QED
  BY <1>3, <1>4, <1>5

\* What one message does to the output.
PutOut(o, m) ==
  IF m.role = "system" THEN o ELSE Dia!push_block(o, Dia!speaker(m), Dia!block(m))

\* There is such a function: each of its values follows from the one before.
LEMMA OutsExist ==
  ASSUME NEW ms, NEW n \in Nat
  PROVE  \E f : f = [k \in 0..n |-> IF k = 0 THEN <<>> ELSE PutOut(f[k - 1], ms[k])]
<1> DEFINE Is(f, m) == f = [k \in 0..m |-> IF k = 0 THEN <<>> ELSE PutOut(f[k - 1], ms[k])]
           S == {m \in Nat : \E f : Is(f, m)}
<1>1. 0 \in S
  <2> DEFINE f == [k \in 0..0 |-> <<>>]
  <2>1. [k \in 0..0 |-> IF k = 0 THEN <<>> ELSE PutOut(f[k - 1], ms[k])] = f
    OBVIOUS
  <2>2. Is(f, 0)
    BY <2>1
  <2> QED
    BY <2>2
<1>2. ASSUME NEW m \in S PROVE m + 1 \in S
  <2>1. m \in Nat /\ m + 1 \in Nat
    OBVIOUS
  <2>2. PICK f : Is(f, m)
    OBVIOUS
  <2> DEFINE g == [k \in 0..m + 1 |-> IF k = m + 1 THEN PutOut(f[m], ms[m + 1]) ELSE f[k]]
  <2>3. \A k \in 0..m : f[k] = IF k = 0 THEN <<>> ELSE PutOut(f[k - 1], ms[k])
    BY <2>2
  <2>4. ASSUME NEW k \in 0..m + 1
        PROVE  g[k] = IF k = 0 THEN <<>> ELSE PutOut(g[k - 1], ms[k])
    <3>1. CASE k = m + 1
      <4>1. k # 0 /\ k - 1 = m /\ m \in 0..m + 1 /\ m # m + 1
        BY <2>1, <3>1
      <4>2. g[k] = PutOut(f[m], ms[m + 1]) /\ g[k - 1] = f[m]
        BY <3>1, <4>1
      <4> HIDE DEF g
      <4> QED
        BY <3>1, <4>1, <4>2
    <3>2. CASE k # m + 1
      <4>1. k \in 0..m /\ (k # 0 => k - 1 \in 0..m + 1 /\ k - 1 # m + 1)
        BY <2>1, <3>2
      <4>2. g[k] = f[k] /\ (k # 0 => g[k - 1] = f[k - 1])
        BY <3>2, <4>1
      <4> HIDE DEF g, Is
      <4> QED
        BY <2>3, <4>1, <4>2
    <3> QED
      BY <3>1, <3>2
  <2>5. g = [k \in 0..m + 1 |-> g[k]]
    OBVIOUS
  <2> HIDE DEF g
  <2>6. Is(g, m + 1)
    BY <2>4, <2>5
  <2> QED
    BY <2>1, <2>6
<1>3. S = Nat
  <2>1. S \in SUBSET Nat
    OBVIOUS
  <2> HIDE DEF S
  <2> QED
    BY <1>1, <1>2, <2>1, InductionOverNat
<1> QED
  BY <1>3

LEMMA OutsAre ==
  ASSUME NEW ms, Len(ms) \in Nat
  PROVE  /\ Dia!outs(ms)[0] = <<>>
         /\ \A k \in 0..Len(ms) - 1 : Dia!outs(ms)[k + 1] = PutOut(Dia!outs(ms)[k], ms[k + 1])
<1> DEFINE n == Len(ms)
           Is(f) == f = [k \in 0..n |-> IF k = 0 THEN <<>> ELSE PutOut(f[k - 1], ms[k])]
           f == Dia!outs(ms)
<1>1. f = CHOOSE g : Is(g)
  BY DEF Dia!outs, PutOut
<1>2. \E g : Is(g)
  BY OutsExist
<1>3. Is(f)
  BY <1>1, <1>2
<1> HIDE DEF f
<1>4. \A k \in 0..n : f[k] = IF k = 0 THEN <<>> ELSE PutOut(f[k - 1], ms[k])
  BY <1>3
<1>5. 0 \in 0..n /\ \A k \in 0..n - 1 : k + 1 \in 0..n /\ k + 1 # 0 /\ (k + 1) - 1 = k
  OBVIOUS
<1> HIDE DEF Is, n
<1>6. f[0] = <<>>
  BY <1>4, <1>5
<1>7. ASSUME NEW k \in 0..n - 1 PROVE f[k + 1] = PutOut(f[k], ms[k + 1])
  BY <1>4, <1>5
<1> QED
  BY <1>6, <1>7 DEF f, n

\* Whatever the context, as long as its calls are followed by their results.
LEMMA TranslateTakesTurns ==
  ASSUME NEW ms, Answered(ms)
  PROVE  LET o == Dia!outs(ms)[Len(ms)] IN TakesTurns(o) /\ ~Open(o)
<1> DEFINE n == Len(ms)
           o(k) == Dia!outs(ms)[k]
           Good(k) == /\ TakesTurns(o(k))
                      /\ Open(o(k)) => k > 0 /\ Called(ms[k]) /\ OpenFor(o(k), ms[k].id)
           S == {k \in Nat : k <= n => Good(k)}
<1>1. n \in Nat /\ ms \in Seq(Message) /\ \A k \in 1..n : ms[k] \in Message
  BY DEF Answered
<1>2. o(0) = <<>> /\ \A k \in 0..n - 1 : o(k + 1) = PutOut(o(k), ms[k + 1])
  BY <1>1, OutsAre
<1> HIDE DEF o
<1>3. 0 \in S
  <2>1. TakesTurns(<<>>) /\ ~Open(<<>>)
    BY DEF TakesTurns, Open
  <2> QED
    BY <1>2, <2>1, Zenon
<1>4. ASSUME NEW k \in S PROVE k + 1 \in S
  <2> SUFFICES ASSUME k + 1 <= n PROVE Good(k + 1)
    OBVIOUS
  <2>1. k \in 0..n - 1 /\ k + 1 \in 1..n /\ k <= n /\ k \in Nat
    BY <1>1
  <2>2. Good(k)
    BY <2>1
  <2> DEFINE m == ms[k + 1]
             who == Dia!speaker(m)
             b == Dia!block(m)
  <2>3. o(k + 1) = PutOut(o(k), m) /\ m \in Message
    BY <1>1, <1>2, <2>1
  <2>4. Open(o(k)) => m.role = "tool" /\ OpenFor(o(k), m.id)
    <3> SUFFICES ASSUME Open(o(k)) PROVE m.role = "tool" /\ OpenFor(o(k), m.id)
      OBVIOUS
    <3>1. k \in 1..n /\ Called(ms[k]) /\ OpenFor(o(k), ms[k].id)
      BY <2>1, <2>2
    <3> QED
      BY <3>1 DEF Answered
  <2> HIDE DEF m
  <2>5. CASE m.role = "system"
    <3>1. o(k + 1) = o(k) /\ ~Open(o(k))
      BY <2>3, <2>4, <2>5 DEF PutOut
    <3> QED
      BY <2>2, <3>1
  <2>6. CASE m.role # "system"
    <3>1. o(k + 1) = Dia!push_block(o(k), who, b)
      BY <2>3, <2>6 DEF PutOut
    <3>2. /\ who \in {"user", "assistant"} /\ b \in Block /\ b.id = m.id
          /\ b.type = "tool_use" <=> Called(m)
          /\ m.role = "tool" => who = "user" /\ b.type = "tool_result"
          /\ Called(m) => who = "assistant"
      BY <2>3 DEF Dia!speaker, Dia!block, Message, Block, Called
    <3> HIDE DEF who, b
    <3>3. TakesTurns(o(k + 1)) /\ (Open(o(k + 1)) <=> b.type = "tool_use")
          /\ OpenFor(o(k + 1), b.id)
      <4>1. TakesTurns(o(k))
        BY <2>2
      <4> HIDE DEF Good
      <4> QED
        BY <2>4, <3>1, <3>2, <4>1, PushTakesTurns
    <3> QED
      BY <2>1, <3>2, <3>3 DEF m
  <2> QED
    BY <2>5, <2>6
<1>5. S = Nat
  <2>1. S \in SUBSET Nat
    OBVIOUS
  <2> HIDE DEF S
  <2> QED
    BY <1>3, <1>4, <2>1, InductionOverNat
<1>6. Good(n)
  BY <1>1, <1>5
<1>7. ~Open(o(n))
  <2> SUFFICES ASSUME Open(o(n)) PROVE FALSE
    OBVIOUS
  <2>1. n \in 1..n /\ Called(ms[n])
    BY <1>1, <1>6
  <2> QED
    BY <1>1, <2>1 DEF Answered
<1> QED
  BY <1>6, <1>7 DEF o
-----------------------------------------------------------------------------
(* The requests are well formed.                                           *)

DialogueInv ==
  /\ rows \in Seq({"user", "assistant"})
  /\ Answered(ctx)
  /\ sent.messages = IF provider = "anthropic" THEN Dia!outs(ctx)[Len(ctx)] ELSE ctx

LEMMA RequestIs ==
  ASSUME NEW ms, Dia!Sends(ms), provider' = provider
  PROVE  /\ ctx' = ms
         /\ sent'.messages = IF provider' = "anthropic" THEN Dia!outs(ms)[Len(ms)] ELSE ms
BY DEF Dia!Sends, Dia!build_body, Dia!translate, Dia!as_is

LEMMA RequestIsWellFormed == DialogueInv => Dia!WellFormed
<1> SUFFICES ASSUME DialogueInv PROVE Dia!WellFormed
  OBVIOUS
<1>1. CASE provider = "anthropic"
  <2> DEFINE o == Dia!outs(ctx)[Len(ctx)]
  <2>1. sent.messages = o /\ TakesTurns(o) /\ ~Open(o)
    BY <1>1, TranslateTakesTurns DEF DialogueInv
  <2> HIDE DEF o
  <2>2. Len(o) \in Nat /\ \A i \in 1..Len(o) : o[i] \in Pushed
    BY <2>1 DEF TakesTurns
  <2>3. \A i \in 1..Len(o) : Dia!Calls(o[i]) <=> HasCall(o[i])
    BY <1>1 DEF Dia!Calls, HasCall
  <2>4. ASSUME NEW i \in 1..Len(o), HasCall(o[i])
        PROVE  i < Len(o) /\ Dia!Responds(o[i + 1], o[i])
    <3>1. i < Len(o)
      <4>1. i = Len(o) => o # <<>> /\ Open(o)
        BY <2>4 DEF Open
      <4> QED
        BY <2>1, <2>2, <4>1
    <3>2. o[i].role = "assistant" /\ o[i].role # o[i + 1].role
          /\ o[i + 1].blocks[1] = Result(o[i].blocks[Len(o[i].blocks)].id)
      BY <2>1, <2>4, <3>1 DEF TakesTurns
    <3>3. o[i + 1] \in Pushed
      BY <2>2, <3>1
    <3>4. o[i + 1].role = "user"
      BY <3>2, <3>3 DEF Pushed
    <3> QED
      BY <1>1, <3>1, <3>2, <3>4 DEF Dia!Responds, Dia!Last, Result
  <2>5. ASSUME NEW i \in 1..Len(o), i < Len(o) PROVE o[i].role # o[i + 1].role
    BY <2>1, <2>5 DEF TakesTurns
  <2> QED
    BY <2>1, <2>3, <2>4, <2>5 DEF Dia!WellFormed
<1>2. CASE provider # "anthropic"
  <2>1. sent.messages = ctx /\ Answered(ctx)
    BY <1>2 DEF DialogueInv
  <2> QED
    BY <1>2, <2>1 DEF Dia!WellFormed, Answered, Called, Dia!Calls, Dia!Responds
<1> QED
  BY <1>1, <1>2

\* Nobody calls in a context of texts.
Plain == {m \in Message : m.id = 0}

LEMMA PlainIsAnswered ==
  ASSUME NEW ms \in Seq(Plain)
  PROVE  Answered(ms)
<1>1. ms \in Seq(Message)
  BY DEF Plain
<1>2. \A i \in 1..Len(ms) : ms[i].id = 0
  BY DEF Plain
<1> QED
  BY <1>1, <1>2 DEF Answered, Called

LEMMA MsgIsPlain ==
  ASSUME NEW role \in {"system", "user", "assistant"},
         NEW content \in {"text", "preamble", "recap"}
  PROVE  Dia!msg(role, content) \in Plain
BY DEF Dia!msg, Plain, Message

\* The rows picked are rows of the session.
LEMMA PickedArePlain ==
  ASSUME NEW stored \in Seq({"user", "assistant"}), NEW recalled
  PROVE  Dia!Picked(stored, recalled) \in Seq(Plain)
<1> DEFINE n == Len(stored)
           ids == {i \in 1..n : i \in recalled \/ i > n - RECENT}
           nth(k) == CHOOSE i \in ids : Dia!Cardinality({j \in ids : j <= i}) = k
           N == Cardinality(ids)
<1>1. n \in Nat /\ ids \in SUBSET (1..n) /\ \A i \in 1..n : stored[i] \in {"user", "assistant"}
  OBVIOUS
<1>2. IsFiniteSet(ids) /\ N \in Nat
  <2>1. IsFiniteSet(1..n)
    BY <1>1, FS_Interval
  <2> QED
    BY <1>1, <2>1, FS_Subset, FS_CardinalityType
<1>3. \A S : Dia!Cardinality(S) = Cardinality(S)
  BY DEF Dia!Cardinality, Cardinality
<1>4. Dia!Picked(stored, recalled) = [k \in 1..N |-> Dia!msg(stored[nth(k)], "text")]
  BY <1>3 DEF Dia!Picked
<1> HIDE DEF ids, N
<1>5. ASSUME NEW k \in 1..N PROVE nth(k) \in ids
  <2>1. PICK m \in ids : Cardinality({j \in ids : j <= m}) = k
    <3> DEFINE rank == [m \in ids |-> Cardinality({j \in ids : j <= m})]
    <3>1. \E m \in ids : rank[m] = k
      BY <1>1, RanksAre DEF N
    <3> QED
      BY <3>1
  <2>2. Dia!Cardinality({j \in ids : j <= m}) = k
    BY <1>3, <2>1
  <2> QED
    BY <2>2, Zenon
<1>6. ASSUME NEW k \in 1..N PROVE Dia!msg(stored[nth(k)], "text") \in Plain
  <2>1. stored[nth(k)] \in {"user", "assistant"}
    BY <1>1, <1>5
  <2> QED
    BY <2>1, MsgIsPlain
<1> HIDE DEF nth
<1> QED
  BY <1>2, <1>4, <1>6, IsASeq

LEMMA ContextIsPlain ==
  ASSUME NEW stored \in Seq({"user", "assistant"}), NEW recalled
  PROVE  Dia!assemble_context(stored, recalled) \in Seq(Plain)
<1>1. Dia!Picked(stored, recalled) \in Seq(Plain)
  BY PickedArePlain
<1>2. Dia!msg("system", "recap") \in Plain /\ Dia!msg("user", "text") \in Plain
  BY MsgIsPlain
<1> QED
  BY <1>1, <1>2 DEF Dia!assemble_context

\* A call and its result.
LEMMA RoundIsAnswered ==
  ASSUME NEW ms, Answered(ms), NEW call \in Message, NEW answer \in Message,
         answer.role = "tool", answer.id = call.id
  PROVE  Answered(ms \o <<call, answer>>)
<1> DEFINE n == Len(ms)
           t == ms \o <<call, answer>>
<1>1. ms \in Seq(Message) /\ n \in Nat
  BY DEF Answered
<1>2. /\ t \in Seq(Message) /\ Len(t) = n + 2 /\ t[n + 1] = call /\ t[n + 2] = answer
      /\ \A i \in 1..n : t[i] = ms[i]
  BY <1>1
<1> HIDE DEF t
<1>3. ASSUME NEW i \in 1..Len(t), Called(t[i])
      PROVE  i < Len(t) /\ t[i + 1].role = "tool" /\ t[i + 1].id = t[i].id
  <2>1. CASE i \in 1..n
    <3>1. i < n /\ ms[i + 1].role = "tool" /\ ms[i + 1].id = ms[i].id
      BY <1>2, <1>3, <2>1 DEF Answered
    <3>2. i + 1 \in 1..n
      BY <1>1, <2>1, <3>1
    <3> QED
      BY <1>1, <1>2, <2>1, <3>1, <3>2
  <2>2. CASE i = n + 1
    BY <1>1, <1>2, <2>2
  <2>3. CASE i = n + 2
    BY <1>1, <1>2, <1>3, <2>3 DEF Called
  <2> QED
    BY <1>1, <1>2, <2>1, <2>2, <2>3
<1> QED
  BY <1>2, <1>3 DEF Answered, t

LEMMA ActionIs ==
  ASSUME NEW response \in Dia!Responses
  PROVE  Dia!parse_action(response) \in Nat
<1> DEFINE calls == {i \in 1..Len(response) : response[i] # 0}
           leads == CHOOSE i \in calls : \A j \in calls : i <= j
<1>1. PICK n \in 0..2 : response \in [1..n -> 0..2]
  BY DEF Dia!Responses
<1>2. response \in Seq(0..2) /\ Len(response) = n
  <2>1. response \in Seq(0..2)
    <3>1. n \in Nat
      OBVIOUS
    <3> QED
      BY <1>1, <3>1, SeqDef, Zenon
  <2>2. DOMAIN response = 1..n /\ DOMAIN response = 1..Len(response) /\ Len(response) \in Nat
    BY <1>1, <2>1, LenProperties
  <2> QED
    BY <2>1, <2>2, IntervalsEqual
<1>3. calls # {} => leads \in calls
  <2> SUFFICES ASSUME calls # {} PROVE \E i \in calls : \A j \in calls : i <= j
    OBVIOUS
  <2>1. calls \subseteq 1..2
    BY <1>1, <1>2
  <2> HIDE DEF calls
  <2>2. CASE 1 \in calls
    BY <2>1, <2>2
  <2>3. CASE 1 \notin calls
    <3>1. \A i \in calls : i = 2
      BY <2>1, <2>3
    <3> QED
      BY <3>1
  <2> QED
    BY <2>2, <2>3
<1>4. calls # {} => response[leads] \in Nat
  <2>1. calls \subseteq 1..n
    BY <1>2
  <2> HIDE DEF calls, leads
  <2>2. calls # {} => leads \in 1..n
    BY <1>3, <2>1
  <2>3. \A i \in 1..n : response[i] \in Nat
    BY <1>1
  <2> QED
    BY <2>2, <2>3
<1>5. Dia!parse_action(response) = IF calls = {} THEN 0 ELSE response[leads]
  BY DEF Dia!parse_action
<1> QED
  BY <1>4, <1>5

LEMMA DialogueStep ==
  ASSUME DialogueInv, Dia!Next
  PROVE  DialogueInv'
<1>1. provider' = provider
  BY DEF Dia!Next, Dia!TurnReplied, Dia!TurnFails, Dia!Summarize, Dia!RunTask, Dia!ActFails,
         Dia!Turn, Dia!Act
<1>2. ASSUME NEW ms, Dia!Sends(ms), Answered(ms), rows' \in Seq({"user", "assistant"})
      PROVE  DialogueInv'
  BY <1>1, <1>2, RequestIs DEF DialogueInv
<1>3. ASSUME UNCHANGED <<ctx, sent>>, rows' \in Seq({"user", "assistant"})
      PROVE  DialogueInv'
  <2>1. Answered(ctx)' /\ Dia!outs(ctx)' = Dia!outs(ctx)
    BY <1>3 DEF DialogueInv, Answered, Called
  <2> QED
    BY <1>1, <1>3, <2>1 DEF DialogueInv
<1>4. /\ rows \in Seq({"user", "assistant"}) /\ Answered(ctx)
      /\ \A who \in {"user", "assistant"} : Append(rows, who) \in Seq({"user", "assistant"})
  BY DEF DialogueInv
<1>5. CASE Dia!TurnReplied
  BY <1>3, <1>4, <1>5 DEF Dia!TurnReplied
<1>6. CASE Dia!TurnFails
  BY <1>3, <1>4, <1>6 DEF Dia!TurnFails
<1>7. CASE Dia!Summarize
  BY <1>3, <1>4, <1>7 DEF Dia!Summarize
<1>8. CASE Dia!ActFails
  BY <1>3, <1>4, <1>8 DEF Dia!ActFails
<1>9. CASE Dia!RunTask
  <2> DEFINE ms == <<Dia!msg("system", "preamble"), Dia!msg("user", "text")>>
  <2>1. ms \in Seq(Plain)
    BY MsgIsPlain
  <2>2. Dia!Sends(ms) /\ rows' = Append(rows, "user")
    BY <1>9 DEF Dia!RunTask
  <2> HIDE DEF ms
  <2> QED
    BY <1>2, <1>4, <2>1, <2>2, PlainIsAnswered
<1>10. ASSUME NEW recalled, Dia!Turn(recalled) PROVE DialogueInv'
  <2> DEFINE ms == <<Dia!msg("system", "preamble")>> \o Dia!assemble_context(rows', recalled)
  <2>1. Dia!Sends(ms) /\ rows' = Append(rows, "user")
    BY <1>10 DEF Dia!Turn
  <2>2. rows' \in Seq({"user", "assistant"})
    BY <1>4, <2>1
  <2>3. Dia!assemble_context(rows', recalled) \in Seq(Plain)
    BY <2>2, ContextIsPlain
  <2>4. ms \in Seq(Plain)
    BY <2>3, MsgIsPlain
  <2> HIDE DEF ms
  <2> QED
    BY <1>2, <2>1, <2>2, <2>4, PlainIsAnswered
<1>11. ASSUME NEW response \in Dia!Responses, Dia!Act(response) PROVE DialogueInv'
  <2> DEFINE action == Dia!parse_action(response)
  <2>1. action \in Nat
    BY ActionIs
  <2>2. Dia!Answers \/ Dia!CallsTool(action)
    BY <1>11 DEF Dia!Act
  <2> HIDE DEF action
  <2>3. CASE Dia!Answers
    BY <1>3, <1>4, <2>3 DEF Dia!Answers
  <2>4. CASE Dia!CallsTool(action)
    <3> DEFINE call == [role |-> "assistant", id |-> action, content |-> "call"]
               answer == [role |-> "tool", id |-> action, content |-> "text"]
               ms == ctx \o <<call, answer>>
    <3>1. CASE steps < MAX_TOOL_STEPS
      <4>1. Dia!Sends(ms) /\ rows' = rows
        BY <2>4, <3>1 DEF Dia!CallsTool
      <4>2. call \in Message /\ answer \in Message /\ answer.role = "tool"
            /\ answer.id = call.id
        BY <2>1 DEF Message
      <4> HIDE DEF call, answer
      <4>3. Answered(ms)
        BY <1>4, <4>2, RoundIsAnswered
      <4> HIDE DEF ms
      <4> QED
        BY <1>2, <1>4, <4>1, <4>3
    <3>2. CASE ~(steps < MAX_TOOL_STEPS)
      BY <1>3, <1>4, <2>4, <3>2 DEF Dia!CallsTool
    <3> QED
      BY <3>1, <3>2
  <2> QED
    BY <2>2, <2>3, <2>4
<1> QED
  BY <1>5, <1>6, <1>7, <1>8, <1>9, <1>10, <1>11 DEF Dia!Next

\* For any number of rows, whichever of them are recalled, however long a run and
\* however its ids repeat: a request to the Anthropic API has no two adjacent
\* messages of one role, and in a request to either API each call is followed at
\* once by its result (anthropic.rs translate and push_block).
THEOREM RequestsAreWellFormed == Spec => []WellFormed
<1>1. Init => DialogueInv
  <2> SUFFICES ASSUME Init PROVE DialogueInv
    OBVIOUS
  <2>1. ctx = <<>> /\ rows = <<>> /\ sent.messages = <<>>
    BY DEF Init, Dia!Init
  <2>2. Len(<<>>) = 0 /\ Dia!outs(<<>>)[0] = <<>>
    BY OutsAre
  <2>3. Answered(<<>>)
    BY DEF Answered
  <2> QED
    BY <2>1, <2>2, <2>3 DEF DialogueInv
<1>2. DialogueInv /\ [Next]_vars => DialogueInv'
  <2> SUFFICES ASSUME DialogueInv, [Next]_vars
               PROVE  DialogueInv'
    OBVIOUS
  <2>1. CASE Dia!Next
    BY <2>1, DialogueStep
  <2>2. CASE UNCHANGED dialogueVars
    <3>1. Answered(ctx)' <=> Answered(ctx)
      BY <2>2 DEF dialogueVars, Answered, Called
    <3> QED
      BY <2>2, <3>1 DEF dialogueVars, DialogueInv
  <2>3. Dia!Next \/ UNCHANGED dialogueVars
    BY DEF Next, Of, DeliveryNext, McpNext, ToolboxNext, EgressNext, ExecutionNext,
           DialogueNext, ScheduleNext, FileToolsNext, vars, ofDelivery, ofMcp, ofExecution
  <2> QED
    BY <2>1, <2>2, <2>3
<1>3. DialogueInv => WellFormed
  BY RequestIsWellFormed DEF WellFormed
<1> QED
  BY <1>1, <1>2, <1>3, PTL DEF Spec
-----------------------------------------------------------------------------
(* The client of an MCP server.                                            *)

Piece == [msg : [id : Nat, kind : Mcp!Kinds], part : {"head", "rest", "tail"}]

McpTypes ==
  /\ stage \in {"initialize", "notify", "list", "up", "skipped"}
  /\ phase \in {"idle", "write", "read"} /\ closed \in BOOLEAN
  /\ next_id \in Nat /\ id \in Nat /\ cuts \in Nat /\ broken \in Nat /\ torn \in Nat
  /\ garbled \in Nat /\ asked \subseteq Nat
  /\ line \in Seq(Piece) /\ stdout \in Seq(Piece) /\ out \in Seq(Piece)
  /\ half \in Seq(Piece) /\ stdin \in Seq(Piece) /\ todo \in Seq(Piece)

\* What the client is about: a connection that was given up is closed.
PhaseInv ==
  /\ phase # "read" => line = <<>>
  /\ IF phase = "write"
       THEN \E t \in Piece : /\ t.part = "tail"
                             /\ todo = <<t>> \/ \E h \in Piece : h.part = "head" /\ todo = <<h, t>>
       ELSE todo = <<>>
  /\ stage = "skipped" => phase = "idle" /\ closed

\* A line with an id was written by the server for an answer, or is a request.
Numbered(s) ==
  \A i \in 1..Len(s) : s[i].msg.id # 0 => s[i].msg.kind \in {"answer", "error", "request"}

ResultInv ==
  /\ Numbered(line) /\ Numbered(stdout) /\ Numbered(out)
  /\ result.for # 0 =>
       result.id = result.for /\ result.kind \in {"answer", "error", "request"}

\* On its way to the client a line follows the end of another one; what comes first
\* may have lost its head.
Follows(s) == \A i \in 1..Len(s) - 1 : s[i].part = "tail" => s[i + 1].part = "head"

Headless(s) == IF s = <<>> \/ s[1].part = "head" THEN 0 ELSE 1

Ahead == line \o stdout

Coming == IF closed THEN Ahead ELSE Ahead \o out

BrokenInv ==
  IF stage = "skipped" THEN broken <= cuts + 1
  ELSE /\ Follows(Ahead \o out)
       /\ broken + Headless(Coming) <= cuts + (IF closed /\ Ahead = <<>> THEN 1 ELSE 0)

\* On its way to the server a tail follows a head; a head that none follows is what
\* is left of a line that was torn.
Paired(s) ==
  \A i \in 1..Len(s) : /\ s[i].part \in {"head", "tail"}
                       /\ s[i].part = "tail" => i > 1 /\ s[i - 1].part = "head"

Torn(s) ==
  {i \in 1..Len(s) : s[i].part = "head" /\ (i < Len(s) => s[i + 1].part = "head")}

Heads(s) == \A i \in 1..Len(s) : s[i].part = "head"

Going == half \o stdin \o todo

GarbledInv ==
  IF closed THEN garbled <= torn
  ELSE Heads(half) /\ Paired(Going) /\ garbled + Cardinality(Torn(Going)) <= torn

McpInv == McpTypes /\ PhaseInv /\ ResultInv /\ BrokenInv /\ GarbledInv

(* Pieces in a row.                                                        *)

LEMMA PieceMoves ==
  ASSUME NEW S, NEW a \in Seq(S), NEW b \in Seq(S), b # <<>>
  PROVE  Append(a, Head(b)) \o Tail(b) = a \o b
<1> DEFINE s == Append(a, Head(b))
           t == Tail(b)
           x == s \o t
           y == a \o b
<1>1. /\ Len(a) \in Nat /\ Len(b) \in Nat /\ Len(b) > 0 /\ Head(b) = b[1] /\ Head(b) \in S
      /\ t \in Seq(S) /\ Len(t) = Len(b) - 1 /\ \A i \in 1..Len(t) : t[i] = b[i + 1]
  OBVIOUS
<1>2. /\ s \in Seq(S) /\ Len(s) = Len(a) + 1 /\ s[Len(a) + 1] = b[1]
      /\ \A i \in 1..Len(a) : s[i] = a[i]
  BY <1>1
<1> HIDE DEF s, t
<1>3. /\ x \in Seq(S) /\ Len(x) = Len(s) + Len(t)
      /\ \A i \in 1..Len(s) + Len(t) : x[i] = IF i <= Len(s) THEN s[i] ELSE t[i - Len(s)]
  BY <1>1, <1>2, ConcatProperties
<1>4. /\ y \in Seq(S) /\ Len(y) = Len(a) + Len(b)
      /\ \A i \in 1..Len(a) + Len(b) : y[i] = IF i <= Len(a) THEN a[i] ELSE b[i - Len(a)]
  BY ConcatProperties
<1> HIDE DEF x, y
<1>5. Len(x) = Len(y)
  BY <1>1, <1>2, <1>3, <1>4
<1>6. ASSUME NEW i \in 1..Len(x) PROVE x[i] = y[i]
  <2>1. CASE i <= Len(a)
    <3>1. /\ i \in 1..Len(a) /\ i <= Len(s)
          /\ i \in 1..Len(s) + Len(t) /\ i \in 1..Len(a) + Len(b)
      BY <1>1, <1>2, <1>3, <2>1
    <3> QED
      BY <1>2, <1>3, <1>4, <3>1
  <2>2. CASE i = Len(a) + 1
    <3>1. /\ i <= Len(s) /\ ~(i <= Len(a)) /\ i - Len(a) = 1
          /\ i \in 1..Len(s) + Len(t) /\ i \in 1..Len(a) + Len(b)
      BY <1>1, <1>2, <1>3, <2>2
    <3> QED
      BY <1>2, <1>3, <1>4, <2>2, <3>1
  <2>3. CASE i > Len(a) + 1
    <3>1. /\ i \in 1..Len(s) + Len(t) /\ ~(i <= Len(s)) /\ i - Len(s) \in 1..Len(t)
          /\ i \in 1..Len(a) + Len(b) /\ ~(i <= Len(a)) /\ (i - Len(s)) + 1 = i - Len(a)
      BY <1>1, <1>2, <1>3, <2>3
    <3>2. x[i] = t[i - Len(s)] /\ t[i - Len(s)] = b[(i - Len(s)) + 1]
      BY <1>1, <1>3, <3>1
    <3> QED
      BY <1>4, <3>1, <3>2
  <2> QED
    BY <1>1, <2>1, <2>2, <2>3
<1>7. x = y
  BY <1>3, <1>4, <1>5, <1>6, SeqEqual
<1> QED
  BY <1>7 DEF x, y, s, t

\* A line as a server or the client writes it.
LEMMA LineIs ==
  ASSUME NEW m \in [id : Nat, kind : Mcp!Kinds]
  PROVE  LET s == Mcp!Line(m)
         IN /\ s \in Seq(Piece) /\ Len(s) \in Nat \ {0} /\ s[1].part = "head"
            /\ \A i \in 1..Len(s) : s[i].msg = m /\ (s[i].part = "tail" => i = Len(s))
            /\ m.kind # "huge" =>
                 \E h, t \in Piece : h.part = "head" /\ t.part = "tail" /\ s = <<h, t>>
<1> DEFINE h == [msg |-> m, part |-> "head"]
           r == [msg |-> m, part |-> "rest"]
           t == [msg |-> m, part |-> "tail"]
<1>1. h \in Piece /\ r \in Piece /\ t \in Piece
  BY DEF Piece
<1>2. Mcp!Line(m) = IF m.kind = "huge" THEN <<h, r, t>> ELSE <<h, t>>
  BY DEF Mcp!Line
<1>3. /\ h.part = "head" /\ r.part = "rest" /\ t.part = "tail"
      /\ h.msg = m /\ r.msg = m /\ t.msg = m
  OBVIOUS
<1> HIDE DEF h, r, t
<1>4. CASE m.kind = "huge"
  BY <1>1, <1>2, <1>3, <1>4
<1>5. CASE m.kind # "huge"
  BY <1>1, <1>2, <1>3, <1>5
<1> QED
  BY <1>4, <1>5

LEMMA NumberedAre ==
  ASSUME NEW s \in Seq(Piece), Numbered(s)
  PROVE  /\ s # <<>> => Numbered(Tail(s))
         /\ \A p \in Piece : (p.msg.id # 0 => p.msg.kind \in {"answer", "error", "request"}) =>
              Numbered(Append(s, p))
  <1>1. s # <<>> => \A i \in 1..Len(Tail(s)) : i + 1 \in 1..Len(s) /\ Tail(s)[i] = s[i + 1]
    OBVIOUS
  <1>2. s # <<>> => Numbered(Tail(s))
    BY <1>1 DEF Numbered
  <1>3. ASSUME NEW p \in Piece, p.msg.id # 0 => p.msg.kind \in {"answer", "error", "request"}
        PROVE  Numbered(Append(s, p))
    <2>1. \A i \in 1..Len(Append(s, p)) :
            \/ i \in 1..Len(s) /\ Append(s, p)[i] = s[i]
            \/ Append(s, p)[i] = p
      OBVIOUS
    <2> QED
      BY <1>3, <2>1 DEF Numbered
  <1> QED
    BY <1>2, <1>3

\* The rest of a stream, once what a line has left of it is off.
LEMMA RestFollows ==
  ASSUME NEW s \in Seq(Piece), NEW r \in Seq(Piece), NEW n \in Nat, Follows(s),
         Len(s) = n + Len(r), \A i \in 1..Len(r) : r[i] = s[n + i]
  PROVE  Follows(r) /\ (n > 0 /\ s[n].part = "tail" => Headless(r) = 0)
<1>1. Len(r) \in Nat /\ \A i \in 1..Len(r) : r[i] \in Piece
  OBVIOUS
<1>2. ASSUME NEW i \in 1..Len(r) - 1, r[i].part = "tail" PROVE r[i + 1].part = "head"
  <2>1. n + i \in 1..Len(s) - 1 /\ i \in 1..Len(r) /\ i + 1 \in 1..Len(r)
        /\ n + (i + 1) = (n + i) + 1
    BY <1>1
  <2>2. r[i] = s[n + i] /\ r[i + 1] = s[(n + i) + 1]
    BY <2>1
  <2> QED
    BY <1>2, <2>1, <2>2 DEF Follows
<1>3. ASSUME n > 0, s[n].part = "tail", r # <<>> PROVE r[1].part = "head"
  <2>1. n \in 1..Len(s) - 1 /\ r[1] = s[n + 1]
    BY <1>1, <1>3
  <2> QED
    BY <1>3, <2>1 DEF Follows
<1> QED
  BY <1>2, <1>3 DEF Follows, Headless

\* One more line.
LEMMA LineFollows ==
  ASSUME NEW s \in Seq(Piece), Follows(s), NEW m \in [id : Nat, kind : Mcp!Kinds]
  PROVE  /\ Follows(s \o Mcp!Line(m))
         /\ Headless(s \o Mcp!Line(m)) = Headless(s)
<1> DEFINE l == Mcp!Line(m)
           t == s \o l
<1>1. /\ l \in Seq(Piece) /\ Len(l) \in Nat \ {0} /\ l[1].part = "head"
      /\ \A i \in 1..Len(l) : l[i].part = "tail" => i = Len(l)
  BY LineIs
<1> HIDE DEF l
<1>2. /\ t \in Seq(Piece) /\ Len(t) = Len(s) + Len(l) /\ Len(s) \in Nat
      /\ \A i \in 1..Len(s) : t[i] = s[i]
      /\ \A i \in 1..Len(l) : t[Len(s) + i] = l[i]
  BY <1>1
<1> HIDE DEF t
<1>3. ASSUME NEW i \in 1..Len(t) - 1, t[i].part = "tail" PROVE t[i + 1].part = "head"
  <2>1. CASE i < Len(s)
    BY <1>2, <1>3, <2>1 DEF Follows
  <2>2. CASE i = Len(s)
    BY <1>1, <1>2, <2>2
  <2>3. CASE i > Len(s)
    <3>1. i - Len(s) \in 1..Len(l) /\ i - Len(s) # Len(l) /\ t[i] = l[i - Len(s)]
      <4>1. i - Len(s) \in 1..Len(l) /\ i - Len(s) # Len(l) /\ Len(s) + (i - Len(s)) = i
        BY <1>1, <1>2, <2>3
      <4> QED
        BY <1>2, <4>1
    <3> QED
      BY <1>1, <1>3, <3>1
  <2> QED
    BY <1>2, <2>1, <2>2, <2>3
<1>4. Headless(t) = Headless(s)
  <2>1. t # <<>>
    BY <1>1, <1>2
  <2>2. CASE s = <<>>
    BY <1>1, <1>2, <2>1, <2>2 DEF Headless
  <2>3. CASE s # <<>>
    <3>1. t[1] = s[1]
      BY <1>2, <2>3
    <3> QED
      BY <2>1, <2>3, <3>1 DEF Headless
  <2> QED
    BY <2>2, <2>3
<1> QED
  BY <1>3, <1>4 DEF Follows, t, l
-----------------------------------------------------------------------------
(* Torn lines.                                                             *)

LEMMA TornIsFinite ==
  ASSUME NEW s \in Seq(Piece)
  PROVE  IsFiniteSet(Torn(s)) /\ Cardinality(Torn(s)) \in Nat
<1>1. IsFiniteSet(1..Len(s)) /\ Torn(s) \subseteq 1..Len(s)
  BY FS_Interval DEF Torn
<1> QED
  BY <1>1, FS_Subset, FS_CardinalityType

LEMMA LineIsPaired ==
  ASSUME NEW s \in Seq(Piece), NEW h \in Piece, NEW t \in Piece,
         h.part = "head", t.part = "tail"
  PROVE  (Paired(s \o <<h, t>>) <=> Paired(s)) /\ Torn(s \o <<h, t>>) = Torn(s)
<1> DEFINE n == Len(s)
           x == s \o <<h, t>>
<1>1. /\ n \in Nat /\ Len(x) = n + 2 /\ x[n + 1] = h /\ x[n + 2] = t
      /\ \A i \in 1..n : x[i] = s[i]
  OBVIOUS
<1> HIDE DEF x
<1>2. \A i \in 1..Len(x) : i \in 1..n \/ i = n + 1 \/ i = n + 2
  BY <1>1
<1>3. ASSUME Paired(s) PROVE Paired(x)
  <2> SUFFICES ASSUME NEW i \in 1..Len(x)
               PROVE  /\ x[i].part \in {"head", "tail"}
                      /\ x[i].part = "tail" => i > 1 /\ x[i - 1].part = "head"
    BY DEF Paired
  <2>1. CASE i \in 1..n
    <3>1. x[i] = s[i] /\ (i > 1 => x[i - 1] = s[i - 1])
      BY <1>1, <2>1
    <3> QED
      BY <1>3, <2>1, <3>1 DEF Paired
  <2>2. CASE i = n + 1
    BY <1>1, <2>2
  <2>3. CASE i = n + 2
    BY <1>1, <2>3
  <2> QED
    BY <1>2, <2>1, <2>2, <2>3
<1>4. ASSUME Paired(x) PROVE Paired(s)
  <2> SUFFICES ASSUME NEW i \in 1..n
               PROVE  /\ s[i].part \in {"head", "tail"}
                      /\ s[i].part = "tail" => i > 1 /\ s[i - 1].part = "head"
    BY DEF Paired
  <2>1. i \in 1..Len(x) /\ x[i] = s[i] /\ (i > 1 => x[i - 1] = s[i - 1])
    BY <1>1
  <2> QED
    BY <1>4, <2>1 DEF Paired
<1>5. ASSUME NEW i PROVE i \in Torn(x) <=> i \in Torn(s)
  <2>1. CASE i \in 1..n
    <3>1. /\ i \in 1..Len(x) /\ x[i] = s[i]
          /\ i < n => x[i + 1] = s[i + 1] /\ i < Len(x)
          /\ i = n => x[i + 1] = h
      BY <1>1, <2>1
    <3>2. CASE i < n
      BY <2>1, <3>1, <3>2 DEF Torn
    <3>3. CASE i = n
      BY <2>1, <3>1, <3>3 DEF Torn
    <3> QED
      BY <2>1, <3>2, <3>3
  <2>2. CASE i = n + 1
    BY <1>1, <2>2 DEF Torn
  <2>3. CASE i = n + 2
    BY <1>1, <2>3 DEF Torn
  <2>4. CASE i \notin 1..Len(x)
    BY <1>1, <2>4 DEF Torn
  <2> QED
    BY <1>2, <2>1, <2>2, <2>3, <2>4
<1> QED
  BY <1>3, <1>4, <1>5 DEF x

\* A line loses its tail.
LEMMA TailIsTorn ==
  ASSUME NEW s \in Seq(Piece), NEW t \in Piece, t.part = "tail", Paired(s \o <<t>>)
  PROVE  Paired(s) /\ Cardinality(Torn(s)) <= Cardinality(Torn(s \o <<t>>)) + 1
<1> DEFINE n == Len(s)
           x == s \o <<t>>
<1>1. /\ n \in Nat /\ x \in Seq(Piece) /\ Len(x) = n + 1 /\ x[n + 1] = t
      /\ \A i \in 1..n : x[i] = s[i]
  OBVIOUS
<1> HIDE DEF x
<1>2. Paired(s)
  <2> SUFFICES ASSUME NEW i \in 1..n
               PROVE  /\ s[i].part \in {"head", "tail"}
                      /\ s[i].part = "tail" => i > 1 /\ s[i - 1].part = "head"
    BY DEF Paired
  <2>1. i \in 1..Len(x) /\ x[i] = s[i] /\ (i > 1 => x[i - 1] = s[i - 1])
    BY <1>1
  <2> QED
    BY <2>1 DEF Paired, x
<1>3. Torn(s) \subseteq Torn(x) \cup {n}
  <2> SUFFICES ASSUME NEW i \in Torn(s), i # n PROVE i \in Torn(x)
    OBVIOUS
  <2>1. i \in 1..n /\ i < n /\ s[i].part = "head" /\ s[i + 1].part = "head"
    BY <1>1 DEF Torn
  <2>2. i \in 1..Len(x) /\ x[i] = s[i] /\ x[i + 1] = s[i + 1]
    BY <1>1, <2>1
  <2> QED
    BY <2>1, <2>2 DEF Torn
<1>4. IsFiniteSet(Torn(x)) /\ Cardinality(Torn(x)) \in Nat
  BY <1>1, TornIsFinite
<1>5. IsFiniteSet(Torn(x) \cup {n}) /\ Cardinality(Torn(x) \cup {n}) <= Cardinality(Torn(x)) + 1
  <2>1. IsFiniteSet(Torn(x) \cup {n})
        /\ Cardinality(Torn(x) \cup {n}) =
             IF n \in Torn(x) THEN Cardinality(Torn(x)) ELSE Cardinality(Torn(x)) + 1
    BY <1>4, FS_AddElement
  <2> QED
    BY <1>4, <2>1
<1>6. Cardinality(Torn(s)) <= Cardinality(Torn(x) \cup {n})
  BY <1>3, <1>5, FS_Subset
<1>7. Cardinality(Torn(s)) \in Nat /\ Cardinality(Torn(x) \cup {n}) \in Nat
  BY <1>5, TornIsFinite, FS_CardinalityType
<1> QED
  BY <1>2, <1>4, <1>5, <1>6, <1>7 DEF x

\* The server reads a tail: the heads before it are gone, and if there was more than
\* one, the first of them was torn.
LEMMA TailIsRead ==
  ASSUME NEW s \in Seq(Piece), NEW a \in Seq(Piece), NEW r \in Seq(Piece),
         Paired(s), Heads(a), Len(s) = Len(a) + 1 + Len(r),
         \A i \in 1..Len(a) : s[i] = a[i], s[Len(a) + 1].part = "tail",
         \A i \in 1..Len(r) : s[Len(a) + 1 + i] = r[i]
  PROVE  /\ Len(a) > 0 /\ Paired(r)
         /\ Cardinality(Torn(r)) + (IF Len(a) = 1 THEN 0 ELSE 1) <= Cardinality(Torn(s))
<1> DEFINE n == Len(a)
           k == n + 1
           moved == {k + i : i \in Torn(r)}
<1>1. n \in Nat /\ Len(r) \in Nat /\ k \in Nat /\ k \in 1..Len(s) /\ Len(s) = k + Len(r)
  OBVIOUS
<1>2. n > 0
  BY <1>1 DEF Paired
<1>3. Paired(r)
  <2> SUFFICES ASSUME NEW i \in 1..Len(r)
               PROVE  /\ r[i].part \in {"head", "tail"}
                      /\ r[i].part = "tail" => i > 1 /\ r[i - 1].part = "head"
    BY DEF Paired
  <2>1. k + i \in 1..Len(s) /\ s[k + i] = r[i]
    BY <1>1
  <2>2. r[i].part \in {"head", "tail"} /\ (r[i].part = "tail" => s[(k + i) - 1].part = "head")
    BY <2>1 DEF Paired
  <2>3. i = 1 => (k + i) - 1 = k
    BY <1>1
  <2>4. i > 1 => i - 1 \in 1..Len(r) /\ k + (i - 1) = (k + i) - 1
    BY <1>1
  <2>5. i > 1 => s[(k + i) - 1] = r[i - 1]
    BY <2>4
  <2> QED
    BY <2>2, <2>3, <2>5
<1>4. moved \subseteq Torn(s)
  <2> SUFFICES ASSUME NEW i \in Torn(r) PROVE k + i \in Torn(s)
    OBVIOUS
  <2>1. i \in 1..Len(r) /\ r[i].part = "head" /\ (i < Len(r) => r[i + 1].part = "head")
    BY DEF Torn
  <2>2. k + i \in 1..Len(s) /\ s[k + i] = r[i] /\ (k + i < Len(s) => i < Len(r))
    BY <1>1, <2>1
  <2>3. i < Len(r) => i + 1 \in 1..Len(r) /\ k + (i + 1) = (k + i) + 1
    BY <1>1, <2>1
  <2>4. i < Len(r) => s[(k + i) + 1] = r[i + 1]
    BY <2>3
  <2> QED
    BY <2>1, <2>2, <2>4 DEF Torn
<1>5. n > 1 => 1 \in Torn(s) /\ 1 \notin moved
  <2> SUFFICES ASSUME n > 1 PROVE 1 \in Torn(s) /\ 1 \notin moved
    OBVIOUS
  <2>1. s[1].part = "head" /\ s[1 + 1].part = "head"
    BY <1>1 DEF Heads
  <2>2. \A i \in Torn(r) : k + i # 1
    BY <1>1 DEF Torn
  <2> QED
    BY <1>1, <2>1, <2>2 DEF Torn
<1>6. IsFiniteSet(Torn(r)) /\ IsFiniteSet(Torn(s))
      /\ Cardinality(Torn(r)) \in Nat /\ Cardinality(Torn(s)) \in Nat
  BY TornIsFinite
<1>7. IsFiniteSet(moved) /\ Cardinality(moved) = Cardinality(Torn(r))
  <2> DEFINE f == [i \in Torn(r) |-> k + i]
  <2>1. f \in Bijection(Torn(r), moved)
    <3>1. \A i \in Torn(r) : i \in Nat
      BY DEF Torn
    <3>2. \A i, j \in Torn(r) : f[i] = f[j] => i = j
      BY <1>1, <3>1
    <3>3. f \in [Torn(r) -> moved] /\ \A x \in moved : \E i \in Torn(r) : f[i] = x
      OBVIOUS
    <3> HIDE DEF f
    <3> QED
      BY <3>2, <3>3 DEF Bijection, Injection, Surjection, IsInjective
  <2> HIDE DEF f, moved
  <2> QED
    BY <1>6, <2>1, FS_Bijection DEF ExistsBijection
<1> HIDE DEF moved
<1>8. CASE n = 1
  BY <1>4, <1>6, <1>7, <1>8, <1>2, <1>3, FS_Subset
<1>9. CASE n > 1
  <2>1. moved \cup {1} \subseteq Torn(s)
    BY <1>4, <1>5, <1>9
  <2>2. Cardinality(moved \cup {1}) = Cardinality(moved) + 1
    BY <1>5, <1>7, <1>9, FS_AddElement
  <2>3. Cardinality(moved \cup {1}) <= Cardinality(Torn(s))
    BY <1>6, <2>1, FS_Subset
  <2> QED
    BY <1>1, <1>2, <1>3, <1>6, <1>7, <1>9, <2>2, <2>3
<1>10. n = 1 \/ n > 1
  <2>1. n \in Nat
    OBVIOUS
  <2> HIDE DEF n
  <2> QED
    BY <1>2, <2>1
<1> QED
  BY <1>8, <1>9, <1>10, Zenon
-----------------------------------------------------------------------------
(* The steps of the client and of the server.                              *)

\* A request or a notification is over.
Ended ==
  /\ phase' = "idle" /\ todo' = <<>> /\ line' = <<>> /\ UNCHANGED <<next_id, id>>
  /\ stage' \in {"initialize", "notify", "list", "up", "skipped"}
  /\ closed' \in BOOLEAN /\ (closed => closed')
  /\ IF stage' = "skipped" THEN closed' ELSE closed' = closed

LEMMA ReturnEnds ==
  ASSUME McpTypes, stage # "skipped", NEW ok, Mcp!Return(ok)
  PROVE  Ended /\ (~ok /\ stage # "up" => stage' = "skipped")
<1>1. CASE ok
  <2>1. stage' = Mcp!NextStage[stage] /\ stage' \in {"initialize", "notify", "list", "up"}
    BY <1>1 DEF Mcp!Return, Mcp!NextStage, McpTypes
  <2> QED
    BY <1>1, <2>1 DEF Mcp!Return, McpTypes, Ended
<1>2. CASE ~ok
  <2>1. stage' = IF stage = "up" THEN "up" ELSE "skipped"
    BY <1>2 DEF Mcp!Return
  <2> QED
    BY <1>2, <2>1 DEF Mcp!Return, McpTypes, Ended
<1> QED
  BY <1>1, <1>2

\* A line is taken: its result, if it is one, is the answer to the request.
LEMMA TakeIs ==
  ASSUME McpTypes, stage # "skipped", NEW m, Mcp!Take(m)
  PROVE  /\ line' = <<>> /\ cuts' = cuts
         /\ broken' = broken + (IF m = Mcp!Broken THEN 1 ELSE 0)
         /\ Ended \/ UNCHANGED <<stage, next_id, id, phase, todo, closed>>
         /\ \/ result' = result
            \/ m.id = id /\ result' = [id |-> id, for |-> id, kind |-> m.kind]
               /\ m # Mcp!Broken /\ m # Mcp!Blank
<1>1. CASE /\ m # Mcp!Broken /\ m # Mcp!Blank /\ Mcp!Matches(m)
           /\ result' = [id |-> m.id, for |-> id, kind |-> m.kind]
           /\ Mcp!Return(m.kind # "error")
           /\ UNCHANGED <<cuts, broken>>
  <2>1. Ended
    BY <1>1, ReturnEnds
  <2>2. line' = <<>>
    BY <2>1 DEF Ended
  <2> QED
    BY <1>1, <2>1, <2>2 DEF Mcp!Matches, McpTypes
<1>2. CASE m = Mcp!Broken /\ broken' = broken + 1 /\ Mcp!Return(FALSE) /\ UNCHANGED <<result, cuts>>
  <2>1. Ended
    BY <1>2, ReturnEnds
  <2>2. line' = <<>>
    BY <2>1 DEF Ended
  <2> QED
    BY <1>2, <2>1, <2>2
<1>3. CASE /\ m # Mcp!Broken /\ (m = Mcp!Blank \/ ~Mcp!Matches(m))
           /\ IF count + 1 = MAX_MESSAGES_PER_REQUEST
                THEN Mcp!Return(FALSE)
                ELSE /\ count' = count + 1 /\ line' = <<>>
                     /\ UNCHANGED <<stage, next_id, id, phase, todo, closed>>
           /\ UNCHANGED <<result, cuts, broken>>
  <2>1. CASE count + 1 = MAX_MESSAGES_PER_REQUEST
    <3>1. Ended
      BY <1>3, <2>1, ReturnEnds
    <3>2. line' = <<>>
      BY <3>1 DEF Ended
    <3> QED
      BY <1>3, <3>1, <3>2 DEF McpTypes
  <2>2. CASE count + 1 # MAX_MESSAGES_PER_REQUEST
    BY <1>3, <2>2 DEF McpTypes
  <2> QED
    BY <2>1, <2>2
<1> QED
  BY <1>1, <1>2, <1>3 DEF Mcp!Take

\* What a line is read as, when it is a message.
LEMMA ReadingIs ==
  ASSUME NEW s, NEW whole, NEW m \in Mcp!Readings(s, whole)
  PROVE  /\ m \in {s[1].msg, Mcp!Broken, Mcp!Blank}
         /\ s[1].part # "head" => m \in {Mcp!Broken, Mcp!Blank}
         /\ s[1].part = "head" /\ whole => m = s[1].msg
BY DEF Mcp!Readings

LEMMA TodoIs ==
  ASSUME McpTypes, PhaseInv, phase = "write"
  PROVE  \E t \in Piece :
           /\ t.part = "tail"
           /\ \/ todo = <<t>> /\ Len(todo) = 1 /\ Head(todo) = t /\ Tail(todo) = <<>>
              \/ \E h \in Piece : /\ h.part = "head" /\ todo = <<h, t>> /\ Len(todo) = 2
                                  /\ Head(todo) = h /\ Tail(todo) = <<t>>
<1>1. PICK t \in Piece : /\ t.part = "tail"
                         /\ todo = <<t>> \/ \E h \in Piece : h.part = "head" /\ todo = <<h, t>>
  BY DEF PhaseInv
<1>2. CASE todo = <<t>>
  BY <1>1, <1>2
<1>3. ASSUME NEW h \in Piece, h.part = "head", todo = <<h, t>>
      PROVE  Len(todo) = 2 /\ Head(todo) = h /\ Tail(todo) = <<t>>
  BY <1>3
<1> QED
  BY <1>1, <1>2, <1>3
-----------------------------------------------------------------------------
(* Types, phases and results.                                              *)

McpBasis == McpTypes /\ PhaseInv /\ ResultInv

LEMMA EndedKeeps ==
  ASSUME McpBasis, Ended, UNCHANGED <<out, half, garbled, asked, result>>,
         stdin' \in Seq(Piece), stdout' \in Seq(Piece), Numbered(stdout'),
         cuts' \in Nat, broken' \in Nat, torn' \in Nat
  PROVE  McpBasis'
<1>1. McpTypes'
  BY DEF McpBasis, McpTypes, Ended
<1>2. PhaseInv'
  BY DEF Ended, PhaseInv
<1>3. ResultInv'
  BY DEF McpBasis, ResultInv, Ended, Numbered
<1> QED
  BY <1>1, <1>2, <1>3 DEF McpBasis

\* The answer that Take takes.
LEMMA TakeKeeps ==
  ASSUME McpBasis, stage # "skipped", phase = "read", NEW m, Mcp!Take(m),
         m.id # 0 => \/ m = Mcp!Broken \/ m = Mcp!Blank
                     \/ m.kind \in {"answer", "error", "request"},
         stdout' \in Seq(Piece), Numbered(stdout'),
         UNCHANGED <<out, half, garbled, asked, stdin, torn>>
  PROVE  McpBasis'
<1>1. McpTypes /\ cuts \in Nat /\ broken \in Nat /\ torn \in Nat
  BY DEF McpBasis, McpTypes
<1>2. /\ line' = <<>> /\ cuts' = cuts
      /\ broken' = broken + (IF m = Mcp!Broken THEN 1 ELSE 0)
      /\ Ended \/ UNCHANGED <<stage, next_id, id, phase, todo, closed>>
      /\ \/ result' = result
         \/ m.id = id /\ result' = [id |-> id, for |-> id, kind |-> m.kind]
            /\ m # Mcp!Broken /\ m # Mcp!Blank
  BY <1>1, TakeIs
<1>3. cuts' \in Nat /\ broken' \in Nat /\ torn' \in Nat
  BY <1>1, <1>2
<1>4. McpTypes'
  <2>1. CASE Ended
    BY <1>3, <2>1 DEF McpBasis, McpTypes, Ended
  <2>2. CASE UNCHANGED <<stage, next_id, id, phase, todo, closed>>
    BY <1>2, <1>3, <2>2 DEF McpBasis, McpTypes
  <2> QED
    BY <1>2, <2>1, <2>2
<1>5. PhaseInv'
  <2>1. CASE Ended
    BY <2>1 DEF PhaseInv, Ended
  <2>2. CASE UNCHANGED <<stage, next_id, id, phase, todo, closed>>
    BY <1>2, <2>2 DEF McpBasis, PhaseInv
  <2> QED
    BY <1>2, <2>1, <2>2
<1>6. Numbered(line)' /\ Numbered(stdout)' /\ Numbered(out)'
  BY <1>2 DEF McpBasis, ResultInv, Numbered
<1>7. result'.for # 0 =>
        result'.id = result'.for /\ result'.kind \in {"answer", "error", "request"}
  <2>1. CASE result' = result
    BY <2>1 DEF McpBasis, ResultInv
  <2>2. CASE /\ m.id = id /\ result' = [id |-> id, for |-> id, kind |-> m.kind]
             /\ m # Mcp!Broken /\ m # Mcp!Blank
    BY <2>2
  <2> QED
    BY <1>2, <2>1, <2>2
<1> QED
  BY <1>4, <1>5, <1>6, <1>7 DEF McpBasis, ResultInv

LEMMA McpBasisStep ==
  ASSUME McpBasis, Mcp!Next
  PROVE  McpBasis'
<1>1. /\ McpTypes /\ PhaseInv /\ ResultInv
      /\ Numbered(line) /\ Numbered(stdout) /\ Numbered(out)
      /\ cuts \in Nat /\ broken \in Nat /\ torn \in Nat /\ garbled \in Nat
      /\ stdin \in Seq(Piece) /\ stdout \in Seq(Piece) /\ line \in Seq(Piece)
  BY DEF McpBasis, McpTypes, ResultInv
<1>2. phase # "idle" => stage # "skipped"
  BY <1>1 DEF PhaseInv
<1> USE DEF Mcp!historyVars, Mcp!serverVars, Mcp!clientVars
<1>3. ASSUME NEW k, k \in {"request", "notification"}, NEW i \in Nat,
             phase = "idle", stage # "skipped",
             phase' = "write", todo' = Mcp!Line([id |-> i, kind |-> k]),
             id' \in Nat, next_id' \in Nat,
             UNCHANGED <<stage, line, count, stdin, stdout, closed, Mcp!serverVars,
                         Mcp!historyVars>>
      PROVE  McpBasis'
  <2>1. [id |-> i, kind |-> k] \in [id : Nat, kind : Mcp!Kinds] /\ k # "huge"
    BY <1>3 DEF Mcp!Kinds
  <2>2. /\ todo' \in Seq(Piece)
        /\ \E h, t \in Piece : h.part = "head" /\ t.part = "tail" /\ todo' = <<h, t>>
    BY <1>3, <2>1, LineIs
  <2>3. McpTypes'
    BY <1>1, <1>3, <2>2 DEF McpTypes
  <2>4. PhaseInv'
    BY <1>1, <1>3, <2>2 DEF PhaseInv
  <2>5. ResultInv'
    BY <1>1, <1>3 DEF ResultInv, Numbered
  <2> QED
    BY <2>3, <2>4, <2>5 DEF McpBasis
<1>4. CASE Mcp!Request
  <2>1. next_id \in Nat /\ next_id + 1 \in Nat
    BY <1>1 DEF McpTypes
  <2> QED
    BY <1>3, <1>4, <2>1 DEF Mcp!Request
<1>5. CASE Mcp!Notify
  <2>1. next_id \in Nat
    BY <1>1 DEF McpTypes
  <2> QED
    BY <1>3, <1>5, <2>1 DEF Mcp!Notify
<1>6. CASE Mcp!WritePiece
  <2>1. phase = "write" /\ stdin' = Append(stdin, Head(todo))
        /\ UNCHANGED <<stdout, out, half, garbled, asked, result, cuts, broken, torn>>
    BY <1>6 DEF Mcp!WritePiece
  <2>2. PICK t \in Piece :
           /\ t.part = "tail"
           /\ \/ todo = <<t>> /\ Len(todo) = 1 /\ Head(todo) = t /\ Tail(todo) = <<>>
              \/ \E h \in Piece : /\ h.part = "head" /\ todo = <<h, t>> /\ Len(todo) = 2
                                  /\ Head(todo) = h /\ Tail(todo) = <<t>>
    BY <1>1, <2>1, TodoIs
  <2>3. stdin' \in Seq(Piece)
    BY <1>1, <2>1, <2>2
  <2>4. CASE Ended
    BY <1>1, <2>1, <2>3, <2>4, EndedKeeps
  <2>5. CASE /\ todo' = Tail(todo) /\ Len(todo) > 1
             /\ UNCHANGED <<stage, next_id, id, phase, line, count, closed>>
    <3>1. todo' = <<t>>
      BY <2>2, <2>5
    <3>2. todo' \in Seq(Piece)
      BY <3>1
    <3>3. McpTypes' /\ PhaseInv'
      BY <1>1, <2>1, <2>2, <2>3, <2>5, <3>1, <3>2 DEF McpTypes, PhaseInv
    <3>4. ResultInv'
      BY <1>1, <2>1, <2>5 DEF ResultInv, Numbered
    <3> QED
      BY <3>3, <3>4 DEF McpBasis
  <2>6. CASE /\ todo' = <<>> /\ phase' = "read"
             /\ UNCHANGED <<stage, next_id, id, line, count, closed>>
    <3>1. McpTypes' /\ PhaseInv'
      BY <1>1, <1>2, <2>1, <2>3, <2>6 DEF McpTypes, PhaseInv
    <3>2. ResultInv'
      BY <1>1, <2>1, <2>6 DEF ResultInv, Numbered
    <3> QED
      BY <3>1, <3>2 DEF McpBasis
  <2>7. Mcp!Return(TRUE) => Ended
    BY <1>1, <1>2, <2>1, ReturnEnds
  <2> QED
    BY <1>6, <2>4, <2>5, <2>6, <2>7 DEF Mcp!WritePiece
<1>7. CASE Mcp!WriteFails
  <2>1. Mcp!Return(FALSE) /\ phase = "write"
    BY <1>7 DEF Mcp!WriteFails
  <2>2. Ended
    BY <1>1, <1>2, <2>1, ReturnEnds
  <2> QED
    BY <1>1, <1>7, <2>2, EndedKeeps DEF Mcp!WriteFails
<1>8. CASE Mcp!ReadPiece
  <2>1. /\ phase = "read" /\ stdout # <<>> /\ stdout' = Tail(stdout)
        /\ UNCHANGED <<out, half, garbled, asked, stdin, torn>>
    BY <1>8 DEF Mcp!ReadPiece
  <2>2. /\ stdout' \in Seq(Piece) /\ Numbered(stdout') /\ Head(stdout) \in Piece
        /\ Head(stdout) = stdout[1] /\ 1 \in 1..Len(stdout)
    BY <1>1, <2>1, NumberedAre
  <2> DEFINE p == Head(stdout)
             l == Append(line, p)
  <2>3. p.msg.id # 0 => p.msg.kind \in {"answer", "error", "request"}
    BY <1>1, <2>2 DEF Numbered
  <2>4. l \in Seq(Piece) /\ Numbered(l) /\ 1 \in 1..Len(l)
    BY <1>1, <2>2, <2>3, NumberedAre
  <2> HIDE DEF p, l
  <2>5. ASSUME NEW m \in Mcp!Readings(l, TRUE), Mcp!Take(m) PROVE McpBasis'
    <3>1. m \in {l[1].msg, Mcp!Broken, Mcp!Blank}
      BY ReadingIs
    <3>2. l[1].msg.id # 0 => l[1].msg.kind \in {"answer", "error", "request"}
      BY <2>4 DEF Numbered
    <3> QED
      BY <1>2, <2>1, <2>2, <2>5, <3>1, <3>2, TakeKeeps
  <2>6. CASE cuts' = cuts + 1 /\ Mcp!Return(FALSE) /\ UNCHANGED <<result, broken>>
    <3>1. Ended
      BY <1>1, <1>2, <2>1, <2>6, ReturnEnds
    <3>2. cuts' \in Nat /\ broken' \in Nat /\ torn' \in Nat /\ stdin' \in Seq(Piece)
      BY <1>1, <2>1, <2>6
    <3> QED
      BY <2>1, <2>2, <2>6, <3>1, <3>2, EndedKeeps
  <2>7. CASE /\ line' = l
             /\ UNCHANGED <<stage, next_id, id, phase, todo, count, closed, result, cuts, broken>>
    <3>1. McpTypes'
      BY <1>1, <2>1, <2>2, <2>4, <2>7 DEF McpTypes
    <3>2. PhaseInv'
      BY <1>1, <2>1, <2>7 DEF PhaseInv
    <3>3. ResultInv'
      BY <1>1, <2>1, <2>2, <2>4, <2>7 DEF ResultInv, Numbered
    <3> QED
      BY <3>1, <3>2, <3>3 DEF McpBasis
  <2> QED
    BY <1>8, <2>5, <2>6, <2>7 DEF Mcp!ReadPiece, p, l
<1>9. CASE Mcp!ReadEnd
  <2>1. /\ phase = "read" /\ UNCHANGED <<stdout, out, half, garbled, asked, stdin, torn>>
    BY <1>9 DEF Mcp!ReadEnd
  <2>2. ASSUME NEW m \in Mcp!Readings(line, FALSE), line # <<>>, Mcp!Take(m) PROVE McpBasis'
    <3>1. m \in {line[1].msg, Mcp!Broken, Mcp!Blank}
      BY ReadingIs
    <3>2. 1 \in 1..Len(line)
      BY <1>1, <2>2
    <3>3. line[1].msg.id # 0 => line[1].msg.kind \in {"answer", "error", "request"}
      BY <1>1, <3>2 DEF Numbered
    <3>4. stdout' \in Seq(Piece) /\ Numbered(stdout')
      BY <1>1, <2>1
    <3> QED
      BY <1>2, <2>1, <2>2, <3>1, <3>3, <3>4, TakeKeeps
  <2>3. CASE Mcp!Return(FALSE) /\ UNCHANGED <<result, cuts, broken>>
    <3>1. Ended
      BY <1>1, <1>2, <2>1, <2>3, ReturnEnds
    <3> QED
      BY <1>1, <2>1, <2>3, <3>1, EndedKeeps
  <2> QED
    BY <1>9, <2>2, <2>3 DEF Mcp!ReadEnd
<1>10. CASE Mcp!Timeout
  <2>1. /\ phase # "idle" /\ Mcp!Return(FALSE)
        /\ cuts' = IF line # <<>> THEN cuts + 1 ELSE cuts
        /\ torn' = IF Len(todo) = 1 THEN torn + 1 ELSE torn
        /\ UNCHANGED <<stdin, stdout, out, half, garbled, asked, result, broken>>
    BY <1>10 DEF Mcp!Timeout
  <2>2. Ended
    BY <1>1, <1>2, <2>1, ReturnEnds
  <2>3. cuts' \in Nat /\ torn' \in Nat
    BY <1>1, <2>1
  <2> QED
    BY <1>1, <2>1, <2>2, <2>3, EndedKeeps
<1>11. CASE Mcp!ConnectTimeout
  <2>1. /\ stage # "skipped" /\ Mcp!Return(FALSE)
        /\ UNCHANGED <<stdin, stdout, out, half, garbled, asked, result, broken, cuts, torn>>
    BY <1>11 DEF Mcp!ConnectTimeout
  <2>2. Ended
    BY <1>1, <2>1, ReturnEnds
  <2> QED
    BY <1>1, <2>1, <2>2, EndedKeeps
<1>12. CASE Mcp!ServerReads
  <2>1. /\ stdin # <<>> /\ stdin' = Tail(stdin)
        /\ UNCHANGED <<stage, next_id, id, phase, todo, line, count, stdout, closed, out,
                       result, cuts, broken, torn>>
    BY <1>12 DEF Mcp!ServerReads
  <2>2. Head(stdin) \in Piece /\ stdin' \in Seq(Piece) /\ Head(stdin).msg.id \in Nat
    <3>1. Head(stdin) \in Piece /\ stdin' \in Seq(Piece)
      BY <1>1, <2>1
    <3> QED
      BY <3>1 DEF Piece
  <2>3. half' \in Seq(Piece) /\ asked' \subseteq Nat /\ garbled' \in Nat
    <3>1. half \in Seq(Piece) /\ asked \subseteq Nat /\ <<>> \in Seq(Piece)
      BY <1>1 DEF McpTypes
    <3>2. half' = Append(half, Head(stdin)) \/ half' = <<>>
      BY <1>12 DEF Mcp!ServerReads
    <3>3. asked' = asked \/ asked' = asked \cup ({Head(stdin).msg.id} \ {0})
      BY <1>12 DEF Mcp!ServerReads
    <3>4. garbled' = garbled \/ garbled' = garbled + 1
      BY <1>12 DEF Mcp!ServerReads
    <3>5. half' \in Seq(Piece)
      <4>1. Append(half, Head(stdin)) \in Seq(Piece)
        BY <2>2, <3>1
      <4> QED
        BY <3>1, <3>2, <4>1
    <3>6. asked' \subseteq Nat
      BY <2>2, <3>1, <3>3
    <3>7. garbled' \in Nat
      BY <1>1, <3>4
    <3> QED
      BY <3>5, <3>6, <3>7
  <2>4. McpTypes'
    BY <1>1, <2>1, <2>2, <2>3 DEF McpTypes
  <2> QED
    BY <1>1, <2>1, <2>4 DEF McpBasis, PhaseInv, ResultInv, Numbered
<1>13. CASE Mcp!ServerWrites
  <2>1. /\ out # <<>> /\ stdout' = Append(stdout, Head(out)) /\ out' = Tail(out)
        /\ UNCHANGED <<stage, next_id, id, phase, todo, line, count, stdin, closed, half,
                       asked, result, cuts, broken, torn, garbled>>
    BY <1>13 DEF Mcp!ServerWrites
  <2>2. out \in Seq(Piece) /\ Head(out) \in Piece /\ Tail(out) \in Seq(Piece)
        /\ Head(out) = out[1] /\ 1 \in 1..Len(out)
    BY <1>1, <2>1 DEF McpTypes
  <2>3. Head(out).msg.id # 0 => Head(out).msg.kind \in {"answer", "error", "request"}
    BY <1>1, <2>2 DEF Numbered
  <2>4. Numbered(out') /\ Numbered(stdout')
    BY <1>1, <2>1, <2>2, <2>3, NumberedAre
  <2>5. stdout' \in Seq(Piece)
    BY <1>1, <2>1, <2>2
  <2>6. McpTypes'
    BY <1>1, <2>1, <2>2, <2>5 DEF McpTypes
  <2> QED
    BY <1>1, <2>1, <2>4, <2>6 DEF McpBasis, PhaseInv, ResultInv, Numbered
<1>14. CASE Mcp!ServerEnds
  <2>1. /\ closed' = TRUE
        /\ UNCHANGED <<stage, next_id, id, phase, todo, line, count, stdin, stdout, half,
                       asked, out, result, cuts, broken, torn, garbled>>
    BY <1>14 DEF Mcp!ServerEnds
  <2>2. McpTypes'
    BY <1>1, <2>1 DEF McpTypes
  <2> QED
    BY <1>1, <2>1, <2>2 DEF McpBasis, PhaseInv, ResultInv, Numbered
<1>15. ASSUME NEW m \in [id : Nat, kind : Mcp!Kinds], out' = Mcp!Line(m), asked' \subseteq Nat,
              m.id # 0 => m.kind \in {"answer", "error", "request"},
              UNCHANGED <<stage, next_id, id, phase, todo, line, count, stdin, stdout, closed,
                          half, result, cuts, broken, torn, garbled>>
       PROVE  McpBasis'
  <2>1. out' \in Seq(Piece) /\ Numbered(out')
    BY <1>15, LineIs DEF Numbered
  <2>2. McpTypes'
    BY <1>1, <1>15, <2>1 DEF McpTypes
  <2> QED
    BY <1>1, <1>15, <2>1, <2>2 DEF McpBasis, PhaseInv, ResultInv, Numbered
<1>16. ASSUME NEW i \in asked, NEW k \in {"answer", "error"}, Mcp!ServerAnswers(i, k)
       PROVE  McpBasis'
  <2>1. i \in Nat /\ asked \ {i} \subseteq Nat
    BY <1>1 DEF McpTypes
  <2>2. [id |-> i, kind |-> k] \in [id : Nat, kind : Mcp!Kinds]
    BY <2>1 DEF Mcp!Kinds
  <2> QED
    BY <1>15, <1>16, <2>1, <2>2 DEF Mcp!ServerAnswers
<1>17. ASSUME NEW m \in {[id |-> 0, kind |-> "notification"], [id |-> 0, kind |-> "huge"],
                         [id |-> 1, kind |-> "request"], [id |-> 3, kind |-> "request"]},
              Mcp!ServerSpeaks(m)
       PROVE  McpBasis'
  <2>1. m \in [id : Nat, kind : Mcp!Kinds] /\ (m.id # 0 => m.kind = "request")
    BY DEF Mcp!Kinds
  <2>2. asked' \subseteq Nat
    BY <1>1, <1>17 DEF McpTypes, Mcp!ServerSpeaks
  <2> QED
    BY <1>15, <1>17, <2>1, <2>2 DEF Mcp!ServerSpeaks
<1> QED
  BY <1>4, <1>5, <1>6, <1>7, <1>8, <1>9, <1>10, <1>11, <1>12, <1>13, <1>14, <1>16, <1>17
     DEF Mcp!Next, Mcp!ServerStep
-----------------------------------------------------------------------------
(* Broken lines.                                                           *)

LEMMA HeadlessIs ==
  \A s : Headless(s) \in {0, 1} /\ (s = <<>> => Headless(s) = 0)
BY DEF Headless

LEMMA StreamsAre ==
  ASSUME McpTypes
  PROVE  /\ Ahead \in Seq(Piece) /\ Ahead \o out \in Seq(Piece)
         /\ Len(Ahead) = Len(line) + Len(stdout) /\ Len(Ahead \o out) = Len(Ahead) + Len(out)
         /\ \A i \in 1..Len(Ahead) : (Ahead \o out)[i] = Ahead[i]
         /\ Ahead # <<>> => Headless(Ahead \o out) = Headless(Ahead)
         /\ Ahead # <<>> => Headless(Coming) = Headless(Ahead)
<1>1. line \in Seq(Piece) /\ stdout \in Seq(Piece) /\ out \in Seq(Piece)
  BY DEF McpTypes
<1>2. Ahead \in Seq(Piece) /\ Len(Ahead) = Len(line) + Len(stdout)
  BY <1>1 DEF Ahead
<1> DEFINE y == Ahead \o out
<1>3. y \in Seq(Piece) /\ Len(y) = Len(Ahead) + Len(out)
      /\ \A i \in 1..Len(Ahead) : y[i] = Ahead[i]
  <2>1. /\ y \in Seq(Piece) /\ Len(y) = Len(Ahead) + Len(out)
        /\ \A i \in 1..Len(Ahead) + Len(out) :
             y[i] = IF i <= Len(Ahead) THEN Ahead[i] ELSE out[i - Len(Ahead)]
    <3> DEFINE a == Ahead
    <3>1. a \in Seq(Piece) /\ y = a \o out
      BY <1>2
    <3> HIDE DEF a, y
    <3>2. a \o out \in Seq(Piece) /\ Len(a \o out) = Len(a) + Len(out)
      BY <1>1, <3>1, ConcatProperties
    <3>3. \A i \in 1..Len(a) + Len(out) :
            (a \o out)[i] = IF i <= Len(a) THEN a[i] ELSE out[i - Len(a)]
      BY <1>1, <3>1, ConcatProperties
    <3> QED
      BY <3>1, <3>2, <3>3 DEF a
  <2>2. Len(Ahead) \in Nat /\ Len(out) \in Nat
    BY <1>1, <1>2
  <2>3. \A i \in 1..Len(Ahead) : i \in 1..Len(Ahead) + Len(out) /\ i <= Len(Ahead)
    BY <2>2
  <2> HIDE DEF y
  <2> QED
    BY <2>1, <2>3
<1> HIDE DEF y
<1>4. ASSUME Ahead # <<>> PROVE Headless(y) = Headless(Ahead)
  <2>1. 1 \in 1..Len(Ahead) /\ y # <<>>
    BY <1>1, <1>2, <1>3, <1>4
  <2> QED
    BY <1>3, <1>4, <2>1 DEF Headless
<1> QED
  BY <1>2, <1>3, <1>4 DEF y, Coming

LEMMA BrokenAtMost ==
  ASSUME McpTypes, BrokenInv
  PROVE  broken <= cuts + 1
<1>1. broken \in Nat /\ cuts \in Nat /\ Headless(Coming) \in {0, 1}
  BY HeadlessIs DEF McpTypes
<1> QED
  BY <1>1 DEF BrokenInv

\* As long as something is ahead, every broken line is the rest of one that was cut.
LEMMA BrokenAhead ==
  ASSUME McpTypes, BrokenInv, stage # "skipped", Ahead # <<>>
  PROVE  broken + Headless(Ahead) <= cuts
BY StreamsAre, HeadlessIs DEF McpTypes, BrokenInv

\* Nothing comes or is given up.
LEMMA BrokenRemains ==
  ASSUME McpTypes, BrokenInv, stage # "skipped", UNCHANGED <<line, stdout, out, broken, cuts>>,
         closed' = closed \/ stage' = "skipped"
  PROVE  BrokenInv'
<1>1. CASE stage' = "skipped"
  BY <1>1, BrokenAtMost DEF BrokenInv
<1>2. CASE stage' # "skipped"
  BY <1>2 DEF BrokenInv, Follows, Headless, Coming, Ahead
<1> QED
  BY <1>1, <1>2

LEMMA AtMost ==
  ASSUME NEW b \in Nat, NEW c \in Nat, b <= c
  PROVE  /\ b <= c + 1
         /\ \A h, e \in {0, 1} : h = 0 \/ b + 1 <= c => b + h <= c + e
OBVIOUS

\* The first n pieces are off, with the end of a line or because it was cut.
LEMMA LineGoes ==
  ASSUME McpTypes, stage # "skipped", BrokenInv, NEW n \in Nat, n > 0, Ahead # <<>>,
         line' = <<>>, out' = out, stdout' \in Seq(Piece),
         Len(Ahead) = n + Len(stdout'), \A i \in 1..Len(stdout') : stdout'[i] = Ahead[n + i],
         closed' = closed \/ stage' = "skipped",
         broken' \in Nat, cuts' \in Nat, broken' <= cuts',
         Ahead[n].part = "tail" \/ broken' + 1 <= cuts'
  PROVE  BrokenInv'
<1> DEFINE y == Ahead \o out
           x == stdout' \o out
<1>1. /\ Ahead \in Seq(Piece) /\ y \in Seq(Piece) /\ Len(y) = Len(Ahead) + Len(out)
      /\ \A i \in 1..Len(Ahead) : y[i] = Ahead[i]
      /\ out \in Seq(Piece) /\ Len(out) \in Nat /\ Len(stdout') \in Nat
  BY StreamsAre DEF McpTypes
<1>2. \A i \in 1..Len(out) : y[Len(Ahead) + i] = out[i]
  BY <1>1
<1>3. /\ x \in Seq(Piece) /\ Len(x) = Len(stdout') + Len(out)
      /\ \A i \in 1..Len(stdout') : x[i] = stdout'[i]
      /\ \A i \in 1..Len(out) : x[Len(stdout') + i] = out[i]
  BY <1>1
<1> HIDE DEF x, y
<1>4. \A i \in 1..Len(x) : x[i] = y[n + i]
  <2> SUFFICES ASSUME NEW i \in 1..Len(x) PROVE x[i] = y[n + i]
    OBVIOUS
  <2>1. CASE i <= Len(stdout')
    <3>1. i \in 1..Len(stdout') /\ n + i \in 1..Len(Ahead)
      BY <1>1, <1>3, <2>1
    <3> QED
      BY <1>1, <1>3, <3>1
  <2>2. CASE ~(i <= Len(stdout'))
    <3> DEFINE j == i - Len(stdout')
    <3>1. j \in 1..Len(out) /\ Len(stdout') + j = i /\ Len(Ahead) + j = n + i
      BY <1>1, <1>3, <2>2
    <3> HIDE DEF j
    <3> QED
      BY <1>2, <1>3, <3>1
  <2> QED
    BY <2>1, <2>2
<1>5. Len(y) = n + Len(x) /\ n \in 1..Len(Ahead) /\ y[n] = Ahead[n]
  <2>1. Len(y) = n + Len(x) /\ n \in 1..Len(Ahead)
    BY <1>1, <1>3
  <2> QED
    BY <1>1, <2>1
<1>6. ASSUME stage' # "skipped" PROVE Follows(y) /\ Follows(Ahead)
  <2>1. Follows(y)
    BY DEF BrokenInv, y
  <2>2. ASSUME NEW i \in 1..Len(Ahead) - 1, Ahead[i].part = "tail"
        PROVE  Ahead[i + 1].part = "head"
    <3>1. i \in 1..Len(Ahead) /\ i + 1 \in 1..Len(Ahead) /\ i \in 1..Len(y) - 1
      BY <1>1
    <3> QED
      BY <1>1, <2>1, <2>2, <3>1 DEF Follows
  <2> QED
    BY <2>1, <2>2 DEF Follows
<1>7. ASSUME stage' # "skipped"
      PROVE  /\ Follows(x)
             /\ Ahead[n].part = "tail" => Headless(x) = 0 /\ Headless(stdout') = 0
  BY <1>1, <1>3, <1>4, <1>5, <1>6, <1>7, RestFollows
<1>8. Ahead' = stdout' /\ (Ahead \o out)' = x /\ Coming' \in {x, stdout'}
  <2>1. <<>> \o stdout' = stdout'
    OBVIOUS
  <2>2. Ahead' = stdout'
    BY <2>1 DEF Ahead
  <2> QED
    BY <2>2 DEF Coming, x
<1>9. Headless(Coming)' \in {0, 1}
      /\ (Headless(x) = 0 /\ Headless(stdout') = 0 => Headless(Coming)' = 0)
  BY <1>8 DEF Headless
<1>10. broken' <= cuts' + 1
  BY AtMost
<1>11. CASE stage' = "skipped"
  BY <1>10, <1>11 DEF BrokenInv
<1>12. CASE stage' # "skipped"
  <2> DEFINE h == Headless(Coming)'
             e == IF closed' /\ Ahead' = <<>> THEN 1 ELSE 0
  <2>1. h \in {0, 1} /\ e \in {0, 1}
    BY <1>9
  <2>2. h = 0 \/ broken' + 1 <= cuts'
    BY <1>7, <1>9, <1>12
  <2>3. Follows(Ahead \o out)'
    BY <1>7, <1>8, <1>12 DEF Follows
  <2> HIDE DEF h, e
  <2>4. broken' + h <= cuts' + e
    BY <2>1, <2>2, AtMost
  <2> QED
    BY <1>12, <2>3, <2>4 DEF BrokenInv, h, e
<1> QED
  BY <1>11, <1>12

LEMMA BrokenStep ==
  ASSUME McpBasis, BrokenInv, Mcp!Next
  PROVE  BrokenInv'
<1>1. /\ McpTypes /\ PhaseInv /\ BrokenInv
      /\ cuts \in Nat /\ broken \in Nat /\ Len(line) \in Nat /\ Len(stdout) \in Nat
      /\ stdout \in Seq(Piece) /\ line \in Seq(Piece) /\ out \in Seq(Piece)
  BY DEF McpBasis, McpTypes
<1>2. phase # "idle" => stage # "skipped"
  BY <1>1 DEF PhaseInv
<1>3. ASSUME Ended PROVE closed' = closed \/ stage' = "skipped"
  BY <1>3 DEF Ended
<1> USE DEF Mcp!historyVars, Mcp!serverVars, Mcp!clientVars
<1>4. CASE Mcp!Request
  <2>1. stage # "skipped" /\ UNCHANGED <<line, stdout, out, broken, cuts, closed>>
    BY <1>4 DEF Mcp!Request
  <2> QED
    BY <1>1, <2>1, BrokenRemains
<1>5. CASE Mcp!Notify
  <2>1. stage # "skipped" /\ UNCHANGED <<line, stdout, out, broken, cuts, closed>>
    BY <1>5 DEF Mcp!Notify
  <2> QED
    BY <1>1, <2>1, BrokenRemains
<1>6. CASE Mcp!WritePiece
  <2>1. phase = "write" /\ line = <<>> /\ UNCHANGED <<stdout, out, broken, cuts>>
    BY <1>1, <1>6 DEF Mcp!WritePiece, PhaseInv
  <2>2. Mcp!Return(TRUE) => Ended
    BY <1>1, <1>2, <2>1, ReturnEnds
  <2>3. Ended => line' = <<>>
    BY DEF Ended
  <2>4. line' = line /\ (closed' = closed \/ stage' = "skipped")
    BY <1>3, <1>6, <2>1, <2>2, <2>3 DEF Mcp!WritePiece
  <2> QED
    BY <1>1, <1>2, <2>1, <2>4, BrokenRemains
<1>7. CASE Mcp!WriteFails
  <2>1. phase = "write" /\ line = <<>> /\ UNCHANGED <<stdout, out, broken, cuts>>
        /\ Mcp!Return(FALSE)
    BY <1>1, <1>7 DEF Mcp!WriteFails, PhaseInv
  <2>2. Ended
    BY <1>1, <1>2, <2>1, ReturnEnds
  <2>3. line' = line
    BY <2>1, <2>2 DEF Ended
  <2> QED
    BY <1>1, <1>2, <1>3, <2>1, <2>2, <2>3, BrokenRemains
<1>8. CASE Mcp!ReadPiece
  <2>1. /\ phase = "read" /\ stage # "skipped" /\ stdout # <<>> /\ stdout' = Tail(stdout)
        /\ out' = out
    BY <1>2, <1>8 DEF Mcp!ReadPiece
  <2> DEFINE p == Head(stdout)
             l == Append(line, p)
             n == Len(line) + 1
  <2>2. /\ p \in Piece /\ Tail(stdout) \in Seq(Piece) /\ l \in Seq(Piece) /\ n \in Nat /\ n > 0
        /\ Len(Ahead) = n + Len(Tail(stdout)) /\ Ahead[n] = p /\ Ahead[1] = l[1]
        /\ 1 \in 1..Len(l) /\ Ahead # <<>>
        /\ \A i \in 1..Len(Tail(stdout)) : Tail(stdout)[i] = Ahead[n + i]
    <3>1. /\ p \in Piece /\ p = stdout[1] /\ Len(stdout) > 0 /\ Tail(stdout) \in Seq(Piece)
          /\ Len(Tail(stdout)) = Len(stdout) - 1
          /\ \A i \in 1..Len(Tail(stdout)) : Tail(stdout)[i] = stdout[i + 1]
      BY <1>1, <2>1
    <3>2. /\ l \in Seq(Piece) /\ Len(l) = n /\ l[n] = p /\ \A i \in 1..Len(line) : l[i] = line[i]
      BY <1>1, <3>1
    <3>3. /\ Ahead \in Seq(Piece) /\ Len(Ahead) = Len(line) + Len(stdout)
          /\ \A i \in 1..Len(line) : Ahead[i] = line[i]
          /\ \A i \in 1..Len(stdout) : Ahead[Len(line) + i] = stdout[i]
      BY <1>1 DEF Ahead
    <3>4. Ahead[n] = p
      BY <1>1, <3>1, <3>3
    <3>5. Ahead[1] = l[1]
      <4>1. CASE Len(line) = 0
        BY <3>2, <3>4, <4>1
      <4>2. CASE Len(line) > 0
        BY <1>1, <3>2, <3>3, <4>2
      <4> QED
        BY <1>1, <4>1, <4>2
    <3>6. ASSUME NEW i \in 1..Len(Tail(stdout)) PROVE Tail(stdout)[i] = Ahead[n + i]
      <4>1. i + 1 \in 1..Len(stdout) /\ Len(line) + (i + 1) = n + i
        BY <1>1, <3>1
      <4> QED
        BY <3>1, <3>3, <4>1
    <3>7. Len(Ahead) = n + Len(Tail(stdout)) /\ Ahead # <<>> /\ n \in Nat /\ n > 0
          /\ 1 \in 1..Len(l)
      BY <1>1, <3>1, <3>2, <3>3
    <3> QED
      BY <3>1, <3>2, <3>4, <3>5, <3>6, <3>7
  <2>3. broken + Headless(Ahead) <= cuts /\ Headless(Ahead) \in {0, 1}
    BY <1>1, <2>1, <2>2, BrokenAhead, HeadlessIs
  <2> HIDE DEF p, l, n
  <2>4. ASSUME p.part = "tail", NEW m \in Mcp!Readings(l, TRUE), Mcp!Take(m) PROVE BrokenInv'
    <3>1. /\ line' = <<>> /\ cuts' = cuts
          /\ broken' = broken + (IF m = Mcp!Broken THEN 1 ELSE 0)
          /\ Ended \/ UNCHANGED <<stage, next_id, id, phase, todo, closed>>
      BY <1>1, <2>1, <2>4, TakeIs
    <3>2. m = Mcp!Broken => Headless(Ahead) = 1
      <4>1. l[1].part = "head" => m = l[1].msg
        BY ReadingIs
      <4>2. l[1].msg # Mcp!Broken
        <5>1. l[1] \in Piece
          BY <2>2
        <5>2. l[1].msg.kind \in Mcp!Kinds
          BY <5>1 DEF Piece
        <5> QED
          BY <5>2 DEF Mcp!Broken, Mcp!Kinds
      <4> QED
        BY <2>2, <4>1, <4>2 DEF Headless
    <3>3. broken' \in Nat /\ broken' <= cuts' /\ cuts' \in Nat
      BY <1>1, <2>3, <3>1, <3>2
    <3>4. closed' = closed \/ stage' = "skipped"
      BY <1>3, <3>1
    <3> QED
      BY <1>1, <2>1, <2>2, <2>4, <3>1, <3>3, <3>4, LineGoes
  <2>5. CASE cuts' = cuts + 1 /\ Mcp!Return(FALSE) /\ UNCHANGED <<result, broken>>
    <3>1. Ended
      BY <1>1, <2>1, <2>5, ReturnEnds
    <3>2. broken' \in Nat /\ broken' + 1 <= cuts' /\ cuts' \in Nat
      BY <1>1, <2>3, <2>5
    <3>3. broken' <= cuts'
      BY <1>1, <2>3, <2>5
    <3>4. line' = <<>>
      BY <3>1 DEF Ended
    <3> QED
      BY <1>1, <1>3, <2>1, <2>2, <3>1, <3>2, <3>3, <3>4, LineGoes
  <2>6. CASE /\ line' = l
             /\ UNCHANGED <<stage, next_id, id, phase, todo, count, closed, result, cuts, broken>>
    <3>1. Ahead' = Ahead
      BY <1>1, <2>1, <2>6, PieceMoves DEF Ahead, p, l
    <3>2. (Ahead \o out)' = Ahead \o out /\ Coming' = Coming
      BY <2>1, <2>6, <3>1 DEF Coming
    <3> QED
      BY <1>1, <2>6, <3>1, <3>2 DEF BrokenInv, Follows, Headless
  <2> QED
    BY <1>8, <2>4, <2>5, <2>6 DEF Mcp!ReadPiece, p, l
<1>9. CASE Mcp!ReadEnd
  <2>1. /\ phase = "read" /\ stage # "skipped" /\ stdout = <<>> /\ closed
        /\ stdout' = stdout /\ out' = out
    BY <1>2, <1>9 DEF Mcp!ReadEnd
  <2>2. ASSUME NEW m \in Mcp!Readings(line, FALSE), line # <<>>, Mcp!Take(m) PROVE BrokenInv'
    <3>1. /\ line' = <<>> /\ cuts' = cuts
          /\ broken' = broken + (IF m = Mcp!Broken THEN 1 ELSE 0)
          /\ Ended \/ UNCHANGED <<stage, next_id, id, phase, todo, closed>>
      BY <1>1, <2>1, <2>2, TakeIs
    <3>2. Ahead = line
      BY <1>1, <2>1 DEF Ahead
    <3>3. broken + Headless(Ahead) <= cuts /\ Headless(Ahead) \in {0, 1}
      BY <1>1, <2>1, <2>2, <3>2, BrokenAhead, HeadlessIs
    <3>4. broken' <= cuts' + 1 /\ broken' + 0 <= cuts' + 1
      BY <1>1, <3>1, <3>3
    <3>5. closed' \/ stage' = "skipped"
      BY <1>3, <2>1, <3>1
    <3>6. Ahead' = <<>> /\ (Ahead \o out)' = out
      BY <1>1, <2>1, <3>1 DEF Ahead
    <3>7. Follows(out)
      <4>1. Follows(Ahead \o out) /\ Ahead \o out \in Seq(Piece) /\ Len(Ahead) \in Nat
            /\ Len(Ahead \o out) = Len(Ahead) + Len(out)
        BY <1>1, <2>1, <3>2, StreamsAre DEF BrokenInv
      <4>2. \A i \in 1..Len(out) : out[i] = (Ahead \o out)[Len(Ahead) + i]
        BY <1>1, <3>2
      <4> QED
        BY <1>1, <4>1, <4>2, RestFollows
    <3>8. CASE stage' = "skipped"
      BY <3>4, <3>8 DEF BrokenInv
    <3>9. CASE stage' # "skipped"
      <4>1. closed' /\ Coming' = <<>>
        BY <3>5, <3>6, <3>9 DEF Coming
      <4>2. Headless(Coming)' = 0
        BY <4>1 DEF Headless
      <4>3. Follows(Ahead \o out)'
        BY <3>6, <3>7 DEF Follows
      <4>4. broken' \in Nat /\ cuts' \in Nat
        BY <1>1, <3>1
      <4> QED
        <5>1. broken' + Headless(Coming)' <= cuts' + 1
          BY <3>4, <4>2, Zenon
        <5>2. closed' /\ Ahead' = <<>>
          BY <3>6, <4>1
        <5> QED
          BY <3>9, <4>3, <5>1, <5>2 DEF BrokenInv
    <3> QED
      BY <3>8, <3>9
  <2>3. CASE line = <<>> /\ Mcp!Return(FALSE) /\ UNCHANGED <<result, cuts, broken>>
    <3>1. Ended
      BY <1>1, <2>1, <2>3, ReturnEnds
    <3>2. line' = line
      BY <2>3, <3>1 DEF Ended
    <3> QED
      BY <1>1, <1>3, <2>1, <2>3, <3>1, <3>2, BrokenRemains
  <2> QED
    BY <1>9, <2>2, <2>3 DEF Mcp!ReadEnd
<1>10. CASE Mcp!Timeout
  <2>1. /\ stage # "skipped" /\ Mcp!Return(FALSE)
        /\ cuts' = IF line # <<>> THEN cuts + 1 ELSE cuts
        /\ UNCHANGED <<stdout, out, broken>>
    BY <1>2, <1>10 DEF Mcp!Timeout
  <2>2. Ended /\ line' = <<>>
    <3>1. Ended
      BY <1>1, <2>1, ReturnEnds
    <3> QED
      BY <3>1 DEF Ended
  <2>3. CASE line = <<>>
    BY <1>1, <1>3, <2>1, <2>2, <2>3, BrokenRemains
  <2>4. CASE line # <<>>
    <3>1. /\ Len(line) > 0 /\ Ahead # <<>> /\ Len(Ahead) = Len(line) + Len(stdout)
          /\ \A i \in 1..Len(stdout) : stdout[i] = Ahead[Len(line) + i]
      BY <1>1, <2>4 DEF Ahead
    <3>2. broken + Headless(Ahead) <= cuts /\ Headless(Ahead) \in {0, 1}
      BY <1>1, <2>1, <3>1, BrokenAhead, HeadlessIs
    <3>3. broken' \in Nat /\ cuts' \in Nat /\ broken' <= cuts' /\ broken' + 1 <= cuts'
      BY <1>1, <2>1, <2>4, <3>2
    <3>4. stdout' \in Seq(Piece) /\ stdout' = stdout
      BY <1>1, <2>1
    <3> QED
      BY <1>1, <1>3, <2>1, <2>2, <3>1, <3>3, <3>4, LineGoes
  <2> QED
    BY <2>3, <2>4
<1>11. CASE Mcp!ConnectTimeout
  <2>1. stage # "skipped" /\ stage # "up" /\ Mcp!Return(FALSE) /\ UNCHANGED <<broken, cuts>>
    BY <1>11 DEF Mcp!ConnectTimeout
  <2>2. stage' = "skipped"
    BY <1>1, <2>1, ReturnEnds
  <2> QED
    BY <1>1, <2>1, <2>2, BrokenAtMost DEF BrokenInv
<1>12. CASE Mcp!ServerReads
  <2>1. UNCHANGED <<stage, closed, line, stdout, out, broken, cuts>>
    BY <1>12 DEF Mcp!ServerReads
  <2> QED
    BY <1>1, <2>1 DEF BrokenInv, Follows, Headless, Coming, Ahead
<1>13. CASE Mcp!ServerWrites
  <2>1. /\ ~closed /\ out # <<>> /\ stdout' = Append(stdout, Head(out)) /\ out' = Tail(out)
        /\ UNCHANGED <<stage, closed, line, broken, cuts>>
    BY <1>13 DEF Mcp!ServerWrites
  <2>2. (Ahead \o out)' = Ahead \o out
    <3> DEFINE a == Append(stdout, Head(out))
               b == Tail(out)
    <3>1. a \in Seq(Piece) /\ b \in Seq(Piece)
      BY <1>1, <2>1
    <3>2. a \o b = stdout \o out
      BY <1>1, <2>1, PieceMoves
    <3>3. (Ahead \o out)' = (line \o a) \o b
      BY <2>1 DEF Ahead
    <3> HIDE DEF a, b
    <3>4. (line \o a) \o b = line \o (a \o b)
      <4>1. line \in Seq(Piece)
        BY <1>1
      <4> QED
        BY <3>1, <4>1, ConcatAssociative
    <3>5. line \o (stdout \o out) = (line \o stdout) \o out
      <4>1. line \in Seq(Piece) /\ stdout \in Seq(Piece) /\ out \in Seq(Piece)
        BY <1>1
      <4> QED
        BY <4>1, ConcatAssociative
    <3> QED
      BY <3>2, <3>3, <3>4, <3>5 DEF Ahead
  <2>3. Coming = Ahead \o out /\ Coming' = (Ahead \o out)'
    BY <2>1 DEF Coming
  <2> QED
    BY <1>1, <2>1, <2>2, <2>3 DEF BrokenInv, Follows, Headless
<1>14. CASE Mcp!ServerEnds
  <2>1. ~closed /\ closed' = TRUE /\ UNCHANGED <<stage, line, stdout, out, broken, cuts>>
    BY <1>14 DEF Mcp!ServerEnds
  <2>2. Ahead' = Ahead /\ Coming' = Ahead /\ Coming = Ahead \o out
        /\ (Ahead \o out)' = Ahead \o out
    BY <2>1 DEF Ahead, Coming
  <2>3. CASE stage = "skipped"
    BY <1>1, <2>1, <2>3 DEF BrokenInv
  <2>4. CASE stage # "skipped"
    <3>1. broken + Headless(Coming) <= cuts /\ Follows(Ahead \o out)
      BY <1>1, <2>1, <2>4, HeadlessIs DEF BrokenInv
    <3>2. Headless(Ahead) <= Headless(Coming)
      BY <1>1, StreamsAre, HeadlessIs
    <3>3. broken + Headless(Ahead) <= cuts
      BY <1>1, <3>1, <3>2, HeadlessIs
    <3>4. Headless(Coming)' = Headless(Ahead) /\ (Follows(Ahead \o out)' <=> Follows(Ahead \o out))
      BY <2>2 DEF Headless, Follows
    <3>5. Headless(Ahead) \in {0, 1}
      BY HeadlessIs
    <3> QED
      BY <1>1, <2>1, <2>2, <2>4, <3>1, <3>3, <3>4, <3>5 DEF BrokenInv
  <2> QED
    BY <2>3, <2>4
<1>15. ASSUME NEW m \in [id : Nat, kind : Mcp!Kinds], out = <<>>, out' = Mcp!Line(m), ~closed,
              UNCHANGED <<stage, line, stdout, closed, cuts, broken>>
       PROVE  BrokenInv'
  <2>1. Ahead \o out = Ahead
    BY <1>1, <1>15, StreamsAre
  <2>2. Ahead' = Ahead /\ Coming = Ahead /\ Coming' = Ahead \o Mcp!Line(m)
        /\ (Ahead \o out)' = Ahead \o Mcp!Line(m)
    BY <1>15, <2>1 DEF Ahead, Coming
  <2>3. CASE stage = "skipped"
    BY <1>1, <1>15, <2>3 DEF BrokenInv
  <2>4. CASE stage # "skipped"
    <3>1. broken + Headless(Ahead) <= cuts /\ Follows(Ahead)
      BY <1>1, <1>15, <2>1, <2>2, <2>4, HeadlessIs DEF BrokenInv
    <3>2. /\ Follows(Ahead \o Mcp!Line(m))
          /\ Headless(Ahead \o Mcp!Line(m)) = Headless(Ahead)
      BY <1>1, <3>1, StreamsAre, LineFollows
    <3>3. Headless(Coming)' = Headless(Ahead) /\ Follows(Ahead \o out)'
      BY <2>2, <3>2 DEF Headless, Follows
    <3>4. Headless(Ahead) \in {0, 1}
      BY HeadlessIs
    <3> QED
      BY <1>1, <1>15, <2>4, <3>1, <3>3, <3>4 DEF BrokenInv
  <2> QED
    BY <2>3, <2>4
<1>16. ASSUME NEW i \in asked, NEW k \in {"answer", "error"}, Mcp!ServerAnswers(i, k)
       PROVE  BrokenInv'
  <2>1. i \in Nat
    BY <1>1 DEF McpTypes
  <2>2. [id |-> i, kind |-> k] \in [id : Nat, kind : Mcp!Kinds]
    BY <2>1 DEF Mcp!Kinds
  <2> QED
    BY <1>15, <1>16, <2>2 DEF Mcp!ServerAnswers
<1>17. ASSUME NEW m \in {[id |-> 0, kind |-> "notification"], [id |-> 0, kind |-> "huge"],
                         [id |-> 1, kind |-> "request"], [id |-> 3, kind |-> "request"]},
              Mcp!ServerSpeaks(m)
       PROVE  BrokenInv'
  <2>1. m \in [id : Nat, kind : Mcp!Kinds]
    BY DEF Mcp!Kinds
  <2> QED
    BY <1>15, <1>17, <2>1 DEF Mcp!ServerSpeaks
<1> QED
  BY <1>4, <1>5, <1>6, <1>7, <1>8, <1>9, <1>10, <1>11, <1>12, <1>13, <1>14, <1>16, <1>17
     DEF Mcp!Next, Mcp!ServerStep
-----------------------------------------------------------------------------
(* Garbled lines.                                                          *)

LEMMA JoinIs ==
  ASSUME NEW S, NEW a \in Seq(S), NEW b \in Seq(S)
  PROVE  /\ a \o b \in Seq(S) /\ Len(a \o b) = Len(a) + Len(b)
         /\ Len(a) \in Nat /\ Len(b) \in Nat
         /\ \A i \in 1..Len(a) : (a \o b)[i] = a[i]
         /\ \A i \in 1..Len(b) : (a \o b)[Len(a) + i] = b[i]
<1> DEFINE t == a \o b
<1>1. Len(a) \in Nat /\ Len(b) \in Nat
  OBVIOUS
<1>2. /\ t \in Seq(S) /\ Len(t) = Len(a) + Len(b)
      /\ \A i \in 1..Len(a) + Len(b) : t[i] = IF i <= Len(a) THEN a[i] ELSE b[i - Len(a)]
  BY ConcatProperties
<1> HIDE DEF t
<1>3. ASSUME NEW i \in 1..Len(a) PROVE t[i] = a[i]
  BY <1>1, <1>2
<1>4. ASSUME NEW i \in 1..Len(b) PROVE t[Len(a) + i] = b[i]
  <2>1. /\ Len(a) + i \in 1..Len(a) + Len(b) /\ ~(Len(a) + i <= Len(a))
        /\ (Len(a) + i) - Len(a) = i
    BY <1>1
  <2> QED
    BY <1>2, <2>1
<1> QED
  BY <1>1, <1>2, <1>3, <1>4 DEF t

LEMMA MoreHeads ==
  ASSUME NEW a \in Seq(Piece), Heads(a), NEW p \in Piece, p.part = "head"
  PROVE  Heads(Append(a, p))
<1>1. \A i \in 1..Len(Append(a, p)) :
        \/ Append(a, p)[i] = p
        \/ i \in 1..Len(a) /\ Append(a, p)[i] = a[i]
  OBVIOUS
<1> QED
  BY <1>1 DEF Heads

LEMMA GoingIs ==
  ASSUME McpTypes
  PROVE  /\ Going \in Seq(Piece) /\ Cardinality(Torn(Going)) \in Nat
         /\ half \in Seq(Piece) /\ stdin \in Seq(Piece) /\ todo \in Seq(Piece)
         /\ half \o stdin \in Seq(Piece) /\ garbled \in Nat /\ torn \in Nat
<1>1. /\ half \in Seq(Piece) /\ stdin \in Seq(Piece) /\ todo \in Seq(Piece)
      /\ garbled \in Nat /\ torn \in Nat
  BY DEF McpTypes
<1>2. half \o stdin \in Seq(Piece)
  BY <1>1
<1>3. Going \in Seq(Piece)
  BY <1>1, <1>2 DEF Going
<1> QED
  BY <1>1, <1>2, <1>3, TornIsFinite

LEMMA GarbledAtMost ==
  ASSUME McpTypes, GarbledInv
  PROVE  garbled <= torn
BY GoingIs DEF GarbledInv

\* Nothing is read or torn, or nobody reads any more.
LEMMA GarbledRemains ==
  ASSUME McpTypes, GarbledInv, UNCHANGED <<garbled, torn>>,
         closed' \in BOOLEAN, closed => closed',
         ~closed' => Heads(half') /\ Going' = Going
  PROVE  GarbledInv'
<1>1. CASE closed'
  BY <1>1, GarbledAtMost DEF GarbledInv
<1>2. CASE ~closed'
  BY <1>2 DEF GarbledInv, Paired, Torn, Heads
<1> QED
  BY <1>1, <1>2

LEMMA GarbledStep ==
  ASSUME McpBasis, GarbledInv, Mcp!Next
  PROVE  GarbledInv'
<1>1. /\ McpTypes /\ PhaseInv /\ GarbledInv /\ closed \in BOOLEAN
      /\ Going \in Seq(Piece) /\ Cardinality(Torn(Going)) \in Nat
      /\ half \in Seq(Piece) /\ stdin \in Seq(Piece) /\ todo \in Seq(Piece)
      /\ half \o stdin \in Seq(Piece) /\ garbled \in Nat /\ torn \in Nat
  BY GoingIs DEF McpBasis, McpTypes
<1>2. phase # "idle" => stage # "skipped"
  BY <1>1 DEF PhaseInv
<1>3. phase # "write" => todo = <<>>
  BY <1>1 DEF PhaseInv
<1>4. ~closed => Heads(half)
  BY <1>1 DEF GarbledInv
<1>5. Ended => todo' = <<>> /\ closed' \in BOOLEAN /\ (closed => closed')
  BY DEF Ended
\* What is being written stays as it is.
<1>6. ASSUME UNCHANGED <<half, stdin, todo, garbled, torn>>, closed' \in BOOLEAN,
             closed => closed'
      PROVE  GarbledInv'
  <2>1. Going' = Going
    BY <1>6 DEF Going
  <2>2. ~closed' => Heads(half')
    BY <1>4, <1>6 DEF Heads
  <2> QED
    BY <1>1, <1>6, <2>1, <2>2, GarbledRemains
<1> USE DEF Mcp!historyVars, Mcp!serverVars, Mcp!clientVars
<1>7. ASSUME NEW k, k \in {"request", "notification"}, NEW i \in Nat, phase = "idle",
             todo' = Mcp!Line([id |-> i, kind |-> k]),
             UNCHANGED <<half, stdin, closed, garbled, torn>>
      PROVE  GarbledInv'
  <2>1. [id |-> i, kind |-> k] \in [id : Nat, kind : Mcp!Kinds] /\ k # "huge"
    BY <1>7 DEF Mcp!Kinds
  <2>2. PICK h \in Piece, t \in Piece : h.part = "head" /\ t.part = "tail" /\ todo' = <<h, t>>
    BY <1>7, <2>1, LineIs
  <2>3. Going = half \o stdin
    BY <1>1, <1>3, <1>7 DEF Going
  <2>4. Going' = Going \o <<h, t>>
    BY <1>7, <2>2, <2>3 DEF Going
  <2>5. (Paired(Going \o <<h, t>>) <=> Paired(Going)) /\ Torn(Going \o <<h, t>>) = Torn(Going)
    BY <1>1, <2>2, LineIsPaired
  <2>6. (Paired(Going)' <=> Paired(Going)) /\ Torn(Going)' = Torn(Going)
    BY <2>4, <2>5 DEF Paired, Torn
  <2> QED
    BY <1>1, <1>7, <2>6, GarbledAtMost DEF GarbledInv, Heads
<1>8. CASE Mcp!Request
  <2>1. next_id \in Nat
    BY <1>1 DEF McpTypes
  <2> QED
    BY <1>7, <1>8, <2>1 DEF Mcp!Request
<1>9. CASE Mcp!Notify
  BY <1>7, <1>9 DEF Mcp!Notify
<1>10. CASE Mcp!WritePiece
  <2>1. phase = "write" /\ stdin' = Append(stdin, Head(todo)) /\ UNCHANGED <<half, garbled, torn>>
    BY <1>10 DEF Mcp!WritePiece
  <2>2. todo # <<>> /\ (~(Len(todo) > 1) => Tail(todo) = <<>>)
    BY <1>1, <2>1, TodoIs
  <2>3. Mcp!Return(TRUE) => Ended
    BY <1>1, <1>2, <2>1, ReturnEnds
  <2>4. todo' = Tail(todo) /\ closed' \in BOOLEAN /\ (closed => closed')
    BY <1>1, <1>5, <1>10, <2>2, <2>3 DEF Mcp!WritePiece
  <2>5. Going' = Going
    <3> DEFINE a == Append(stdin, Head(todo))
               b == Tail(todo)
    <3>1. a \in Seq(Piece) /\ b \in Seq(Piece)
      BY <1>1, <2>2
    <3>2. a \o b = stdin \o todo
      BY <1>1, <2>2, PieceMoves
    <3>3. Going' = (half \o a) \o b
      BY <2>1, <2>4 DEF Going
    <3> HIDE DEF a, b
    <3>4. (half \o a) \o b = half \o (a \o b)
      <4>1. half \in Seq(Piece)
        BY <1>1
      <4> QED
        BY <3>1, <4>1, ConcatAssociative
    <3>5. half \o (stdin \o todo) = (half \o stdin) \o todo
      <4>1. half \in Seq(Piece) /\ stdin \in Seq(Piece) /\ todo \in Seq(Piece)
        BY <1>1
      <4> QED
        BY <4>1, ConcatAssociative
    <3> QED
      BY <3>2, <3>3, <3>4, <3>5 DEF Going
  <2>6. ~closed' => Heads(half')
    BY <1>1, <1>4, <2>1, <2>4 DEF Heads
  <2> QED
    BY <1>1, <2>1, <2>4, <2>5, <2>6, GarbledRemains
<1>11. CASE Mcp!WriteFails
  <2>1. phase = "write" /\ closed /\ Mcp!Return(FALSE) /\ UNCHANGED <<half, garbled, torn>>
    BY <1>11 DEF Mcp!WriteFails
  <2>2. closed'
    BY <1>1, <1>2, <1>5, <2>1, ReturnEnds
  <2> QED
    BY <1>1, <2>1, <2>2, GarbledAtMost DEF GarbledInv
<1>12. CASE Mcp!ReadPiece
  <2>1. phase = "read" /\ todo = <<>> /\ UNCHANGED <<half, stdin, garbled, torn>>
    BY <1>3, <1>12 DEF Mcp!ReadPiece
  <2>2. ASSUME NEW m, Mcp!Take(m) PROVE Ended \/ UNCHANGED <<todo, closed>>
    BY <1>1, <1>2, <2>1, <2>2, TakeIs
  <2>3. Mcp!Return(FALSE) => Ended
    BY <1>1, <1>2, <2>1, ReturnEnds
  <2>4. Ended \/ UNCHANGED <<todo, closed>>
    BY <1>12, <2>2, <2>3 DEF Mcp!ReadPiece
  <2>5. todo' = todo /\ closed' \in BOOLEAN /\ (closed => closed')
    BY <1>1, <1>5, <2>1, <2>4
  <2> QED
    BY <1>6, <2>1, <2>5
<1>13. CASE Mcp!ReadEnd
  <2>1. phase = "read" /\ todo = <<>> /\ UNCHANGED <<half, stdin, garbled, torn>>
    BY <1>3, <1>13 DEF Mcp!ReadEnd
  <2>2. ASSUME NEW m, Mcp!Take(m) PROVE Ended \/ UNCHANGED <<todo, closed>>
    BY <1>1, <1>2, <2>1, <2>2, TakeIs
  <2>3. Mcp!Return(FALSE) => Ended
    BY <1>1, <1>2, <2>1, ReturnEnds
  <2>4. Ended \/ UNCHANGED <<todo, closed>>
    BY <1>13, <2>2, <2>3 DEF Mcp!ReadEnd
  <2>5. todo' = todo /\ closed' \in BOOLEAN /\ (closed => closed')
    BY <1>1, <1>5, <2>1, <2>4
  <2> QED
    BY <1>6, <2>1, <2>5
<1>14. CASE Mcp!Timeout
  <2>1. /\ phase # "idle" /\ Mcp!Return(FALSE) /\ UNCHANGED <<half, stdin, garbled>>
        /\ torn' = IF Len(todo) = 1 THEN torn + 1 ELSE torn
    BY <1>14 DEF Mcp!Timeout
  <2>2. todo' = <<>> /\ closed' \in BOOLEAN /\ (closed => closed')
    <3>1. Ended
      BY <1>1, <1>2, <2>1, ReturnEnds
    <3> QED
      BY <1>5, <3>1
  <2>3. CASE closed'
    <3>1. garbled' <= torn'
      BY <1>1, <2>1, GarbledAtMost
    <3> QED
      BY <2>3, <3>1 DEF GarbledInv
  <2>4. CASE ~closed'
    <3> DEFINE s == half \o stdin
    <3>1. /\ Heads(half) /\ Paired(Going)
          /\ garbled + Cardinality(Torn(Going)) <= torn
      BY <1>1, <2>2, <2>4 DEF GarbledInv
    <3>2. Going = s \o todo /\ s \in Seq(Piece) /\ Going' = s
      BY <1>1, <2>1, <2>2 DEF Going
    <3>3. IsFiniteSet(Torn(s)) /\ Cardinality(Torn(s)) \in Nat
      BY <3>2, TornIsFinite
    <3> HIDE DEF s
    <3>4. Paired(s) /\ garbled + Cardinality(Torn(s)) <= torn'
      <4>1. CASE todo = <<>>
        <5>1. Going = s
          BY <3>2, <4>1
        <5>2. torn' = torn
          BY <2>1, <4>1
        <5> QED
          BY <3>1, <5>1, <5>2
      <4>2. CASE todo # <<>>
        <5>1. phase = "write"
          BY <1>3, <4>2
        <5>2. PICK t \in Piece :
                 /\ t.part = "tail"
                 /\ \/ todo = <<t>> /\ Len(todo) = 1
                    \/ \E h \in Piece : h.part = "head" /\ todo = <<h, t>> /\ Len(todo) = 2
          BY <1>1, <5>1, TodoIs
        <5>3. CASE todo = <<t>> /\ Len(todo) = 1
          <6>1. Paired(s) /\ Cardinality(Torn(s)) <= Cardinality(Torn(Going)) + 1
            BY <3>1, <3>2, <5>2, <5>3, TailIsTorn
          <6>2. torn' = torn + 1
            BY <2>1, <5>3
          <6> QED
            BY <1>1, <3>1, <3>3, <6>1, <6>2
        <5>4. ASSUME NEW h \in Piece, h.part = "head", todo = <<h, t>>, Len(todo) = 2
              PROVE  Paired(s) /\ garbled + Cardinality(Torn(s)) <= torn'
          <6>1. Paired(s) /\ Torn(s) = Torn(Going)
            BY <3>1, <3>2, <5>2, <5>4, LineIsPaired
          <6>2. torn' = torn
            BY <2>1, <5>4
          <6> QED
            BY <3>1, <6>1, <6>2
        <5> QED
          BY <5>2, <5>3, <5>4
      <4> QED
        BY <4>1, <4>2
    <3>5. Paired(Going)' /\ Torn(Going)' = Torn(s) /\ Heads(half)'
      BY <2>1, <3>1, <3>2, <3>4 DEF Paired, Torn, Heads
    <3> QED
      BY <2>1, <2>4, <3>4, <3>5 DEF GarbledInv
  <2> QED
    BY <2>2, <2>3, <2>4
<1>15. CASE Mcp!ConnectTimeout
  <2>1. stage # "skipped" /\ stage # "up" /\ Mcp!Return(FALSE) /\ UNCHANGED <<garbled, torn>>
    BY <1>15 DEF Mcp!ConnectTimeout
  <2>2. Ended /\ stage' = "skipped"
    BY <1>1, <2>1, ReturnEnds
  <2>3. closed'
    BY <2>2 DEF Ended
  <2> QED
    BY <1>1, <2>1, <2>3, GarbledAtMost DEF GarbledInv
<1>16. CASE Mcp!ServerReads
  <2>1. /\ ~closed /\ stdin # <<>> /\ stdin' = Tail(stdin) /\ UNCHANGED <<todo, closed, torn>>
        /\ IF Head(stdin).part = "head"
             THEN half' = Append(half, Head(stdin)) /\ garbled' = garbled
             ELSE half' = <<>> /\ garbled' = IF Len(half) = 1 THEN garbled ELSE garbled + 1
    BY <1>16 DEF Mcp!ServerReads
  <2>2. Heads(half) /\ Paired(Going) /\ garbled + Cardinality(Torn(Going)) <= torn
    BY <1>1, <2>1 DEF GarbledInv
  <2> DEFINE p == Head(stdin)
             b == Tail(stdin)
  <2>3. /\ p \in Piece /\ p = stdin[1] /\ b \in Seq(Piece) /\ Len(b) = Len(stdin) - 1
        /\ Len(stdin) \in Nat \ {0} /\ \A i \in 1..Len(b) : b[i] = stdin[i + 1]
    BY <1>1, <2>1
  <2>4. CASE p.part = "head"
    <3>1. Append(half, p) \o b = half \o stdin
      BY <1>1, <2>1, PieceMoves
    <3>2. Going' = Going
      BY <2>1, <2>4, <3>1 DEF Going
    <3>3. Heads(Append(half, p))
      BY <1>1, <2>2, <2>3, <2>4, MoreHeads
    <3>4. Heads(half')
      BY <2>1, <2>4, <3>3 DEF Heads
    <3> QED
      BY <1>1, <2>1, <2>4, <3>2, <3>4, GarbledRemains
  <2>5. CASE p.part # "head"
    <3> DEFINE r == b \o todo
    <3>1. half' = <<>> /\ garbled' = IF Len(half) = 1 THEN garbled ELSE garbled + 1
      BY <2>1, <2>5
    <3> HIDE DEF p, b
    <3>2. Going' = r
      <4>1. <<>> \o b = b
        BY <2>3
      <4>2. Going' = (<<>> \o b) \o todo
        BY <2>1, <3>1 DEF Going, b
      <4> QED
        BY <4>1, <4>2
    <3>3. /\ r \in Seq(Piece) /\ Len(r) = Len(b) + Len(todo)
          /\ \A i \in 1..Len(b) : r[i] = b[i]
          /\ \A i \in 1..Len(todo) : r[Len(b) + i] = todo[i]
      <4>1. b \in Seq(Piece) /\ todo \in Seq(Piece)
        BY <1>1, <2>3
      <4> QED
        BY <4>1, JoinIs
    <3> HIDE DEF r
    <3> DEFINE s == half \o stdin
    <3>4. /\ s \in Seq(Piece) /\ Len(s) = Len(half) + Len(stdin)
          /\ \A i \in 1..Len(half) : s[i] = half[i]
          /\ \A i \in 1..Len(stdin) : s[Len(half) + i] = stdin[i]
      <4>1. half \in Seq(Piece) /\ stdin \in Seq(Piece)
        BY <1>1
      <4> QED
        BY <4>1, JoinIs
    <3> HIDE DEF s
    <3>5. /\ Len(Going) = Len(s) + Len(todo)
          /\ \A i \in 1..Len(s) : Going[i] = s[i]
          /\ \A i \in 1..Len(todo) : Going[Len(s) + i] = todo[i]
      <4>1. Going = s \o todo
        BY DEF Going, s
      <4>2. s \in Seq(Piece) /\ todo \in Seq(Piece)
        BY <1>1, <3>4
      <4> QED
        BY <4>1, <4>2, JoinIs
    <3>6. Len(half) \in Nat /\ Len(todo) \in Nat /\ Len(b) \in Nat /\ Len(stdin) = Len(b) + 1
      BY <1>1, <2>3
    <3>7. Len(Going) = Len(half) + 1 + Len(r)
      BY <3>3, <3>4, <3>5, <3>6
    <3>8. \A i \in 1..Len(half) : Going[i] = half[i]
      <4>1. \A i \in 1..Len(half) : i \in 1..Len(s)
        BY <3>4, <3>6
      <4> QED
        BY <3>4, <3>5, <4>1
    <3>9. Going[Len(half) + 1] = p
      <4>1. 1 \in 1..Len(stdin) /\ Len(half) + 1 \in 1..Len(s)
        BY <3>4, <3>6
      <4> QED
        BY <2>3, <3>4, <3>5, <4>1
    <3>10. ASSUME NEW i \in 1..Len(r) PROVE Going[Len(half) + 1 + i] = r[i]
      <4>1. CASE i <= Len(b)
        <5>1. /\ i \in 1..Len(b) /\ i + 1 \in 1..Len(stdin)
              /\ Len(half) + (i + 1) = Len(half) + 1 + i /\ Len(half) + 1 + i \in 1..Len(s)
          BY <3>3, <3>4, <3>6, <4>1
        <5>2. s[Len(half) + 1 + i] = stdin[i + 1]
          BY <3>4, <5>1
        <5> QED
          BY <2>3, <3>3, <3>5, <5>1, <5>2
      <4>2. CASE ~(i <= Len(b))
        <5> DEFINE j == i - Len(b)
        <5>1. j \in 1..Len(todo) /\ Len(b) + j = i /\ Len(s) + j = Len(half) + 1 + i
          BY <3>3, <3>4, <3>6, <4>2
        <5> HIDE DEF j
        <5> QED
          BY <3>3, <3>5, <5>1
      <4> QED
        BY <4>1, <4>2
    <3>11. p.part = "tail"
      <4>1. Len(half) + 1 \in 1..Len(Going)
        BY <3>3, <3>6, <3>7
      <4> QED
        BY <2>2, <2>5, <3>9, <4>1 DEF Paired
    <3>12. /\ Len(half) > 0 /\ Paired(r)
           /\ Cardinality(Torn(r)) + (IF Len(half) = 1 THEN 0 ELSE 1) <= Cardinality(Torn(Going))
      BY <1>1, <2>2, <3>3, <3>7, <3>8, <3>9, <3>10, <3>11, TailIsRead
    <3>13. Cardinality(Torn(r)) \in Nat
      BY <3>3, TornIsFinite
    <3>14. garbled' + Cardinality(Torn(r)) <= torn
      <4>1. CASE Len(half) = 1
        BY <1>1, <2>2, <3>1, <3>12, <3>13, <4>1
      <4>2. CASE Len(half) # 1
        BY <1>1, <2>2, <3>1, <3>12, <3>13, <4>2
      <4> QED
        BY <4>1, <4>2
    <3>15. Paired(Going)' /\ Torn(Going)' = Torn(r) /\ Heads(half)'
      BY <3>1, <3>2, <3>12 DEF Paired, Torn, Heads
    <3> QED
      BY <2>1, <3>14, <3>15 DEF GarbledInv
  <2> QED
    BY <2>4, <2>5
<1>17. CASE Mcp!ServerWrites
  BY <1>1, <1>6, <1>17 DEF Mcp!ServerWrites
<1>18. CASE Mcp!ServerEnds
  BY <1>6, <1>18 DEF Mcp!ServerEnds
<1>19. ASSUME NEW i, NEW k, Mcp!ServerAnswers(i, k) PROVE GarbledInv'
  BY <1>1, <1>6, <1>19 DEF Mcp!ServerAnswers
<1>20. ASSUME NEW m, Mcp!ServerSpeaks(m) PROVE GarbledInv'
  BY <1>1, <1>6, <1>20 DEF Mcp!ServerSpeaks
<1> QED
  BY <1>8, <1>9, <1>10, <1>11, <1>12, <1>13, <1>14, <1>15, <1>16, <1>17, <1>18, <1>19, <1>20
     DEF Mcp!Next, Mcp!ServerStep
-----------------------------------------------------------------------------
LEMMA McpBegins == Init => McpInv
<1> SUFFICES ASSUME Init PROVE McpInv
  OBVIOUS
<1>1. /\ phase = "idle" /\ todo = <<>> /\ line = <<>> /\ stdin = <<>> /\ stdout = <<>>
      /\ half = <<>> /\ out = <<>> /\ asked = {} /\ next_id = 1 /\ id = 0
      /\ cuts = 0 /\ broken = 0 /\ torn = 0 /\ garbled = 0
      /\ result = [id |-> 0, for |-> 0, kind |-> "none"]
      /\ (stage = "initialize" /\ closed = FALSE) \/ (stage = "skipped" /\ closed = TRUE)
  <2>1. CASE part = "mcp"
    <3>1. Mcp!Init
      BY <2>1 DEF Init
    <3> QED
      BY <3>1 DEF Mcp!Init
  <2>2. CASE part # "mcp"
    BY <2>2 DEF Init
  <2> QED
    BY <2>1, <2>2
<1>2. McpTypes
  <2>1. closed \in BOOLEAN /\ stage \in {"initialize", "notify", "list", "up", "skipped"}
    BY <1>1, Zenon
  <2>2. <<>> \in Seq(Piece)
    OBVIOUS
  <2>3. /\ line \in Seq(Piece) /\ stdout \in Seq(Piece) /\ out \in Seq(Piece)
        /\ half \in Seq(Piece) /\ stdin \in Seq(Piece) /\ todo \in Seq(Piece)
    BY <1>1, <2>2, Zenon
  <2>4. /\ phase \in {"idle", "write", "read"} /\ asked \subseteq Nat
        /\ next_id \in Nat /\ id \in Nat /\ cuts \in Nat /\ broken \in Nat
        /\ torn \in Nat /\ garbled \in Nat
    BY <1>1
  <2> QED
    BY <2>1, <2>3, <2>4, Zenon DEF McpTypes
<1>3. PhaseInv
  BY <1>1 DEF PhaseInv
<1>4. ResultInv
  BY <1>1 DEF ResultInv, Numbered
<1>5. Ahead = <<>> /\ Ahead \o out = <<>> /\ Coming = <<>> /\ Going = <<>>
  BY <1>1 DEF Ahead, Coming, Going
<1>6. BrokenInv
  BY <1>1, <1>5 DEF BrokenInv, Follows, Headless
<1>7. GarbledInv
  <2>1. Torn(Going) = {}
    BY <1>5 DEF Torn
  <2>2. Cardinality(Torn(Going)) = 0
    BY <2>1, FS_EmptySet
  <2> QED
    BY <1>1, <1>5, <2>2 DEF GarbledInv, Paired, Heads
<1> QED
  BY <1>2, <1>3, <1>4, <1>6, <1>7 DEF McpInv

\* For any number of calls, pipes of any size and a server that answers in any
\* order, however late, speaks unasked and ends at any time: a call gets the answer
\* to itself, each broken line is the rest of one that was cut (or the end of the
\* stream), and the server cannot read at most as many lines as were torn (mcp.rs
\* request and read_message).
THEOREM AftermathIsBounded == Spec => []AftermathBounded
<1>1. Init => McpInv
  BY McpBegins
<1>2. McpInv /\ [Next]_vars => McpInv'
  <2> SUFFICES ASSUME McpInv, [Next]_vars
               PROVE  McpInv'
    OBVIOUS
  <2>1. CASE Mcp!Next
    <3>1. McpBasis /\ BrokenInv /\ GarbledInv
      BY DEF McpInv, McpBasis
    <3> QED
      BY <2>1, <3>1, McpBasisStep, BrokenStep, GarbledStep DEF McpInv, McpBasis
  <2>2. CASE UNCHANGED mcpVars
    <3>1. McpTypes' /\ PhaseInv'
      BY <2>2 DEF mcpVars, McpInv, McpTypes, PhaseInv
    <3>2. ResultInv' /\ BrokenInv'
      BY <2>2 DEF mcpVars, McpInv, ResultInv, Numbered, BrokenInv, Follows, Headless, Ahead,
                  Coming
    <3>3. GarbledInv'
      BY <2>2 DEF mcpVars, McpInv, GarbledInv, Heads, Paired, Torn, Going
    <3> QED
      BY <3>1, <3>2, <3>3 DEF McpInv
  <2>3. Mcp!Next \/ UNCHANGED mcpVars
    BY DEF Next, Of, DeliveryNext, McpNext, ToolboxNext, EgressNext, ExecutionNext,
           DialogueNext, ScheduleNext, FileToolsNext, vars, ofDelivery, ofMcp, ofExecution
  <2> QED
    BY <2>1, <2>2, <2>3
<1>3. McpInv => AftermathBounded
  <2> SUFFICES ASSUME McpInv PROVE AftermathBounded
    OBVIOUS
  <2>1. garbled <= torn
    BY GarbledAtMost DEF McpInv
  <2>2. broken <= cuts + (IF closed THEN 1 ELSE 0)
    <3>1. /\ broken \in Nat /\ cuts \in Nat /\ Headless(Coming) \in {0, 1}
          /\ stage = "skipped" => closed
      BY HeadlessIs DEF McpInv, McpTypes, PhaseInv
    <3> QED
      BY <3>1 DEF McpInv, BrokenInv
  <2> QED
    BY <2>1, <2>2 DEF AftermathBounded, Mcp!AftermathBounded, McpInv, ResultInv
<1> QED
  BY <1>1, <1>2, <1>3, PTL DEF Spec

=============================================================================
