--------------------------- MODULE DeliveryProofs ---------------------------
(***************************************************************************)
(* Theorems about a connector task and its transport, for every set of      *)
(* connectors, every number and kind of messages and every value of the     *)
(* bounds: no message is lost, and the task implements Inbox.  The other    *)
(* parts of MCExchanges leave the variables of this one alone.              *)
(***************************************************************************)
EXTENDS MCExchanges, FiniteSetTheorems, SequenceTheorems, TLAPS

NoRepeat(s) == \A i, j \in 1..Len(s) : s[i] = s[j] => i = j

\* Taken from the transport and meant for the agent.
Pending == Del!Members(buf) \cup (IF pc = "dispatch" THEN {hand} ELSE {})

\* Running the message once more would keep the promise.
Due(m) == handed[m] <= doubts[m]

\* Nothing says that the message was taken.
Fresh(m) == m \notin Pending /\ Due(m)

DeliveryTypes ==
  /\ kind \in Kind
  /\ arrived \in 0..MaxMsgs
  /\ held \subseteq 1..arrived
  /\ pc \in {"off", "recv", "backoff", "note", "fetch", "store", "dispatch", "send"}
  /\ buf \in Seq(Del!Msg) /\ Del!Members(buf) \subseteq 1..arrived
  /\ hand \in 0..arrived /\ (pc \in {"note", "dispatch"} => hand # 0)
  /\ offset \in 0..arrived
  /\ ws = Del!NoSocket \/ (ws \in Seq(Del!Msg) /\ Del!Members(ws) \subseteq 1..arrived)
  /\ seen \in Seq(Del!Msg) /\ Del!Members(seen) \subseteq 1..arrived
  /\ uids \subseteq held
  /\ handed \in [Del!Msg -> Nat] /\ doubts \in [Del!Msg -> Nat]
  /\ unread \subseteq 1..arrived /\ faults \in Nat

\* What belongs to one kind of connector alone.
KindInv ==
  /\ pc = "note" => kind = "slack"
  /\ pc \in {"fetch", "store"} \/ uids # {} => kind = "email"
  /\ kind = "discord" => held = {}
  /\ pc = "off" => ws = Del!NoSocket

\* Telegram: a batch is confirmed by the poll behind its last dispatch.
TelegramKeeps ==
  kind = "telegram" =>
    /\ dropped = {} /\ Pending \subseteq held
    /\ \A m \in 1..offset : Del!Usable(m) => m \in concluded \cup Pending

\* Slack: a noted envelope is not mapped again, and need not be.
SlackKeeps ==
  /\ Len(seen) <= SEEN_CAP
  /\ kind = "slack" =>
       \A m \in Del!Members(seen) : Del!Usable(m) => m \in concluded \cup Pending

\* An error of the transport loses nothing by Telegram and Slack, and one mail at most.
ErrorsCost ==
  /\ kind \in {"telegram", "slack"} => unread = {}
  /\ kind = "email" => Cardinality(unread) <= faults

Somewhere ==
  \A m \in 1..arrived :
    Del!Usable(m) => m \in held \cup Del!InMemory \cup concluded \cup dropped \cup unread
                           \cup (IF kind = "discord" THEN Del!Members(ws) ELSE {})

LostInv == TelegramKeeps /\ SlackKeeps /\ ErrorsCost /\ Somewhere

\* Whatever the connector, what it has taken may run.
PendingOnce ==
  /\ NoRepeat(buf) /\ (pc = "dispatch" => hand \notin Del!Members(buf))
  /\ \A m \in Pending : Due(m)
  /\ \A m \in Del!Msg : m > arrived => Fresh(m)

TelegramOnce == kind = "telegram" => \A m \in Del!Msg : m > offset => Fresh(m)

\* An entry of the ring is at most a window behind the ones before it.
Spans(ring) ==
  /\ \A i, j \in 1..Len(ring) : i < j => ring[i] <= ring[j] + Window
  /\ NoRepeat(ring)

\* The ring spans few enough messages for a held one not to be forgotten.
RingSpan ==
  /\ \A m \in held : arrived <= m + Window
  /\ pc = "note" => \A i \in 1..Len(seen) : seen[i] <= hand + Window
  /\ Spans(seen)

SlackOnce ==
  kind = "slack" =>
    /\ RingSpan
    /\ ws # Del!NoSocket => NoRepeat(ws) /\ Del!Members(ws) \subseteq held
    /\ \A m \in held : m \notin Del!Members(seen) => Fresh(m)
    /\ pc = "note" /\ hand \notin Del!Members(seen) => Fresh(hand)

EmailOnce ==
  kind = "email" =>
    /\ \A u \in uids : Fresh(u)
    /\ \A m \in held \ Pending : Due(m)
    /\ \A m \in held \cap Pending : handed[m] < doubts[m]

DiscordOnce ==
  kind = "discord" /\ ws # Del!NoSocket =>
    NoRepeat(ws) /\ \A m \in Del!Members(ws) : Fresh(m)

OnceInv == PendingOnce /\ TelegramOnce /\ SlackOnce /\ EmailOnce /\ DiscordOnce

DeliveryInv == DeliveryTypes /\ KindInv /\ LostInv /\ OnceInv
-----------------------------------------------------------------------------
(* Sequences of messages.                                                  *)

LEMMA MembersOfEmpty == Del!Members(<<>>) = {} /\ NoRepeat(<<>>)
BY DEF Del!Members, NoRepeat

LEMMA MembersOfAppend ==
  ASSUME NEW S, NEW s \in Seq(S), NEW m \in S
  PROVE  /\ Append(s, m) \in Seq(S)
         /\ Del!Members(Append(s, m)) = Del!Members(s) \cup {m}
         /\ NoRepeat(s) /\ m \notin Del!Members(s) => NoRepeat(Append(s, m))
<1>1. /\ Append(s, m) \in Seq(S) /\ Len(Append(s, m)) = Len(s) + 1
      /\ \A i \in 1..Len(s) : Append(s, m)[i] = s[i]
      /\ Append(s, m)[Len(s) + 1] = m
  OBVIOUS
<1>2. Len(s) \in Nat
  OBVIOUS
<1>3. 1..(Len(s) + 1) = (1..Len(s)) \cup {Len(s) + 1}
  BY <1>2
<1>4. Del!Members(Append(s, m)) = Del!Members(s) \cup {m}
  BY <1>1, <1>3, Zenon DEF Del!Members
<1>5. ASSUME NoRepeat(s), m \notin Del!Members(s) PROVE NoRepeat(Append(s, m))
  BY <1>1, <1>2, <1>5 DEF NoRepeat, Del!Members
<1> QED
  BY <1>1, <1>4, <1>5

LEMMA MembersOfTail ==
  ASSUME NEW S, NEW s \in Seq(S), s # <<>>
  PROVE  /\ Head(s) \in S /\ Tail(s) \in Seq(S)
         /\ Del!Members(s) = {Head(s)} \cup Del!Members(Tail(s))
         /\ NoRepeat(s) => NoRepeat(Tail(s)) /\ Head(s) \notin Del!Members(Tail(s))
<1>1. /\ Tail(s) \in Seq(S) /\ Len(Tail(s)) = Len(s) - 1 /\ Len(s) \in Nat \ {0}
      /\ \A i \in 1..Len(s) - 1 : Tail(s)[i] = s[i + 1]
      /\ Head(s) = s[1] /\ Head(s) \in S
  OBVIOUS
<1>2. Del!Members(s) \subseteq {Head(s)} \cup Del!Members(Tail(s))
  <2> SUFFICES ASSUME NEW i \in 1..Len(s), i # 1 PROVE s[i] \in Del!Members(Tail(s))
    BY <1>1 DEF Del!Members
  <2>1. i - 1 \in 1..Len(Tail(s)) /\ Tail(s)[i - 1] = s[i]
    BY <1>1
  <2> QED
    BY <2>1 DEF Del!Members
<1>3. \A i \in 1..Len(Tail(s)) : i + 1 \in 1..Len(s) /\ Tail(s)[i] = s[i + 1]
  BY <1>1
<1>4. Head(s) \in Del!Members(s)
  BY <1>1 DEF Del!Members
<1>5. Del!Members(Tail(s)) \subseteq Del!Members(s)
  BY <1>3, Zenon DEF Del!Members
<1>6. ASSUME NoRepeat(s) PROVE NoRepeat(Tail(s)) /\ Head(s) \notin Del!Members(Tail(s))
  BY <1>1, <1>3, <1>6 DEF NoRepeat, Del!Members
<1> QED
  BY <1>1, <1>2, <1>4, <1>5, <1>6

\* The frames of a socket behind its first n.
LEMMA MembersBehind ==
  ASSUME NEW S, NEW s \in Seq(S), NEW n \in 0..Len(s)
  PROVE  LET t == SubSeq(s, n + 1, Len(s))
         IN  /\ t \in Seq(S) /\ Del!Members(t) \subseteq Del!Members(s)
             /\ Del!Members(s) = {s[i] : i \in 1..n} \cup Del!Members(t)
             /\ NoRepeat(s) => NoRepeat(t)
<1> DEFINE t == SubSeq(s, n + 1, Len(s))
<1>1. Len(s) \in Nat /\ n \in Nat /\ n <= Len(s)
  OBVIOUS
<1>2. /\ t \in Seq(S) /\ Len(t) = Len(s) - n
      /\ \A i \in 1..Len(t) : i + n \in 1..Len(s) /\ t[i] = s[i + n]
  BY <1>1, SubSeqProperties
<1> HIDE DEF t
<1>3. Del!Members(t) \subseteq Del!Members(s)
  BY <1>2, Zenon DEF Del!Members
<1>4. {s[i] : i \in 1..n} \subseteq Del!Members(s)
  BY <1>1 DEF Del!Members
<1>5. ASSUME NEW i \in 1..Len(s) PROVE s[i] \in {s[j] : j \in 1..n} \cup Del!Members(t)
  <2>1. CASE i <= n
    BY <1>1, <2>1
  <2>2. CASE ~(i <= n)
    <3>1. i - n \in 1..Len(t) /\ t[i - n] = s[i]
      BY <1>1, <1>2, <2>2
    <3> QED
      BY <3>1 DEF Del!Members
  <2> QED
    BY <2>1, <2>2
<1>6. ASSUME NoRepeat(s) PROVE NoRepeat(t)
  BY <1>1, <1>2, <1>6 DEF NoRepeat
<1>7. Del!Members(s) = {s[i] : i \in 1..n} \cup Del!Members(t)
  BY <1>3, <1>4, <1>5 DEF Del!Members
<1> QED
  BY <1>2, <1>3, <1>6, <1>7 DEF t

LEMMA MembersAre ==
  ASSUME NEW S, NEW s \in Seq(S)
  PROVE  Del!Members(s) \subseteq S
BY DEF Del!Members

LEMMA IntervalsEqual ==
  ASSUME NEW a \in Nat, NEW b \in Nat, 1..a = 1..b
  PROVE  a = b
<1>1. a \in 1..a <=> a \in 1..b
  OBVIOUS
<1>2. b \in 1..a <=> b \in 1..b
  OBVIOUS
<1> QED
  BY <1>1, <1>2

LEMMA IntervalGrows ==
  ASSUME NEW n \in Nat
  PROVE  /\ 1..(n + 1) = 1..n \cup {n + 1} /\ n + 1 \notin 1..n
         /\ 0..n \subseteq 0..(n + 1)
OBVIOUS

LEMMA SocketClosed == Del!Members(Del!NoSocket) = {0}
BY MembersOfAppend DEF Del!Members, Del!NoSocket

LEMMA SameCardinality == \A S : Del!Cardinality(S) = Cardinality(S)
BY DEF Del!Cardinality, Cardinality

\* The rank of an element of a set: how many are up to it.
LEMMA RanksAre ==
  ASSUME NEW n \in Nat, NEW S \in SUBSET (1..n)
  PROVE  LET rank == [m \in S |-> Cardinality({k \in S : k <= m})]
         IN /\ Cardinality(S) \in Nat
            /\ \A m \in S : rank[m] \in 1..Cardinality(S)
            /\ \A k, m \in S : rank[k] = rank[m] => k = m
            /\ \A i \in 1..Cardinality(S) : \E m \in S : rank[m] = i
<1> DEFINE upto(m) == {k \in S : k <= m}
           rank == [m \in S |-> Cardinality(upto(m))]
           N == Cardinality(S)
<1>1. IsFiniteSet(S) /\ N \in Nat
  <2>1. IsFiniteSet(1..n)
    BY FS_Interval
  <2> QED
    BY <2>1, FS_Subset, FS_CardinalityType
<1>2. ASSUME NEW m \in S PROVE IsFiniteSet(upto(m)) /\ rank[m] \in 1..N
  <2>1. upto(m) \in SUBSET S /\ m \in upto(m)
    OBVIOUS
  <2>2. IsFiniteSet(upto(m)) /\ Cardinality(upto(m)) <= N
    BY <1>1, <2>1, FS_Subset
  <2>3. Cardinality(upto(m)) \in Nat
    BY <2>2, FS_CardinalityType
  <2>4. Cardinality(upto(m)) # 0
    BY <2>1, <2>2, FS_EmptySet
  <2>5. rank[m] = Cardinality(upto(m))
    OBVIOUS
  <2> HIDE DEF upto, rank, N
  <2> QED
    BY <2>2, <2>3, <2>4, <2>5, <1>1
<1>3. ASSUME NEW k \in S, NEW m \in S, k < m PROVE rank[k] # rank[m]
  <2>1. upto(k) \in SUBSET upto(m) /\ m \in upto(m) /\ m \notin upto(k)
    <3>1. ~(m <= k)
      BY <1>3
    <3>2. \A x \in S : x <= k => x <= m
      BY <1>3
    <3>3. m <= m
      OBVIOUS
    <3> QED
      BY <3>1, <3>2, <3>3
  <2>2. upto(k) # upto(m)
    BY <2>1
  <2>3. Cardinality(upto(k)) # Cardinality(upto(m))
    BY <1>2, <2>1, <2>2, FS_Subset
  <2> QED
    BY <2>3
<1>4. ASSUME NEW k \in S, NEW m \in S, rank[k] = rank[m] PROVE k = m
  BY <1>3, <1>4
<1>5. rank \in Injection(S, 1..N)
  <2>1. rank \in [S -> 1..N]
    BY <1>2
  <2> HIDE DEF rank, N
  <2> QED
    BY <2>1, <1>4 DEF Injection, IsInjective
<1>6. rank \in Surjection(S, 1..N)
  <2>1. IsFiniteSet(1..N) /\ Cardinality(1..N) = N
    BY <1>1, FS_Interval
  <2> QED
    BY <1>5, <2>1, FS_Injection
<1>7. \A i \in 1..N : \E m \in S : rank[m] = i
  <2> HIDE DEF rank, N
  <2> QED
    BY <1>6 DEF Surjection
<1> QED
  BY <1>1, <1>2, <1>4, <1>7

\* What a batch of updates is turned into: each of its messages once.
LEMMA OrderedIs ==
  ASSUME NEW n \in Nat, NEW S \in SUBSET (1..n)
  PROVE  /\ Del!Ordered(S) \in Seq(S) /\ Del!Members(Del!Ordered(S)) = S
         /\ NoRepeat(Del!Ordered(S))
<1> DEFINE upto(m) == {k \in S : k <= m}
           rank == [m \in S |-> Cardinality(upto(m))]
           N == Cardinality(S)
<1>1. N \in Nat
  BY RanksAre
<1>2. \A m \in S : rank[m] \in 1..N
  BY RanksAre
<1>3. \A k, m \in S : rank[k] = rank[m] => k = m
  BY RanksAre
<1>4. \A i \in 1..N : \E m \in S : rank[m] = i
  BY RanksAre
<1>5. Del!Ordered(S) = [i \in 1..N |-> CHOOSE m \in S : Del!Cardinality(upto(m)) = i]
  <2>1. N = Del!Cardinality(S)
    BY SameCardinality
  <2> HIDE DEF N
  <2> QED
    BY <2>1 DEF Del!Ordered
<1>6. ASSUME NEW i \in 1..N
      PROVE  Del!Ordered(S)[i] \in S /\ rank[Del!Ordered(S)[i]] = i
  <2>1. PICK m \in S : Del!Cardinality(upto(m)) = i
    BY <1>4, SameCardinality
  <2> HIDE DEF upto, N
  <2>2. (CHOOSE k \in S : Del!Cardinality(upto(k)) = i) \in S
        /\ Del!Cardinality(upto(CHOOSE k \in S : Del!Cardinality(upto(k)) = i)) = i
    BY <2>1, Zenon
  <2> QED
    BY <1>5, <2>2, SameCardinality
<1> HIDE DEF rank, N
<1>7. Len(Del!Ordered(S)) = N /\ Del!Ordered(S) \in Seq(S)
  <2> DEFINE s == Del!Ordered(S)
  <2>1. s = [i \in 1..N |-> s[i]]
    BY <1>5
  <2>2. s \in [1..N -> S]
    BY <2>1, <1>6
  <2>3. s \in Seq(S)
    BY <1>1, <2>2, SeqDef, Zenon
  <2>4. DOMAIN s = 1..Len(s) /\ Len(s) \in Nat
    BY <2>3, LenProperties
  <2> HIDE DEF s
  <2>5. 1..N = 1..Len(s)
    BY <2>2, <2>4
  <2>6. Len(s) = N
    BY <1>1, <2>4, <2>5, IntervalsEqual
  <2> QED
    BY <2>3, <2>6 DEF s
<1>8. ASSUME NEW m \in S PROVE m = Del!Ordered(S)[rank[m]]
  <2>1. rank[m] \in 1..N
    BY <1>2
  <2> QED
    BY <2>1, <1>3, <1>6
<1>9. S \subseteq Del!Members(Del!Ordered(S))
  BY <1>2, <1>7, <1>8 DEF Del!Members
<1>10. Del!Members(Del!Ordered(S)) \subseteq S
  BY <1>6, <1>7 DEF Del!Members
<1>11. NoRepeat(Del!Ordered(S))
  BY <1>6, <1>7, Zenon DEF NoRepeat
<1> QED
  BY <1>7, <1>9, <1>10, <1>11
-----------------------------------------------------------------------------
(* What the parsers keep of a message.                                     *)

LEMMA DeliveryConstants ==
  /\ Kind \subseteq {"telegram", "slack", "email", "discord"}
  /\ MaxMsgs \in Nat /\ SEEN_CAP \in Nat /\ Window \in Nat /\ SEEN_CAP > 2 * Window
  /\ MaxFaults \in Nat /\ MaxCrashes \in Nat
BY ExchangesAssumption DEF ExchangesAssumption, Del!DeliveryAssumption

LEMMA UsableKept ==
  ASSUME kind' = kind, NEW m
  PROVE  Del!Usable(m)' <=> Del!Usable(m)
BY DEF Del!Usable, Del!parse_updates, Del!slack_map, Del!parse_inbound_email,
       Del!discord_map

LEMMA UpdatesParsed ==
  ASSUME kind = "telegram", NEW batch \in SUBSET Del!Msg
  PROVE  /\ Del!parse_updates(batch) \in Seq(batch)
         /\ Del!Members(Del!parse_updates(batch)) = {m \in batch : Del!Usable(m)}
         /\ NoRepeat(Del!parse_updates(batch))
<1> DEFINE Kept(S) == {m \in S : Flaws[m] \cap {"no_text", "no_sender", "no_chat"} = {}}
<1>1. ASSUME NEW S \in SUBSET Del!Msg
      PROVE  /\ Del!parse_updates(S) \in Seq(Kept(S))
             /\ Del!Members(Del!parse_updates(S)) = Kept(S)
             /\ NoRepeat(Del!parse_updates(S))
  <2>1. Kept(S) \in SUBSET (1..MaxMsgs) /\ Del!parse_updates(S) = Del!Ordered(Kept(S))
    BY DEF Del!parse_updates, Del!Msg
  <2> HIDE DEF Kept
  <2> QED
    BY <2>1, OrderedIs, DeliveryConstants
<1>2. ASSUME NEW m \in batch PROVE Del!Usable(m) <=> m \in Kept(batch)
  <2>1. Del!Usable(m) <=> Del!parse_updates({m}) # <<>>
    BY DEF Del!Usable
  <2>2. /\ Del!parse_updates({m}) \in Seq(Kept({m}))
        /\ Del!Members(Del!parse_updates({m})) = Kept({m})
    BY <1>1
  <2>3. Del!parse_updates({m}) = <<>> => Kept({m}) = {}
    BY <2>2, MembersOfEmpty
  <2>4. Del!parse_updates({m}) # <<>> => Kept({m}) # {}
    BY <2>2, MembersOfTail
  <2> QED
    BY <2>1, <2>3, <2>4
<1>3. Kept(batch) = {m \in batch : Del!Usable(m)}
  BY <1>2
<1>4. Del!parse_updates(batch) \in Seq(batch)
  <2>1. Kept(batch) \subseteq batch
    OBVIOUS
  <2> HIDE DEF Kept
  <2> QED
    BY <1>1, <2>1, SeqMonotonic
<1> HIDE DEF Kept
<1> QED
  BY <1>1, <1>3, <1>4

\* One more message behind what is buffered, if it is meant for the agent.
Put(s, m) == IF Del!Usable(m) THEN Append(s, m) ELSE s

LEMMA EnvelopeMapped ==
  ASSUME kind = "slack", NEW s \in Seq(Del!Msg), NEW m \in Del!Msg
  PROVE  s \o Del!slack_map(m) = Put(s, m)
BY DEF Del!slack_map, Del!Usable, Put

LEMMA MailParsed ==
  ASSUME kind = "email", NEW s \in Seq(Del!Msg), NEW m \in Del!Msg
  PROVE  s \o Del!parse_inbound_email(m) = Put(s, m)
BY DEF Del!parse_inbound_email, Del!Usable, Put

LEMMA EventMapped ==
  ASSUME kind = "discord", NEW m \in Del!Msg
  PROVE  Del!discord_map(m) = Put(<<>>, m)
BY DEF Del!discord_map, Del!Usable, Put

LEMMA MembersOfPut ==
  ASSUME NEW s \in Seq(Del!Msg), NEW m \in Del!Msg, m \notin Del!Members(s), NoRepeat(s)
  PROVE  /\ Put(s, m) \in Seq(Del!Msg) /\ NoRepeat(Put(s, m))
         /\ Del!Members(Put(s, m)) =
              IF Del!Usable(m) THEN Del!Members(s) \cup {m} ELSE Del!Members(s)
<1>1. CASE Del!Usable(m)
  <2>1. Put(s, m) = Append(s, m)
    BY <1>1 DEF Put
  <2> QED
    BY <1>1, <2>1, MembersOfAppend
<1>2. CASE ~Del!Usable(m)
  <2>1. Put(s, m) = s
    BY <1>2 DEF Put
  <2> QED
    BY <1>2, <2>1
<1> QED
  BY <1>1, <1>2
-----------------------------------------------------------------------------
(* The ring of envelopes.                                                 *)

LEMMA RingIs ==
  ASSUME NEW ring \in Seq(Del!Msg), NEW m \in Del!Msg, Len(ring) <= SEEN_CAP,
         m \notin Del!Members(ring), Spans(ring),
         \A i \in 1..Len(ring) : ring[i] <= m + Window,
         NEW r, r = Del!note_envelope(ring, m)
  PROVE  /\ r \in Seq(Del!Msg) /\ Len(r) <= SEEN_CAP /\ Spans(r)
         /\ m \in Del!Members(r) /\ Del!Members(r) \subseteq Del!Members(ring) \cup {m}
         /\ \A k \in Del!Members(ring) :
              k \in Del!Members(r) \/ (k = ring[1] /\ Len(ring) = SEEN_CAP)
<1>1. Len(ring) \in Nat
  OBVIOUS
<1>2. ASSUME NEW q \in Seq(Del!Msg), q = ring \/ (ring # <<>> /\ q = Tail(ring)),
             r = Append(q, m), Len(q) < SEEN_CAP
      PROVE  /\ r \in Seq(Del!Msg) /\ Len(r) <= SEEN_CAP /\ Spans(r)
             /\ m \in Del!Members(r) /\ Del!Members(r) \subseteq Del!Members(ring) \cup {m}
             /\ Del!Members(q) \subseteq Del!Members(r)
  <2>1. /\ NoRepeat(q) /\ Del!Members(q) \subseteq Del!Members(ring)
        /\ \A i, j \in 1..Len(q) : i < j => q[i] <= q[j] + Window
        /\ \A i \in 1..Len(q) : q[i] <= m + Window
    <3>1. CASE q = ring
      BY <3>1 DEF Spans
    <3>2. CASE ring # <<>> /\ q = Tail(ring)
      <4>1. /\ Len(q) = Len(ring) - 1
            /\ \A i \in 1..Len(q) : i + 1 \in 1..Len(ring) /\ q[i] = ring[i + 1]
        BY <1>1, <3>2
      <4>2. \A i \in 1..Len(q) : q[i] <= m + Window
        BY <4>1
      <4>3. \A i, j \in 1..Len(q) : i < j => q[i] <= q[j] + Window
        BY <4>1 DEF Spans
      <4> QED
        BY <3>2, <4>2, <4>3, MembersOfTail DEF Spans
    <3> QED
      BY <1>2, <3>1, <3>2
  <2>2. /\ Len(r) = Len(q) + 1 /\ Len(q) \in Nat
        /\ \A i \in 1..Len(q) : r[i] = q[i]
        /\ r[Len(q) + 1] = m
    BY <1>2
  <2>3. ASSUME NEW i \in 1..Len(r), NEW j \in 1..Len(r), i < j
        PROVE  r[i] <= r[j] + Window
    <3>1. i \in 1..Len(q) /\ (j \in 1..Len(q) \/ j = Len(q) + 1)
      BY <2>2, <2>3
    <3> QED
      <4>1. r[i] = q[i]
        BY <2>2, <3>1
      <4>2. CASE j = Len(q) + 1
        BY <2>1, <2>2, <3>1, <4>1, <4>2
      <4>3. CASE j \in 1..Len(q)
        BY <2>1, <2>2, <2>3, <3>1, <4>1, <4>3
      <4> QED
        BY <3>1, <4>2, <4>3
  <2>4. Len(r) <= SEEN_CAP
    BY <1>2, <2>2, DeliveryConstants
  <2> QED
    BY <1>2, <2>1, <2>3, <2>4, MembersOfAppend DEF Spans
<1>3. CASE Len(ring) >= SEEN_CAP
  <2>1. Len(ring) = SEEN_CAP /\ SEEN_CAP > 0 /\ SEEN_CAP \in Nat
    BY <1>1, <1>3, DeliveryConstants
  <2>2. ring # <<>> /\ Tail(ring) \in Seq(Del!Msg) /\ Len(Tail(ring)) < SEEN_CAP
        /\ Head(ring) = ring[1] /\ r = Append(Tail(ring), m)
    BY <1>3, <2>1 DEF Del!note_envelope
  <2>3. Del!Members(ring) = {ring[1]} \cup Del!Members(Tail(ring))
    BY <2>2, MembersOfTail
  <2> QED
    BY <1>2, <2>1, <2>2, <2>3
<1>4. CASE ~(Len(ring) >= SEEN_CAP)
  <2>1. r = Append(ring, m) /\ Len(ring) < SEEN_CAP
    BY <1>1, <1>4, DeliveryConstants DEF Del!note_envelope
  <2> QED
    BY <1>2, <2>1
<1> QED
  BY <1>3, <1>4

LEMMA IntervalSize ==
  ASSUME NEW a \in Int, NEW b \in Int, a <= b
  PROVE  IsFiniteSet(a..b) /\ Cardinality(a..b) = b - a + 1
BY FS_Interval

\* The ring is larger than the window of an envelope that Slack may send again:
\* a full ring whose oldest entry is one has no place for a new envelope.
LEMMA RingIsLargeEnough ==
  ASSUME NEW ring \in Seq(Del!Msg), NEW m \in Del!Msg, Len(ring) = SEEN_CAP,
         m \notin Del!Members(ring), Spans(ring),
         \A i \in 1..Len(ring) : ring[i] <= m + Window /\ ring[i] <= ring[1] + Window,
         m <= ring[1] + Window
  PROVE  FALSE
<1> DEFINE h == ring[1]
           place == [i \in 1..SEEN_CAP + 1 |-> IF i = SEEN_CAP + 1 THEN m ELSE ring[i]]
           T == h - Window .. h + Window
<1>1. SEEN_CAP \in Nat /\ Window \in Nat /\ SEEN_CAP > 2 * Window
  BY DeliveryConstants
<1>2. h \in Nat /\ m \in Nat /\ \A i \in 1..Len(ring) : ring[i] \in Nat
  <2>1. Del!Msg \subseteq Nat /\ 1 \in 1..Len(ring)
    BY <1>1 DEF Del!Msg
  <2>2. \A i \in 1..Len(ring) : ring[i] \in Del!Msg
    OBVIOUS
  <2> QED
    BY <2>1, <2>2
<1>3. ASSUME NEW i \in 1..SEEN_CAP + 1 PROVE place[i] \in T
  <2>1. CASE i = SEEN_CAP + 1
    <3>1. place[i] = m /\ h <= m + Window /\ m <= h + Window
      BY <1>1, <2>1
    <3> HIDE DEF place, h
    <3> QED
      BY <1>1, <1>2, <3>1
  <2>2. CASE i # SEEN_CAP + 1
    <3>1. i \in 1..Len(ring) /\ 1 \in 1..Len(ring) /\ place[i] = ring[i]
      BY <1>1, <2>2
    <3>2. ring[i] <= h + Window
      BY <3>1
    <3>3. h <= ring[i] + Window
      BY <1>1, <1>2, <3>1 DEF Spans
    <3>4. ring[i] \in Nat
      BY <1>2, <3>1
    <3> HIDE DEF place, h
    <3> QED
      BY <1>1, <1>2, <3>1, <3>2, <3>3, <3>4
  <2> QED
    BY <2>1, <2>2
<1>4. ASSUME NEW i \in 1..SEEN_CAP + 1, NEW j \in 1..SEEN_CAP + 1, i # j
      PROVE  place[i] # place[j]
  <2>1. \A k \in 1..SEEN_CAP + 1 :
          \/ k = SEEN_CAP + 1 /\ place[k] = m
          \/ k \in 1..Len(ring) /\ place[k] = ring[k]
    BY <1>1
  <2>2. \A k \in 1..Len(ring) : ring[k] # m
    BY Zenon DEF Del!Members
  <2>3. \A k, l \in 1..Len(ring) : ring[k] = ring[l] => k = l
    BY DEF Spans, NoRepeat
  <2> HIDE DEF place
  <2>4. CASE i = SEEN_CAP + 1
    <3>1. place[i] = m /\ j \in 1..Len(ring) /\ place[j] = ring[j]
      BY <1>1, <1>4, <2>1, <2>4
    <3> QED
      BY <2>2, <3>1, Zenon
  <2>5. CASE j = SEEN_CAP + 1
    <3>1. place[j] = m /\ i \in 1..Len(ring) /\ place[i] = ring[i]
      BY <1>1, <1>4, <2>1, <2>5
    <3> QED
      BY <2>2, <3>1, Zenon
  <2>6. CASE i # SEEN_CAP + 1 /\ j # SEEN_CAP + 1
    <3>1. /\ i \in 1..Len(ring) /\ place[i] = ring[i]
          /\ j \in 1..Len(ring) /\ place[j] = ring[j]
      BY <2>1, <2>6, Zenon
    <3> QED
      BY <1>4, <2>3, <3>1, Zenon
  <2> QED
    BY <2>4, <2>5, <2>6
<1>5. /\ IsFiniteSet(1..SEEN_CAP + 1) /\ Cardinality(1..SEEN_CAP + 1) = SEEN_CAP + 1
      /\ IsFiniteSet(T) /\ Cardinality(T) = 2 * Window + 1
  <2> DEFINE a == h - Window
             b == h + Window
             c == SEEN_CAP + 1
  <2>1. /\ a \in Int /\ b \in Int /\ a <= b /\ b - a + 1 = 2 * Window + 1
        /\ c \in Int /\ 1 <= c /\ c - 1 + 1 = SEEN_CAP + 1
    <3> HIDE DEF h
    <3> QED
      BY <1>1, <1>2
  <2>2. T = a..b /\ 1..SEEN_CAP + 1 = 1..c
    OBVIOUS
  <2> HIDE DEF a, b, c, T
  <2> QED
    BY <2>1, <2>2, IntervalSize
<1>6. place \in [1..SEEN_CAP + 1 -> T]
  BY <1>3
<1>7. Cardinality(T) < Cardinality(1..SEEN_CAP + 1)
  <2> HIDE DEF T
  <2> QED
    BY <1>1, <1>5
<1> HIDE DEF place, T
<1>8. \E i, j \in 1..SEEN_CAP + 1 : i # j /\ place[i] = place[j]
  BY <1>5, <1>6, <1>7, FS_PigeonHole
<1> QED
  BY <1>4, <1>8
-----------------------------------------------------------------------------
(* The steps.                                                              *)

LEMMA MessagesAre ==
  ASSUME DeliveryTypes
  PROVE  /\ arrived \in Nat /\ 1..arrived \subseteq Del!Msg /\ Del!Msg \subseteq Nat
         /\ held \subseteq Del!Msg /\ offset \in Nat
<1>1. arrived \in Nat /\ arrived <= MaxMsgs /\ MaxMsgs \in Nat
  BY DeliveryConstants DEF DeliveryTypes
<1>2. 1..arrived \subseteq 1..MaxMsgs /\ 1..MaxMsgs \subseteq Nat
  BY <1>1
<1>3. offset \in Nat
  BY <1>1 DEF DeliveryTypes
<1> QED
  BY <1>1, <1>2, <1>3 DEF DeliveryTypes, Del!Msg

\* The step may lose message m before it was read, and is a transport error.
UnreadCosts(m) == unread' \in {unread, unread \cup {m}} /\ faults' = faults + 1

LEMMA OneMoreUnread ==
  ASSUME DeliveryTypes, NEW m, UnreadCosts(m), Cardinality(unread) <= faults
  PROVE  Cardinality(unread') <= faults'
<1>1. IsFiniteSet(unread) /\ Cardinality(unread) \in Nat /\ faults \in Nat
  <2>1. arrived \in Int /\ unread \in SUBSET (1..arrived) /\ faults \in Nat
    BY DEF DeliveryTypes
  <2>2. IsFiniteSet(1..arrived)
    BY <2>1, FS_Interval
  <2> QED
    BY <2>1, <2>2, FS_Subset, FS_CardinalityType
<1>2. \/ Cardinality(unread \cup {m}) = Cardinality(unread)
      \/ Cardinality(unread \cup {m}) = Cardinality(unread) + 1
  BY <1>1, FS_AddElement
<1> DEFINE c == Cardinality(unread)
           d == Cardinality(unread \cup {m})
<1>3. c \in Nat /\ d \in {c, c + 1} /\ c <= faults
  BY <1>1, <1>2
<1>4. Cardinality(unread') \in {c, d} /\ faults' = faults + 1
  BY DEF UnreadCosts
<1> HIDE DEF c, d
<1> QED
  BY <1>1, <1>3, <1>4

LEMMA OneMoreError ==
  ASSUME DeliveryTypes, unread' = unread, faults' = faults + 1,
         Cardinality(unread) <= faults
  PROVE  Cardinality(unread') <= faults'
BY OneMoreUnread DEF UnreadCosts

\* A step that neither notes an envelope nor hands one over.
LEMMA SlackFrame ==
  ASSUME SlackOnce, UNCHANGED <<kind, arrived, held, seen, handed, doubts>>,
         Pending' \subseteq Pending, pc' = "note" => pc = "note" /\ hand' = hand,
         kind = "slack" =>
           \/ ws' \in {ws, Del!NoSocket}
           \/ NoRepeat(ws') /\ Del!Members(ws') \subseteq held
  PROVE  SlackOnce'
<1>1. ASSUME RingSpan PROVE RingSpan'
  BY <1>1 DEF RingSpan, Spans, NoRepeat
<1>2. ASSUME NEW m, Fresh(m) PROVE Fresh(m)'
  BY <1>2 DEF Fresh, Due
<1>3. NoRepeat(ws) /\ ws' = ws => NoRepeat(ws')
  BY DEF NoRepeat
<1> QED
  BY <1>1, <1>2, <1>3, Zenon DEF SlackOnce

LEMMA ArriveKeeps ==
  ASSUME DeliveryInv, Del!Arrive
  PROVE  DeliveryInv'
<1> USE DEF DeliveryInv, LostInv, OnceInv, Pending, Due, Fresh, Del!InMemory,
            Del!Arrive
<1>1. /\ kind' = kind /\ kind \in Kind
      /\ \A k \in Nat : Del!Usable(k)' <=> Del!Usable(k)
  BY UsableKept DEF DeliveryTypes
<1>2. /\ arrived \in Nat /\ arrived + 1 \in Del!Msg /\ arrived + 1 \in 0..MaxMsgs
      /\ arrived + 1 \notin 1..arrived /\ 0..arrived \subseteq 0..(arrived + 1)
      /\ 1..(arrived + 1) = 1..arrived \cup {arrived + 1}
  <2>1. arrived \in Nat /\ arrived + 1 \in 1..MaxMsgs /\ arrived + 1 \in 0..MaxMsgs
    BY DeliveryConstants DEF DeliveryTypes
  <2> QED
    BY <2>1, IntervalGrows DEF Del!Msg
<1>3. Fresh(arrived + 1)
  BY <1>2, DeliveryConstants DEF PendingOnce, DeliveryTypes
<1>4. ws # Del!NoSocket =>
        /\ Append(ws, arrived + 1) \in Seq(Del!Msg)
        /\ Del!Members(Append(ws, arrived + 1)) = Del!Members(ws) \cup {arrived + 1}
        /\ NoRepeat(ws) => NoRepeat(Append(ws, arrived + 1))
  BY <1>2, MembersOfAppend DEF DeliveryTypes
<1>5. KindInv' /\ TelegramKeeps' /\ TelegramOnce'
  BY <1>1 DEF KindInv, TelegramKeeps, TelegramOnce
<1>6. DeliveryTypes'
  <2>1. held' \subseteq 1..arrived'
    BY <1>2 DEF DeliveryTypes
  <2>2. ws' = Del!NoSocket \/ (ws' \in Seq(Del!Msg) /\ Del!Members(ws') \subseteq 1..arrived')
    BY <1>2, <1>4 DEF DeliveryTypes
  <2>3. uids' \subseteq held'
    BY DEF DeliveryTypes
  <2> QED
    BY <1>1, <1>2, <2>1, <2>2, <2>3, Zenon DEF DeliveryTypes
<1>7. SlackKeeps'
  BY <1>1, <1>2, <1>3, <1>4
    DEF SlackKeeps, DeliveryTypes, KindInv
<1>8. ErrorsCost'
  BY <1>1, <1>2, <1>3, <1>4
    DEF ErrorsCost, DeliveryTypes, KindInv
<1>9. Somewhere'
  <2> SUFFICES ASSUME NEW m \in 1..(arrived + 1), Del!Usable(m)'
               PROVE  m \in (held \cup Del!InMemory \cup concluded \cup dropped \cup unread
                               \cup (IF kind = "discord" THEN Del!Members(ws) ELSE {}))'
    BY <1>1 DEF Somewhere
  <2>1. CASE m = arrived + 1
    BY <1>1, <1>4, <2>1 DEF DeliveryTypes
  <2>2. CASE m \in 1..arrived
    <3>1. m \in held \cup Del!InMemory \cup concluded \cup dropped \cup unread
                 \cup (IF kind = "discord" THEN Del!Members(ws) ELSE {})
      BY <1>1, <1>2, <2>2 DEF Somewhere
    <3>2. m # 0 /\ held \subseteq held' /\ dropped \subseteq dropped'
          /\ Del!InMemory' = Del!InMemory /\ concluded' = concluded /\ unread' = unread
      BY <1>2
    <3>3. kind = "discord" /\ m \in Del!Members(ws) => m \in Del!Members(ws')
      BY <1>4, <3>2, SocketClosed
    <3> HIDE DEF Del!InMemory
    <3> QED
      BY <1>1, <3>1, <3>2, <3>3
  <2> QED
    BY <1>2, <2>1, <2>2
<1>10. PendingOnce'
  BY <1>1, <1>2 DEF PendingOnce, DeliveryTypes, KindInv, NoRepeat, Del!Msg
<1>11. SlackOnce'
  <2> SUFFICES ASSUME kind = "slack" PROVE SlackOnce'
    BY <1>1 DEF SlackOnce
  <2>1. RingSpan'
    <3>1. ASSUME NEW m \in held' PROVE arrived' <= m + Window
      <4>1. CASE m \in held
        BY <1>2, <4>1, DeliveryConstants DEF DeliveryTypes
      <4>2. CASE m = arrived + 1
        BY <1>2, <4>2, DeliveryConstants
      <4> QED
        BY <3>1, <4>1, <4>2
    <3> QED
      BY <3>1 DEF SlackOnce, RingSpan, Spans, NoRepeat
  <2>2. ws' = ws /\ (NoRepeat(ws) => NoRepeat(ws'))
    BY <1>1 DEF NoRepeat
  <2>3. \A m : Fresh(m) => Fresh(m)'
    OBVIOUS
  <2> QED
    BY <1>1, <1>3, <2>1, <2>2, <2>3 DEF SlackOnce
<1>12. EmailOnce'
  BY <1>1, <1>2, <1>3, <1>4, MembersOfEmpty, DeliveryConstants
    DEF EmailOnce, DeliveryTypes, KindInv, PendingOnce
<1>13. DiscordOnce'
  BY <1>1, <1>2, <1>3, <1>4, MembersOfEmpty, DeliveryConstants
    DEF DiscordOnce, DeliveryTypes, KindInv, PendingOnce
<1> QED
  BY <1>5, <1>6, <1>7, <1>8, <1>9, <1>10, <1>11, <1>12, <1>13

LEMMA StartKeeps ==
  ASSUME DeliveryInv, Del!Start
  PROVE  DeliveryInv'
<1> USE DEF DeliveryInv, LostInv, OnceInv, Pending, Due, Fresh, Del!InMemory,
            Del!Start, Del!historyVars
<1>1. /\ kind' = kind /\ kind \in Kind
      /\ \A k \in Nat : Del!Usable(k)' <=> Del!Usable(k)
  BY UsableKept DEF DeliveryTypes
<1>2. <<>> \in Seq(Del!Msg)
  OBVIOUS
<1>3. /\ KindInv' /\ TelegramKeeps' /\ ErrorsCost' /\ PendingOnce'
      /\ TelegramOnce' /\ EmailOnce'
  BY <1>1 DEF KindInv, TelegramKeeps, ErrorsCost, PendingOnce, TelegramOnce, EmailOnce
<1>4. DeliveryTypes'
  BY <1>1, <1>2, MembersOfEmpty, DeliveryConstants
    DEF DeliveryTypes, KindInv
<1>5. SlackKeeps'
  BY <1>1, <1>2
    DEF SlackKeeps, DeliveryTypes, KindInv
<1>6. Somewhere'
  BY <1>1, SocketClosed DEF Somewhere, DeliveryTypes, KindInv
<1>7. SlackOnce'
  BY <1>1, MembersOfEmpty, SlackFrame DEF DeliveryTypes, KindInv
<1>8. DiscordOnce'
  BY <1>1, <1>2, MembersOfEmpty, DeliveryConstants
    DEF DiscordOnce, DeliveryTypes, KindInv
<1> QED
  BY <1>3, <1>4, <1>5, <1>6, <1>7, <1>8

LEMMA RetryKeeps ==
  ASSUME DeliveryInv, Del!Retry
  PROVE  DeliveryInv'
<1> USE DEF DeliveryInv, LostInv, OnceInv, Pending, Due, Fresh, Del!InMemory,
            Del!Retry, Del!connectorVars, Del!historyVars
<1>1. /\ kind' = kind /\ kind \in Kind
      /\ \A k \in Nat : Del!Usable(k)' <=> Del!Usable(k)
  BY UsableKept DEF DeliveryTypes
<1>2. /\ DeliveryTypes' /\ KindInv' /\ TelegramKeeps' /\ ErrorsCost'
      /\ Somewhere' /\ PendingOnce' /\ TelegramOnce' /\ EmailOnce'
      /\ DiscordOnce'
  BY <1>1 DEF DeliveryTypes, KindInv, TelegramKeeps, ErrorsCost, Somewhere,
     PendingOnce, TelegramOnce, EmailOnce, DiscordOnce
<1>3. SlackKeeps'
  BY <1>1
    DEF SlackKeeps, DeliveryTypes, KindInv
<1>4. SlackOnce'
  BY <1>1, MembersOfEmpty, SlackFrame DEF DeliveryTypes, KindInv
<1> QED
  BY <1>2, <1>3, <1>4

LEMMA ReturnKeeps ==
  ASSUME DeliveryInv, Del!Return
  PROVE  DeliveryInv'
<1> USE DEF DeliveryInv, LostInv, OnceInv, Pending, Due, Fresh, Del!InMemory,
            Del!Return, Del!historyVars
<1>1. /\ kind' = kind /\ kind \in Kind
      /\ \A k \in Nat : Del!Usable(k)' <=> Del!Usable(k)
  BY UsableKept DEF DeliveryTypes
<1>2. /\ Head(buf) \in 1..arrived /\ Tail(buf) \in Seq(Del!Msg)
      /\ Del!Members(buf) = {Head(buf)} \cup Del!Members(Tail(buf))
      /\ NoRepeat(buf) => NoRepeat(Tail(buf)) /\ Head(buf) \notin Del!Members(Tail(buf))
  BY MembersOfTail DEF DeliveryTypes
<1>3. Pending' = Pending
  BY <1>2
<1>4. KindInv' /\ ErrorsCost'
  BY <1>1 DEF KindInv, ErrorsCost
<1>5. DeliveryTypes'
  <2>1. buf' = Tail(buf) /\ hand' = Head(buf) /\ pc' = "dispatch"
        /\ UNCHANGED <<arrived, held, offset, ws, seen, uids, handed, doubts, unread, faults>>
    OBVIOUS
  <2>2. hand' # 0 /\ hand' \in 0..arrived /\ Del!Members(buf') \subseteq 1..arrived
    BY <1>2, <2>1 DEF DeliveryTypes
  <2> HIDE DEF Del!Return, LostInv, OnceInv
  <2> QED
    BY <1>1, <1>2, <2>1, <2>2 DEF DeliveryTypes
<1>6. TelegramKeeps'
  BY <1>1, <1>2, <1>3 DEF TelegramKeeps
<1>7. SlackKeeps'
  BY <1>1, <1>2, <1>3
    DEF SlackKeeps, DeliveryTypes, KindInv
<1>8. Somewhere'
  BY <1>1, <1>2, <1>3 DEF Somewhere
<1>9. PendingOnce'
  BY <1>1, <1>2, <1>3 DEF PendingOnce
<1>10. TelegramOnce'
  BY <1>1, <1>2, <1>3 DEF TelegramOnce
<1>11. SlackOnce'
  BY <1>1, <1>3, SlackFrame DEF DeliveryTypes, KindInv
<1>12. EmailOnce'
  BY <1>1, <1>2, <1>3 DEF EmailOnce
<1>13. DiscordOnce'
  BY <1>1, <1>2, <1>3 DEF DiscordOnce
<1> QED
  BY <1>4, <1>5, <1>6, <1>7, <1>8, <1>9, <1>10, <1>11, <1>12, <1>13

LEMMA GetUpdatesKeeps ==
  ASSUME DeliveryInv, Del!GetUpdates
  PROVE  DeliveryInv'
<1> USE DEF DeliveryInv, LostInv, OnceInv, Pending, Due, Fresh, Del!InMemory,
            Del!GetUpdates, Del!Polling, Del!Unconfirmed, Del!historyVars
<1>1. /\ kind' = kind /\ kind \in Kind
      /\ \A k \in Nat : Del!Usable(k)' <=> Del!Usable(k)
  BY UsableKept DEF DeliveryTypes
<1>2. /\ kind = "telegram" /\ pc = "recv" /\ Del!Members(buf) = {} /\ Pending = {}
      /\ dropped = {}
  BY MembersOfEmpty DEF TelegramKeeps
<1>3. \A m \in 1..arrived : Del!Usable(m) =>
        m \in concluded \/ (m \in held /\ m > offset)
  BY <1>2 DEF Somewhere, TelegramKeeps, ErrorsCost, DeliveryTypes
<1>4. PICK n \in Del!Unconfirmed :
        /\ offset' = Del!Largest({m \in Del!Unconfirmed : m <= n})
        /\ buf' = Del!parse_updates({m \in Del!Unconfirmed : m <= n})
  OBVIOUS
<1>5. n \in 1..arrived /\ n > offset /\ offset' = n
  <2>1. n \in 1..arrived /\ n > offset
    BY DEF DeliveryTypes
  <2>2. n \in {m \in Del!Unconfirmed : m <= n}
    BY <2>1
  <2>3. \A k \in {m \in Del!Unconfirmed : m <= n} : k \in Nat /\ k <= n
    BY DEF DeliveryTypes
  <2> DEFINE batch == {m \in Del!Unconfirmed : m <= n}
  <2> HIDE DEF batch
  <2>4. Del!Largest(batch) = n
    BY <2>1, <2>2, <2>3 DEF Del!Largest, batch
  <2> QED
    BY <1>4, <2>1, <2>4 DEF batch
<1>6. /\ buf' \in Seq(Del!Msg) /\ NoRepeat(buf')
      /\ \A m : m \in Del!Members(buf') <=>
                m \in held /\ m > offset /\ m <= n /\ Del!Usable(m)
  <2> DEFINE batch == {m \in Del!Unconfirmed : m <= n}
  <2>1. batch \in SUBSET Del!Msg
    BY MessagesAre
  <2>2. \A m : m \in batch <=> m \in held /\ m > offset /\ m <= n
    OBVIOUS
  <2> HIDE DEF batch
  <2>3. Del!parse_updates(batch) \in Seq(Del!Msg)
    BY <1>2, <2>1, UpdatesParsed, SeqMonotonic
  <2>4. /\ Del!Members(Del!parse_updates(batch)) = {m \in batch : Del!Usable(m)}
        /\ NoRepeat(Del!parse_updates(batch))
    BY <1>2, <2>1, UpdatesParsed
  <2>5. buf' = Del!parse_updates(batch)
    BY <1>4 DEF batch
  <2> QED
    BY <2>2, <2>3, <2>4, <2>5
<1>7. /\ UNCHANGED <<arrived, pc, hand, ws, seen, uids, handed, doubts, concluded, dropped,
                     unread, faults>>
      /\ \A m : m \in held' <=> m \in held /\ m > offset
  OBVIOUS
<1>8. Pending' = Del!Members(buf') /\ Del!InMemory' = Del!Members(buf') /\ Del!InMemory = {}
  BY <1>2, <1>7
<1> HIDE DEF Del!GetUpdates, Pending, Del!InMemory, Del!Unconfirmed
<1>9. DeliveryTypes'
  <2>1. held' \subseteq held /\ uids = {}
    BY <1>2, <1>7 DEF KindInv
  <2>2. Del!Members(buf') \subseteq 1..arrived
    BY <1>6 DEF DeliveryTypes
  <2>3. offset' \in 0..arrived
    BY <1>5
  <2> QED
    BY <1>1, <1>2, <1>6, <1>7, <2>1, <2>2, <2>3, Zenon DEF DeliveryTypes
<1>10. KindInv'
  BY <1>1, <1>2, <1>3, <1>4, <1>5, <1>6, <1>7, <1>8 DEF KindInv
<1>11. TelegramKeeps'
  <2>1. Pending' \subseteq held'
    BY <1>6, <1>7, <1>8
  <2>2. ASSUME NEW m \in 1..n, Del!Usable(m)' PROVE m \in concluded \cup Pending'
    <3>1. m \in 1..arrived /\ m <= n /\ m \in Nat /\ Del!Usable(m)
      BY <1>1, <1>5, <2>2 DEF DeliveryTypes
    <3> QED
      BY <1>3, <1>6, <1>8, <3>1
  <2> QED
    BY <1>2, <1>5, <1>7, <2>1, <2>2 DEF TelegramKeeps
<1>12. SlackKeeps'
  BY <1>1, <1>2, <1>3, <1>4, <1>5, <1>6, <1>7, <1>8 DEF SlackKeeps
<1>13. ErrorsCost'
  BY <1>1, <1>2, <1>3, <1>4, <1>5, <1>6, <1>7, <1>8 DEF ErrorsCost
<1>14. Somewhere'
  BY <1>1, <1>2, <1>3, <1>4, <1>5, <1>6, <1>7, <1>8 DEF Somewhere
<1>15. PendingOnce'
  <2>1. ASSUME NEW m \in Pending' PROVE Due(m)
    BY <1>2, <1>6, <1>8, <2>1, MessagesAre DEF TelegramOnce
  <2>2. ASSUME NEW m \in Del!Msg, m > arrived PROVE m \notin Del!Members(buf') /\ Due(m)
    BY <1>6, <2>2, MessagesAre DEF PendingOnce, DeliveryTypes
  <2> QED
    BY <1>2, <1>6, <1>7, <1>8, <2>1, <2>2 DEF PendingOnce
<1>16. TelegramOnce'
  <2> SUFFICES ASSUME NEW m \in Del!Msg, m > n
               PROVE  m \notin Del!Members(buf') /\ Due(m)
    BY <1>5, <1>7, <1>8 DEF TelegramOnce
  <2>1. m > offset /\ ~(m <= n)
    BY <1>5, MessagesAre
  <2> QED
    BY <1>2, <1>6, <2>1 DEF TelegramOnce
<1>17. SlackOnce'
  BY <1>1, <1>2, <1>3, <1>4, <1>5, <1>6, <1>7, <1>8 DEF SlackOnce
<1>18. EmailOnce'
  BY <1>1, <1>2, <1>3, <1>4, <1>5, <1>6, <1>7, <1>8 DEF EmailOnce
<1>19. DiscordOnce'
  BY <1>1, <1>2, <1>3, <1>4, <1>5, <1>6, <1>7, <1>8 DEF DiscordOnce
<1> QED
  BY <1>9, <1>10, <1>11, <1>12, <1>13, <1>14, <1>15, <1>16, <1>17, <1>18, <1>19

LEMMA GetUpdatesEmptyKeeps ==
  ASSUME DeliveryInv, Del!GetUpdatesEmpty
  PROVE  DeliveryInv'
<1> USE DEF DeliveryInv, LostInv, OnceInv, Pending, Due, Fresh, Del!InMemory,
            Del!GetUpdatesEmpty, Del!Polling, Del!Unconfirmed, Del!connectorVars,
            Del!historyVars
<1>1. /\ kind' = kind /\ kind \in Kind
      /\ \A k \in Nat : Del!Usable(k)' <=> Del!Usable(k)
  BY UsableKept DEF DeliveryTypes
<1>2. /\ kind = "telegram" /\ pc = "recv" /\ Del!Members(buf) = {} /\ Pending = {}
      /\ dropped = {}
  BY MembersOfEmpty DEF TelegramKeeps
<1>3. \A m \in 1..arrived : Del!Usable(m) =>
        m \in concluded \/ (m \in held /\ m > offset)
  BY <1>2 DEF Somewhere, TelegramKeeps, ErrorsCost, DeliveryTypes
<1>4. /\ KindInv' /\ SlackKeeps' /\ ErrorsCost' /\ PendingOnce' /\ TelegramOnce'
      /\ SlackOnce' /\ EmailOnce' /\ DiscordOnce'
  BY <1>1 DEF KindInv, SlackKeeps, ErrorsCost, PendingOnce, TelegramOnce, SlackOnce,
     EmailOnce, DiscordOnce
<1>5. DeliveryTypes'
  BY <1>1, <1>2, <1>3
    DEF DeliveryTypes, KindInv
<1>6. TelegramKeeps'
  BY <1>1, <1>2, <1>3 DEF TelegramKeeps
<1>7. Somewhere'
  BY <1>1, <1>2, <1>3 DEF Somewhere
<1> QED
  BY <1>4, <1>5, <1>6, <1>7

LEMMA GetUpdatesFailsKeeps ==
  ASSUME DeliveryInv, Del!GetUpdatesFails
  PROVE  DeliveryInv'
<1> USE DEF DeliveryInv, LostInv, OnceInv, Pending, Due, Fresh, Del!InMemory,
            Del!GetUpdatesFails, Del!Polling, Del!Fails, Del!Unconfirmed,
            Del!connectorVars
<1>1. /\ kind' = kind /\ kind \in Kind
      /\ \A k \in Nat : Del!Usable(k)' <=> Del!Usable(k)
  BY UsableKept DEF DeliveryTypes
<1>2. /\ kind = "telegram" /\ pc = "recv" /\ Del!Members(buf) = {} /\ Pending = {}
      /\ dropped = {}
  BY MembersOfEmpty DEF TelegramKeeps
<1>3. \A m \in 1..arrived : Del!Usable(m) =>
        m \in concluded \/ (m \in held /\ m > offset)
  BY <1>2 DEF Somewhere, TelegramKeeps, ErrorsCost, DeliveryTypes
<1>4. /\ KindInv' /\ SlackKeeps' /\ ErrorsCost' /\ PendingOnce' /\ TelegramOnce'
      /\ SlackOnce' /\ EmailOnce' /\ DiscordOnce'
  BY <1>1 DEF KindInv, SlackKeeps, ErrorsCost, PendingOnce, TelegramOnce, SlackOnce,
     EmailOnce, DiscordOnce
<1>5. DeliveryTypes'
  BY <1>1, <1>2, <1>3
    DEF DeliveryTypes, KindInv
<1>6. TelegramKeeps'
  BY <1>1, <1>2, <1>3 DEF TelegramKeeps
<1>7. Somewhere'
  BY <1>1, <1>2, <1>3 DEF Somewhere
<1> QED
  BY <1>4, <1>5, <1>6, <1>7

LEMMA ConnectKeeps ==
  ASSUME DeliveryInv, Del!Connect
  PROVE  DeliveryInv'
<1> USE DEF DeliveryInv, LostInv, OnceInv, Pending, Due, Fresh, Del!InMemory,
            Del!Connect, Del!Polling, Del!historyVars
<1>1. /\ kind' = kind /\ kind \in Kind
      /\ \A k \in Nat : Del!Usable(k)' <=> Del!Usable(k)
  BY UsableKept DEF DeliveryTypes
<1>2. /\ DeliveryTypes' /\ KindInv' /\ TelegramKeeps' /\ ErrorsCost'
      /\ Somewhere' /\ PendingOnce' /\ TelegramOnce' /\ EmailOnce'
      /\ DiscordOnce'
  BY <1>1 DEF DeliveryTypes, KindInv, TelegramKeeps, ErrorsCost, Somewhere,
     PendingOnce, TelegramOnce, EmailOnce, DiscordOnce
<1>3. SlackKeeps'
  BY <1>1
    DEF SlackKeeps, DeliveryTypes, KindInv
<1>4. SlackOnce'
  BY <1>1, MembersOfEmpty, SlackFrame DEF DeliveryTypes, KindInv
<1> QED
  BY <1>2, <1>3, <1>4

LEMMA ConnectFailsKeeps ==
  ASSUME DeliveryInv, Del!ConnectFails
  PROVE  DeliveryInv'
<1> USE DEF DeliveryInv, LostInv, OnceInv, Pending, Due, Fresh, Del!InMemory,
            Del!ConnectFails, Del!Polling, Del!Fails, Del!connectorVars
<1>1. /\ kind' = kind /\ kind \in Kind
      /\ \A k \in Nat : Del!Usable(k)' <=> Del!Usable(k)
  BY UsableKept DEF DeliveryTypes
<1>2. /\ DeliveryTypes' /\ KindInv' /\ TelegramKeeps' /\ ErrorsCost'
      /\ Somewhere' /\ PendingOnce' /\ TelegramOnce' /\ EmailOnce'
      /\ DiscordOnce'
  BY <1>1 DEF DeliveryTypes, KindInv, TelegramKeeps, ErrorsCost, Somewhere,
     PendingOnce, TelegramOnce, EmailOnce, DiscordOnce
<1>3. SlackKeeps'
  BY <1>1
    DEF SlackKeeps, DeliveryTypes, KindInv
<1>4. SlackOnce'
  BY <1>1, MembersOfEmpty, SlackFrame DEF DeliveryTypes, KindInv
<1> QED
  BY <1>2, <1>3, <1>4

LEMMA PushKeeps ==
  ASSUME DeliveryInv, NEW m \in held, Del!Push(m)
  PROVE  DeliveryInv'
<1> USE DEF DeliveryInv, LostInv, OnceInv, Pending, Due, Fresh, Del!InMemory,
            Del!Push, Del!historyVars
<1>1. /\ kind' = kind /\ kind \in Kind
      /\ \A k \in Nat : Del!Usable(k)' <=> Del!Usable(k)
  BY UsableKept DEF DeliveryTypes
<1>2. /\ kind = "slack" /\ m \in 1..arrived /\ m \in Del!Msg
      /\ ws # Del!NoSocket /\ ws \in Seq(Del!Msg)
  BY MessagesAre DEF DeliveryTypes
<1>3. /\ Append(ws, m) \in Seq(Del!Msg)
      /\ Del!Members(Append(ws, m)) = Del!Members(ws) \cup {m}
      /\ NoRepeat(ws) => NoRepeat(Append(ws, m))
  BY <1>2, MembersOfAppend
<1>4. /\ KindInv' /\ TelegramKeeps' /\ Somewhere' /\ PendingOnce'
      /\ TelegramOnce' /\ EmailOnce' /\ DiscordOnce'
  BY <1>1 DEF KindInv, TelegramKeeps, Somewhere, PendingOnce, TelegramOnce, EmailOnce,
     DiscordOnce
<1>5. DeliveryTypes'
  BY <1>1, <1>2, <1>3 DEF DeliveryTypes
<1>6. SlackKeeps'
  BY <1>1, <1>2, <1>3
    DEF SlackKeeps, DeliveryTypes, KindInv
<1>7. ErrorsCost'
  BY <1>1, <1>2, <1>3
    DEF ErrorsCost, DeliveryTypes, KindInv
<1>8. SlackOnce'
  <2>1. NoRepeat(ws') /\ Del!Members(ws') \subseteq held
    BY <1>2, <1>3 DEF SlackOnce
  <2> QED
    BY <1>2, <2>1, SlackFrame DEF KindInv
<1> QED
  BY <1>4, <1>5, <1>6, <1>7, <1>8

LEMMA AcknowledgeKeeps ==
  ASSUME DeliveryInv, Del!Acknowledge
  PROVE  DeliveryInv'
<1> USE DEF DeliveryInv, LostInv, OnceInv, Pending, Due, Fresh, Del!InMemory,
            Del!Acknowledge, Del!Polling
<1>1. /\ kind' = kind /\ kind \in Kind
      /\ \A k \in Nat : Del!Usable(k)' <=> Del!Usable(k)
  BY UsableKept DEF DeliveryTypes
<1>2. /\ kind = "slack" /\ pc = "recv" /\ ws \in Seq(Del!Msg) /\ hand' \in 1..arrived
      /\ Tail(ws) \in Seq(Del!Msg) /\ ws # Del!NoSocket
      /\ Del!Members(ws) = {hand'} \cup Del!Members(Tail(ws))
      /\ NoRepeat(ws) => NoRepeat(Tail(ws)) /\ hand' \notin Del!Members(Tail(ws))
  BY MembersOfTail DEF DeliveryTypes
<1>3. uids = {}
  BY DEF KindInv
<1>4. /\ KindInv' /\ TelegramKeeps' /\ ErrorsCost' /\ Somewhere' /\ PendingOnce'
      /\ TelegramOnce' /\ EmailOnce' /\ DiscordOnce'
  BY <1>1 DEF KindInv, TelegramKeeps, ErrorsCost, Somewhere, PendingOnce,
     TelegramOnce, EmailOnce, DiscordOnce
<1>5. DeliveryTypes'
  <2>1. held' \subseteq held
    OBVIOUS
  <2>2. faults' \in Nat
    BY DEF DeliveryTypes
  <2>3. ws' = Tail(ws) /\ pc' = "note"
        /\ UNCHANGED <<arrived, buf, offset, seen, uids, handed, doubts, unread>>
    OBVIOUS
  <2>4. Del!Members(ws') \subseteq 1..arrived /\ hand' # 0
    BY <1>2, <2>3 DEF DeliveryTypes
  <2> HIDE DEF Del!Acknowledge, LostInv, OnceInv
  <2> QED
    BY <1>1, <1>2, <1>3, <2>1, <2>2, <2>3, <2>4 DEF DeliveryTypes
<1>6. SlackKeeps'
  BY <1>1, <1>2, <1>3
    DEF SlackKeeps, DeliveryTypes, KindInv
<1>7. SlackOnce'
  <2>1. RingSpan
    BY <1>2 DEF SlackOnce
  <2>2. hand' \in held /\ held' \subseteq held
    BY <1>2 DEF SlackOnce
  <2>3. RingSpan'
    <3>1. ASSUME NEW i \in 1..Len(seen) PROVE seen[i] <= hand' + Window
      <4>1. seen[i] \in 1..arrived
        BY DEF DeliveryTypes, Del!Members
      <4> QED
        BY <1>2, <2>1, <2>2, <4>1, DeliveryConstants, MessagesAre DEF RingSpan
    <3> QED
      BY <2>1, <2>2, <3>1 DEF RingSpan, Spans, NoRepeat
  <2>4. hand' \notin Del!Members(seen) => Fresh(hand')
    BY <1>2, <2>2 DEF SlackOnce
  <2>5. \A m : Fresh(m) => Fresh(m)'
    BY <1>2
  <2>6. NoRepeat(ws') /\ Del!Members(ws') \subseteq held'
    BY <1>2 DEF SlackOnce
  <2> HIDE DEF Fresh
  <2> QED
    BY <1>2, <2>2, <2>3, <2>4, <2>5, <2>6 DEF SlackOnce
<1> QED
  BY <1>4, <1>5, <1>6, <1>7

LEMMA NoteKeeps ==
  ASSUME DeliveryInv, Del!Note
  PROVE  DeliveryInv'
<1> USE DEF DeliveryInv, LostInv, OnceInv, Pending, Due, Fresh, Del!InMemory,
            Del!Note, Del!historyVars
<1>1. /\ kind' = kind /\ kind \in Kind
      /\ \A k \in Nat : Del!Usable(k)' <=> Del!Usable(k)
  BY UsableKept DEF DeliveryTypes
<1>2. /\ kind = "slack" /\ pc = "note" /\ hand \in 1..arrived /\ hand \in Del!Msg
      /\ held \subseteq Del!Msg /\ Del!Msg \subseteq Nat /\ arrived \in Nat
  <2>1. kind = "slack" /\ pc = "note"
    BY DEF KindInv
  <2>2. hand \in 1..arrived
    BY <2>1 DEF DeliveryTypes
  <2> QED
    BY <2>1, <2>2, MessagesAre
<1>3. hand \in Del!Members(seen) => seen' = seen /\ buf' = buf
  BY DEF Del!note_envelope
<1>4. hand \notin Del!Members(seen) =>
        /\ hand \notin Del!Members(buf) /\ Due(hand)
        /\ buf' \in Seq(Del!Msg) /\ NoRepeat(buf')
        /\ Del!Members(buf') =
             IF Del!Usable(hand) THEN Del!Members(buf) \cup {hand} ELSE Del!Members(buf)
  <2> SUFFICES ASSUME hand \notin Del!Members(seen)
               PROVE  /\ hand \notin Del!Members(buf) /\ Due(hand)
                      /\ buf' \in Seq(Del!Msg) /\ NoRepeat(buf')
                      /\ Del!Members(buf') =
                           IF Del!Usable(hand) THEN Del!Members(buf) \cup {hand}
                           ELSE Del!Members(buf)
    OBVIOUS
  <2>1. hand \notin Del!Members(buf) /\ Due(hand)
    BY <1>2 DEF SlackOnce
  <2>2. buf' = Put(buf, hand)
    BY <1>2, EnvelopeMapped DEF DeliveryTypes
  <2>3. buf \in Seq(Del!Msg) /\ NoRepeat(buf) /\ hand \in Del!Msg
    BY <1>2 DEF DeliveryTypes, PendingOnce
  <2>4. /\ buf' \in Seq(Del!Msg) /\ NoRepeat(buf')
        /\ Del!Members(buf') =
             IF Del!Usable(hand) THEN Del!Members(buf) \cup {hand} ELSE Del!Members(buf)
    <3> HIDE DEF DeliveryInv, Del!Note
    <3> QED
      BY <2>1, <2>2, <2>3, MembersOfPut
  <2> QED
    BY <2>1, <2>4
<1>5. /\ seen' \in Seq(Del!Msg) /\ Len(seen') <= SEEN_CAP /\ Spans(seen')
      /\ hand \in Del!Members(seen')
      /\ Del!Members(seen') \subseteq Del!Members(seen) \cup {hand}
      /\ \A k \in held : k \in Del!Members(seen) => k \in Del!Members(seen')
  <2>1. /\ seen \in Seq(Del!Msg) /\ Len(seen) <= SEEN_CAP /\ Spans(seen)
        /\ \A i \in 1..Len(seen) : seen[i] <= hand + Window
        /\ \A k \in held : arrived <= k + Window
    BY <1>2 DEF DeliveryTypes, SlackKeeps, SlackOnce, RingSpan
  <2>2. CASE hand \in Del!Members(seen)
    BY <1>3, <2>1, <2>2
  <2>3. CASE hand \notin Del!Members(seen)
    <3>1. seen' = Del!note_envelope(seen, hand)
      OBVIOUS
    <3>2. /\ seen' \in Seq(Del!Msg) /\ Len(seen') <= SEEN_CAP /\ Spans(seen')
          /\ hand \in Del!Members(seen')
          /\ Del!Members(seen') \subseteq Del!Members(seen) \cup {hand}
          /\ \A k \in Del!Members(seen) :
               k \in Del!Members(seen') \/ (k = seen[1] /\ Len(seen) = SEEN_CAP)
      BY <1>2, <2>1, <2>3, <3>1, RingIs
    <3>3. ASSUME NEW k \in held, k = seen[1], Len(seen) = SEEN_CAP PROVE FALSE
      <4>1. arrived <= seen[1] + Window /\ seen[1] \in Nat
        BY <1>2, <2>1, <3>3
      <4>2. hand <= seen[1] + Window
        BY <1>2, <4>1, DeliveryConstants
      <4>3. ASSUME NEW i \in 1..Len(seen) PROVE seen[i] <= seen[1] + Window
        <5>1. seen[i] \in 1..arrived
          BY DEF DeliveryTypes, Del!Members
        <5> QED
          BY <1>2, <4>1, <5>1, DeliveryConstants
      <4> QED
        BY <1>2, <2>1, <2>3, <3>3, <4>2, <4>3, RingIsLargeEnough
    <3> QED
      BY <3>2, <3>3
  <2> QED
    BY <2>2, <2>3
<1>6. UNCHANGED <<arrived, held, offset, ws, uids, handed, doubts, concluded, dropped,
                  unread, faults>>
      /\ pc' = "recv" /\ hand' = 0
  OBVIOUS
<1> HIDE DEF Del!Note
<1>7. DeliveryTypes'
  BY <1>1, <1>2, <1>3, <1>4, <1>5, <1>6 DEF DeliveryTypes
<1>8. KindInv'
  BY <1>1, <1>2, <1>3, <1>4, <1>5, <1>6 DEF KindInv
<1>9. TelegramKeeps'
  BY <1>1, <1>2, <1>3, <1>4, <1>5, <1>6 DEF TelegramKeeps
<1>10. SlackKeeps'
  BY <1>1, <1>2, <1>3, <1>4, <1>5, <1>6
    DEF SlackKeeps, DeliveryTypes, KindInv
<1>11. ErrorsCost'
  BY <1>1, <1>2, <1>3, <1>4, <1>5, <1>6 DEF ErrorsCost
<1>12. Somewhere'
  BY <1>1, <1>2, <1>3, <1>4, <1>5, <1>6, MembersOfEmpty, DeliveryConstants
    DEF Somewhere, DeliveryTypes, KindInv, SlackKeeps
<1>13. PendingOnce'
  BY <1>1, <1>2, <1>3, <1>4, <1>5, <1>6 DEF PendingOnce
<1>14. TelegramOnce'
  BY <1>1, <1>2, <1>3, <1>4, <1>5, <1>6 DEF TelegramOnce
<1>15. SlackOnce'
  <2>1. RingSpan'
    BY <1>2, <1>5, <1>6 DEF SlackOnce, RingSpan
  <2>2. ws' = ws /\ (NoRepeat(ws) => NoRepeat(ws'))
    BY <1>6 DEF NoRepeat
  <2>3. \A m : Fresh(m) /\ m # hand => Fresh(m)'
    BY <1>2, <1>3, <1>4, <1>6
  <2> HIDE DEF Fresh
  <2> QED
    BY <1>1, <1>2, <1>5, <1>6, <2>1, <2>2, <2>3 DEF SlackOnce
<1>16. EmailOnce'
  BY <1>1, <1>2, <1>3, <1>4, <1>5, <1>6 DEF EmailOnce
<1>17. DiscordOnce'
  BY <1>1, <1>2, <1>3, <1>4, <1>5, <1>6 DEF DiscordOnce
<1> QED
  BY <1>7, <1>8, <1>9, <1>10, <1>11, <1>12, <1>13, <1>14, <1>15, <1>16, <1>17

LEMMA SocketDropsKeeps ==
  ASSUME DeliveryInv, Del!SocketDrops
  PROVE  DeliveryInv'
<1> USE DEF DeliveryInv, LostInv, OnceInv, Pending, Due, Fresh, Del!InMemory,
            Del!SocketDrops, Del!Polling
<1>1. /\ kind' = kind /\ kind \in Kind
      /\ \A k \in Nat : Del!Usable(k)' <=> Del!Usable(k)
  BY UsableKept DEF DeliveryTypes
<1>2. /\ DeliveryTypes' /\ KindInv' /\ TelegramKeeps' /\ ErrorsCost'
      /\ Somewhere' /\ PendingOnce' /\ TelegramOnce' /\ EmailOnce'
      /\ DiscordOnce'
  BY <1>1 DEF DeliveryTypes, KindInv, TelegramKeeps, ErrorsCost, Somewhere,
     PendingOnce, TelegramOnce, EmailOnce, DiscordOnce
<1>3. SlackKeeps'
  BY <1>1
    DEF SlackKeeps, DeliveryTypes, KindInv
<1>4. SlackOnce'
  BY <1>1, MembersOfEmpty, SlackFrame DEF DeliveryTypes, KindInv
<1> QED
  BY <1>2, <1>3, <1>4

LEMMA SearchKeeps ==
  ASSUME DeliveryInv, Del!Search
  PROVE  DeliveryInv'
<1> USE DEF DeliveryInv, LostInv, OnceInv, Pending, Due, Fresh, Del!InMemory,
            Del!Search, Del!Polling, Del!historyVars
<1>1. /\ kind' = kind /\ kind \in Kind
      /\ \A k \in Nat : Del!Usable(k)' <=> Del!Usable(k)
  BY UsableKept DEF DeliveryTypes
<1>2. /\ DeliveryTypes' /\ KindInv' /\ TelegramKeeps' /\ SlackKeeps'
      /\ ErrorsCost' /\ Somewhere' /\ PendingOnce' /\ TelegramOnce'
      /\ SlackOnce' /\ DiscordOnce'
  BY <1>1 DEF DeliveryTypes, KindInv, TelegramKeeps, SlackKeeps, ErrorsCost,
     Somewhere, PendingOnce, TelegramOnce, SlackOnce, DiscordOnce
<1>3. EmailOnce'
  BY <1>1, MembersOfEmpty, DeliveryConstants
    DEF EmailOnce, DeliveryTypes, KindInv
<1> QED
  BY <1>2, <1>3

LEMMA SearchFailsKeeps ==
  ASSUME DeliveryInv, Del!SearchFails
  PROVE  DeliveryInv'
<1> USE DEF DeliveryInv, LostInv, OnceInv, Pending, Due, Fresh, Del!InMemory,
            Del!SearchFails, Del!Polling, Del!Fails, Del!connectorVars
<1>1. /\ kind' = kind /\ kind \in Kind
      /\ \A k \in Nat : Del!Usable(k)' <=> Del!Usable(k)
  BY UsableKept DEF DeliveryTypes
<1>2. /\ DeliveryTypes' /\ KindInv' /\ TelegramKeeps' /\ SlackKeeps'
      /\ Somewhere' /\ PendingOnce' /\ TelegramOnce'
      /\ SlackOnce' /\ EmailOnce' /\ DiscordOnce'
  BY <1>1 DEF DeliveryTypes, KindInv, TelegramKeeps, SlackKeeps,
     Somewhere, PendingOnce, TelegramOnce, SlackOnce, EmailOnce, DiscordOnce
<1>3. ErrorsCost'
  BY <1>1, OneMoreError DEF ErrorsCost
<1> QED
  BY <1>2, <1>3

LEMMA FetchKeeps ==
  ASSUME DeliveryInv, NEW m \in uids, Del!Fetch(m)
  PROVE  DeliveryInv'
<1> USE DEF DeliveryInv, LostInv, OnceInv, Pending, Due, Fresh, Del!InMemory,
            Del!Fetch, Del!historyVars
<1>1. /\ kind' = kind /\ kind \in Kind
      /\ \A k \in Nat : Del!Usable(k)' <=> Del!Usable(k)
  BY UsableKept DEF DeliveryTypes
<1>2. /\ kind = "email" /\ m \in 1..arrived /\ m \in Del!Msg
      /\ m \notin Del!Members(buf) /\ Fresh(m)
  BY MessagesAre DEF KindInv, EmailOnce, DeliveryTypes
<1>3. /\ buf' = Put(buf, m) /\ buf' \in Seq(Del!Msg) /\ NoRepeat(buf')
      /\ Del!Members(buf') =
           IF Del!Usable(m) THEN Del!Members(buf) \cup {m} ELSE Del!Members(buf)
  <2>1. buf' = Put(buf, m)
    BY <1>2, MailParsed DEF DeliveryTypes
  <2> QED
    BY <1>2, <2>1, MembersOfPut DEF DeliveryTypes, PendingOnce
<1>4. DeliveryTypes'
  BY <1>1, <1>2, <1>3 DEF DeliveryTypes
<1>5. KindInv'
  BY <1>1 DEF KindInv
<1>6. TelegramKeeps'
  BY <1>1, <1>2, <1>3 DEF TelegramKeeps
<1>7. SlackKeeps'
  BY <1>1, <1>2, <1>3 DEF SlackKeeps
<1>8. ErrorsCost'
  BY <1>1, <1>2, <1>3 DEF ErrorsCost
<1>9. Somewhere'
  BY <1>1, <1>2, <1>3 DEF Somewhere
<1>10. PendingOnce'
  BY <1>1, <1>2, <1>3
    DEF PendingOnce, DeliveryTypes, KindInv
<1>11. TelegramOnce'
  BY <1>1, <1>2, <1>3 DEF TelegramOnce
<1>12. SlackOnce'
  BY <1>1, <1>2, <1>3 DEF SlackOnce
<1>13. EmailOnce'
  BY <1>1, <1>2, <1>3
    DEF EmailOnce, DeliveryTypes, KindInv
<1>14. DiscordOnce'
  BY <1>1, <1>2, <1>3 DEF DiscordOnce
<1> QED
  BY <1>4, <1>5, <1>6, <1>7, <1>8, <1>9, <1>10, <1>11, <1>12, <1>13, <1>14

LEMMA FetchFailsKeeps ==
  ASSUME DeliveryInv, NEW m \in uids, Del!FetchFails(m)
  PROVE  DeliveryInv'
<1> USE DEF DeliveryInv, LostInv, OnceInv, Pending, Due, Fresh, Del!InMemory,
            Del!FetchFails, Del!Fails
<1>1. /\ kind' = kind /\ kind \in Kind
      /\ \A k \in Nat : Del!Usable(k)' <=> Del!Usable(k)
  BY UsableKept DEF DeliveryTypes
<1>2. /\ kind = "email" /\ m \in 1..arrived /\ m \in Del!Msg
      /\ m \notin Del!Members(buf) /\ Fresh(m) /\ m \in held
  BY MessagesAre DEF KindInv, EmailOnce, DeliveryTypes
<1>3. \/ UNCHANGED <<buf, doubts>> /\ (m \in held' \/ m \in unread')
      \/ /\ buf' \in Seq(Del!Msg) /\ NoRepeat(buf') /\ doubts' \in [Del!Msg -> Nat]
         /\ \A k \in Del!Msg :
              doubts'[k] = IF k = m /\ m \in held' THEN doubts[k] + 1 ELSE doubts[k]
         /\ Del!Members(buf') =
              IF Del!Usable(m) THEN Del!Members(buf) \cup {m} ELSE Del!Members(buf)
  <2>1. CASE /\ buf' = buf \o Del!parse_inbound_email(m)
             /\ doubts' = IF m \in held' THEN [doubts EXCEPT ![m] = @ + 1] ELSE doubts
    <3>1. buf' = Put(buf, m)
      BY <1>2, <2>1, MailParsed DEF DeliveryTypes
    <3>2. buf' \in Seq(Del!Msg) /\ NoRepeat(buf')
          /\ Del!Members(buf') =
               IF Del!Usable(m) THEN Del!Members(buf) \cup {m} ELSE Del!Members(buf)
      BY <1>2, <3>1, MembersOfPut DEF DeliveryTypes, PendingOnce
    <3>3. doubts \in [Del!Msg -> Nat]
      BY DEF DeliveryTypes
    <3>4. doubts' \in [Del!Msg -> Nat]
          /\ \A k \in Del!Msg :
               doubts'[k] = IF k = m /\ m \in held' THEN doubts[k] + 1 ELSE doubts[k]
      <4> HIDE DEF DeliveryInv, Del!FetchFails
      <4> QED
        BY <1>2, <2>1, <3>3
    <3> QED
      BY <3>2, <3>4
  <2> QED
    BY <2>1
<1>4. UNCHANGED <<arrived, hand, offset, ws, seen, handed, concluded, dropped>>
      /\ uids' = {} /\ pc = "fetch" /\ pc' = "backoff" /\ faults' = faults + 1
      /\ held' \in {held, held \ {m}} /\ unread' \in {unread, unread \cup {m}}
  OBVIOUS
<1>5. /\ doubts' \in [Del!Msg -> Nat] /\ (\A k \in Del!Msg : Due(k) => Due(k)')
      /\ buf' \in Seq(Del!Msg) /\ NoRepeat(buf')
  <2>1. doubts \in [Del!Msg -> Nat] /\ buf \in Seq(Del!Msg) /\ NoRepeat(buf)
    BY DEF DeliveryTypes, PendingOnce
  <2>2. \A k \in Del!Msg : handed[k] \in Nat /\ doubts[k] \in Nat
    BY <2>1 DEF DeliveryTypes
  <2>3. CASE UNCHANGED <<buf, doubts>>
    BY <1>4, <2>1, <2>3 DEF NoRepeat
  <2>4. CASE ~UNCHANGED <<buf, doubts>>
    <3>1. /\ buf' \in Seq(Del!Msg) /\ NoRepeat(buf') /\ doubts' \in [Del!Msg -> Nat]
          /\ \A k \in Del!Msg :
               doubts'[k] = IF k = m /\ m \in held' THEN doubts[k] + 1 ELSE doubts[k]
      BY <1>3, <2>4
    <3>2. \A k \in Del!Msg : handed'[k] = handed[k] /\ doubts[k] <= doubts'[k]
      BY <1>4, <2>2, <3>1
    <3>3. \A k \in Del!Msg : Due(k) => Due(k)'
      BY <2>2, <3>1, <3>2
    <3> QED
      BY <3>1, <3>3
  <2> QED
    BY <2>3, <2>4
<1>6. /\ Del!Members(buf) \subseteq Del!Msg /\ held \subseteq Del!Msg
      /\ Pending = Del!Members(buf) /\ Pending' = Del!Members(buf')
      /\ \A k \in Del!Msg : handed[k] \in Nat /\ doubts[k] \in Nat
  BY <1>2, <1>4, MessagesAre DEF DeliveryTypes
<1>7. Del!InMemory = Del!Members(buf) /\ Del!InMemory' = Del!Members(buf')
  BY <1>4
<1>8. UnreadCosts(m)
  BY <1>4 DEF UnreadCosts
<1> HIDE DEF Del!FetchFails, Del!Fails, Pending, Del!InMemory
<1>9. DeliveryTypes'
  BY <1>1, <1>2, <1>3, <1>4, <1>5, <1>6 DEF DeliveryTypes
<1>10. KindInv'
  BY <1>1, <1>2, <1>4 DEF KindInv
<1>11. TelegramKeeps' /\ SlackKeeps' /\ TelegramOnce' /\ SlackOnce' /\ DiscordOnce'
  BY <1>1, <1>2, <1>4
     DEF TelegramKeeps, SlackKeeps, TelegramOnce, SlackOnce, DiscordOnce
<1>12. ErrorsCost'
  BY <1>1, <1>2, <1>4, <1>8, OneMoreUnread DEF ErrorsCost
<1>13. Somewhere'
  <2>1. ASSUME NEW k \in held, Del!Usable(k) PROVE k \in held' \cup Del!InMemory' \cup unread'
    BY <1>2, <1>3, <1>4, <1>7, <2>1
  <2>2. Del!InMemory \subseteq Del!InMemory' /\ unread \subseteq unread'
    BY <1>3, <1>4, <1>7
  <2>3. 1..arrived \subseteq Nat
    OBVIOUS
  <2> QED
    BY <1>1, <1>2, <1>4, <2>1, <2>2, <2>3 DEF Somewhere
<1>14. PendingOnce'
  <2>1. \A k \in Del!Members(buf') : Due(k)'
    BY <1>2, <1>3, <1>4, <1>5, <1>6 DEF PendingOnce
  <2> HIDE DEF Due
  <2> QED
    BY <1>2, <1>3, <1>4, <1>5, <1>6, <2>1, MessagesAre DEF PendingOnce, NoRepeat, DeliveryTypes
<1>15. EmailOnce'
  <2>1. \A k \in held' \ Pending' : Due(k)'
    BY <1>2, <1>3, <1>4, <1>5, <1>6 DEF EmailOnce
  <2>2. ASSUME NEW k \in held' \cap Pending' PROVE handed'[k] < doubts'[k]
    <3>1. CASE k = m
      BY <1>2, <1>3, <1>4, <1>6, <2>2, <3>1
    <3>2. CASE k # m
      BY <1>2, <1>3, <1>4, <1>6, <2>2, <3>2 DEF EmailOnce
    <3> QED
      BY <3>1, <3>2
  <2> QED
    BY <1>4, <2>1, <2>2 DEF EmailOnce
<1> QED
  BY <1>9, <1>10, <1>11, <1>12, <1>13, <1>14, <1>15

LEMMA StoreSeenKeeps ==
  ASSUME DeliveryInv, Del!StoreSeen
  PROVE  DeliveryInv'
<1> USE DEF DeliveryInv, LostInv, OnceInv, Pending, Due, Fresh, Del!InMemory,
            Del!StoreSeen, Del!connectorVars, Del!historyVars
<1>1. /\ kind' = kind /\ kind \in Kind
      /\ \A k \in Nat : Del!Usable(k)' <=> Del!Usable(k)
  BY UsableKept DEF DeliveryTypes
<1>2. /\ DeliveryTypes' /\ KindInv' /\ TelegramKeeps' /\ SlackKeeps'
      /\ ErrorsCost' /\ Somewhere' /\ PendingOnce' /\ TelegramOnce'
      /\ SlackOnce' /\ EmailOnce' /\ DiscordOnce'
  BY <1>1 DEF DeliveryTypes, KindInv, TelegramKeeps, SlackKeeps, ErrorsCost,
     Somewhere, PendingOnce, TelegramOnce, SlackOnce, EmailOnce, DiscordOnce
<1> QED
  BY <1>2

LEMMA StoreFailsKeeps ==
  ASSUME DeliveryInv, Del!StoreFails
  PROVE  DeliveryInv'
<1> USE DEF DeliveryInv, LostInv, OnceInv, Pending, Due, Fresh, Del!InMemory,
            Del!StoreFails, Del!Fails
<1>1. /\ kind' = kind /\ kind \in Kind
      /\ \A k \in Nat : Del!Usable(k)' <=> Del!Usable(k)
  BY UsableKept DEF DeliveryTypes
<1>2. /\ DeliveryTypes' /\ KindInv' /\ TelegramKeeps' /\ SlackKeeps'
      /\ Somewhere' /\ PendingOnce' /\ TelegramOnce'
      /\ SlackOnce' /\ EmailOnce' /\ DiscordOnce'
  BY <1>1 DEF DeliveryTypes, KindInv, TelegramKeeps, SlackKeeps,
     Somewhere, PendingOnce, TelegramOnce, SlackOnce, EmailOnce, DiscordOnce
<1>3. ErrorsCost'
  BY <1>1, OneMoreError DEF ErrorsCost
<1> QED
  BY <1>2, <1>3

LEMMA PollEndsKeeps ==
  ASSUME DeliveryInv, Del!PollEnds
  PROVE  DeliveryInv'
<1> USE DEF DeliveryInv, LostInv, OnceInv, Pending, Due, Fresh, Del!InMemory,
            Del!PollEnds, Del!connectorVars, Del!historyVars
<1>1. /\ kind' = kind /\ kind \in Kind
      /\ \A k \in Nat : Del!Usable(k)' <=> Del!Usable(k)
  BY UsableKept DEF DeliveryTypes
<1>2. /\ DeliveryTypes' /\ KindInv' /\ TelegramKeeps' /\ ErrorsCost'
      /\ Somewhere' /\ PendingOnce' /\ TelegramOnce' /\ EmailOnce'
      /\ DiscordOnce'
  BY <1>1 DEF DeliveryTypes, KindInv, TelegramKeeps, ErrorsCost, Somewhere,
     PendingOnce, TelegramOnce, EmailOnce, DiscordOnce
<1>3. SlackKeeps'
  BY <1>1
    DEF SlackKeeps, DeliveryTypes, KindInv
<1>4. SlackOnce'
  BY <1>1
    DEF SlackOnce, DeliveryTypes, KindInv
<1> QED
  BY <1>2, <1>3, <1>4

LEMMA NextEventKeeps ==
  ASSUME DeliveryInv, Del!NextEvent
  PROVE  DeliveryInv'
<1> USE DEF DeliveryInv, LostInv, OnceInv, Pending, Due, Fresh, Del!InMemory,
            Del!NextEvent, Del!Polling, Del!historyVars
<1>1. /\ kind' = kind /\ kind \in Kind
      /\ \A k \in Nat : Del!Usable(k)' <=> Del!Usable(k)
  BY UsableKept DEF DeliveryTypes
<1>2. /\ kind = "discord" /\ pc = "recv" /\ ws \in Seq(Del!Msg) /\ Head(ws) \in 1..arrived
      /\ Head(ws) \in Del!Msg /\ ws # Del!NoSocket /\ Fresh(Head(ws))
      /\ Tail(ws) \in Seq(Del!Msg)
      /\ Del!Members(ws) = {Head(ws)} \cup Del!Members(Tail(ws))
      /\ NoRepeat(ws) => NoRepeat(Tail(ws)) /\ Head(ws) \notin Del!Members(Tail(ws))
  BY MembersOfTail DEF DeliveryTypes, DiscordOnce
<1>3. /\ Del!Members(buf) = {} /\ buf' \in Seq(Del!Msg) /\ NoRepeat(buf')
      /\ Del!Members(buf') = IF Del!Usable(Head(ws)) THEN {Head(ws)} ELSE {}
  <2>1. buf = <<>> /\ buf' = Put(<<>>, Head(ws)) /\ <<>> \in Seq(Del!Msg)
    BY <1>2, EventMapped
  <2> QED
    BY <1>2, <2>1, MembersOfPut, MembersOfEmpty
<1>4. /\ KindInv' /\ TelegramKeeps' /\ SlackKeeps' /\ ErrorsCost'
      /\ TelegramOnce' /\ SlackOnce' /\ EmailOnce'
  BY <1>1 DEF KindInv, TelegramKeeps, SlackKeeps, ErrorsCost, TelegramOnce, SlackOnce,
     EmailOnce
<1>5. DeliveryTypes'
  BY <1>1, <1>2, <1>3 DEF DeliveryTypes
<1>6. Somewhere'
  BY <1>1, <1>2, <1>3 DEF Somewhere
<1>7. PendingOnce'
  BY <1>1, <1>2, <1>3
    DEF PendingOnce, DeliveryTypes, KindInv
<1>8. DiscordOnce'
  BY <1>1, <1>2, <1>3 DEF DiscordOnce
<1> QED
  BY <1>4, <1>5, <1>6, <1>7, <1>8

LEMMA ReceiveErrorKeeps ==
  ASSUME DeliveryInv, Del!ReceiveError
  PROVE  DeliveryInv'
<1> USE DEF DeliveryInv, LostInv, OnceInv, Pending, Due, Fresh, Del!InMemory,
            Del!ReceiveError, Del!Polling
<1>1. /\ kind' = kind /\ kind \in Kind
      /\ \A k \in Nat : Del!Usable(k)' <=> Del!Usable(k)
  BY UsableKept DEF DeliveryTypes
<1>2. kind = "discord" /\ ws # Del!NoSocket /\ ws \in Seq(Del!Msg)
      /\ Del!Members(ws) \subseteq 1..arrived
  BY DEF DeliveryTypes
<1>3. PICK n \in 0..Len(ws) : /\ ws' = SubSeq(ws, n + 1, Len(ws))
                              /\ unread' = unread \cup {ws[i] : i \in 1..n}
  OBVIOUS
<1>4. /\ ws' \in Seq(Del!Msg) /\ Del!Members(ws') \subseteq Del!Members(ws)
      /\ Del!Members(ws) = {ws[i] : i \in 1..n} \cup Del!Members(ws')
      /\ NoRepeat(ws) => NoRepeat(ws')
  <2> DEFINE t == SubSeq(ws, n + 1, Len(ws))
  <2>1. /\ t \in Seq(Del!Msg) /\ Del!Members(t) \subseteq Del!Members(ws)
        /\ Del!Members(ws) = {ws[i] : i \in 1..n} \cup Del!Members(t)
        /\ NoRepeat(ws) => NoRepeat(t)
    BY <1>2, MembersBehind, Zenon
  <2>2. ws' = t
    BY <1>3
  <2>3. Del!Members(ws') = Del!Members(t) /\ (NoRepeat(t) => NoRepeat(ws'))
    BY <2>2 DEF Del!Members, NoRepeat
  <2> HIDE DEF t
  <2> QED
    BY <2>1, <2>2, <2>3, Zenon
<1>5. /\ KindInv' /\ TelegramKeeps' /\ SlackKeeps' /\ ErrorsCost' /\ PendingOnce'
      /\ TelegramOnce' /\ SlackOnce' /\ EmailOnce'
  BY <1>1, <1>2 DEF KindInv, TelegramKeeps, SlackKeeps, ErrorsCost, PendingOnce,
     TelegramOnce, SlackOnce, EmailOnce, NoRepeat
<1>6. DeliveryTypes'
  <2>1. unread' \subseteq 1..arrived /\ Del!Members(ws') \subseteq 1..arrived
    BY <1>2, <1>3, <1>4 DEF DeliveryTypes
  <2>2. UNCHANGED <<arrived, held, pc, buf, hand, offset, seen, uids, handed, doubts>>
        /\ faults' \in Nat
    BY DEF DeliveryTypes
  <2> HIDE DEF Del!ReceiveError, LostInv, OnceInv
  <2> QED
    BY <1>1, <1>4, <2>1, <2>2 DEF DeliveryTypes
<1>7. Somewhere'
  BY <1>1, <1>2, <1>3, <1>4 DEF Somewhere
<1>8. DiscordOnce'
  BY <1>1, <1>2, <1>4 DEF DiscordOnce
<1> QED
  BY <1>5, <1>6, <1>7, <1>8

LEMMA DispatchKeeps ==
  ASSUME DeliveryInv, Del!Dispatch
  PROVE  DeliveryInv'
<1> USE DEF DeliveryInv, LostInv, OnceInv, Pending, Due, Fresh, Del!InMemory,
            Del!Dispatch
<1>1. /\ kind' = kind /\ kind \in Kind
      /\ \A k \in Nat : Del!Usable(k)' <=> Del!Usable(k)
  BY UsableKept DEF DeliveryTypes
<1>2. /\ hand \in 1..arrived /\ hand \in Del!Msg /\ held \subseteq Del!Msg /\ pc = "dispatch"
      /\ pc' \in {"send", "recv"} /\ Del!Members(buf) \subseteq Del!Msg
      /\ 1..arrived \subseteq Del!Msg
  BY MessagesAre DEF DeliveryTypes
<1>3. /\ handed' \in [Del!Msg -> Nat] /\ handed \in [Del!Msg -> Nat]
      /\ doubts \in [Del!Msg -> Nat]
      /\ \A m \in Del!Msg : handed'[m] = IF m = hand THEN handed[m] + 1 ELSE handed[m]
  <2>1. handed \in [Del!Msg -> Nat] /\ doubts \in [Del!Msg -> Nat]
    BY DEF DeliveryTypes
  <2>2. handed' = [handed EXCEPT ![hand] = @ + 1]
    OBVIOUS
  <2> HIDE DEF DeliveryInv, Del!Dispatch
  <2> QED
    BY <1>2, <2>1, <2>2
<1>4. /\ UNCHANGED <<arrived, held, buf, offset, ws, seen, uids, doubts, dropped,
                     unread, faults>>
      /\ concluded' = concluded \cup {hand} /\ hand' \in {0, hand}
  OBVIOUS
<1>5. \A m \in Del!Msg : m # hand => (Due(m) <=> Due(m)')
  BY <1>2, <1>3, <1>4
<1>6. /\ Pending = Del!Members(buf) \cup {hand} /\ Pending' = Del!Members(buf)
      /\ hand \notin Del!Members(buf)
  BY <1>2, <1>4 DEF PendingOnce
<1> HIDE DEF Del!Dispatch, Pending
<1>7. DeliveryTypes'
  <2>1. hand' \in 0..arrived /\ pc' \notin {"note", "dispatch"}
    BY <1>2, <1>4 DEF DeliveryTypes
  <2> QED
    BY <1>1, <1>2, <1>3, <1>4, <2>1 DEF DeliveryTypes
<1>8. KindInv'
  BY <1>1, <1>2, <1>3, <1>4, <1>5, <1>6 DEF KindInv
<1>9. TelegramKeeps'
  BY <1>1, <1>2, <1>3, <1>4, <1>5, <1>6 DEF TelegramKeeps
<1>10. SlackKeeps'
  BY <1>1, <1>2, <1>3, <1>4, <1>5, <1>6
    DEF SlackKeeps, DeliveryTypes, KindInv
<1>11. ErrorsCost'
  BY <1>1, <1>2, <1>3, <1>4, <1>5, <1>6 DEF ErrorsCost
<1>12. Somewhere'
  BY <1>1, <1>2, <1>3, <1>4, <1>5, <1>6 DEF Somewhere
<1>13. PendingOnce'
  BY <1>1, <1>2, <1>3, <1>4, <1>5, <1>6 DEF PendingOnce
<1>14. TelegramOnce'
  BY <1>1, <1>2, <1>3, <1>4, <1>5, <1>6 DEF TelegramOnce
<1>15. SlackOnce'
  <2>1. \A m \in Del!Msg : Fresh(m) => Fresh(m)'
    BY <1>5, <1>6
  <2>2. RingSpan => RingSpan'
    BY <1>2, <1>4 DEF RingSpan, Spans, NoRepeat
  <2>3. NoRepeat(ws) => NoRepeat(ws')
    BY <1>4 DEF NoRepeat
  <2> HIDE DEF Fresh
  <2> QED
    BY <1>1, <1>2, <1>4, <2>1, <2>2, <2>3 DEF SlackOnce
<1>16. EmailOnce'
  <2> SUFFICES ASSUME kind = "email" PROVE EmailOnce'
    BY <1>1 DEF EmailOnce
  <2>1. \A u \in uids : Fresh(u)'
    BY <1>2, <1>4, <1>5, <1>6 DEF EmailOnce, DeliveryTypes
  <2>2. \A m \in held \ Pending' : Due(m)'
    BY <1>2, <1>3, <1>4, <1>5, <1>6 DEF EmailOnce
  <2>3. \A m \in held \cap Pending' : handed'[m] < doubts[m]
    BY <1>2, <1>3, <1>4, <1>6 DEF EmailOnce
  <2> QED
    BY <1>4, <2>1, <2>2, <2>3 DEF EmailOnce
<1>17. DiscordOnce'
  BY <1>1, <1>2, <1>3, <1>4, <1>5, <1>6
    DEF DiscordOnce, DeliveryTypes, KindInv
<1> QED
  BY <1>7, <1>8, <1>9, <1>10, <1>11, <1>12, <1>13, <1>14, <1>15, <1>16, <1>17

LEMMA SendKeeps ==
  ASSUME DeliveryInv, Del!Send
  PROVE  DeliveryInv'
<1> USE DEF DeliveryInv, LostInv, OnceInv, Pending, Due, Fresh, Del!InMemory,
            Del!Send, Del!historyVars
<1>1. /\ kind' = kind /\ kind \in Kind
      /\ \A k \in Nat : Del!Usable(k)' <=> Del!Usable(k)
  BY UsableKept DEF DeliveryTypes
<1>2. /\ DeliveryTypes' /\ KindInv' /\ TelegramKeeps' /\ ErrorsCost'
      /\ Somewhere' /\ PendingOnce' /\ TelegramOnce' /\ EmailOnce'
      /\ DiscordOnce'
  BY <1>1 DEF DeliveryTypes, KindInv, TelegramKeeps, ErrorsCost, Somewhere,
     PendingOnce, TelegramOnce, EmailOnce, DiscordOnce
<1>3. SlackKeeps'
  BY <1>1
    DEF SlackKeeps, DeliveryTypes, KindInv
<1>4. SlackOnce'
  BY <1>1, MembersOfEmpty, SlackFrame DEF DeliveryTypes, KindInv
<1> QED
  BY <1>2, <1>3, <1>4

LEMMA CrashKeeps ==
  ASSUME DeliveryInv, Del!Crash
  PROVE  DeliveryInv'
<1> USE DEF DeliveryInv, LostInv, OnceInv, Pending, Due, Fresh, Del!InMemory,
            Del!Crash
<1>1. /\ kind' = kind /\ kind \in Kind
      /\ \A k \in Nat : Del!Usable(k)' <=> Del!Usable(k)
  BY UsableKept DEF DeliveryTypes
<1>2. /\ UNCHANGED <<arrived, held, concluded, unread, faults>> /\ seen' = <<>> /\ ws' = Del!NoSocket
      /\ pc' = "off" /\ buf' = <<>> /\ uids' = {} /\ hand' = 0 /\ offset' = 0
      /\ handed' = [m \in Del!Msg |-> 0] /\ doubts' = [m \in Del!Msg |-> 0]
  OBVIOUS
<1>3. Pending' = {} /\ (\A m \in Del!Msg : Fresh(m)') /\ held \subseteq Del!Msg
  BY <1>2, MembersOfEmpty, MessagesAre
<1>4. KindInv' /\ ErrorsCost' /\ Somewhere' /\ DiscordOnce'
  BY <1>1 DEF KindInv, ErrorsCost, Somewhere, DiscordOnce
<1>5. DeliveryTypes'
  BY <1>1, <1>2, <1>3 DEF DeliveryTypes
<1>6. TelegramKeeps'
  BY <1>1, <1>2, <1>3
    DEF TelegramKeeps, DeliveryTypes, KindInv
<1>7. SlackKeeps'
  BY <1>1, <1>2, <1>3, MembersOfEmpty, DeliveryConstants
    DEF SlackKeeps, DeliveryTypes, KindInv
<1>8. PendingOnce'
  BY <1>1, <1>2, <1>3, MembersOfEmpty, DeliveryConstants
    DEF PendingOnce, DeliveryTypes, KindInv
<1>9. TelegramOnce'
  BY <1>1, <1>2, <1>3 DEF TelegramOnce
<1>10. SlackOnce'
  <2>1. Spans(<<>>)
    BY MembersOfEmpty DEF Spans
  <2> QED
    BY <1>1, <1>2, <1>3, <2>1 DEF SlackOnce, RingSpan
<1>11. EmailOnce'
  BY <1>2, <1>3 DEF EmailOnce
<1> QED
  BY <1>4, <1>5, <1>6, <1>7, <1>8, <1>9, <1>10, <1>11


LEMMA DeliveryStutters ==
  ASSUME DeliveryInv, UNCHANGED deliveryVars
  PROVE  DeliveryInv'
<1> USE DEF deliveryVars
<1>1. DeliveryTypes' /\ KindInv'
  BY DEF DeliveryInv, DeliveryTypes, KindInv
<1>2. Pending' = Pending /\ Del!InMemory' = Del!InMemory
      /\ \A m : (Due(m)' <=> Due(m)) /\ (Fresh(m)' <=> Fresh(m))
  BY DEF Pending, Del!InMemory, Due, Fresh
<1>3. \A m : Del!Usable(m)' <=> Del!Usable(m)
  BY UsableKept
<1>4. LostInv'
  <2> HIDE DEF Pending, Del!InMemory
  <2> QED
    BY <1>2, <1>3 DEF DeliveryInv, LostInv, TelegramKeeps, SlackKeeps, ErrorsCost, Somewhere
<1>5. /\ (NoRepeat(buf)' <=> NoRepeat(buf)) /\ (NoRepeat(ws)' <=> NoRepeat(ws))
      /\ (Spans(seen)' <=> Spans(seen))
  BY DEF NoRepeat, Spans
<1>6. OnceInv'
  <2> HIDE DEF Pending, Due, Fresh, NoRepeat, Spans
  <2> QED
    BY <1>2, <1>5 DEF DeliveryInv, OnceInv, PendingOnce, TelegramOnce, SlackOnce,
       RingSpan, EmailOnce, DiscordOnce
<1> QED
  BY <1>1, <1>4, <1>6 DEF DeliveryInv

LEMMA DeliveryBegins == Init => DeliveryInv
<1> SUFFICES ASSUME Init PROVE DeliveryInv
  OBVIOUS
<1> USE DeliveryConstants, MembersOfEmpty DEF Del!Msg
<1>1. Del!Init
  BY DEF Init
<1>2. Pending = {} /\ \A m \in Del!Msg : Fresh(m)
  BY <1>1 DEF Del!Init, Pending, Fresh, Due
<1>3. Spans(<<>>)
  BY DEF Spans
<1>4. DeliveryTypes
  BY <1>1 DEF Del!Init, DeliveryTypes
<1>5. KindInv
  BY <1>1 DEF Del!Init, KindInv
<1>6. LostInv
  <2>1. ErrorsCost
    BY <1>1, FS_EmptySet DEF Del!Init, ErrorsCost
  <2> QED
    BY <1>1, <1>2, <2>1 DEF Del!Init, LostInv, TelegramKeeps, SlackKeeps, Somewhere
<1>7. OnceInv
  BY <1>1, <1>2, <1>3 DEF Del!Init, OnceInv, PendingOnce, TelegramOnce, SlackOnce, RingSpan,
     EmailOnce, DiscordOnce, Fresh
<1> QED
  BY <1>4, <1>5, <1>6, <1>7 DEF DeliveryInv

\* The other parts of the process leave a connector alone.
LEMMA StepsOfDelivery ==
  ASSUME [Next]_vars
  PROVE  Del!Next \/ UNCHANGED deliveryVars
BY DEF Next, vars, Of, DeliveryNext, McpNext, ToolboxNext, EgressNext, ExecutionNext,
   DialogueNext, ScheduleNext, FileToolsNext, ofMcp, ofExecution

LEMMA DeliverySteps == DeliveryInv /\ [Next]_vars => DeliveryInv'
<1> SUFFICES ASSUME DeliveryInv, [Next]_vars PROVE DeliveryInv'
  OBVIOUS
<1>1. CASE Del!Next
  <2>1. CASE Del!TelegramStep
    BY <2>1, GetUpdatesKeeps, GetUpdatesEmptyKeeps, GetUpdatesFailsKeeps DEF Del!TelegramStep
  <2>2. CASE Del!SlackStep
    BY <2>2, ConnectKeeps, ConnectFailsKeeps, AcknowledgeKeeps, NoteKeeps, SocketDropsKeeps
       DEF Del!SlackStep
  <2>3. CASE Del!EmailStep
    BY <2>3, SearchKeeps, SearchFailsKeeps, FetchKeeps, FetchFailsKeeps, StoreSeenKeeps,
       StoreFailsKeeps, PollEndsKeeps
       DEF Del!EmailStep
  <2>4. CASE Del!Start \/ Del!Retry \/ Del!Return \/ Del!Dispatch \/ Del!Send \/ Del!DiscordStep
    BY <2>4, StartKeeps, RetryKeeps, ReturnKeeps, DispatchKeeps, SendKeeps, NextEventKeeps,
       ReceiveErrorKeeps
       DEF Del!DiscordStep
  <2>5. CASE Del!Arrive \/ (\E m \in held : Del!Push(m)) \/ Del!Crash
    BY <2>5, ArriveKeeps, PushKeeps, CrashKeeps
  <2> QED
    BY <1>1, <2>1, <2>2, <2>3, <2>4, <2>5 DEF Del!Next, Del!TaskStep
<1>2. CASE UNCHANGED deliveryVars
  BY <1>2, DeliveryStutters
<1> QED
  BY <1>1, <1>2, StepsOfDelivery

-----------------------------------------------------------------------------
(* The theorems.                                                           *)

\* A message that the transport has let go of was dispatched or is in memory, or it
\* was lost with the process or before it was read; no transport error loses one by
\* Telegram or Slack, one error loses one mail at most, Telegram loses none at all,
\* and the ring of Slack's envelopes stays within its size (telegram.rs:1-4,
\* slack.rs:254-258, email.rs:107-137).
THEOREM MessagesAreKept == Spec => []NothingLost
<1>1. DeliveryInv => NothingLost
  <2> SUFFICES ASSUME DeliveryInv PROVE Del!NothingLost
    BY DEF NothingLost
  <2>1. Somewhere /\ SlackKeeps /\ TelegramKeeps /\ ErrorsCost
    BY DEF DeliveryInv, LostInv
  <2> QED
    BY <2>1, SameCardinality DEF Del!NothingLost, Somewhere, SlackKeeps, TelegramKeeps,
       ErrorsCost
<1> QED
  BY <1>1, DeliveryBegins, DeliverySteps, PTL DEF Spec

\* Between two restarts a message is dispatched at most once, plus once for each
\* time its mail was read and the server did not keep its \Seen: every step of a connector is a step
\* of Inbox, or leaves what Inbox speaks of as it is.
THEOREM TaskImplementsInbox == Spec => ImplementsInbox
<1>1. Init => Del!Promise!Init
  BY DEF Init, Del!Init, Del!Promise!Init
<1>2. DeliveryInv /\ [Next]_vars => [Del!Promise!Next]_(Del!Promise!vars)
  <2> SUFFICES ASSUME DeliveryInv, [Next]_vars
               PROVE  Del!Promise!Next \/ UNCHANGED <<handed, doubts>>
    BY DEF Del!Promise!vars
  <2>1. CASE Del!Dispatch
    <3>1. hand \in Del!Msg /\ Due(hand)
      BY <2>1, MessagesAre DEF DeliveryInv, DeliveryTypes, OnceInv, PendingOnce, Pending,
         Del!Dispatch
    <3>2. Del!Promise!Hand(hand)
      BY <2>1, <3>1 DEF Del!Dispatch, Del!Promise!Hand, Due
    <3> QED
      BY <3>1, <3>2 DEF Del!Promise!Next
  <2>2. CASE Del!Crash
    BY <2>2 DEF Del!Crash, Del!Promise!Next, Del!Promise!Restart
  <2>3. ASSUME NEW u \in uids, Del!FetchFails(u)
        PROVE  Del!Promise!Next \/ UNCHANGED <<handed, doubts>>
    <3>1. u \in Del!Msg
      BY MessagesAre DEF DeliveryInv, DeliveryTypes
    <3>2. Del!Promise!Doubt(u) \/ UNCHANGED <<handed, doubts>>
      BY <2>3 DEF Del!FetchFails, Del!Promise!Doubt
    <3> QED
      BY <3>1, <3>2 DEF Del!Promise!Next
  <2>4. \/ UNCHANGED <<handed, doubts>> \/ Del!Dispatch \/ Del!Crash
        \/ \E u \in uids : Del!FetchFails(u)
    <3>1. CASE Del!Next
      <4>1. CASE Del!TelegramStep
        BY <4>1 DEF Del!TelegramStep, Del!GetUpdates, Del!GetUpdatesEmpty,
           Del!GetUpdatesFails, Del!historyVars
      <4>2. CASE Del!SlackStep
        BY <4>2 DEF Del!SlackStep, Del!Connect, Del!ConnectFails, Del!Acknowledge,
           Del!Note, Del!SocketDrops, Del!historyVars
      <4>3. CASE Del!EmailStep
        BY <4>3 DEF Del!EmailStep, Del!Search, Del!SearchFails, Del!Fetch, Del!StoreSeen,
           Del!StoreFails, Del!PollEnds, Del!historyVars
      <4>4. CASE Del!Start \/ Del!Retry \/ Del!Return \/ Del!Send \/ Del!DiscordStep
        BY <4>4 DEF Del!Start, Del!Retry, Del!Return, Del!Send, Del!DiscordStep,
           Del!NextEvent, Del!ReceiveError, Del!historyVars
      <4>5. CASE Del!Arrive \/ \E m \in held : Del!Push(m)
        BY <4>5 DEF Del!Arrive, Del!Push, Del!historyVars
      <4> QED
        BY <3>1, <4>1, <4>2, <4>3, <4>4, <4>5 DEF Del!Next, Del!TaskStep
    <3>2. CASE UNCHANGED deliveryVars
      BY <3>2 DEF deliveryVars
    <3> QED
      BY <3>1, <3>2, StepsOfDelivery
  <2> QED
    BY <2>1, <2>2, <2>3, <2>4
<1> QED
  BY <1>1, <1>2, DeliveryBegins, DeliverySteps, PTL
     DEF Spec, ImplementsInbox, Del!ImplementsInbox, Del!Promise!Spec
=============================================================================
