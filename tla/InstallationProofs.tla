------------------------- MODULE InstallationProofs -------------------------
(***************************************************************************)
(* Theorems about the database and the binary of an installation, for every *)
(* number of processes, sessions, migrations and releases and every value   *)
(* of the bounds.  Each inductive invariant is that of one part; the other  *)
(* parts leave its variables alone.                                        *)
(***************************************************************************)
EXTENDS MCInstallation, FiniteSetTheorems, SequenceTheorems, WellFoundedInduction, TLAPS

(* Memory.                                                                 *)

Label == {"off", "refused", "migrating", "ready", "streaming", "counted", "completing",
          "creating", "using"}

Local == [session : Session \cup {Mem!NoLocals.session}, current : Nat, all : SUBSET Nat,
          watermark : Nat, covers : SUBSET Nat, overtaken : BOOLEAN, next : Nat,
          stale : BOOLEAN]

Row == [session : Session, role : {"user", "assistant"}]

MemoryTypes ==
  /\ messages \in Seq(Row)
  /\ summaries \in [Session -> [through : Nat, covers : SUBSET Nat]]
  /\ skill \in [runs : Nat, versions : Seq(Nat)]
  /\ pc \in [Proc -> Label]
  /\ loc \in [Proc -> Local]

\* A migration in progress starts from the version it has read, or too late.
SchemaInv ==
  /\ version \in 0..SCHEMA_VERSION
  /\ SchemaWhole
  /\ \A p \in Proc : pc[p] = "migrating" =>
       /\ loc[p].current < SCHEMA_VERSION
       /\ version \in {loc[p].current, SCHEMA_VERSION}

\* The messages of a session up to the n-th row of the table.
Upto(s, n) == {i \in Mem!all_messages(s) : i <= n}

\* What a summary in the making has read is what was there at that time; it is
\* the first to go past the stored watermark, unless it was overtaken.
SummaryInv ==
  /\ \A s \in Session :
       /\ summaries[s].through <= Len(messages)
       /\ summaries[s].covers = Upto(s, summaries[s].through)
  /\ \A p \in Proc :
       /\ pc[p] \in {"streaming", "counted", "completing"} => loc[p].session \in Session
       /\ pc[p] = "counted" =>
            \E n \in 0..Len(messages) : loc[p].all = Upto(loc[p].session, n)
       /\ pc[p] = "completing" =>
            /\ loc[p].watermark <= Len(messages)
            /\ loc[p].covers = Upto(loc[p].session, loc[p].watermark)
            /\ ~loc[p].overtaken => loc[p].watermark > summaries[loc[p].session].through

\* A use that is not stale is about to add the version that is next.
SkillInv ==
  /\ LineageComplete
  /\ \A p \in Proc : pc[p] = "using" =>
       /\ skill # Mem!Absent
       /\ ~loc[p].stale => loc[p].next = Len(skill.versions) + 1

MemoryInv == MemoryTypes /\ SchemaInv /\ SummaryInv /\ SkillInv

LEMMA MemoryConstants ==
  SCHEMA_VERSION \in Nat \ {0} /\ SUMMARY_KEEP_RECENT \in Nat
  BY InstallationAssumption DEF InstallationAssumption, Mem!MemoryAssumption

LEMMA NoLocalsIs ==
  /\ Mem!NoLocals \in Local
  /\ ~Mem!NoLocals.stale /\ ~Mem!NoLocals.overtaken /\ Mem!NoLocals.current = 0
<1> DEFINE s == CHOOSE s \in Session : TRUE
<1>1. Mem!NoLocals = [session |-> s, current |-> 0, all |-> {}, watermark |-> 0,
                      covers |-> {}, overtaken |-> FALSE, next |-> 0, stale |-> FALSE]
  BY DEF Mem!NoLocals
<1> HIDE DEF s
<1> QED
  BY <1>1 DEF Local

\* The locals of a process that a step of another one leaves alone, but for
\* what they say of it.
Kept(q) ==
  /\ pc'[q] = pc[q]
  /\ loc'[q] \in Local
  /\ loc'[q].session = loc[q].session /\ loc'[q].current = loc[q].current
  /\ loc'[q].all = loc[q].all /\ loc'[q].watermark = loc[q].watermark
  /\ loc'[q].covers = loc[q].covers /\ loc'[q].next = loc[q].next
  /\ loc[q].stale => loc'[q].stale
  /\ loc[q].overtaken => loc'[q].overtaken
  /\ skill' # skill /\ pc[q] = "using" => loc'[q].stale
  /\ \A s \in Session : summaries'[s] # summaries[s] /\ pc[q] = "completing"
                          /\ loc[q].session = s => loc'[q].overtaken

LEMMA CommittedIs ==
  ASSUME NEW l \in [Proc -> Local], NEW q \in Proc
  PROVE  /\ Mem!Committed(l) \in [Proc -> Local]
         /\ Mem!Committed(l)[q] = [l[q] EXCEPT !.stale = @ \/ pc[q] = "using"]
<1>1. Mem!Committed(l) = [r \in Proc |-> [l[r] EXCEPT !.stale = @ \/ pc[r] = "using"]]
  BY DEF Mem!Committed
<1>2. \A r \in Proc : [l[r] EXCEPT !.stale = @ \/ pc[r] = "using"] \in Local
  <2> SUFFICES ASSUME NEW r \in Proc
               PROVE  [l[r] EXCEPT !.stale = @ \/ pc[r] = "using"] \in Local
    OBVIOUS
  <2>1. l[r] \in Local /\ (l[r].stale \/ pc[r] = "using") \in BOOLEAN
    BY DEF Local
  <2>2. \A b \in BOOLEAN : [l[r] EXCEPT !.stale = b] \in Local
    BY <2>1 DEF Local
  <2> QED
    BY <2>1, <2>2
<1> QED
  BY <1>1, <1>2

LEMMA OthersKept ==
  ASSUME MemoryTypes, NEW p \in Proc, Mem!Step(p), NEW q \in Proc \ {p}
  PROVE  Kept(q)
<1>0. /\ pc \in [Proc -> Label] /\ loc \in [Proc -> Local] /\ loc[q] \in Local
      /\ pc[q] \in Label
  BY DEF MemoryTypes
<1>1. pc'[q] = pc[q]
  BY <1>0
  DEF Mem!Step, Mem!Goto, Mem!ReadVersion, Mem!Migrate, Mem!Turn, Mem!ReadMessages,
      Mem!StreamEnds, Mem!StreamDropped, Mem!ReadSummary, Mem!CompleteFails, Mem!SetSummary,
      Mem!FindNoSkill, Mem!CreateSkill, Mem!BeginUse, Mem!CommitUse, Mem!Kill
<1>2. ASSUME loc'[q] = loc[q], skill' = skill, summaries' = summaries
      PROVE  Kept(q)
  BY <1>0, <1>1, <1>2 DEF Kept
<1>3. ASSUME loc'[q] = [loc[q] EXCEPT !.stale = @ \/ pc[q] = "using"],
             summaries' = summaries
      PROVE  Kept(q)
  <2> DEFINE b == loc[q].stale \/ pc[q] = "using"
  <2>1. loc'[q] = [loc[q] EXCEPT !.stale = b] /\ b \in BOOLEAN
    BY <1>0, <1>3 DEF Local
  <2>2. (loc[q].stale => b) /\ (pc[q] = "using" => b)
    OBVIOUS
  <2> HIDE DEF b
  <2>3. /\ loc'[q] \in Local /\ loc'[q].stale = b
        /\ loc'[q].session = loc[q].session /\ loc'[q].current = loc[q].current
        /\ loc'[q].all = loc[q].all /\ loc'[q].watermark = loc[q].watermark
        /\ loc'[q].covers = loc[q].covers /\ loc'[q].next = loc[q].next
        /\ loc'[q].overtaken = loc[q].overtaken
    BY <1>0, <2>1 DEF Local
  <2> QED
    BY <1>1, <1>3, <2>2, <2>3 DEF Kept
<1>4. CASE \/ Mem!ReadVersion(p) \/ Mem!StreamDropped(p) \/ Mem!ReadSummary(p)
           \/ Mem!CompleteFails(p) \/ Mem!FindNoSkill(p) \/ Mem!BeginUse(p) \/ Mem!Kill(p)
           \/ \E s \in Session : Mem!ReadMessages(p, s)
  <2>1. loc'[q] = loc[q] /\ skill' = skill /\ summaries' = summaries
    BY <1>0, <1>4
    DEF Mem!ReadVersion, Mem!StreamDropped, Mem!ReadSummary, Mem!CompleteFails,
        Mem!FindNoSkill, Mem!BeginUse, Mem!Kill, Mem!ReadMessages, Mem!Forgotten, Mem!rows
  <2> QED
    BY <1>2, <2>1
<1>5. CASE Mem!Migrate(p) \/ Mem!CreateSkill(p) \/ Mem!CommitUse(p) \/ Mem!StreamEnds(p)
  <2>1. /\ summaries' = summaries
        /\ \/ skill' = skill /\ loc' \in {loc, [loc EXCEPT ![p] = Mem!NoLocals]}
           \/ loc' \in {Mem!Committed(loc), [Mem!Committed(loc) EXCEPT ![p] = Mem!NoLocals]}
    BY <1>5
    DEF Mem!Migrate, Mem!CreateSkill, Mem!CommitUse, Mem!StreamEnds, Mem!Forgotten, Mem!rows
  <2>2. CASE skill' = skill /\ loc' \in {loc, [loc EXCEPT ![p] = Mem!NoLocals]}
    BY <1>0, <1>2, <2>1, <2>2
  <2>3. CASE loc' \in {Mem!Committed(loc), [Mem!Committed(loc) EXCEPT ![p] = Mem!NoLocals]}
    BY <1>0, <1>3, <2>1, <2>3, CommittedIs
  <2> QED
    BY <2>1, <2>2, <2>3
<1>6. ASSUME NEW s \in Session, Mem!Turn(p, s)
      PROVE  Kept(q)
  <2> DEFINE l == [loc EXCEPT ![p].session = s]
  <2>1. loc' = Mem!Committed(l) /\ summaries' = summaries
    BY <1>6 DEF Mem!Turn
  <2>2. l \in [Proc -> Local] /\ l[q] = loc[q]
    BY <1>0 DEF Local
  <2> HIDE DEF l
  <2> QED
    BY <1>3, <2>1, <2>2, CommittedIs
<1>7. CASE Mem!SetSummary(p)
  <2> DEFINE s == loc[p].session
             l == [r \in Proc |-> IF pc[r] = "completing" /\ loc[r].session = s
                                  THEN [loc[r] EXCEPT !.overtaken = TRUE] ELSE loc[r]]
  <2>1. loc' = [Mem!Committed(l) EXCEPT ![p] = Mem!NoLocals]
    BY <1>7 DEF Mem!SetSummary, Mem!Forgotten
  <2>2. skill' = skill /\ \A t \in Session : t # s => summaries'[t] = summaries[t]
    BY <1>7 DEF Mem!SetSummary, MemoryTypes
  <2>3. l \in [Proc -> Local]
    BY <1>0 DEF Local
  <2>4. l[q] = IF pc[q] = "completing" /\ loc[q].session = s
               THEN [loc[q] EXCEPT !.overtaken = TRUE] ELSE loc[q]
    OBVIOUS
  <2> HIDE DEF l, s
  <2>5. loc'[q] = [l[q] EXCEPT !.stale = @ \/ pc[q] = "using"]
    BY <2>1, <2>3, CommittedIs
  <2>6. CASE pc[q] = "completing" /\ loc[q].session = s
    <3>1. l[q] \in Local /\ l[q] = [loc[q] EXCEPT !.overtaken = TRUE]
      BY <2>3, <2>4, <2>6
    <3>2. loc'[q] = l[q]
      <4>1. (l[q].stale \/ pc[q] = "using") = l[q].stale
        BY <2>6, <3>1 DEF Local
      <4>2. loc'[q] = [l[q] EXCEPT !.stale = l[q].stale]
        BY <2>5, <4>1
      <4> QED
        BY <3>1, <4>2 DEF Local
    <3>3. /\ loc'[q].session = loc[q].session /\ loc'[q].current = loc[q].current
          /\ loc'[q].all = loc[q].all /\ loc'[q].watermark = loc[q].watermark
          /\ loc'[q].covers = loc[q].covers /\ loc'[q].next = loc[q].next
          /\ loc'[q].stale = loc[q].stale /\ loc'[q].overtaken
      BY <1>0, <3>1, <3>2 DEF Local
    <3> QED
      BY <1>1, <2>2, <2>6, <3>1, <3>2, <3>3 DEF Kept
  <2>7. CASE ~(pc[q] = "completing" /\ loc[q].session = s)
    <3>1. loc'[q] = [loc[q] EXCEPT !.stale = @ \/ pc[q] = "using"]
      BY <2>4, <2>5, <2>7
    <3> DEFINE b == loc[q].stale \/ pc[q] = "using"
    <3>2. loc'[q] = [loc[q] EXCEPT !.stale = b] /\ b \in BOOLEAN
      BY <1>0, <3>1 DEF Local
    <3>3. loc[q].stale => b
      OBVIOUS
    <3> HIDE DEF b
    <3> QED
      BY <1>0, <1>1, <2>2, <2>7, <3>2, <3>3 DEF Kept, Local
  <2> QED
    BY <2>6, <2>7
<1> QED
  BY <1>4, <1>5, <1>6, <1>7 DEF Mem!Step

LEMMA GreatestOf ==
  ASSUME NEW m \in Nat, NEW T \in SUBSET (1..m), T # {}
  PROVE  \E x \in T : \A y \in T : y <= x
<1> DEFINE D == {m - x : x \in T}
<1>1. D \subseteq Nat /\ D # {}
  <2>1. \A x \in T : m - x \in Nat
    OBVIOUS
  <2>2. PICK x \in T : TRUE
    OBVIOUS
  <2>3. m - x \in D
    OBVIOUS
  <2> QED
    BY <2>1, <2>3
<1>2. PICK d \in D : \A e \in D : <<e, d>> \notin OpToRel(<, Nat)
  BY <1>1, NatLessThanWellFounded, WFMin
<1>3. PICK x \in T : d = m - x
  OBVIOUS
<1>4. \A y \in T : ~(m - y < m - x)
  BY <1>1, <1>2, <1>3 DEF OpToRel
<1> QED
  BY <1>4

LEMMA MemberOfCutoff ==
  ASSUME NEW S, NEW i \in S
  PROVE  i \in Mem!UpToCutoff(S) <=> SUMMARY_KEEP_RECENT < Cardinality({k \in S : k >= i})
  BY Zenon DEF Mem!UpToCutoff, Mem!Cardinality, Cardinality

\* What is summarized of a part of a session that reaches from its beginning is
\* such a part itself, up to its last message.
LEMMA CutoffIsPart ==
  ASSUME MemoryTypes, NEW s \in Session, NEW n \in 0..Len(messages),
         NEW S, S = Upto(s, n), Mem!UpToCutoff(S) # {}
  PROVE  LET newest == Mem!LastOf(Mem!UpToCutoff(S))
         IN  /\ newest \in 1..Len(messages)
             /\ Mem!UpToCutoff(S) = Upto(s, newest)
             /\ \A i \in Mem!UpToCutoff(S) : i <= newest
<1> DEFINE U == Mem!UpToCutoff(S)
           From(i) == {k \in S : k >= i}
<1>0. Len(messages) \in Nat /\ SUMMARY_KEEP_RECENT \in Nat
  BY MemoryConstants DEF MemoryTypes
<1>1. S \subseteq 1..Len(messages)
  BY DEF Upto, Mem!all_messages
<1>2. \A i \in S : IsFiniteSet(From(i)) /\ Cardinality(From(i)) \in Nat
  <2>1. IsFiniteSet(1..Len(messages))
    BY <1>0, FS_Interval
  <2>2. \A i \in S : From(i) \subseteq 1..Len(messages)
    BY <1>1
  <2> HIDE DEF From
  <2> QED
    BY <2>1, <2>2, FS_Subset, FS_CardinalityType
<1>3. \A i \in S : i \in U <=> SUMMARY_KEEP_RECENT < Cardinality(From(i))
  BY MemberOfCutoff
<1>4. U \subseteq S
  BY Zenon DEF Mem!UpToCutoff, Mem!Cardinality, Cardinality
<1>5. ASSUME NEW i \in U, NEW k \in S, k <= i
      PROVE  k \in U
  <2>1. From(i) \subseteq From(k)
    BY <1>1, <1>4, <1>5
  <2> HIDE DEF From
  <2>2. Cardinality(From(i)) <= Cardinality(From(k))
    BY <1>2, <2>1, FS_Subset
  <2> QED
    BY <1>0, <1>2, <1>3, <1>4, <2>2
<1> HIDE DEF From, U
<1>6. PICK x \in U : \A y \in U : y <= x
  <2>1. U \in SUBSET (1..Len(messages)) /\ U # {}
    BY <1>1, <1>4 DEF U
  <2> QED
    BY <1>0, <2>1, GreatestOf
<1>7. Mem!LastOf(U) \in U /\ \A y \in U : y <= Mem!LastOf(U)
  BY <1>6 DEF Mem!LastOf
<1>8. Mem!LastOf(U) \in 1..Len(messages) /\ Mem!LastOf(U) <= n
  BY <1>1, <1>4, <1>7 DEF Upto
<1>9. U = Upto(s, Mem!LastOf(U))
  <2>1. U \subseteq Upto(s, Mem!LastOf(U))
    BY <1>4, <1>7 DEF Upto
  <2>2. Upto(s, Mem!LastOf(U)) \subseteq S
    BY <1>0, <1>8 DEF Upto, Mem!all_messages
  <2>3. Upto(s, Mem!LastOf(U)) \subseteq U
    BY <1>5, <1>7, <2>2 DEF Upto
  <2> QED
    BY <2>1, <2>3
<1> QED
  BY <1>7, <1>8, <1>9 DEF U

\* The summary that a process is about to ask for.
LEMMA SummaryInTheMaking ==
  ASSUME MemoryInv, NEW p \in Proc, Mem!ReadSummary(p), pc'[p] = "completing"
  PROVE  /\ loc[p].session \in Session
         /\ \E w \in 1..Len(messages) :
              /\ w > summaries[loc[p].session].through
              /\ loc' = [loc EXCEPT ![p].watermark = w,
                                    ![p].covers = Upto(loc[p].session, w),
                                    ![p].all = {}, ![p].overtaken = FALSE]
<1> DEFINE s == loc[p].session
           prior == summaries[s]
           U == Mem!UpToCutoff(loc[p].all)
           older == {i \in U : i > prior.through}
           newest == Mem!LastOf(U)
<1>1. pc[p] = "counted"
  BY DEF Mem!ReadSummary
<1>2. s \in Session
  BY <1>1 DEF MemoryInv, SummaryInv
<1>3. PICK n \in 0..Len(messages) : loc[p].all = Upto(s, n)
  BY <1>1 DEF MemoryInv, SummaryInv
<1>4. older # {} /\ loc' = [loc EXCEPT ![p].watermark = newest,
                                       ![p].covers = prior.covers \cup older,
                                       ![p].all = {}, ![p].overtaken = FALSE]
  <2>1. \/ pc' = [pc EXCEPT ![p] = "ready"]
        \/ older # {} /\ loc' = [loc EXCEPT ![p].watermark = newest,
                                            ![p].covers = prior.covers \cup older,
                                            ![p].all = {}, ![p].overtaken = FALSE]
    BY DEF Mem!ReadSummary, Mem!Goto
  <2>2. pc' # [pc EXCEPT ![p] = "ready"]
    BY DEF MemoryInv, MemoryTypes
  <2> QED
    BY <2>1, <2>2
<1>5. /\ newest \in 1..Len(messages) /\ U = Upto(s, newest)
      /\ \A i \in U : i <= newest
  BY <1>2, <1>3, <1>4, CutoffIsPart DEF MemoryInv
<1>6. /\ prior.through \in Nat /\ prior.through <= Len(messages)
      /\ prior.covers = Upto(s, prior.through)
  BY <1>2 DEF MemoryInv, MemoryTypes, SummaryInv
<1> HIDE DEF s, prior, U, newest
<1>7. newest > prior.through
  <2>1. PICK i \in U : i > prior.through
    BY <1>4
  <2>2. i <= newest /\ i \in Nat /\ newest \in Nat
    BY <1>5 DEF Upto, Mem!all_messages
  <2> QED
    BY <1>6, <2>1, <2>2
<1>8. prior.covers \cup older = Upto(s, newest)
  BY <1>5, <1>6, <1>7 DEF Upto, Mem!all_messages
<1> QED
  BY <1>2, <1>4, <1>5, <1>7, <1>8 DEF s, prior

LEMMA MakingTyped ==
  ASSUME loc \in [Proc -> Local], NEW p \in Proc, NEW n \in Nat, NEW S \in SUBSET Nat
  PROVE  [loc EXCEPT ![p].watermark = n, ![p].covers = S, ![p].all = {},
                     ![p].overtaken = FALSE] \in [Proc -> Local]
<1> DEFINE T == Session \cup {Mem!NoLocals.session}
           l == [loc[p] EXCEPT !.watermark = n, !.covers = S, !.all = {}, !.overtaken = FALSE]
<1>1. Local = [session : T, current : Nat, all : SUBSET Nat, watermark : Nat,
               covers : SUBSET Nat, overtaken : BOOLEAN, next : Nat, stale : BOOLEAN]
  BY DEF Local
<1> HIDE DEF T
<1>2. l \in Local
  <2>1. loc[p] \in Local /\ {} \in SUBSET Nat
    OBVIOUS
  <2> QED
    BY <1>1, <2>1
<1>3. [loc EXCEPT ![p] = l] \in [Proc -> Local]
  <2> HIDE DEF l
  <2> QED
    BY <1>2
<1> QED
  BY <1>3

LEMMA MemoryTypesStep ==
  ASSUME MemoryInv, NEW p \in Proc, Mem!Step(p)
  PROVE  MemoryTypes'
<1>0. /\ pc \in [Proc -> Label] /\ loc \in [Proc -> Local]
      /\ messages \in Seq(Row)
      /\ summaries \in [Session -> [through : Nat, covers : SUBSET Nat]]
      /\ skill \in [runs : Nat, versions : Seq(Nat)]
  BY DEF MemoryInv, MemoryTypes
<1>1. \E l \in Label : pc' = [pc EXCEPT ![p] = l]
  BY DEF Label, Mem!Step, Mem!Goto, Mem!ReadVersion, Mem!Migrate, Mem!Turn, Mem!ReadMessages,
      Mem!StreamEnds, Mem!StreamDropped, Mem!ReadSummary, Mem!CompleteFails, Mem!SetSummary,
      Mem!FindNoSkill, Mem!CreateSkill, Mem!BeginUse, Mem!CommitUse, Mem!Kill
<1>2. pc' \in [Proc -> Label]
  BY <1>0, <1>1
<1>3. messages' \in Seq(Row)
  <2>1. \/ messages' = messages
        \/ \E m \in Row : messages' = Append(messages, m)
    <3>1. CASE \E s \in Session : Mem!Turn(p, s)
      BY <3>1 DEF Mem!Turn, Mem!add_message, Row
    <3>2. CASE Mem!StreamEnds(p)
      <4>1. loc[p].session \in Session
        BY <3>2 DEF Mem!StreamEnds, MemoryInv, SummaryInv
      <4> QED
        BY <3>2, <4>1 DEF Mem!StreamEnds, Mem!add_message, Row
    <3> QED
      BY <3>1, <3>2
      DEF Mem!Step, Mem!ReadVersion, Mem!Migrate, Mem!ReadMessages, Mem!StreamDropped,
          Mem!ReadSummary, Mem!CompleteFails, Mem!SetSummary, Mem!FindNoSkill,
          Mem!CreateSkill, Mem!BeginUse, Mem!CommitUse, Mem!Kill, Mem!rows
  <2>2. messages \in Seq(Row)
    BY <1>0
  <2> QED
    BY <2>1, <2>2
<1>4. summaries' \in [Session -> [through : Nat, covers : SUBSET Nat]]
  <2>1. CASE Mem!SetSummary(p)
    <3>1. loc[p].watermark \in Nat /\ loc[p].covers \in SUBSET Nat
      BY <1>0 DEF Local
    <3> QED
      BY <1>0, <2>1, <3>1 DEF Mem!SetSummary
  <2>2. CASE summaries' = summaries
    BY <1>0, <2>2
  <2> QED
    BY <2>1, <2>2
    DEF Mem!Step, Mem!ReadVersion, Mem!Migrate, Mem!Turn, Mem!ReadMessages, Mem!StreamEnds,
        Mem!StreamDropped, Mem!ReadSummary, Mem!CompleteFails, Mem!FindNoSkill,
        Mem!CreateSkill, Mem!BeginUse, Mem!CommitUse, Mem!Kill, Mem!rows
<1>5. skill' \in [runs : Nat, versions : Seq(Nat)]
  <2> DEFINE Lineage == Seq(Nat)
  <2>1. ASSUME NEW n \in Nat, NEW v \in Lineage, skill' = [runs |-> n, versions |-> v]
        PROVE  skill' \in [runs : Nat, versions : Lineage]
    <3> HIDE DEF Lineage
    <3> QED
      BY <2>1
  <2>2. CASE Mem!CreateSkill(p)
    <3>1. <<1>> \in Seq(Nat)
      OBVIOUS
    <3>2. skill' = skill \/ skill' = [runs |-> 0, versions |-> <<1>>]
      BY <2>2 DEF Mem!CreateSkill
    <3>3. CASE skill' = [runs |-> 0, versions |-> <<1>>]
      BY <2>1, <3>1, <3>3
    <3> QED
      BY <1>0, <3>2, <3>3
  <2>3. CASE Mem!CommitUse(p)
    <3>1. loc[p].next \in Nat /\ skill.runs \in Nat /\ skill.versions \in Seq(Nat)
      BY <1>0 DEF Local
    <3>2. skill.runs + 1 \in Nat /\ Append(skill.versions, loc[p].next) \in Seq(Nat)
      BY <3>1
    <3>3. \/ skill' = skill
          \/ skill' = [runs |-> skill.runs + 1, versions |-> Append(skill.versions, loc[p].next)]
      BY <2>3 DEF Mem!CommitUse
    <3>4. CASE skill' # skill
      BY <2>1, <3>2, <3>3, <3>4
    <3> QED
      BY <1>0, <3>4
  <2>4. CASE skill' = skill
    BY <1>0, <2>4
  <2> QED
    BY <2>2, <2>3, <2>4
    DEF Mem!Step, Mem!ReadVersion, Mem!Migrate, Mem!Turn, Mem!ReadMessages, Mem!StreamEnds,
        Mem!StreamDropped, Mem!ReadSummary, Mem!CompleteFails, Mem!FindNoSkill,
        Mem!BeginUse, Mem!SetSummary, Mem!Kill, Mem!rows
<1>6. loc' \in [Proc -> Local]
  <2> USE <1>0, NoLocalsIs, CommittedIs
  <2>1. CASE Mem!ReadVersion(p)
    <3>1. version \in Nat
      BY MemoryConstants DEF MemoryInv, SchemaInv
    <3>2. \A n \in Nat : [loc EXCEPT ![p].current = n] \in [Proc -> Local]
      BY DEF Local
    <3> QED
      BY <2>1, <3>1, <3>2 DEF Mem!ReadVersion
  <2>2. CASE \E s \in Session : Mem!Turn(p, s)
    <3>1. PICK s \in Session : loc' = Mem!Committed([loc EXCEPT ![p].session = s])
      BY <2>2 DEF Mem!Turn
    <3>2. [loc EXCEPT ![p].session = s] \in [Proc -> Local]
      BY DEF Local
    <3> QED
      BY <3>1, <3>2
  <2>3. CASE \E s \in Session : Mem!ReadMessages(p, s)
    <3>1. PICK s \in Session :
            loc' = [loc EXCEPT ![p].session = s, ![p].all = Mem!all_messages(s),
                               ![p].overtaken = FALSE]
      BY <2>3 DEF Mem!ReadMessages
    <3>2. Mem!all_messages(s) \in SUBSET Nat
      BY DEF Mem!all_messages
    <3>3. ASSUME NEW S \in SUBSET Nat
          PROVE  [loc EXCEPT ![p].session = s, ![p].all = S, ![p].overtaken = FALSE]
                   \in [Proc -> Local]
      <4>1. loc[p] \in Local
        OBVIOUS
      <4>2. [loc[p] EXCEPT !.session = s, !.all = S, !.overtaken = FALSE] \in Local
        BY <4>1 DEF Local
      <4> QED
        BY <4>2
    <3> QED
      BY <3>1, <3>2, <3>3
  <2>4. CASE Mem!ReadSummary(p)
    <3>1. CASE pc'[p] = "completing"
      <4>1. PICK w \in 1..Len(messages) :
              loc' = [loc EXCEPT ![p].watermark = w, ![p].covers = Upto(loc[p].session, w),
                                 ![p].all = {}, ![p].overtaken = FALSE]
        BY <2>4, <3>1, SummaryInTheMaking
      <4>2. w \in Nat /\ Upto(loc[p].session, w) \in SUBSET Nat
        BY DEF Upto, Mem!all_messages
      <4> QED
        BY <4>1, <4>2, MakingTyped
    <3>2. CASE pc'[p] # "completing"
      <4>1. loc' = [loc EXCEPT ![p] = Mem!NoLocals]
        BY <2>4, <3>2 DEF Mem!ReadSummary, Mem!Goto, Mem!Forgotten
      <4> QED
        BY <4>1
    <3> QED
      BY <3>1, <3>2
  <2>5. CASE Mem!BeginUse(p)
    <3>1. Len(skill.versions) + 1 \in Nat
      OBVIOUS
    <3>2. ASSUME NEW n \in Nat
          PROVE  [loc EXCEPT ![p].next = n, ![p].stale = FALSE] \in [Proc -> Local]
      <4>1. loc[p] \in Local
        OBVIOUS
      <4>2. [loc[p] EXCEPT !.next = n, !.stale = FALSE] \in Local
        BY <4>1 DEF Local
      <4> QED
        BY <4>2
    <3> QED
      BY <2>5, <3>1, <3>2 DEF Mem!BeginUse
  <2>6. CASE Mem!SetSummary(p)
    <3> DEFINE l == [q \in Proc |-> IF pc[q] = "completing" /\ loc[q].session = loc[p].session
                                    THEN [loc[q] EXCEPT !.overtaken = TRUE] ELSE loc[q]]
    <3>1. l \in [Proc -> Local]
      BY DEF Local
    <3>2. loc' = [Mem!Committed(l) EXCEPT ![p] = Mem!NoLocals]
      BY <2>6 DEF Mem!SetSummary, Mem!Forgotten
    <3> HIDE DEF l
    <3> QED
      BY <3>1, <3>2
  <2>7. CASE loc' \in {loc, [loc EXCEPT ![p] = Mem!NoLocals], Mem!Committed(loc),
                       [Mem!Committed(loc) EXCEPT ![p] = Mem!NoLocals]}
    BY <2>7
  <2>8. CASE \/ Mem!Migrate(p) \/ Mem!StreamEnds(p) \/ Mem!StreamDropped(p)
             \/ Mem!CompleteFails(p) \/ Mem!FindNoSkill(p) \/ Mem!CreateSkill(p)
             \/ Mem!CommitUse(p) \/ Mem!Kill(p)
    BY <2>7, <2>8
    DEF Mem!Migrate, Mem!StreamEnds, Mem!StreamDropped, Mem!CompleteFails, Mem!FindNoSkill,
        Mem!CreateSkill, Mem!CommitUse, Mem!Kill, Mem!Forgotten
  <2> QED
    BY <2>1, <2>2, <2>3, <2>4, <2>5, <2>6, <2>8 DEF Mem!Step
<1> QED
  BY <1>2, <1>3, <1>4, <1>5, <1>6 DEF MemoryTypes

LEMMA SchemaStep ==
  ASSUME MemoryInv, NEW p \in Proc, Mem!Step(p)
  PROVE  SchemaInv'
<1>0. /\ pc \in [Proc -> Label] /\ loc \in [Proc -> Local]
      /\ SCHEMA_VERSION \in Nat \ {0} /\ version \in 0..SCHEMA_VERSION
      /\ tables = 1..version
  BY MemoryConstants DEF MemoryInv, MemoryTypes, SchemaInv, SchemaWhole, Mem!SchemaWhole
<1>1. \A q \in Proc : pc[q] = "refused" => version = SCHEMA_VERSION
  BY DEF MemoryInv, SchemaInv, SchemaWhole, Mem!SchemaWhole
<1>2. \A q \in Proc : pc[q] = "migrating" =>
        loc[q].current < SCHEMA_VERSION /\ version \in {loc[q].current, SCHEMA_VERSION}
  BY DEF MemoryInv, SchemaInv
<1>3. \A q \in Proc \ {p} : pc'[q] = pc[q] /\ loc'[q].current = loc[q].current
  BY OthersKept DEF Kept, MemoryInv
<1>4. CASE Mem!ReadVersion(p)
  <2>1. /\ version' = version /\ tables' = tables
        /\ pc'[p] # "refused"
        /\ pc'[p] = "migrating" => version < SCHEMA_VERSION
        /\ loc' = [loc EXCEPT ![p].current = IF version >= SCHEMA_VERSION THEN 0 ELSE version]
    BY <1>0, <1>4 DEF Mem!ReadVersion, Mem!Goto
  <2>2. pc'[p] = "migrating" => loc'[p].current = version
    BY <1>0, <2>1 DEF Local
  <2> QED
    BY <1>0, <1>1, <1>2, <1>3, <2>1, <2>2 DEF SchemaInv, SchemaWhole, Mem!SchemaWhole
<1>5. CASE Mem!Migrate(p)
  <2> DEFINE c == loc[p].current
             todo == (c + 1)..SCHEMA_VERSION
  <2>1. c \in Nat /\ c < SCHEMA_VERSION /\ version \in {c, SCHEMA_VERSION}
    BY <1>0, <1>2, <1>5 DEF Mem!Migrate, Local
  <2>2. CASE (todo \ {1}) \cap tables = {}
    <3>1. version' = SCHEMA_VERSION /\ tables' = tables \cup todo /\ pc'[p] = "ready"
      BY <1>0, <1>5, <2>2 DEF Mem!Migrate, Mem!Goto
    <3>2. tables \cup todo = 1..SCHEMA_VERSION
      BY <1>0, <2>1
    <3> QED
      BY <1>0, <1>1, <1>2, <1>3, <3>1, <3>2 DEF SchemaInv, SchemaWhole, Mem!SchemaWhole
  <2>3. CASE (todo \ {1}) \cap tables # {}
    <3>1. version' = version /\ tables' = tables /\ pc'[p] = "refused"
      BY <1>0, <1>5, <2>3 DEF Mem!Migrate, Mem!Goto
    <3>2. version = SCHEMA_VERSION
      BY <1>0, <2>1, <2>3
    <3> QED
      BY <1>0, <1>1, <1>2, <1>3, <3>1, <3>2 DEF SchemaInv, SchemaWhole, Mem!SchemaWhole
  <2> QED
    BY <2>2, <2>3
<1>6. CASE ~Mem!ReadVersion(p) /\ ~Mem!Migrate(p)
  <2>1. /\ version' = version /\ tables' = tables
        /\ pc'[p] \notin {"refused", "migrating"}
    BY <1>0, <1>6
    DEF Mem!Step, Mem!Goto, Mem!Turn, Mem!ReadMessages, Mem!StreamEnds, Mem!StreamDropped,
        Mem!ReadSummary, Mem!CompleteFails, Mem!SetSummary, Mem!FindNoSkill, Mem!CreateSkill,
        Mem!BeginUse, Mem!CommitUse, Mem!Kill
  <2> QED
    BY <1>0, <1>1, <1>2, <1>3, <2>1 DEF SchemaInv, SchemaWhole, Mem!SchemaWhole
<1> QED
  BY <1>4, <1>5, <1>6

\* Rows are only added.
LEMMA MessagesGrow ==
  ASSUME MemoryTypes, MemoryTypes', NEW p \in Proc, Mem!Step(p)
  PROVE  /\ Len(messages) \in Nat /\ Len(messages') \in Nat
         /\ Len(messages) <= Len(messages')
         /\ \A i \in 1..Len(messages) : messages'[i] = messages[i]
<1>1. messages \in Seq(Row) /\ messages' \in Seq(Row)
  BY DEF MemoryTypes
<1>2. messages' = messages \/ \E m : messages' = Append(messages, m)
  BY DEF Mem!Step, Mem!ReadVersion, Mem!Migrate, Mem!Turn, Mem!ReadMessages, Mem!StreamEnds,
         Mem!StreamDropped, Mem!ReadSummary, Mem!CompleteFails, Mem!SetSummary,
         Mem!FindNoSkill, Mem!CreateSkill, Mem!BeginUse, Mem!CommitUse, Mem!Kill, Mem!rows,
         Mem!add_message
<1> QED
  BY <1>1, <1>2

LEMMA UptoKept ==
  ASSUME MemoryTypes, MemoryTypes', NEW p \in Proc, Mem!Step(p),
         NEW s \in Session, NEW n \in 0..Len(messages)
  PROVE  /\ n \in 0..Len(messages')
         /\ {i \in 1..Len(messages') : messages'[i].session = s /\ i <= n} = Upto(s, n)
  BY MessagesGrow DEF Upto, Mem!all_messages

LEMMA UptoIs ==
  ASSUME NEW s, NEW n
  PROVE  Upto(s, n)' = {i \in 1..Len(messages') : messages'[i].session = s /\ i <= n}
  BY DEF Upto, Mem!all_messages

LEMMA SummaryStep ==
  ASSUME MemoryInv, MemoryTypes', NEW p \in Proc, Mem!Step(p)
  PROVE  SummaryInv'
<1>0. /\ pc \in [Proc -> Label] /\ loc \in [Proc -> Local]
      /\ messages \in Seq(Row) /\ Len(messages) \in Nat
      /\ summaries \in [Session -> [through : Nat, covers : SUBSET Nat]]
  BY DEF MemoryInv, MemoryTypes
<1>1. /\ Len(messages') \in Nat /\ Len(messages) <= Len(messages')
      /\ \A s \in Session, n \in 0..Len(messages) : Upto(s, n)' = Upto(s, n)
  BY MessagesGrow, UptoKept, UptoIs DEF MemoryInv
<1>2. ASSUME NEW s \in Session
      PROVE  /\ summaries'[s].through <= Len(messages')
             /\ summaries'[s].covers = Upto(s, summaries[s].through)'
  <2>1. CASE summaries'[s] = summaries[s]
    <3>1. /\ summaries[s].through \in 0..Len(messages)
          /\ summaries[s].covers = Upto(s, summaries[s].through)
      BY <1>0 DEF MemoryInv, SummaryInv
    <3>2. /\ summaries'[s].through \in 0..Len(messages)
          /\ summaries'[s].covers = Upto(s, summaries'[s].through)
      BY <2>1, <3>1
    <3>3. \A n : n = summaries'[s].through =>
            Upto(s, summaries[s].through)' = Upto(s, n)'
      BY DEF Upto, Mem!all_messages
    <3> QED
      BY <1>0, <1>1, <3>2, <3>3
  <2>2. CASE Mem!SetSummary(p) /\ s = loc[p].session
    <3> DEFINE w == loc[p].watermark
    <3>1. /\ loc[p].watermark <= Len(messages)
          /\ loc[p].covers = Upto(loc[p].session, loc[p].watermark)
      BY <2>2 DEF MemoryInv, SummaryInv, Mem!SetSummary
    <3>2. summaries'[s] = [through |-> w, covers |-> loc[p].covers] /\ messages' = messages
      BY <1>0, <2>2 DEF Mem!SetSummary
    <3>3. summaries'[s].through = w /\ summaries'[s].covers = Upto(s, w)
      BY <2>2, <3>1, <3>2
    <3>4. Upto(s, summaries[s].through)' = Upto(s, w)
      BY <3>2, <3>3 DEF Upto, Mem!all_messages
    <3> QED
      BY <3>1, <3>2, <3>3, <3>4
  <2>3. \/ summaries'[s] = summaries[s]
        \/ Mem!SetSummary(p) /\ s = loc[p].session
    <3>1. CASE Mem!SetSummary(p)
      BY <1>0, <3>1 DEF Mem!SetSummary
    <3>2. CASE ~Mem!SetSummary(p)
      BY <3>2
      DEF Mem!Step, Mem!ReadVersion, Mem!Migrate, Mem!Turn, Mem!ReadMessages, Mem!StreamEnds,
          Mem!StreamDropped, Mem!ReadSummary, Mem!CompleteFails, Mem!FindNoSkill,
          Mem!CreateSkill, Mem!BeginUse, Mem!CommitUse, Mem!Kill, Mem!rows
    <3> QED
      BY <3>1, <3>2
  <2> QED
    BY <2>1, <2>2, <2>3
<1> DEFINE Fits(q) ==
      /\ pc[q] \in {"streaming", "counted", "completing"} => loc[q].session \in Session
      /\ pc[q] = "counted" =>
           \E n \in 0..Len(messages) : loc[q].all = Upto(loc[q].session, n)
      /\ pc[q] = "completing" =>
           /\ loc[q].watermark <= Len(messages)
           /\ loc[q].covers = Upto(loc[q].session, loc[q].watermark)
           /\ ~loc[q].overtaken => loc[q].watermark > summaries[loc[q].session].through
<1>3. ASSUME NEW q \in Proc \ {p}
      PROVE  Fits(q)'
  <2>1. Kept(q)
    BY OthersKept DEF MemoryInv
  <2>2. Fits(q) /\ loc[q] \in Local
    BY <1>0 DEF MemoryInv, SummaryInv
  <2>3. pc[q] \in {"streaming", "counted", "completing"} =>
          loc'[q].session \in Session /\ loc'[q].session = loc[q].session
    BY <2>1, <2>2 DEF Kept
  <2>4. ASSUME pc[q] = "counted"
        PROVE  \E n \in 0..Len(messages') : loc'[q].all = Upto(loc[q].session, n)'
    <3>1. PICK n \in 0..Len(messages) : loc[q].all = Upto(loc[q].session, n)
      BY <2>2, <2>4
    <3>2. loc'[q].all = Upto(loc[q].session, n)
      BY <2>1, <3>1 DEF Kept
    <3>3. \A s \in Session : s = loc'[q].session => Upto(loc[q].session, n)' = Upto(s, n)'
      BY DEF Upto, Mem!all_messages
    <3>4. n \in 0..Len(messages')
      BY <1>0, <1>1
    <3> QED
      BY <1>1, <2>3, <2>4, <3>2, <3>3, <3>4
  <2>5. ASSUME pc[q] = "completing"
        PROVE  /\ loc'[q].watermark <= Len(messages')
               /\ loc'[q].covers = Upto(loc[q].session, loc[q].watermark)'
               /\ ~loc'[q].overtaken =>
                    loc'[q].watermark > summaries'[loc'[q].session].through
    <3> DEFINE s == loc[q].session
               w == loc[q].watermark
    <3>1. /\ w \in 0..Len(messages) /\ s \in Session
          /\ loc[q].covers = Upto(s, w)
          /\ ~loc[q].overtaken => w > summaries[s].through
      BY <1>0, <2>2, <2>5 DEF Local
    <3>2. /\ loc'[q].watermark = w /\ loc'[q].session = s /\ loc'[q].covers = loc[q].covers
          /\ ~loc'[q].overtaken => ~loc[q].overtaken /\ summaries'[s] = summaries[s]
      BY <2>1, <2>5, <3>1 DEF Kept
    <3>3. Upto(loc[q].session, loc[q].watermark)' = Upto(s, w)
      <4> HIDE DEF s, w
      <4>1. {i \in 1..Len(messages') : messages'[i].session = s /\ i <= w} = Upto(s, w)
        BY <3>1, UptoKept DEF MemoryInv
      <4>2. Upto(loc[q].session, loc[q].watermark)'
              = {i \in 1..Len(messages') : messages'[i].session = s /\ i <= w}
        BY <3>2 DEF Upto, Mem!all_messages
      <4> QED
        BY <4>1, <4>2
    <3> HIDE DEF s, w
    <3> QED
      BY <1>0, <1>1, <3>1, <3>2, <3>3
  <2>6. pc'[q] = pc[q]
    BY <2>1 DEF Kept
  <2> QED
    BY <2>3, <2>4, <2>5, <2>6
<1>4. Fits(p)'
  <2>1. CASE \E s \in Session : Mem!Turn(p, s)
    <3>1. PICK s \in Session : loc' = Mem!Committed([loc EXCEPT ![p].session = s])
      BY <2>1 DEF Mem!Turn
    <3>2. [loc EXCEPT ![p].session = s] \in [Proc -> Local]
      <4>1. loc[p] \in Local
        BY <1>0
      <4>2. [loc[p] EXCEPT !.session = s] \in Local
        BY <4>1 DEF Local
      <4> QED
        BY <1>0, <4>2
    <3>3. loc'[p].session = s
      <4> DEFINE l == [loc EXCEPT ![p].session = s]
      <4>1. l[p].session = s /\ l[p] \in Local
        BY <1>0, <3>2 DEF Local
      <4>2. l \in [Proc -> Local] /\ loc' = Mem!Committed(l)
        BY <3>1, <3>2
      <4> HIDE DEF l
      <4>3. loc'[p] = [l[p] EXCEPT !.stale = @ \/ pc[p] = "using"]
        BY <4>2, CommittedIs
      <4> QED
        BY <4>1, <4>3 DEF Local
    <3>4. pc'[p] = "streaming"
      BY <1>0, <2>1 DEF Mem!Turn, Mem!Goto
    <3> QED
      BY <3>3, <3>4
  <2>2. CASE \E s \in Session : Mem!ReadMessages(p, s)
    <3>1. PICK s \in Session : Mem!ReadMessages(p, s)
      BY <2>2
    <3>2. /\ pc'[p] = "counted" /\ messages' = messages
          /\ loc'[p].session = s /\ loc'[p].all = Mem!all_messages(s)
      BY <1>0, <3>1 DEF Mem!ReadMessages, Mem!Goto, Mem!rows, Local
    <3>3. Mem!all_messages(s) = Upto(s, Len(messages))
      BY <1>0 DEF Upto, Mem!all_messages
    <3>4. Upto(loc[p].session, Len(messages))' = Upto(s, Len(messages))
      BY <3>2 DEF Upto, Mem!all_messages
    <3>5. Len(messages') \in 0..Len(messages')
      BY <1>1
    <3>6. loc'[p].all = Upto(loc[p].session, Len(messages))'
      BY <3>2, <3>3, <3>4
    <3> QED
      BY <3>2, <3>5, <3>6
  <2>3. CASE Mem!ReadSummary(p) /\ pc'[p] = "completing"
    <3> DEFINE s == loc[p].session
    <3>1. PICK w \in 1..Len(messages) :
            /\ s \in Session
            /\ w > summaries[s].through
            /\ loc' = [loc EXCEPT ![p].watermark = w, ![p].covers = Upto(s, w),
                                  ![p].all = {}, ![p].overtaken = FALSE]
      BY <2>3, SummaryInTheMaking
    <3>2. /\ loc'[p].session = s /\ loc'[p].watermark = w /\ loc'[p].covers = Upto(s, w)
      BY <1>0, <3>1 DEF Local
    <3>3. messages' = messages /\ summaries' = summaries
      BY <2>3 DEF Mem!ReadSummary, Mem!rows
    <3>4. Upto(loc[p].session, loc[p].watermark)' = Upto(s, w)
      BY <3>2, <3>3 DEF Upto, Mem!all_messages
    <3> HIDE DEF s
    <3> QED
      BY <1>0, <2>3, <3>1, <3>2, <3>3, <3>4
  <2>4. CASE pc'[p] \notin {"streaming", "counted", "completing"}
    BY <2>4
  <2> QED
    BY <1>0, <2>1, <2>2, <2>3, <2>4
    DEF Mem!Step, Mem!Goto, Mem!ReadVersion, Mem!Migrate, Mem!StreamEnds,
        Mem!StreamDropped, Mem!ReadSummary, Mem!CompleteFails, Mem!SetSummary,
        Mem!FindNoSkill, Mem!CreateSkill, Mem!BeginUse, Mem!CommitUse, Mem!Kill
<1> QED
  BY <1>2, <1>3, <1>4 DEF SummaryInv

LEMMA SkillStep ==
  ASSUME MemoryInv, NEW p \in Proc, Mem!Step(p)
  PROVE  SkillInv'
<1>0. /\ pc \in [Proc -> Label] /\ loc \in [Proc -> Local]
      /\ skill \in [runs : Nat, versions : Seq(Nat)]
      /\ skill # Mem!Absent => skill.versions = [i \in 1..(skill.runs + 1) |-> i]
  BY DEF MemoryInv, MemoryTypes, SkillInv, LineageComplete, Mem!LineageComplete
<1>1. \A q \in Proc : pc[q] = "using" =>
        skill # Mem!Absent /\ (~loc[q].stale => loc[q].next = Len(skill.versions) + 1)
  BY DEF MemoryInv, SkillInv
<1>2. ASSUME NEW q \in Proc \ {p}, skill' # Mem!Absent \/ skill' = skill
      PROVE  pc'[q] = "using" =>
               /\ skill' # Mem!Absent
               /\ ~loc'[q].stale => loc'[q].next = Len(skill'.versions) + 1
  <2>1. Kept(q)
    BY OthersKept DEF MemoryInv
  <2> QED
    BY <1>1, <1>2, <2>1 DEF Kept
<1>3. CASE Mem!CreateSkill(p)
  <2>1. pc'[p] # "using"
    BY <1>0, <1>3 DEF Mem!CreateSkill, Mem!Goto
  <2>2. CASE skill' = skill
    BY <1>0, <1>2, <2>1, <2>2 DEF SkillInv, LineageComplete, Mem!LineageComplete
  <2>3. CASE skill' = [runs |-> 0, versions |-> <<1>>]
    <3>1. skill'.versions = <<1>> /\ skill'.runs = 0
      BY <2>3
    <3>2. <<1>> = [i \in 1..1 |-> i]
      OBVIOUS
    <3>3. skill' # Mem!Absent
      <4>1. Mem!Absent.versions = <<>>
        BY DEF Mem!Absent
      <4> QED
        BY <3>1, <4>1
    <3>4. skill'.versions = [i \in 1..(skill'.runs + 1) |-> i]
      BY <3>1, <3>2
    <3> QED
      BY <1>2, <2>1, <3>3, <3>4 DEF SkillInv, LineageComplete, Mem!LineageComplete
  <2> QED
    BY <1>3, <2>2, <2>3 DEF Mem!CreateSkill
<1>4. CASE Mem!CommitUse(p)
  <2>1. pc'[p] # "using" /\ pc[p] = "using"
    BY <1>0, <1>4 DEF Mem!CommitUse, Mem!Goto
  <2>2. CASE loc[p].stale
    <3>1. skill' = skill
      BY <1>4, <2>2 DEF Mem!CommitUse
    <3> QED
      BY <1>0, <1>2, <2>1, <3>1 DEF SkillInv, LineageComplete, Mem!LineageComplete
  <2>3. CASE ~loc[p].stale
    <3> DEFINE n == skill.runs
               v == skill.versions
    <3>1. skill' = [runs |-> n + 1, versions |-> Append(v, loc[p].next)]
      BY <1>4, <2>3 DEF Mem!CommitUse
    <3>2. n \in Nat /\ v \in Seq(Nat) /\ v = [i \in 1..(n + 1) |-> i]
          /\ loc[p].next = Len(v) + 1
      BY <1>0, <1>1, <2>1, <2>3
    <3>3. skill'.runs = n + 1 /\ skill'.versions = Append(v, loc[p].next)
      BY <3>1
    <3> HIDE DEF n, v
    <3>4. Len(v) = n + 1
      BY <3>2
    <3>5. Append(v, loc[p].next) = [i \in 1..(n + 2) |-> i]
      BY <3>2, <3>4
    <3>6. skill' # Mem!Absent
      <4>1. Mem!Absent.runs = 0
        BY DEF Mem!Absent
      <4> QED
        BY <3>2, <3>3, <4>1
    <3>7. skill'.versions = [i \in 1..(skill'.runs + 1) |-> i]
      <4>1. skill'.runs + 1 = n + 2
        BY <3>2, <3>3
      <4> QED
        BY <3>3, <3>5, <4>1
    <3> QED
      BY <1>2, <2>1, <3>6, <3>7 DEF SkillInv, LineageComplete, Mem!LineageComplete
  <2> QED
    BY <2>2, <2>3
<1>5. CASE Mem!BeginUse(p)
  <2>1. skill' = skill /\ skill # Mem!Absent /\ loc'[p].next = Len(skill.versions) + 1
    BY <1>0, <1>5 DEF Mem!BeginUse, Mem!rows, Local
  <2> QED
    BY <1>0, <1>2, <2>1 DEF SkillInv, LineageComplete, Mem!LineageComplete
<1>6. CASE skill' = skill /\ pc'[p] # "using"
  BY <1>0, <1>2, <1>6 DEF SkillInv, LineageComplete, Mem!LineageComplete
<1>7. \/ Mem!CreateSkill(p) \/ Mem!CommitUse(p) \/ Mem!BeginUse(p)
      \/ skill' = skill /\ pc'[p] # "using"
  BY <1>0
  DEF Mem!Step, Mem!Goto, Mem!ReadVersion, Mem!Migrate, Mem!Turn, Mem!ReadMessages,
      Mem!StreamEnds, Mem!StreamDropped, Mem!ReadSummary, Mem!CompleteFails, Mem!SetSummary,
      Mem!FindNoSkill, Mem!Kill, Mem!rows
<1> QED
  BY <1>3, <1>4, <1>5, <1>6, <1>7

LEMMA MemoryBegins == ASSUME Mem!Init PROVE MemoryInv
<1>1. loc \in [Proc -> Local] /\ \A p \in Proc : pc[p] = "off"
  BY NoLocalsIs DEF Mem!Init
<1>2. MemoryTypes
  <2>1. skill \in [runs : Nat, versions : Seq(Nat)]
    <3> DEFINE Lineage == Seq(Nat)
    <3>1. skill = [runs |-> 0, versions |-> <<>>] /\ <<>> \in Lineage
      BY DEF Mem!Init, Mem!Absent
    <3> HIDE DEF Lineage
    <3> QED
      BY <3>1
  <2>2. messages \in Seq(Row)
    BY DEF Mem!Init
  <2>3. summaries \in [Session -> [through : Nat, covers : SUBSET Nat]]
    BY DEF Mem!Init, Mem!NoSummary
  <2>4. pc \in [Proc -> Label]
    BY DEF Mem!Init, Label
  <2> QED
    BY <1>1, <2>1, <2>2, <2>3, <2>4 DEF MemoryTypes
<1>3. SchemaInv
  BY <1>1 DEF SchemaInv, SchemaWhole, Mem!SchemaWhole, Mem!Init
<1>4. SummaryInv
  <2>1. messages = <<>> /\ \A s \in Session : summaries[s] = [through |-> 0, covers |-> {}]
    BY DEF Mem!Init, Mem!NoSummary
  <2>2. \A s \in Session : summaries[s].through = 0 /\ summaries[s].covers = {}
    BY <2>1
  <2>3. Len(messages) = 0
    BY <2>1
  <2>4. ASSUME NEW s \in Session
        PROVE  /\ summaries[s].through <= Len(messages)
               /\ summaries[s].covers = Upto(s, summaries[s].through)
    <3>1. 0 <= Len(messages)
      BY <2>3
    <3>2. summaries[s].through = 0 /\ summaries[s].covers = {}
      BY <2>2
    <3>3. Mem!all_messages(s) = {}
      BY <2>1 DEF Mem!all_messages
    <3> QED
      BY <3>1, <3>2, <3>3 DEF Upto
  <2> QED
    BY <1>1, <2>4 DEF SummaryInv
<1>5. SkillInv
  BY <1>1 DEF SkillInv, LineageComplete, Mem!LineageComplete, Mem!Init
<1> QED
  BY <1>2, <1>3, <1>4, <1>5 DEF MemoryInv

\* The other parts leave the database alone.
LEMMA MemoryRests == ASSUME MemoryInv, UNCHANGED memoryVars PROVE MemoryInv'
<1>0. /\ version' = version /\ tables' = tables /\ messages' = messages
      /\ summaries' = summaries /\ skill' = skill /\ pc' = pc /\ loc' = loc
  BY DEF memoryVars
<1>1. MemoryTypes'
  BY <1>0 DEF MemoryInv, MemoryTypes
<1>2. SchemaInv'
  BY <1>0 DEF MemoryInv, SchemaInv, SchemaWhole, Mem!SchemaWhole
<1>3. SummaryInv'
  BY <1>0 DEF MemoryInv, SummaryInv, Upto, Mem!all_messages
<1>4. SkillInv'
  BY <1>0 DEF MemoryInv, SkillInv, LineageComplete, Mem!LineageComplete
<1> QED
  BY <1>1, <1>2, <1>3, <1>4 DEF MemoryInv

LEMMA MemoryInvariant == Spec => []MemoryInv
<1>1. Init => MemoryInv
  BY MemoryBegins DEF Init
<1>2. MemoryInv /\ [Next]_<<part, memoryVars, dataDirVars, updateVars>> => MemoryInv'
  <2> SUFFICES ASSUME MemoryInv, [Next]_<<part, memoryVars, dataDirVars, updateVars>>
               PROVE  MemoryInv'
    OBVIOUS
  <2>1. CASE MemoryNext
    <3>1. PICK p \in Proc : Mem!Step(p)
      BY <2>1 DEF MemoryNext, Mem!Next
    <3>2. MemoryTypes'
      BY <3>1, MemoryTypesStep
    <3>3. SchemaInv' /\ SummaryInv' /\ SkillInv'
      BY <3>1, <3>2, SchemaStep, SummaryStep, SkillStep
    <3> QED
      BY <3>2, <3>3 DEF MemoryInv
  <2>2. CASE UNCHANGED memoryVars
    BY <2>2, MemoryRests
  <2> QED
    BY <2>1, <2>2 DEF Next, DataDirNext, SelfUpdateNext
<1> QED
  BY <1>1, <1>2, PTL DEF Spec

\* For any number of processes and migrations: no race of opens, no refused
\* migration and no kill leaves the schema between two versions (migrate in
\* sa-memory).
THEOREM SchemaStaysWhole == Spec => []SchemaWhole
<1>1. MemoryInv => SchemaWhole
  BY DEF MemoryInv, SchemaInv
<1> QED
  BY <1>1, MemoryInvariant, PTL

\* For any number of processes and sessions and any number of messages kept
\* verbatim: a stored summary was made from exactly the messages up to its
\* watermark (summarize_session, whose reads and write are separate).
THEOREM SummariesCover == Spec => []SummaryCovers
<1>1. MemoryInv => SummaryCovers
  BY DEF MemoryInv, SummaryInv, SummaryCovers, Mem!SummaryCovers, Upto
<1> QED
  BY <1>1, MemoryInvariant, PTL

\* For any number of processes that use a skill at once: its lineage has every
\* version once (create_skill and record_skill_use).
THEOREM LineageIsComplete == Spec => []LineageComplete
<1>1. MemoryInv => LineageComplete
  BY DEF MemoryInv, SkillInv
<1> QED
  BY <1>1, MemoryInvariant, PTL

\* For any number of processes: a watermark goes back only when the summary that
\* moves it was overtaken while it was made (summarize_session).
THEOREM RegressionsExplained == Spec => RegressExplained
<1> DEFINE Explained ==
      \A s \in Session : summaries'[s].through < summaries[s].through =>
        \E p \in Proc : /\ pc[p] = "completing" /\ loc[p].session = s
                        /\ loc[p].overtaken
<1>1. MemoryInv /\ [Next]_<<part, memoryVars, dataDirVars, updateVars>>
        => [Explained]_memoryVars
  <2> SUFFICES ASSUME MemoryInv, Next, NEW s \in Session,
                      summaries'[s].through < summaries[s].through
               PROVE  \E p \in Proc : /\ pc[p] = "completing" /\ loc[p].session = s
                                      /\ loc[p].overtaken
    BY DEF memoryVars
  <2>0. /\ loc \in [Proc -> Local]
        /\ summaries \in [Session -> [through : Nat, covers : SUBSET Nat]]
    BY DEF MemoryInv, MemoryTypes
  <2>1. summaries' # summaries
    BY <2>0
  <2>2. PICK p \in Proc : Mem!Step(p)
    BY <2>1 DEF Next, MemoryNext, DataDirNext, SelfUpdateNext, memoryVars, Mem!Next
  <2>3. Mem!SetSummary(p)
    BY <2>1, <2>2
    DEF Mem!Step, Mem!ReadVersion, Mem!Migrate, Mem!Turn, Mem!ReadMessages, Mem!StreamEnds,
        Mem!StreamDropped, Mem!ReadSummary, Mem!CompleteFails, Mem!FindNoSkill,
        Mem!CreateSkill, Mem!BeginUse, Mem!CommitUse, Mem!Kill, Mem!rows
  <2>4. /\ pc[p] = "completing" /\ loc[p].session = s
        /\ summaries'[s].through = loc[p].watermark
    BY <2>0, <2>3 DEF Mem!SetSummary
  <2>5. ~loc[p].overtaken => loc[p].watermark > summaries[s].through
    BY <2>4 DEF MemoryInv, SummaryInv
  <2>6. loc[p].watermark \in Nat /\ summaries[s].through \in Nat
    BY <2>0 DEF Local
  <2> QED
    BY <2>4, <2>5, <2>6
<1>2. [Explained]_memoryVars => [Explained]_Mem!vars
  BY DEF memoryVars, Mem!vars
<1> QED
  BY <1>1, <1>2, MemoryInvariant, PTL DEF Spec, RegressExplained, Mem!RegressExplained
-----------------------------------------------------------------------------
(* SelfUpdate.                                                             *)

\* What a command has done once it is at a label.
Checked == {"compare", "binary", "locate", "create", "write", "record", "swap", "clear",
            "move", "place"}
Compared == Checked \ {"compare"}
Staged == {"record", "swap", "clear", "move", "place"}
Logged == Staged \ {"record"}
OnWindows == {"clear", "move", "place", "tidy"}

Binary == Release \cup {Upd!NoFile}

UpdateTypes ==
  /\ exe \in Binary /\ old \in Binary /\ stray \in Binary /\ last \in Int
  /\ recorded \subseteq Release
  /\ upc \in [Proc -> {"off", "manifest", "signature", "tidy"} \cup Checked]
  /\ running \in [Proc -> Int] /\ manifest \in [Proc -> Int] /\ temp \in [Proc -> Int]

\* What a command has in hand: a newer release than the one it runs, staged
\* whole and recorded before it touches the installed files.
CommandInv ==
  \A p \in Proc :
    /\ upc[p] # "off" => running[p] \in Release
    /\ upc[p] \in Checked => manifest[p] \in Release
    /\ upc[p] \in Compared => manifest[p] > running[p]
    /\ upc[p] \in Staged => temp[p] = manifest[p]
    /\ upc[p] \in Logged => manifest[p] \in recorded
    /\ upc[p] = "swap" => platform # "windows"
    /\ upc[p] \in OnWindows => platform = "windows"

\* On Windows the binary of a live command stays, under one of its two names.
FilesInv ==
  /\ BinarySurvives
  /\ InstalledRecorded
  /\ platform = "windows" =>
       \A p \in Proc : upc[p] # "off" => running[p] \in {exe, old}

UpdateInv == UpdateTypes /\ CommandInv /\ FilesInv

LEMMA ReleasesAre ==
  /\ Release \subseteq Int /\ Upd!NoFile \notin Release /\ Upd!NoFile \in Int
  /\ Upd!Partial \in Int /\ Upd!Forged \in Int
  /\ Upd!Oldest \in Release
<1>1. /\ Release \subseteq Nat \ {0} /\ Release # {}
  BY InstallationAssumption DEF InstallationAssumption, Upd!SelfUpdateAssumption
<1>2. PICK v \in Release : \A w \in Release : <<w, v>> \notin OpToRel(<, Nat)
  BY <1>1, NatLessThanWellFounded, WFMin
<1>3. ASSUME NEW w \in Release
      PROVE  v <= w
  <2>1. v \in Nat /\ w \in Nat /\ <<w, v>> \notin OpToRel(<, Nat)
    BY <1>1, <1>2
  <2>2. ~(w < v)
    BY <2>1 DEF OpToRel
  <2>3. v \in Nat /\ w \in Nat
    BY <2>1
  <2> QED
    BY <2>2, <2>3
<1>4. Upd!Oldest \in Release
  BY <1>3 DEF Upd!Oldest
<1> QED
  BY <1>1, <1>4 DEF Upd!NoFile, Upd!Partial, Upd!Forged

LEMMA EndsIs ==
  ASSUME UpdateTypes, NEW p \in Proc, Upd!Ends(p)
  PROVE  /\ upc' = [upc EXCEPT ![p] = "off"]
         /\ running' = [running EXCEPT ![p] = Upd!NoFile]
         /\ manifest' = [manifest EXCEPT ![p] = Upd!NoFile]
  BY DEF Upd!Ends, Upd!Goto

\* What a step of one command leaves to the others, and what it may do to the
\* installed files.
LEMMA CommandsApart ==
  ASSUME UpdateTypes, NEW p \in Proc, Upd!Step(p)
  PROVE  /\ platform' = platform /\ recorded \subseteq recorded'
         /\ \A q \in Proc \ {p} : /\ upc'[q] = upc[q] /\ running'[q] = running[q]
                                  /\ manifest'[q] = manifest[q] /\ temp'[q] = temp[q]
<1>1. /\ upc \in [Proc -> {"off", "manifest", "signature", "tidy"} \cup Checked]
      /\ running \in [Proc -> Int] /\ manifest \in [Proc -> Int] /\ temp \in [Proc -> Int]
  BY DEF UpdateTypes
<1>2. platform' = platform /\ recorded \subseteq recorded'
  BY DEF Upd!Step, Upd!Start, Upd!FetchManifest, Upd!FetchSignature, Upd!EnsureUpgrade,
         Upd!FetchBinary, Upd!FetchFails, Upd!Locate, Upd!CreateTemp, Upd!WriteTemp,
         Upd!StageFails, Upd!Record, Upd!RecordFails, Upd!Swap, Upd!SwapFails, Upd!ClearOld,
         Upd!MoveAside, Upd!MoveAsideFails, Upd!Place, Upd!PlaceFails, Upd!Tidy, Upd!Kill
<1>3. /\ \E l : upc' = [upc EXCEPT ![p] = l]
      /\ \E r : running' = [running EXCEPT ![p] = r]
      /\ \E m : manifest' = [manifest EXCEPT ![p] = m]
      /\ \E t : temp' = [temp EXCEPT ![p] = t]
  <2>1. running = [running EXCEPT ![p] = running[p]]
        /\ manifest = [manifest EXCEPT ![p] = manifest[p]] /\ temp = [temp EXCEPT ![p] = temp[p]]
    BY <1>1
  <2>2. (\E l : upc' = [upc EXCEPT ![p] = l])
    BY EndsIs
    DEF Upd!Step, Upd!Goto, Upd!Start, Upd!FetchManifest, Upd!FetchSignature,
        Upd!EnsureUpgrade, Upd!FetchBinary, Upd!FetchFails, Upd!Locate, Upd!CreateTemp,
        Upd!WriteTemp, Upd!StageFails, Upd!Record, Upd!RecordFails, Upd!Swap, Upd!SwapFails,
        Upd!ClearOld, Upd!MoveAside, Upd!MoveAsideFails, Upd!Place, Upd!PlaceFails, Upd!Tidy,
        Upd!Kill, Upd!Dropped
  <2>3. (\E r : running' = [running EXCEPT ![p] = r])
    BY <2>1, EndsIs
    DEF Upd!Step, Upd!Start, Upd!FetchManifest, Upd!FetchSignature,
        Upd!EnsureUpgrade, Upd!FetchBinary, Upd!FetchFails, Upd!Locate, Upd!CreateTemp,
        Upd!WriteTemp, Upd!StageFails, Upd!Record, Upd!RecordFails, Upd!Swap, Upd!SwapFails,
        Upd!ClearOld, Upd!MoveAside, Upd!MoveAsideFails, Upd!Place, Upd!PlaceFails, Upd!Tidy,
        Upd!Kill, Upd!Dropped, Upd!locals
  <2>4. (\E m : manifest' = [manifest EXCEPT ![p] = m])
    BY <2>1, EndsIs
    DEF Upd!Step, Upd!Start, Upd!FetchManifest, Upd!FetchSignature,
        Upd!EnsureUpgrade, Upd!FetchBinary, Upd!FetchFails, Upd!Locate, Upd!CreateTemp,
        Upd!WriteTemp, Upd!StageFails, Upd!Record, Upd!RecordFails, Upd!Swap, Upd!SwapFails,
        Upd!ClearOld, Upd!MoveAside, Upd!MoveAsideFails, Upd!Place, Upd!PlaceFails, Upd!Tidy,
        Upd!Kill, Upd!Dropped, Upd!locals
  <2>5. (\E t : temp' = [temp EXCEPT ![p] = t])
    BY <2>1
    DEF Upd!Step, Upd!Start, Upd!FetchManifest, Upd!FetchSignature,
        Upd!EnsureUpgrade, Upd!FetchBinary, Upd!FetchFails, Upd!Locate, Upd!CreateTemp,
        Upd!WriteTemp, Upd!StageFails, Upd!Record, Upd!RecordFails, Upd!Swap, Upd!SwapFails,
        Upd!ClearOld, Upd!MoveAside, Upd!MoveAsideFails, Upd!Place, Upd!PlaceFails, Upd!Tidy,
        Upd!Kill, Upd!Dropped, Upd!files
  <2> QED
    BY <2>2, <2>3, <2>4, <2>5
<1> QED
  BY <1>1, <1>2, <1>3

LEMMA UpdateTypesStep ==
  ASSUME UpdateInv, NEW p \in Proc, Upd!Step(p)
  PROVE  UpdateTypes'
<1>0. /\ upc \in [Proc -> {"off", "manifest", "signature", "tidy"} \cup Checked]
      /\ running \in [Proc -> Int] /\ manifest \in [Proc -> Int] /\ temp \in [Proc -> Int]
      /\ recorded \subseteq Release
      /\ exe \in Binary /\ old \in Binary /\ stray \in Binary
  BY DEF UpdateInv, UpdateTypes
<1> USE ReleasesAre
<1>1. upc' \in [Proc -> {"off", "manifest", "signature", "tidy"} \cup Checked]
  <2>1. \E l \in {"off", "manifest", "signature", "tidy"} \cup Checked :
          upc' = [upc EXCEPT ![p] = l]
    BY EndsIs
    DEF UpdateInv, Checked, Upd!Step, Upd!Goto, Upd!Start, Upd!FetchManifest,
        Upd!FetchSignature, Upd!EnsureUpgrade, Upd!FetchBinary, Upd!FetchFails, Upd!Locate,
        Upd!CreateTemp, Upd!WriteTemp, Upd!StageFails, Upd!Record, Upd!RecordFails, Upd!Swap,
        Upd!SwapFails, Upd!ClearOld, Upd!MoveAside, Upd!MoveAsideFails, Upd!Place,
        Upd!PlaceFails, Upd!Tidy, Upd!Kill, Upd!Dropped
  <2> QED
    BY <1>0, <2>1
<1>2. running' \in [Proc -> Int]
  <2>1. running' = running \/ \E r \in Int : running' = [running EXCEPT ![p] = r]
    BY EndsIs
    DEF UpdateInv, Upd!Step, Upd!Start, Upd!FetchManifest, Upd!FetchSignature,
        Upd!EnsureUpgrade, Upd!FetchBinary, Upd!FetchFails, Upd!Locate, Upd!CreateTemp,
        Upd!WriteTemp, Upd!StageFails, Upd!Record, Upd!RecordFails, Upd!Swap, Upd!SwapFails,
        Upd!ClearOld, Upd!MoveAside, Upd!MoveAsideFails, Upd!Place, Upd!PlaceFails, Upd!Tidy,
        Upd!Kill, Upd!Dropped, Upd!locals
  <2> QED
    BY <1>0, <2>1
<1>3. manifest' \in [Proc -> Int]
  <2>1. manifest' = manifest \/ \E m \in Int : manifest' = [manifest EXCEPT ![p] = m]
    BY EndsIs
    DEF UpdateInv, Upd!Step, Upd!Start, Upd!FetchManifest, Upd!FetchSignature,
        Upd!EnsureUpgrade, Upd!FetchBinary, Upd!FetchFails, Upd!Locate, Upd!CreateTemp,
        Upd!WriteTemp, Upd!StageFails, Upd!Record, Upd!RecordFails, Upd!Swap, Upd!SwapFails,
        Upd!ClearOld, Upd!MoveAside, Upd!MoveAsideFails, Upd!Place, Upd!PlaceFails, Upd!Tidy,
        Upd!Kill, Upd!Dropped, Upd!locals
  <2> QED
    BY <1>0, <2>1
<1>4. temp' \in [Proc -> Int]
  <2>1. manifest[p] \in Int
    BY <1>0
  <2>2. temp' = temp \/ \E t \in Int : temp' = [temp EXCEPT ![p] = t]
    BY <2>1
    DEF UpdateInv, Upd!Step, Upd!Start, Upd!FetchManifest, Upd!FetchSignature,
        Upd!EnsureUpgrade, Upd!FetchBinary, Upd!FetchFails, Upd!Locate, Upd!CreateTemp,
        Upd!WriteTemp, Upd!StageFails, Upd!Record, Upd!RecordFails, Upd!Swap, Upd!SwapFails,
        Upd!ClearOld, Upd!MoveAside, Upd!MoveAsideFails, Upd!Place, Upd!PlaceFails, Upd!Tidy,
        Upd!Kill, Upd!Dropped, Upd!files
  <2> QED
    BY <1>0, <2>2
<1>5. recorded' \subseteq Release
  <2>1. CASE Upd!Record(p)
    <3>1. manifest[p] \in Release
      BY <2>1 DEF UpdateInv, CommandInv, Checked, Upd!Record
    <3> QED
      BY <1>0, <2>1, <3>1 DEF Upd!Record
  <2> QED
    BY <1>0, <2>1
    DEF Upd!Step, Upd!Start, Upd!FetchManifest, Upd!FetchSignature,
        Upd!EnsureUpgrade, Upd!FetchBinary, Upd!FetchFails, Upd!Locate, Upd!CreateTemp,
        Upd!WriteTemp, Upd!StageFails, Upd!RecordFails, Upd!Swap, Upd!SwapFails,
        Upd!ClearOld, Upd!MoveAside, Upd!MoveAsideFails, Upd!Place, Upd!PlaceFails, Upd!Tidy,
        Upd!Kill, Upd!Dropped
<1>6. exe' \in Binary /\ old' \in Binary /\ stray' \in Binary
  <2>1. upc[p] \in Logged => temp[p] \in Binary
    BY DEF UpdateInv, CommandInv, Checked, Logged, Staged, Binary
  <2>2. Upd!NoFile \in Binary
    BY DEF Binary
  <2> QED
    BY <1>0, <2>1, <2>2
    DEF Logged, Staged, Upd!Step, Upd!Start, Upd!FetchManifest, Upd!FetchSignature,
        Upd!EnsureUpgrade, Upd!FetchBinary, Upd!FetchFails, Upd!Locate, Upd!CreateTemp,
        Upd!WriteTemp, Upd!StageFails, Upd!Record, Upd!RecordFails, Upd!Swap, Upd!SwapFails,
        Upd!ClearOld, Upd!MoveAside, Upd!MoveAsideFails, Upd!Place, Upd!PlaceFails, Upd!Tidy,
        Upd!Kill, Upd!Dropped, Upd!files
<1>7. last' \in Int
  <2>1. \/ last' = last \/ last' = temp[p] \/ last' = old
    BY DEF Upd!Step, Upd!Start, Upd!FetchManifest, Upd!FetchSignature,
        Upd!EnsureUpgrade, Upd!FetchBinary, Upd!FetchFails, Upd!Locate, Upd!CreateTemp,
        Upd!WriteTemp, Upd!StageFails, Upd!Record, Upd!RecordFails, Upd!Swap, Upd!SwapFails,
        Upd!ClearOld, Upd!MoveAside, Upd!MoveAsideFails, Upd!Place, Upd!PlaceFails, Upd!Tidy,
        Upd!Kill
  <2>2. last \in Int /\ temp[p] \in Int /\ old \in Int
    BY <1>0 DEF UpdateInv, UpdateTypes, Binary
  <2> QED
    BY <2>1, <2>2
<1> QED
  BY <1>1, <1>2, <1>3, <1>4, <1>5, <1>6, <1>7 DEF UpdateTypes

LEMMA CommandStep ==
  ASSUME UpdateInv, NEW p \in Proc, Upd!Step(p)
  PROVE  CommandInv'
<1>0. /\ upc \in [Proc -> {"off", "manifest", "signature", "tidy"} \cup Checked]
      /\ running \in [Proc -> Int] /\ manifest \in [Proc -> Int] /\ temp \in [Proc -> Int]
  BY DEF UpdateInv, UpdateTypes
<1>1. /\ platform' = platform /\ recorded \subseteq recorded'
      /\ \A q \in Proc \ {p} : /\ upc'[q] = upc[q] /\ running'[q] = running[q]
                               /\ manifest'[q] = manifest[q] /\ temp'[q] = temp[q]
  BY CommandsApart DEF UpdateInv
<1> DEFINE Good(q) ==
      /\ upc[q] # "off" => running[q] \in Release
      /\ upc[q] \in Checked => manifest[q] \in Release
      /\ upc[q] \in Compared => manifest[q] > running[q]
      /\ upc[q] \in Staged => temp[q] = manifest[q]
      /\ upc[q] \in Logged => manifest[q] \in recorded
      /\ upc[q] = "swap" => platform # "windows"
      /\ upc[q] \in OnWindows => platform = "windows"
<1>2. \A q \in Proc : Good(q)
  BY DEF UpdateInv, CommandInv
<1>3. ASSUME NEW q \in Proc \ {p}
      PROVE  Good(q)'
  BY <1>1, <1>2
<1>4. Good(p)'
  <2>0. Good(p)
    BY <1>2
  <2>1. CASE upc'[p] = "off"
    BY <2>1 DEF Checked, Compared, Staged, Logged, OnWindows
  <2>2. CASE Upd!Start(p)
    BY <1>0, <2>2 DEF Upd!Start, Upd!Goto, Checked, Compared, Staged, Logged, OnWindows
  <2>3. CASE Upd!FetchManifest(p)
    BY <1>0, <2>0, <2>3
    DEF Upd!FetchManifest, Upd!Goto, Checked, Compared, Staged, Logged, OnWindows
  <2>4. CASE Upd!FetchSignature(p) /\ upc'[p] # "off"
    <3>1. /\ upc' = [upc EXCEPT ![p] = "compare"] /\ upc[p] = "signature"
          /\ manifest[p] \in Release /\ manifest' = manifest /\ running' = running
      BY <1>0, <2>4, EndsIs DEF UpdateInv, Upd!FetchSignature, Upd!Goto, Upd!locals
    <3> QED
      BY <1>0, <2>0, <3>1 DEF Checked, Compared, Staged, Logged, OnWindows
  <2>5. CASE Upd!EnsureUpgrade(p) /\ upc'[p] # "off"
    <3>1. /\ upc' = [upc EXCEPT ![p] = "binary"] /\ upc[p] = "compare"
          /\ manifest[p] > running[p] /\ manifest' = manifest /\ running' = running
      BY <1>0, <2>5, EndsIs DEF UpdateInv, Upd!EnsureUpgrade, Upd!Goto, Upd!locals
    <3> QED
      BY <1>0, <2>0, <3>1 DEF Checked, Compared, Staged, Logged, OnWindows
  <2>6. CASE Upd!FetchBinary(p) /\ upc'[p] # "off"
    <3>1. /\ upc' = [upc EXCEPT ![p] = "locate"] /\ upc[p] = "binary"
          /\ manifest' = manifest /\ running' = running
      BY <1>0, <2>6, EndsIs DEF UpdateInv, Upd!FetchBinary, Upd!Goto, Upd!locals
    <3> QED
      BY <1>0, <2>0, <3>1 DEF Checked, Compared, Staged, Logged, OnWindows
  <2>7. CASE Upd!Locate(p) \/ Upd!CreateTemp(p)
    <3>1. /\ \/ upc' = [upc EXCEPT ![p] = "create"] /\ upc[p] = "locate"
             \/ upc' = [upc EXCEPT ![p] = "write"] /\ upc[p] = "create"
          /\ manifest' = manifest /\ running' = running
      BY <1>0, <2>7 DEF Upd!Locate, Upd!CreateTemp, Upd!Goto, Upd!locals
    <3> QED
      BY <1>0, <2>0, <3>1 DEF Checked, Compared, Staged, Logged, OnWindows
  <2>8. CASE Upd!WriteTemp(p)
    <3>1. /\ upc' = [upc EXCEPT ![p] = "record"] /\ upc[p] = "write"
          /\ manifest' = manifest /\ running' = running
          /\ temp' = [temp EXCEPT ![p] = manifest[p]]
      BY <1>0, <2>8 DEF Upd!WriteTemp, Upd!Goto, Upd!locals
    <3> QED
      BY <1>0, <2>0, <3>1 DEF Checked, Compared, Staged, Logged, OnWindows
  <2>9. CASE Upd!Record(p)
    <3>1. /\ upc[p] = "record" /\ manifest' = manifest /\ running' = running /\ temp' = temp
          /\ manifest[p] \in recorded' /\ platform' = platform
          /\ upc' = [upc EXCEPT ![p] = IF platform = "windows" THEN "clear" ELSE "swap"]
      BY <1>0, <2>9 DEF Upd!Record, Upd!Goto, Upd!locals, Upd!files
    <3>2. \/ upc'[p] = "clear" /\ platform = "windows"
          \/ upc'[p] = "swap" /\ platform # "windows"
      BY <1>0, <3>1
    <3> QED
      BY <1>0, <2>0, <3>1, <3>2 DEF Checked, Compared, Staged, Logged, OnWindows
  <2>10. CASE Upd!ClearOld(p) \/ Upd!MoveAside(p)
    <3>1. /\ \/ upc' = [upc EXCEPT ![p] = "move"] /\ upc[p] = "clear"
             \/ upc' = [upc EXCEPT ![p] = "place"] /\ upc[p] = "move"
          /\ manifest' = manifest /\ running' = running /\ temp' = temp
          /\ recorded' = recorded /\ platform' = platform
      BY <1>0, <2>10 DEF Upd!ClearOld, Upd!MoveAside, Upd!Goto, Upd!locals
    <3> QED
      BY <1>0, <2>0, <3>1 DEF Checked, Compared, Staged, Logged, OnWindows
  <2>11. CASE Upd!Place(p)
    <3>1. /\ upc' = [upc EXCEPT ![p] = "tidy"] /\ upc[p] = "place" /\ running' = running
          /\ platform' = platform
      BY <1>0, <2>11 DEF Upd!Place, Upd!Goto, Upd!locals
    <3> QED
      BY <1>0, <2>0, <3>1 DEF Checked, Compared, Staged, Logged, OnWindows
  <2>12. CASE \/ Upd!FetchFails(p) \/ Upd!StageFails(p) \/ Upd!RecordFails(p) \/ Upd!Swap(p)
              \/ Upd!SwapFails(p) \/ Upd!MoveAsideFails(p) \/ Upd!PlaceFails(p)
              \/ Upd!Tidy(p) \/ Upd!Kill(p)
    <3>1. Upd!Ends(p)
      BY <2>12
      DEF Upd!FetchFails, Upd!StageFails, Upd!RecordFails, Upd!Swap, Upd!SwapFails,
          Upd!MoveAsideFails, Upd!PlaceFails, Upd!Tidy, Upd!Kill, Upd!Dropped
    <3> QED
      BY <1>0, <2>1, <3>1, EndsIs DEF UpdateInv
  <2> HIDE DEF Good
  <2> QED
    BY <2>1, <2>2, <2>3, <2>4, <2>5, <2>6, <2>7, <2>8, <2>9, <2>10, <2>11, <2>12 DEF Upd!Step
<1> QED
  BY <1>3, <1>4 DEF CommandInv

LEMMA FilesStep ==
  ASSUME UpdateInv, NEW p \in Proc, Upd!Step(p)
  PROVE  FilesInv'
<1>0. /\ upc \in [Proc -> {"off", "manifest", "signature", "tidy"} \cup Checked]
      /\ running \in [Proc -> Int]
      /\ exe \in Binary /\ old \in Binary /\ stray \in Binary
      /\ \/ exe \in Release
         \/ platform = "windows" /\ exe = Upd!NoFile /\ old \in Release
  BY DEF UpdateInv, UpdateTypes, FilesInv, BinarySurvives, Upd!BinarySurvives
<1>1. {exe, old, stray} \subseteq recorded \cup {Upd!Oldest, Upd!NoFile}
  BY DEF UpdateInv, FilesInv, InstalledRecorded, Upd!InstalledRecorded
<1>2. /\ platform' = platform /\ recorded \subseteq recorded'
      /\ \A q \in Proc \ {p} : upc'[q] = upc[q] /\ running'[q] = running[q]
  BY CommandsApart DEF UpdateInv
<1>3. \A q \in Proc : upc[q] # "off" =>
        /\ running[q] \in Release
        /\ platform = "windows" => running[q] \in {exe, old}
  BY DEF UpdateInv, CommandInv, FilesInv
<1>4. upc[p] \in Logged => temp[p] \in Release /\ temp[p] \in recorded
  BY DEF UpdateInv, CommandInv, Logged, Staged, Checked
<1>5. upc'[p] # "off" /\ ~Upd!Start(p) => upc[p] # "off" /\ running'[p] = running[p]
  BY <1>0, EndsIs
  DEF UpdateInv, Upd!Step, Upd!FetchManifest, Upd!FetchSignature,
      Upd!EnsureUpgrade, Upd!FetchBinary, Upd!FetchFails, Upd!Locate, Upd!CreateTemp,
      Upd!WriteTemp, Upd!StageFails, Upd!Record, Upd!RecordFails, Upd!Swap, Upd!SwapFails,
      Upd!ClearOld, Upd!MoveAside, Upd!MoveAsideFails, Upd!Place, Upd!PlaceFails, Upd!Tidy,
      Upd!Kill, Upd!Dropped, Upd!locals
\* A binary that runs keeps a name.
<1> DEFINE StillNamed == \A q \in Proc : upc[q] # "off" /\ platform = "windows" =>
                      running[q] \in {exe', old'}
           Sound == \/ exe' \in Release
                    \/ platform = "windows" /\ exe' = Upd!NoFile /\ old' \in Release
           Known == {exe', old', stray'} \subseteq recorded' \cup {Upd!Oldest, Upd!NoFile}
<1>6. ASSUME StillNamed, Sound, Known, ~Upd!Start(p)
      PROVE  FilesInv'
  <2>1. \A q \in Proc : upc'[q] # "off" => upc[q] # "off" /\ running'[q] = running[q]
    BY <1>2, <1>5, <1>6
  <2> QED
    BY <1>2, <1>6, <2>1
    DEF FilesInv, BinarySurvives, Upd!BinarySurvives, InstalledRecorded,
        Upd!InstalledRecorded
<1>7. CASE Upd!Start(p)
  <2>1. /\ exe' = exe /\ old' = old /\ stray' = stray /\ running'[p] = exe
        /\ recorded' = recorded /\ platform' = platform
    BY <1>0, <1>7 DEF Upd!Start, Upd!files
  <2>2. \A q \in Proc : upc'[q] # "off" /\ platform = "windows" => running'[q] \in {exe, old}
    BY <1>2, <1>3, <2>1
  <2> QED
    BY <1>0, <1>1, <2>1, <2>2
    DEF FilesInv, BinarySurvives, Upd!BinarySurvives, InstalledRecorded,
        Upd!InstalledRecorded
<1>8. CASE /\ exe' = exe /\ old' = old /\ stray' = stray
           /\ ~Upd!Start(p)
  BY <1>0, <1>1, <1>2, <1>3, <1>6, <1>8
<1>9. CASE Upd!Swap(p)
  <2>1. /\ upc[p] = "swap" /\ platform # "windows" /\ old' = old
        /\ \/ exe' = temp[p] /\ stray' = stray
           \/ stray' = temp[p] /\ exe' = exe
    BY <1>9 DEF UpdateInv, CommandInv, Upd!Swap
  <2>2. temp[p] \in Release /\ temp[p] \in recorded /\ ~Upd!Start(p)
    BY <1>4, <2>1 DEF Logged, Staged, Upd!Start
  <2> QED
    BY <1>0, <1>1, <1>2, <1>6, <2>1, <2>2
<1>10. CASE Upd!ClearOld(p) \/ Upd!Tidy(p)
  <2>1. /\ exe' = exe /\ stray' = stray /\ upc[p] # "off" /\ platform = "windows"
        /\ old' = IF Upd!InUse(old) THEN old ELSE Upd!NoFile
        /\ ~Upd!Start(p)
    BY <1>10 DEF UpdateInv, CommandInv, OnWindows, Upd!ClearOld, Upd!Tidy, Upd!Start
  <2>2. CASE Upd!InUse(old)
    BY <1>0, <1>1, <1>2, <1>3, <1>6, <2>1, <2>2
  <2>3. CASE ~Upd!InUse(old)
    <3>1. \A q \in Proc : upc[q] # "off" => running[q] = exe
      BY <1>3, <2>1, <2>3 DEF Upd!InUse
    <3>2. exe \in Release
      BY <1>3, <2>1, <3>1
    <3> QED
      BY <1>1, <1>2, <1>6, <2>1, <2>3, <3>1, <3>2
  <2> QED
    BY <2>2, <2>3
<1>11. CASE Upd!MoveAside(p)
  <2>1. /\ upc[p] # "off" /\ platform = "windows" /\ stray' = stray
        /\ exe # Upd!NoFile => ~Upd!InUse(old)
        /\ exe' = Upd!NoFile /\ old' = IF exe = Upd!NoFile THEN old ELSE exe
        /\ ~Upd!Start(p)
    BY <1>11 DEF UpdateInv, CommandInv, OnWindows, Upd!MoveAside, Upd!Start
  <2>2. CASE exe = Upd!NoFile
    BY <1>0, <1>1, <1>2, <1>3, <1>6, <2>1, <2>2, ReleasesAre
  <2>3. CASE exe # Upd!NoFile
    <3>1. \A q \in Proc : upc[q] # "off" => running[q] = exe
      BY <1>3, <2>1, <2>3 DEF Upd!InUse
    <3> QED
      BY <1>0, <1>1, <1>2, <1>6, <2>1, <2>3, <3>1
  <2> QED
    BY <2>2, <2>3
<1>12. CASE Upd!Place(p)
  <2>1. /\ upc[p] = "place" /\ platform = "windows" /\ stray' = stray /\ old' = old
        /\ ~Upd!InUse(exe) /\ exe' = temp[p] /\ ~Upd!Start(p)
    BY <1>12 DEF UpdateInv, CommandInv, OnWindows, Upd!Place, Upd!Start
  <2>2. temp[p] \in Release /\ temp[p] \in recorded
    BY <1>4, <2>1 DEF Logged, Staged
  <2>3. \A q \in Proc : upc[q] # "off" => running[q] = old
    BY <1>3, <2>1 DEF Upd!InUse
  <2> QED
    BY <1>1, <1>2, <1>6, <2>1, <2>2, <2>3
<1>13. CASE Upd!PlaceFails(p) /\ ~UNCHANGED <<exe, old>>
  <2>1. /\ upc[p] = "place" /\ platform = "windows" /\ stray' = stray /\ old' = Upd!NoFile
        /\ ~Upd!InUse(exe) /\ exe' = old /\ old # Upd!NoFile /\ ~Upd!Start(p)
    BY <1>13 DEF UpdateInv, CommandInv, OnWindows, Upd!PlaceFails, Upd!Start
  <2>2. \A q \in Proc : upc[q] # "off" => running[q] = old
    BY <1>3, <2>1 DEF Upd!InUse
  <2>3. old \in Release
    BY <1>0, <2>1 DEF Binary
  <2> QED
    BY <1>1, <1>2, <1>6, <2>1, <2>2, <2>3
<1>14. \/ Upd!Start(p) \/ Upd!Swap(p) \/ Upd!ClearOld(p) \/ Upd!Tidy(p) \/ Upd!MoveAside(p)
       \/ Upd!Place(p) \/ Upd!PlaceFails(p)
       \/ exe' = exe /\ old' = old /\ stray' = stray
  BY DEF Upd!Step, Upd!FetchManifest, Upd!FetchSignature,
         Upd!EnsureUpgrade, Upd!FetchBinary, Upd!FetchFails, Upd!Locate, Upd!CreateTemp,
         Upd!WriteTemp, Upd!StageFails, Upd!Record, Upd!RecordFails, Upd!SwapFails,
         Upd!MoveAsideFails, Upd!Kill, Upd!Dropped, Upd!files
<1>15. Upd!PlaceFails(p) => stray' = stray
  BY DEF Upd!PlaceFails
<1> QED
  BY <1>7, <1>8, <1>9, <1>10, <1>11, <1>12, <1>13, <1>14, <1>15

LEMMA UpdateBegins == ASSUME Upd!Init PROVE UpdateInv
<1>1. UpdateTypes
  BY ReleasesAre DEF Upd!Init, UpdateTypes, Binary, Checked
<1>2. CommandInv
  BY DEF Upd!Init, CommandInv, Checked, Compared, Staged, Logged, OnWindows
<1>3. FilesInv
  BY ReleasesAre
  DEF Upd!Init, FilesInv, BinarySurvives, Upd!BinarySurvives, InstalledRecorded,
      Upd!InstalledRecorded
<1> QED
  BY <1>1, <1>2, <1>3 DEF UpdateInv

\* The other parts leave the binaries alone.
LEMMA UpdateRests == ASSUME UpdateInv, UNCHANGED updateVars PROVE UpdateInv'
<1>1. /\ platform' = platform /\ exe' = exe /\ old' = old /\ stray' = stray /\ temp' = temp
      /\ last' = last
      /\ recorded' = recorded /\ upc' = upc /\ running' = running /\ manifest' = manifest
  BY DEF updateVars
<1>2. UpdateTypes' /\ CommandInv'
  BY <1>1 DEF UpdateInv, UpdateTypes, CommandInv
<1>3. FilesInv'
  BY <1>1 DEF UpdateInv, FilesInv, BinarySurvives, Upd!BinarySurvives, InstalledRecorded,
      Upd!InstalledRecorded
<1> QED
  BY <1>2, <1>3 DEF UpdateInv

LEMMA UpdateInvariant == Spec => []UpdateInv
<1>1. Init => UpdateInv
  BY UpdateBegins DEF Init
<1>2. UpdateInv /\ [Next]_<<part, memoryVars, dataDirVars, updateVars>> => UpdateInv'
  <2> SUFFICES ASSUME UpdateInv, [Next]_<<part, memoryVars, dataDirVars, updateVars>>
               PROVE  UpdateInv'
    OBVIOUS
  <2>1. CASE SelfUpdateNext
    <3>1. PICK p \in Proc : Upd!Step(p)
      BY <2>1 DEF SelfUpdateNext, Upd!Next
    <3> QED
      BY <3>1, UpdateTypesStep, CommandStep, FilesStep DEF UpdateInv
  <2>2. CASE UNCHANGED updateVars
    BY <2>2, UpdateRests
  <2> QED
    BY <2>1, <2>2 DEF Next, DataDirNext, MemoryNext
<1> QED
  BY <1>1, <1>2, PTL DEF Spec

\* For any number of commands and releases: whatever fails, dies or overlaps, a
\* complete binary is installed or moved aside (atomic_replace).
THEOREM BinariesSurvive == Spec => []BinarySurvives
<1>1. UpdateInv => BinarySurvives
  BY DEF UpdateInv, FilesInv
<1> QED
  BY <1>1, UpdateInvariant, PTL

\* For any number of commands and releases: a binary in place is the first one or
\* has been signed, hashed and recorded (self_update::run, in that order).
THEOREM InstallationsRecorded == Spec => []InstalledRecorded
<1>1. UpdateInv => InstalledRecorded
  BY DEF UpdateInv, FilesInv
<1> QED
  BY <1>1, UpdateInvariant, PTL

\* For any number of commands and releases: an older release replaces a newer one
\* only by a command that started before the newer one was there, or by an undone
\* swap (ensure_upgrade compares with the version that is compiled in).
THEOREM DowngradesExplained == Spec => DowngradeExplained
<1> DEFINE Explained ==
      last' < last => \E p \in Proc : upc[p] \in {"swap", "place"} /\ running[p] # last
<1>1. UpdateInv /\ [Next]_<<part, memoryVars, dataDirVars, updateVars>>
        => [Explained]_updateVars
  <2> SUFFICES ASSUME UpdateInv, Next, ~UNCHANGED updateVars, last' < last
               PROVE  \E p \in Proc : upc[p] \in {"swap", "place"} /\ running[p] # last
    OBVIOUS
  <2>1. PICK p \in Proc : Upd!Step(p)
    BY DEF Next, MemoryNext, DataDirNext, SelfUpdateNext, Upd!Next
  <2>2. /\ running \in [Proc -> Int] /\ temp \in [Proc -> Int] /\ last \in Int
        /\ upc[p] \in Logged => temp[p] > running[p]
        /\ upc[p] \in OnWindows => running[p] \in {exe, old}
    BY ReleasesAre
    DEF UpdateInv, UpdateTypes, CommandInv, FilesInv, OnWindows, Logged, Staged, Compared,
        Checked
  <2>3. CASE last' = temp[p] /\ upc[p] \in {"swap", "place"}
    BY <2>2, <2>3 DEF Logged, Staged
  <2>4. CASE Upd!PlaceFails(p) /\ last' = old /\ ~Upd!InUse(exe)
    <3>1. upc[p] = "place" /\ running[p] # exe
      BY <2>4 DEF Upd!PlaceFails, Upd!InUse
    <3>2. running[p] = old /\ running[p] \in Int
      BY <2>2, <3>1 DEF OnWindows
    <3> QED
      BY <2>4, <3>1, <3>2
  <2>5. last' # last
    <3>1. ~(last < last)
      BY <2>2
    <3> QED
      BY <3>1
  <2>6. Upd!Swap(p) \/ Upd!Place(p) \/ Upd!PlaceFails(p)
    BY <2>1, <2>5
    DEF Upd!Step, Upd!Start, Upd!FetchManifest, Upd!FetchSignature,
        Upd!EnsureUpgrade, Upd!FetchBinary, Upd!FetchFails, Upd!Locate, Upd!CreateTemp,
        Upd!WriteTemp, Upd!StageFails, Upd!Record, Upd!RecordFails, Upd!SwapFails,
        Upd!ClearOld, Upd!MoveAside, Upd!MoveAsideFails, Upd!Tidy, Upd!Kill
  <2> QED
    BY <2>3, <2>4, <2>5, <2>6 DEF Upd!Swap, Upd!Place, Upd!PlaceFails
<1>2. [Explained]_updateVars => [Explained]_Upd!vars
  BY DEF updateVars, Upd!vars, Upd!files, Upd!locals
<1> QED
  BY <1>1, <1>2, UpdateInvariant, PTL DEF Spec, DowngradeExplained, Upd!DowngradeExplained
=============================================================================
