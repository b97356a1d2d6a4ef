--------------------------- MODULE AuditLogProofs ---------------------------
(***************************************************************************)
(* Proofs about AuditLog for every set of processes, events and bounds.    *)
(*                                                                         *)
(* TypeOK holds under all faults.  The chain, the readability of what was  *)
(* acknowledged and the implementation of AuditTrail hold under the two    *)
(* conditions that the runs with a counterexample show to be needed: one   *)
(* writer, and crashes that leave whole lines.                             *)
(***************************************************************************)
EXTENDS AuditLog, SequenceTheorems, WellFoundedInduction, TLAPS

\* An append in progress has an event.
PendingOK == \A p \in Proc : pc[p] = "json" => pending[p] \in Event

TypeInv == TypeOK /\ PendingOK

LEMMA ReadableRange ==
  ASSUME TypeOK
  PROVE  /\ Content \in Seq(Line)
         /\ ReadableCount \in Nat
         /\ ReadableCount <= Len(Content)
         /\ Len(Content) <= ReadableCount + 1
<1>1. Content \in Seq(Line)
  BY DEF TypeOK, Content
<1> HIDE DEF Content
<1>2. Len(Content) \in Nat
  BY <1>1
<1> QED
  BY <1>1, <1>2 DEF ReadableCount

LEMMA WholeFragment ==
  ASSUME NEW f \in Fragment, f # Torn
  PROVE  f \in Seq(Entry) /\ Len(f) = 1 /\ f[1] \in Entry
<1>1. f \in Seq(Entry) /\ Len(f) \in Nat /\ Len(f) <= 1
  BY DEF Fragment
<1>2. Len(f) # 0
  <2>1. f # <<>>
    BY DEF Torn
  <2> QED
    BY <1>1, <2>1
<1>3. Len(f) = 1
  <2>1. \A n \in Nat : n <= 1 /\ n # 0 => n = 1
    OBVIOUS
  <2> QED
    BY <1>1, <1>2, <2>1
<1> QED
  BY <1>1, <1>3

LEMMA ParsedEntry ==
  ASSUME TypeOK, NEW i \in 1..Len(Content), Parses(Content[i])
  PROVE  EntryAt(i) \in Entry
<1>1. Content[i] \in Line
  BY ReadableRange
<1>2. Content[i][1] \in Fragment
  BY <1>1 DEF Parses, Line
<1> QED
  BY <1>2 DEF Parses, Torn, Fragment, EntryAt

LEMMA RecoveredType ==
  ASSUME TypeOK, open_ok
  PROVE  Recovered \in [seq : Nat, last_hash : Hash]
<1>1. CASE ReadableCount = 0
  <2>1. <<>> \in Hash
    BY DEF Hash
  <2> QED
    BY <1>1, <2>1 DEF Recovered
<1>2. CASE ReadableCount # 0
  <2>1. ReadableCount \in 1..Len(Content) /\ ReadableCount \in 1..ReadableCount
    BY <1>2, ReadableRange
  <2>2. EntryAt(ReadableCount) \in Entry
    BY <2>1, ParsedEntry DEF open_ok
  <2> QED
    BY <1>2, <2>2 DEF Recovered, Entry
<1> QED
  BY <1>1, <1>2

LEMMA NextEntryType ==
  ASSUME TypeOK, NEW p \in Proc, NEW ev \in Event
  PROVE  NextEntry(p, ev) \in Entry
<1>1. /\ audit[p].seq \in Nat
      /\ audit[p].last_hash \in Seq(Nat \X Event)
  BY DEF TypeOK, Hash
<1>2. <<audit[p].seq, ev>> \in Nat \X Event
  BY <1>1
<1>3. entry_hash(audit[p].seq, audit[p].last_hash, ev) \in Hash
  BY <1>1, <1>2 DEF entry_hash, Hash
<1> QED
  BY <1>1, <1>3 DEF NextEntry, Entry, Hash
-----------------------------------------------------------------------------
LEMMA TypeStep == TypeInv /\ [Next]_vars => TypeInv'
<1> SUFFICES ASSUME TypeInv, [Next]_vars PROVE TypeInv'
  OBVIOUS
<1> USE DEF Line, PC
<1> USE DEF TypeInv
<1>1. ASSUME NEW p \in Proc, Open(p) PROVE TypeInv'
  <2>1. Recovered \in [seq : Nat, last_hash : Hash]
    BY <1>1, RecoveredType DEF Open
  <2> QED
    BY <1>1, <2>1 DEF Open, TypeOK, PendingOK
<1>2. ASSUME NEW p \in Proc, Close(p) PROVE TypeInv'
  <2>1. NoAudit \in [seq : Nat, last_hash : Hash]
    BY DEF NoAudit, Hash
  <2> QED
    BY <1>2, <2>1 DEF Close, TypeOK, PendingOK
<1>3. ASSUME NEW p \in Proc, NEW ev \in Event, WriteEntry(p, ev)
      PROVE  TypeInv'
  <2>1. NextEntry(p, ev) \in Entry
    BY NextEntryType
  <2>2. <<NextEntry(p, ev)>> \in Fragment /\ NextEntry(p, ev).hash \in Hash
    BY <2>1 DEF Fragment, Entry
  <2> QED
    BY <1>3, <2>2 DEF WriteEntry, TypeOK, PendingOK
<1>4. ASSUME NEW p \in Proc, WriteEntryFails(p) PROVE TypeInv'
  <2>1. Torn \in Fragment
    BY DEF Torn, Fragment
  <2> QED
    BY <1>4, <2>1 DEF WriteEntryFails, TypeOK, PendingOK
<1>5. ASSUME NEW p \in Proc, WriteNewline(p) PROVE TypeInv'
  <2>1. pending[p] \in Event
    BY <1>5 DEF WriteNewline, PendingOK
  <2>2. NextEntry(p, pending[p]).hash \in Hash
    BY <2>1, NextEntryType DEF Entry
  <2>3. audit' \in [Proc -> [seq : Nat, last_hash : Hash]]
    BY <1>5, <2>2 DEF WriteNewline, TypeOK
  <2>4. lines' \in Seq(Line) /\ Len(lines') = Len(lines) + 1
    BY <1>5 DEF WriteNewline, TypeOK
  <2> QED
    BY <1>5, <2>3, <2>4 DEF WriteNewline, TypeOK, PendingOK
<1>6. ASSUME NEW p \in Proc, WriteNewlineFails(p) PROVE TypeInv'
  BY <1>6 DEF WriteNewlineFails, TypeOK, PendingOK
<1>7. ASSUME NEW p \in Proc, Sync(p) PROVE TypeInv'
  BY <1>7 DEF Sync, TypeOK, PendingOK
<1>8. ASSUME NEW p \in Proc, SyncFails(p) PROVE TypeInv'
  BY <1>8 DEF SyncFails, TypeOK, PendingOK
<1>9. ASSUME NEW p \in Proc, Kill(p) PROVE TypeInv'
  <2>1. NoAudit \in [seq : Nat, last_hash : Hash]
    BY DEF NoAudit, Hash
  <2> QED
    BY <1>9, <2>1 DEF Kill, TypeOK, PendingOK
<1>10. ASSUME NEW k \in synced.n..Len(lines),
              NEW j \in 0..Len(LineAt(k + 1)), NEW torn \in BOOLEAN,
              PowerLoss(k, j, torn)
       PROVE  TypeInv'
  <2>1. NoAudit \in [seq : Nat, last_hash : Hash]
    BY DEF NoAudit, Hash
  <2>2. Torn \in Fragment
    BY DEF Torn, Fragment
  <2>3. k \in 0..Len(lines)
    BY DEF TypeOK
  <2>4. LineAt(k + 1) \in Line
    BY <2>3 DEF TypeOK, LineAt
  <2>5. SubSeq(LineAt(k + 1), 1, j) \in Line
    BY <2>4, SubSeqProperties
  <2>6. tail' \in Line
    BY <1>10, <2>2, <2>5 DEF PowerLoss
  <2>7. lines' \in Seq(Line) /\ Len(lines') = k
    BY <1>10, <2>3, SubSeqProperties DEF PowerLoss, TypeOK
  <2>8. synced' \in [n : Nat, t : Nat] /\ synced'.n = k
    BY <1>10, <2>3 DEF PowerLoss
  <2> QED
    BY <1>10, <2>1, <2>6, <2>7, <2>8 DEF PowerLoss, TypeOK, PendingOK
<1>11. ASSUME NEW new \in Seq(Line), Edited(new) PROVE TypeInv'
  BY <1>11 DEF Edited, TypeOK, PendingOK
<1>12. ASSUME NEW i \in 1..Len(lines), NEW ev \in Event, EditEvent(i, ev)
       PROVE  TypeInv'
  <2> DEFINE e == lines[i][1][1]
             new == [lines EXCEPT ![i] = <<<<[e EXCEPT !.event = ev]>>>>]
  <2>1. lines[i] \in Line /\ Len(lines[i]) = 1
    BY <1>12 DEF EditEvent, Parses, TypeOK
  <2>2. lines[i][1] \in Seq(Entry) /\ Len(lines[i][1]) = 1
    BY <1>12, <2>1 DEF EditEvent, Parses, Fragment, Torn
  <2>3. e \in Entry
    BY <2>2
  <2>4. [e EXCEPT !.event = ev] \in Entry
    BY <2>3 DEF Entry
  <2>5. <<[e EXCEPT !.event = ev]>> \in Fragment
    BY <2>4 DEF Fragment
  <2>6. <<<<[e EXCEPT !.event = ev]>>>> \in Line
    BY <2>5
  <2>7. new \in Seq(Line)
    BY <2>6 DEF TypeOK
  <2>8. Edited(new)
    BY <1>12 DEF EditEvent
  <2> QED
    BY <1>11, <2>7, <2>8
<1>13. ASSUME NEW i \in 1..Len(lines), NEW j \in 1..(i - 1), SwapLines(i, j)
       PROVE  TypeInv'
  <2>1. j \in 1..Len(lines)
    BY DEF TypeOK
  <2>2. [lines EXCEPT ![i] = lines[j], ![j] = lines[i]] \in Seq(Line)
    BY <2>1 DEF TypeOK
  <2> QED
    BY <1>11, <1>13, <2>2 DEF SwapLines
<1>14. ASSUME NEW i \in 1..Len(lines), RemoveLine(i) PROVE TypeInv'
  <2>1. SubSeq(lines, 1, i - 1) \in Seq(Line)
    BY SubSeqProperties DEF TypeOK
  <2>2. SubSeq(lines, i + 1, Len(lines)) \in Seq(Line)
    BY SubSeqProperties DEF TypeOK
  <2>3. SubSeq(lines, 1, i - 1) \o SubSeq(lines, i + 1, Len(lines))
          \in Seq(Line)
    BY <2>1, <2>2, ConcatProperties
  <2> QED
    BY <1>11, <1>14, <2>3 DEF RemoveLine
<1>15. CASE UNCHANGED vars
  BY <1>15 DEF vars, TypeOK, PendingOK
<1> QED
  BY <1>1, <1>2, <1>3, <1>4, <1>5, <1>6, <1>7, <1>8, <1>9, <1>10, <1>12,
     <1>13, <1>14, <1>15 DEF Next

\* Every variable keeps its type whatever the faults: the property TypeOK
\* that the runs check on small instances.
THEOREM TypeCorrect == Spec => []TypeOK
<1>1. Init => TypeInv
  BY DEF Init, TypeInv, TypeOK, PendingOK, NoAudit, Hash, Line, PC
<1> QED
  BY <1>1, TypeStep, PTL DEF Spec, TypeInv
-----------------------------------------------------------------------------
(* One writer, crashes between lines: the shape of the file.               *)

SoleWriter == \A p, q \in Proc : p = q

EntryOf(ls, i) == ls[i][1][1]

LastHash(ls) == IF ls = <<>> THEN <<>> ELSE EntryOf(ls, Len(ls)).hash

\* Line i of ls holds one entry that follows line i - 1 and commits to the
\* events of the first i lines.
ChainedAt(ls, i) ==
  /\ ls[i] = <<<<EntryOf(ls, i)>>>>
  /\ EntryOf(ls, i) \in Entry
  /\ EntryOf(ls, i).seq = i - 1
  /\ EntryOf(ls, i).prev = IF i = 1 THEN <<>> ELSE EntryOf(ls, i - 1).hash
  /\ EntryOf(ls, i).hash
       = Append(EntryOf(ls, i).prev, <<i - 1, EntryOf(ls, i).event>>)
  /\ Len(EntryOf(ls, i).hash) = i
  /\ \A j \in 1..i : EntryOf(ls, i).hash[j][2] = EntryOf(ls, j).event

Chained(ls) == \A i \in 1..Len(ls) : ChainedAt(ls, i)

\* e is the entry that append builds on a file of the lines ls.
Follows(ls, e) ==
  /\ e \in Entry
  /\ e.seq = Len(ls)
  /\ e.prev = LastHash(ls)
  /\ e.hash = Append(e.prev, <<e.seq, e.event>>)

LEMMA ChainedAppend ==
  ASSUME NEW ls \in Seq(Line), Chained(ls), NEW e, Follows(ls, e)
  PROVE  Chained(Append(ls, <<<<e>>>>))
<1> DEFINE new == Append(ls, <<<<e>>>>)
           n == Len(ls)
<1>1. n \in Nat /\ Len(new) = n + 1
  OBVIOUS
<1>2. \A i \in 1..n : new[i] = ls[i]
  OBVIOUS
<1>3. new[n + 1] = <<<<e>>>>
  OBVIOUS
<1>4. \A i \in 1..n : EntryOf(new, i) = EntryOf(ls, i)
  BY <1>2 DEF EntryOf
<1>5. EntryOf(new, n + 1) = e
  BY <1>3 DEF EntryOf
<1> HIDE DEF new
<1>6. ASSUME NEW i \in 1..n PROVE ChainedAt(new, i)
  <2>1. ChainedAt(ls, i)
    BY DEF Chained
  <2>2. i - 1 \in 1..n \/ i = 1
    BY <1>1
  <2>3. \A j \in 1..i : EntryOf(new, j) = EntryOf(ls, j)
    BY <1>1, <1>4
  <2> QED
    BY <1>2, <1>4, <2>1, <2>2, <2>3 DEF ChainedAt
<1>7. ChainedAt(new, n + 1)
  <2> DEFINE prev == IF n + 1 = 1 THEN <<>> ELSE EntryOf(new, n).hash
  <2>1. e.prev = prev
    <3>1. ls = <<>> <=> n = 0
      OBVIOUS
    <3>2. n # 0 => EntryOf(new, n) = EntryOf(ls, n)
      BY <1>1, <1>4
    <3> QED
      BY <1>1, <3>1, <3>2 DEF Follows, LastHash
  <2>2. /\ Len(e.prev) = n
        /\ \A j \in 1..n : e.prev[j][2] = EntryOf(ls, j).event
    <3>1. CASE n = 0
      BY <2>1, <3>1
    <3>2. CASE n # 0
      <4>1. ChainedAt(ls, n)
        BY <1>1, <3>2 DEF Chained
      <4>2. e.prev = EntryOf(ls, n).hash
        BY <1>1, <1>4, <2>1, <3>2
      <4> QED
        BY <4>1, <4>2 DEF ChainedAt
    <3> QED
      BY <3>1, <3>2
  <2>3. e.prev \in Seq(Nat \X Event) /\ <<e.seq, e.event>> \in Nat \X Event
    BY DEF Follows, Entry, Hash
  <2>4. /\ Len(e.hash) = n + 1
        /\ e.hash[n + 1] = <<e.seq, e.event>>
        /\ \A j \in 1..n : e.hash[j] = e.prev[j]
    BY <1>1, <2>2, <2>3, AppendProperties DEF Follows
  <2>5. \A j \in 1..(n + 1) : e.hash[j][2] = EntryOf(new, j).event
    <3> SUFFICES ASSUME NEW j \in 1..(n + 1)
                 PROVE  e.hash[j][2] = EntryOf(new, j).event
      OBVIOUS
    <3>1. CASE j = n + 1
      BY <1>5, <2>4, <3>1
    <3>2. CASE j # n + 1
      BY <1>1, <1>4, <2>2, <2>4, <3>2
    <3> QED
      BY <3>1, <3>2
  <2>6. n + 1 - 1 = n
    BY <1>1
  <2>7. e \in Entry /\ e.seq = n /\ e.hash = Append(e.prev, <<n, e.event>>)
    BY DEF Follows
  <2>8. EntryOf(new, n + 1 - 1) = EntryOf(new, n)
    BY <2>6
  <2>9. /\ EntryOf(new, n + 1) \in Entry
        /\ EntryOf(new, n + 1).seq = n + 1 - 1
    BY <1>5, <2>6, <2>7
  <2>10. EntryOf(new, n + 1).prev
           = IF n + 1 = 1 THEN <<>> ELSE EntryOf(new, n + 1 - 1).hash
    BY <1>5, <2>1, <2>8
  <2>11. EntryOf(new, n + 1).hash
           = Append(EntryOf(new, n + 1).prev,
                    <<n + 1 - 1, EntryOf(new, n + 1).event>>)
    BY <1>5, <2>6, <2>7
  <2>12. /\ Len(EntryOf(new, n + 1).hash) = n + 1
         /\ \A j \in 1..(n + 1) :
              EntryOf(new, n + 1).hash[j][2] = EntryOf(new, j).event
    BY <1>5, <2>4, <2>5
  <2>13. new[n + 1] = <<<<EntryOf(new, n + 1)>>>>
    BY <1>3, <1>5
  <2> DEFINE m == n + 1
  <2>14. /\ EntryOf(new, m) \in Entry
         /\ EntryOf(new, m).seq = m - 1
         /\ EntryOf(new, m).prev = IF m = 1 THEN <<>> ELSE EntryOf(new, m - 1).hash
         /\ EntryOf(new, m).hash
              = Append(EntryOf(new, m).prev, <<m - 1, EntryOf(new, m).event>>)
         /\ Len(EntryOf(new, m).hash) = m
         /\ \A j \in 1..m : EntryOf(new, m).hash[j][2] = EntryOf(new, j).event
         /\ new[m] = <<<<EntryOf(new, m)>>>>
    BY <2>9, <2>10, <2>11, <2>12, <2>13
  <2> HIDE DEF m
  <2>15. ChainedAt(new, m)
    BY <2>14 DEF ChainedAt
  <2> QED
    BY <2>15 DEF m
<1>8. \A i \in 1..(n + 1) : i \in 1..n \/ i = n + 1
  BY <1>1
<1> QED
  BY <1>1, <1>6, <1>7, <1>8 DEF Chained, new

LEMMA ChainedPrefix ==
  ASSUME NEW ls \in Seq(Line), Chained(ls), NEW k \in 0..Len(ls)
  PROVE  Chained(SubSeq(ls, 1, k))
<1> DEFINE new == SubSeq(ls, 1, k)
<1>1. Len(new) = k /\ \A i \in 1..k : new[i] = ls[i]
  BY SubSeqProperties
<1>2. \A i \in 1..k : EntryOf(new, i) = EntryOf(ls, i)
  BY <1>1 DEF EntryOf
<1> HIDE DEF new
<1>3. ASSUME NEW i \in 1..k PROVE ChainedAt(new, i)
  <2>1. ChainedAt(ls, i)
    BY DEF Chained
  <2>2. i - 1 \in 1..k \/ i = 1
    OBVIOUS
  <2>3. \A j \in 1..i : EntryOf(new, j) = EntryOf(ls, j)
    BY <1>2
  <2> QED
    BY <1>1, <1>2, <2>1, <2>2, <2>3 DEF ChainedAt
<1> QED
  BY <1>1, <1>3 DEF Chained, new
-----------------------------------------------------------------------------
(* The inductive invariant of one writer.                                  *)

\* Between appends nothing follows the last newline; in the middle of one,
\* exactly the entry that follows it.
TailOK ==
  /\ \A p \in Proc : pc[p] = "json" => tail = <<<<NextEntry(p, pending[p])>>>>
  /\ (\A p \in Proc : pc[p] # "json") => tail = <<>>

\* The Audit value is in step with the file.
HandleOK ==
  \A p \in Proc :
    /\ pc[p] # "closed" =>
         audit[p] = [seq |-> Len(lines), last_hash |-> LastHash(lines)]
    /\ pc[p] = "line" => lines # <<>>

\* What was acknowledged is on disk.
AckedOnDisk ==
  /\ synced.t = 0
  /\ \A h \in acked : \E i \in 1..synced.n : h = EntryOf(lines, i).hash

SoleInv ==
  /\ TypeInv
  /\ Chained(lines)
  /\ TailOK
  /\ HandleOK
  /\ AckedOnDisk

LEMMA NextEntryFollows ==
  ASSUME SoleInv, NEW p \in Proc, pc[p] # "closed", NEW ev \in Event
  PROVE  Follows(lines, NextEntry(p, ev))
<1>1. NextEntry(p, ev) \in Entry
  BY NextEntryType DEF SoleInv, TypeInv
<1>2. audit[p] = [seq |-> Len(lines), last_hash |-> LastHash(lines)]
  BY DEF SoleInv, HandleOK
<1> QED
  BY <1>1, <1>2 DEF NextEntry, Follows, entry_hash

\* The whole content, an unterminated last record included, is chained.
LEMMA ContentChained ==
  ASSUME SoleInv
  PROVE  /\ Content \in Seq(Line)
         /\ Chained(Content)
         /\ \A i \in 1..Len(lines) : i \in 1..Len(Content) /\ Content[i] = lines[i]
         /\ tail = <<>> => Content = lines
<1> USE DEF SoleInv, TypeInv
<1>0. lines \in Seq(Line) /\ tail \in Line
  BY DEF TypeOK
<1>1. CASE \A p \in Proc : pc[p] # "json"
  <2>1. Content = lines
    BY <1>1 DEF TailOK, Content
  <2> QED
    BY <1>0, <2>1
<1>2. CASE \E p \in Proc : pc[p] = "json"
  <2>1. PICK p \in Proc : pc[p] = "json"
    BY <1>2
  <2>2. tail = <<<<NextEntry(p, pending[p])>>>>
    BY <2>1 DEF TailOK
  <2>3. Content = Append(lines, <<<<NextEntry(p, pending[p])>>>>)
    BY <2>2 DEF Content
  <2>4. Follows(lines, NextEntry(p, pending[p]))
    BY <2>1, NextEntryFollows DEF PendingOK
  <2>5. Chained(Content)
    BY <1>0, <2>3, <2>4, ChainedAppend
  <2>6. tail # <<>>
    BY <2>2
  <2>7. Content = Append(lines, tail)
    BY <2>2, <2>3
  <2> QED
    BY <1>0, <2>5, <2>6, <2>7, AppendProperties
<1> QED
  BY <1>1, <1>2

LEMMA ContentReadable ==
  ASSUME SoleInv
  PROVE  /\ \A i \in 1..Len(Content) : Parses(Content[i])
         /\ ReadableCount = Len(Content)
         /\ open_ok
         /\ verify_chain
<1>1. Content \in Seq(Line) /\ Chained(Content)
  BY ContentChained
<1> HIDE DEF Content
<1>2. \A i \in 1..Len(Content) : EntryAt(i) = EntryOf(Content, i)
  BY DEF EntryAt, EntryOf
<1>3. \A i \in 1..Len(Content) : Parses(Content[i])
  <2> SUFFICES ASSUME NEW i \in 1..Len(Content) PROVE Parses(Content[i])
    OBVIOUS
  <2>1. Content[i] = <<<<EntryOf(Content, i)>>>>
    BY <1>1 DEF Chained, ChainedAt
  <2> QED
    BY <2>1 DEF Parses, Torn
<1>4. ReadableCount = Len(Content)
  BY <1>1, <1>3 DEF ReadableCount
<1>5. open_ok
  BY <1>3, <1>4 DEF open_ok
<1>6. verify_chain
  <2> SUFFICES ASSUME NEW i \in 1..Len(Content)
               PROVE  /\ EntryAt(i).seq = i - 1
                      /\ EntryAt(i).prev = PrevHash(i)
                      /\ EntryAt(i).hash = entry_hash(EntryAt(i).seq,
                                             EntryAt(i).prev, EntryAt(i).event)
    BY <1>3 DEF verify_chain
  <2>1. ChainedAt(Content, i)
    BY <1>1 DEF Chained
  <2>2. i = 1 \/ i - 1 \in 1..Len(Content)
    BY <1>1
  <2> QED
    BY <1>2, <2>1, <2>2 DEF ChainedAt, PrevHash, entry_hash
<1> QED
  BY <1>3, <1>4, <1>5, <1>6
-----------------------------------------------------------------------------
LEMMA SoleInit == Init => SoleInv
<1> SUFFICES ASSUME Init PROVE SoleInv
  OBVIOUS
<1>1. TypeInv
  BY DEF Init, TypeInv, TypeOK, PendingOK, NoAudit, Hash, Line, PC
<1>2. Chained(lines)
  BY DEF Init, Chained
<1> QED
  BY <1>1, <1>2 DEF Init, SoleInv, TailOK, HandleOK, AckedOnDisk

LEMMA SoleStep ==
  ASSUME SoleWriter, Faults = {}, SoleInv, [Next]_vars
  PROVE  SoleInv'
<1>0. TypeInv /\ TypeInv' /\ TypeOK
  BY TypeStep DEF SoleInv, TypeInv
<1> SUFFICES Chained(lines') /\ TailOK' /\ HandleOK' /\ AckedOnDisk'
  BY <1>0 DEF SoleInv
<1>1. ASSUME NEW p \in Proc, Open(p)
      PROVE  Chained(lines') /\ TailOK' /\ HandleOK' /\ AckedOnDisk'
  <2>1. \A q \in Proc : q = p
    BY DEF SoleWriter
  <2>2. tail = <<>>
    BY <1>1, <2>1 DEF Open, SoleInv, TailOK
  <2>3. Content = lines /\ ReadableCount = Len(lines) /\ Chained(lines)
    BY <2>2, ContentChained, ContentReadable
  <2>4. lines \in Seq(Line)
    BY <1>0 DEF TypeOK
  <2>5. Recovered = [seq |-> Len(lines), last_hash |-> LastHash(lines)]
    <3>1. CASE lines = <<>>
      BY <2>3, <3>1 DEF Recovered, LastHash
    <3>2. CASE lines # <<>>
      <4>1. Len(lines) # 0 /\ Len(lines) \in Nat /\ Len(lines) \in 1..Len(lines)
        BY <2>4, <3>2
      <4>2. EntryAt(Len(lines)) = EntryOf(lines, Len(lines))
        BY <2>3 DEF EntryAt, EntryOf
      <4>3. EntryOf(lines, Len(lines)).seq = Len(lines) - 1
        BY <2>3, <4>1 DEF Chained, ChainedAt
      <4> QED
        BY <2>3, <3>2, <4>1, <4>2, <4>3 DEF Recovered, LastHash
    <3> QED
      BY <3>1, <3>2
  <2>6. UNCHANGED <<lines, tail, synced, pending, minted, acked>>
    BY <1>1 DEF Open
  <2>7. pc'[p] = "idle" /\ audit'[p] = Recovered
    BY <1>0, <1>1 DEF Open, TypeOK
  <2>8. TailOK'
    BY <2>1, <2>2, <2>6, <2>7 DEF TailOK
  <2>9. HandleOK'
    BY <2>1, <2>5, <2>6, <2>7 DEF HandleOK
  <2> QED
    BY <2>6, <2>8, <2>9 DEF SoleInv, AckedOnDisk
<1>2. ASSUME NEW p \in Proc, Close(p) \/ Kill(p)
      PROVE  Chained(lines') /\ TailOK' /\ HandleOK' /\ AckedOnDisk'
  <2>1. \A q \in Proc : q = p
    BY DEF SoleWriter
  <2>2. pc[p] # "json"
    BY <1>2 DEF Close, Kill
  <2>3. tail = <<>>
    BY <2>1, <2>2 DEF SoleInv, TailOK
  <2>4. UNCHANGED <<lines, tail, synced, acked>> /\ pc'[p] = "closed"
    BY <1>0, <1>2 DEF Close, Kill, TypeOK
  <2> QED
    BY <2>1, <2>3, <2>4 DEF SoleInv, TailOK, HandleOK, AckedOnDisk
<1>3. ASSUME NEW p \in Proc, NEW ev \in Event, WriteEntry(p, ev)
      PROVE  Chained(lines') /\ TailOK' /\ HandleOK' /\ AckedOnDisk'
  <2>1. \A q \in Proc : q = p
    BY DEF SoleWriter
  <2>2. tail = <<>>
    BY <1>3, <2>1 DEF WriteEntry, SoleInv, TailOK
  <2>3. UNCHANGED <<lines, synced, audit, acked>>
    BY <1>3 DEF WriteEntry
  <2>4. pc'[p] = "json" /\ pending'[p] = ev
    BY <1>0, <1>3 DEF WriteEntry, TypeOK
  <2>5. tail' = <<<<NextEntry(p, ev)>>>>
    BY <1>3, <2>2 DEF WriteEntry
  <2>6. TailOK'
    BY <2>1, <2>3, <2>4, <2>5 DEF TailOK, NextEntry
  <2>7. HandleOK'
    BY <1>3, <2>1, <2>3 DEF WriteEntry, SoleInv, HandleOK
  <2> QED
    BY <2>3, <2>6, <2>7 DEF SoleInv, AckedOnDisk
<1>4. ASSUME NEW p \in Proc, WriteNewline(p)
      PROVE  Chained(lines') /\ TailOK' /\ HandleOK' /\ AckedOnDisk'
  <2> DEFINE e == NextEntry(p, pending[p])
  <2>1. \A q \in Proc : q = p
    BY DEF SoleWriter
  <2>2. pending[p] \in Event /\ tail = <<<<e>>>>
    BY <1>4 DEF WriteNewline, SoleInv, TypeInv, PendingOK, TailOK
  <2>3. Follows(lines, e)
    BY <1>4, <2>2, NextEntryFollows DEF WriteNewline
  <2>4. lines \in Seq(Line)
    BY <1>0 DEF TypeOK
  <2>5. lines' = Append(lines, <<<<e>>>>)
    BY <1>4, <2>2 DEF WriteNewline
  <2>6. Chained(lines')
    BY <2>3, <2>4, <2>5, ChainedAppend DEF SoleInv
  <2>7. /\ Len(lines') = Len(lines) + 1
        /\ lines'[Len(lines) + 1] = <<<<e>>>>
        /\ \A i \in 1..Len(lines) : lines'[i] = lines[i]
        /\ lines' # <<>>
    BY <2>4, <2>5, AppendProperties
  <2>8. LastHash(lines') = e.hash
    BY <2>7 DEF LastHash, EntryOf
  <2>9. /\ pc'[p] = "line"
        /\ audit'[p] = [seq |-> audit[p].seq + 1, last_hash |-> e.hash]
    BY <1>0, <1>4 DEF WriteNewline, TypeOK
  <2>10. audit[p].seq = Len(lines)
    BY <1>4 DEF WriteNewline, SoleInv, HandleOK
  <2>11. tail' = <<>> /\ UNCHANGED <<synced, acked>>
    BY <1>4 DEF WriteNewline
  <2>12. TailOK'
    BY <2>1, <2>9, <2>11 DEF TailOK
  <2>13. HandleOK'
    BY <2>1, <2>7, <2>8, <2>9, <2>10 DEF HandleOK
  <2>14. AckedOnDisk'
    <3>1. \A i \in 1..synced.n : EntryOf(lines', i) = EntryOf(lines, i)
      BY <1>0, <2>4, <2>7 DEF EntryOf, TypeOK
    <3> QED
      BY <2>11, <3>1 DEF SoleInv, AckedOnDisk
  <2> QED
    BY <2>6, <2>12, <2>13, <2>14
<1>5. ASSUME NEW p \in Proc, Sync(p)
      PROVE  Chained(lines') /\ TailOK' /\ HandleOK' /\ AckedOnDisk'
  <2>1. \A q \in Proc : q = p
    BY DEF SoleWriter
  <2>2. tail = <<>>
    BY <1>5, <2>1 DEF Sync, SoleInv, TailOK
  <2>3. UNCHANGED <<lines, tail, audit>> /\ pc'[p] = "idle"
    BY <1>0, <1>5 DEF Sync, TypeOK
  <2>4. /\ synced'.n = Len(lines)
        /\ synced'.t = 0
        /\ acked' = acked \cup {audit[p].last_hash}
    BY <1>5, <2>2 DEF Sync
  <2>5. audit[p].last_hash = LastHash(lines)
    BY <1>5 DEF Sync, SoleInv, HandleOK
  <2>6. lines # <<>>
    BY <1>5 DEF Sync, SoleInv, HandleOK
  <2>7. audit[p].last_hash = EntryOf(lines, Len(lines)).hash
    BY <2>5, <2>6 DEF LastHash
  <2>8. /\ synced.n \in Nat /\ synced.n <= Len(lines)
        /\ Len(lines) \in Nat /\ Len(lines) \in 1..Len(lines)
    BY <1>0, <2>6 DEF TypeOK
  <2>9. AckedOnDisk'
    <3> SUFFICES ASSUME NEW h \in acked'
                 PROVE  \E i \in 1..Len(lines) : h = EntryOf(lines, i).hash
      BY <2>3, <2>4 DEF AckedOnDisk
    <3>1. CASE h \in acked
      BY <2>8, <3>1 DEF SoleInv, AckedOnDisk
    <3>2. CASE h = audit[p].last_hash
      BY <2>7, <2>8, <3>2
    <3> QED
      BY <2>4, <3>1, <3>2
  <2>10. TailOK' /\ HandleOK'
    BY <1>5, <2>1, <2>2, <2>3, <2>6 DEF Sync, SoleInv, TailOK, HandleOK
  <2> QED
    BY <2>3, <2>9, <2>10 DEF SoleInv
<1>6. ASSUME NEW p \in Proc, SyncFails(p)
      PROVE  Chained(lines') /\ TailOK' /\ HandleOK' /\ AckedOnDisk'
  <2>1. \A q \in Proc : q = p
    BY DEF SoleWriter
  <2>2. UNCHANGED <<lines, tail, synced, audit, acked>> /\ pc'[p] = "idle"
    BY <1>0, <1>6 DEF SyncFails, TypeOK
  <2>3. pc[p] = "line"
    BY <1>6 DEF SyncFails
  <2> QED
    BY <2>1, <2>2, <2>3 DEF SoleInv, TailOK, HandleOK, AckedOnDisk
<1>7. ASSUME NEW k \in synced.n..Len(lines),
             NEW j \in 0..Len(LineAt(k + 1)), NEW torn \in BOOLEAN,
             PowerLoss(k, j, torn), Faults = {}
      PROVE  Chained(lines') /\ TailOK' /\ HandleOK' /\ AckedOnDisk'
  <2>1. k \in 0..Len(lines) /\ lines \in Seq(Line)
    BY <1>0 DEF TypeOK
  <2>2. j = 0 /\ ~torn
    <3>1. LineAt(k + 1) \in Line
      BY <1>0, <2>1 DEF TypeOK, LineAt
    <3> QED
      BY <1>7, <3>1 DEF PowerLoss, Line
  <2>3. tail' = <<>>
    <3>1. LineAt(k + 1) \in Line
      BY <1>0, <2>1 DEF TypeOK, LineAt
    <3>2. SubSeq(LineAt(k + 1), 1, 0) = <<>>
      BY <3>1, SubSeqProperties DEF Line
    <3> QED
      BY <1>7, <2>2, <3>2 DEF PowerLoss
  <2>4. synced' = [n |-> k, t |-> 0] /\ UNCHANGED acked
    BY <1>7, <2>2 DEF PowerLoss
  <2>5. \A p \in Proc : pc'[p] = "closed"
    BY <1>7 DEF PowerLoss
  <2>6. lines' = SubSeq(lines, 1, k)
    BY <1>7 DEF PowerLoss
  <2>7. Chained(lines')
    BY <2>1, <2>6, ChainedPrefix DEF SoleInv
  <2>8. \A i \in 1..synced.n : EntryOf(lines', i) = EntryOf(lines, i)
    <3>1. \A i \in 1..k : lines'[i] = lines[i]
      BY <2>1, <2>6, SubSeqProperties
    <3>2. synced.n \in Nat /\ synced.n <= k
      BY <1>0 DEF TypeOK
    <3> QED
      BY <2>1, <3>1, <3>2 DEF EntryOf
  <2>9. synced.n \in Nat /\ synced.n <= k
    BY <1>0 DEF TypeOK
  <2>10. AckedOnDisk'
    BY <2>1, <2>4, <2>8, <2>9 DEF SoleInv, AckedOnDisk
  <2> QED
    BY <2>3, <2>5, <2>7, <2>10 DEF TailOK, HandleOK
<1>8. CASE UNCHANGED vars
  BY <1>8 DEF vars, SoleInv, TailOK, HandleOK, AckedOnDisk, NextEntry
<1>9. \A p \in Proc : ~WriteEntryFails(p) /\ ~WriteNewlineFails(p)
  BY DEF WriteEntryFails, WriteNewlineFails
<1>10. \A new : ~Edited(new)
  BY DEF Edited
<1>11. \A i, j : ~SwapLines(i, j) /\ ~RemoveLine(i) /\ \A ev : ~EditEvent(i, ev)
  BY <1>10 DEF SwapLines, RemoveLine, EditEvent
<1> QED
  BY <1>1, <1>2, <1>3, <1>4, <1>5, <1>6, <1>7, <1>8, <1>9, <1>11 DEF Next

\* The inductive invariant of a file with one writer and no fault.
THEOREM SoleWriterInv ==
  ASSUME SoleWriter, Faults = {}
  PROVE  Spec => []SoleInv
<1>1. SoleInv /\ [Next]_vars => SoleInv'
  BY SoleStep
<1> QED
  BY <1>1, SoleInit, PTL DEF Spec

\* With one writer, and crashes that leave whole lines, verify_chain accepts
\* the log at every moment: after every crash, restart and lost suffix.
THEOREM SoleWriterChain ==
  ASSUME SoleWriter, Faults = {}
  PROVE  Spec => []ChainVerifies
<1>1. SoleInv => ChainVerifies
  BY ContentReadable DEF ChainVerifies
<1> QED
  BY <1>1, SoleWriterInv, PTL

\* Under the same conditions, what append_synced acknowledged is readable
\* from then on, behind the whole history it was appended to.
THEOREM SoleWriterAcked ==
  ASSUME SoleWriter, Faults = {}
  PROVE  Spec => []AckedReadable
<1>1. SoleInv => AckedReadable
  <2> SUFFICES ASSUME SoleInv PROVE AckedReadable
    OBVIOUS
  <2>1. open_ok /\ ReadableCount = Len(Content)
    BY ContentReadable
  <2> SUFFICES ASSUME NEW h \in acked
               PROVE  /\ Len(h) <= Len(read_events)
                      /\ \A i \in 1..Len(h) : read_events[i] = h[i][2]
    BY <2>1 DEF AckedReadable
  <2>2. PICK n \in 1..synced.n : h = EntryOf(lines, n).hash
    BY DEF SoleInv, AckedOnDisk
  <2>3. n \in 1..Len(lines) /\ Len(lines) \in Nat
    BY DEF SoleInv, TypeInv, TypeOK
  <2>4. ChainedAt(lines, n)
    BY <2>3 DEF SoleInv, Chained
  <2>5. Len(h) = n /\ \A i \in 1..n : h[i][2] = EntryOf(lines, i).event
    BY <2>2, <2>4 DEF ChainedAt
  <2>6. \A i \in 1..n : i \in 1..Len(Content) /\ Content[i] = lines[i]
    BY <2>3, ContentChained
  <2>7. Content \in Seq(Line)
    BY ContentChained
  <2> HIDE DEF Content
  <2>8. Len(read_events) = Len(Content)
    BY <2>1, <2>7 DEF read_events
  <2>9. \A i \in 1..n : read_events[i] = EntryOf(lines, i).event
    BY <2>1, <2>6 DEF read_events, EntryAt, EntryOf
  <2>10. n <= Len(Content)
    BY <2>3, <2>6, <2>7
  <2> QED
    BY <2>5, <2>8, <2>9, <2>10
<1> QED
  BY <1>1, SoleWriterInv, PTL
-----------------------------------------------------------------------------
(* The log implements AuditTrail.                                          *)

events == [i \in 1..Len(lines) |-> lines[i][1][1].event]

LEMMA EventsOfLines ==
  ASSUME SoleInv
  PROVE  /\ events \in Seq(Event)
         /\ Len(events) = Len(lines)
<1>1. \A i \in 1..Len(lines) : lines[i][1][1].event \in Event
  BY DEF SoleInv, Chained, ChainedAt, EntryOf, Entry
<1> QED
  BY <1>1 DEF events, SoleInv, TypeInv, TypeOK

LEMMA TrailStep ==
  ASSUME SoleWriter, Faults = {}, SoleInv, [Next]_vars
  PROVE  [Trail!TrailNext]_<<events, synced.n>>
<1>0. lines \in Seq(Line) /\ synced.n \in Nat /\ synced.n <= Len(lines)
  BY DEF SoleInv, TypeInv, TypeOK
<1> USE DEF Trail!TrailNext
<1>1. ASSUME UNCHANGED <<lines, synced>>
      PROVE  UNCHANGED <<events, synced.n>>
  BY <1>1 DEF events
<1>2. ASSUME NEW p \in Proc, Sync(p)
      PROVE  Trail!Persist
  <2>1. events' = events
    BY <1>2 DEF Sync, events
  <2>2. synced'.n = Len(events)
    BY <1>2, EventsOfLines DEF Sync
  <2> QED
    BY <2>1, <2>2 DEF Trail!Persist, events
<1>3. ASSUME NEW p \in Proc, WriteNewline(p)
      PROVE  Trail!Record
  <2> DEFINE e == NextEntry(p, pending[p])
  <2>1. pending[p] \in Event /\ tail = <<<<e>>>>
    BY <1>3 DEF WriteNewline, SoleInv, TypeInv, PendingOK, TailOK
  <2>2. e.event = pending[p]
    BY DEF NextEntry
  <2>3. lines' = Append(lines, <<<<e>>>>) /\ UNCHANGED synced
    BY <1>3, <2>1 DEF WriteNewline
  <2>4. /\ Len(lines') = Len(lines) + 1
        /\ lines'[Len(lines) + 1][1][1] = e
        /\ \A i \in 1..Len(lines) : lines'[i] = lines[i]
    BY <1>0, <2>3, AppendProperties
  <2>5. events' = Append(events, pending[p])
    <3>1. Append(events, pending[p]) \in Seq(Event)
      BY <2>1, EventsOfLines
    <3>2. events' = [i \in 1..(Len(lines) + 1) |-> lines'[i][1][1].event]
      BY <2>4 DEF events
    <3>3. /\ Len(Append(events, pending[p])) = Len(lines) + 1
          /\ \A i \in 1..Len(lines) :
               Append(events, pending[p])[i] = lines[i][1][1].event
          /\ Append(events, pending[p])[Len(lines) + 1] = pending[p]
      BY <2>1, EventsOfLines, AppendProperties DEF events
    <3>4. \A i \in 1..(Len(lines) + 1) :
            Append(events, pending[p])[i] = lines'[i][1][1].event
      BY <1>0, <2>2, <2>4, <3>3
    <3> HIDE DEF events, e
    <3> QED
      BY <1>0, <3>1, <3>2, <3>3, <3>4
  <2> QED
    BY <2>1, <2>3, <2>5 DEF Trail!Record, events
<1>4. ASSUME NEW k \in synced.n..Len(lines),
             NEW j \in 0..Len(LineAt(k + 1)), NEW torn \in BOOLEAN,
             PowerLoss(k, j, torn)
      PROVE  Trail!Lose
  <2>1. lines' = SubSeq(lines, 1, k) /\ synced'.n = k
    BY <1>4 DEF PowerLoss
  <2>2. k \in 0..Len(lines)
    BY <1>0
  <2>3. Len(lines') = k /\ \A i \in 1..k : lines'[i] = lines[i]
    BY <1>0, <2>1, <2>2, SubSeqProperties
  <2>4. events' = [i \in 1..k |-> lines[i][1][1].event]
    BY <2>3 DEF events
  <2>5. SubSeq(events, 1, k) = [i \in 1..k |-> lines[i][1][1].event]
    <3>1. /\ SubSeq(events, 1, k) \in Seq(Event)
          /\ Len(SubSeq(events, 1, k)) = k
          /\ \A i \in 1..k : SubSeq(events, 1, k)[i] = events[i]
      BY <2>2, EventsOfLines, SubSeqProperties
    <3>2. \A i \in 1..k : events[i] = lines[i][1][1].event
      BY <1>0, <2>2 DEF events
    <3> QED
      BY <3>1, <3>2
  <2>6. k \in synced.n..Len(events)
    BY EventsOfLines
  <2> QED
    BY <2>1, <2>4, <2>5, <2>6 DEF Trail!Lose, events
<1>5. ASSUME NEW p \in Proc,
             \/ Open(p) \/ Close(p) \/ (\E ev \in Event : WriteEntry(p, ev))
             \/ SyncFails(p) \/ Kill(p)
      PROVE  UNCHANGED <<lines, synced>>
  BY <1>5 DEF Open, Close, WriteEntry, SyncFails, Kill
<1>6. CASE UNCHANGED vars
  BY <1>1, <1>6 DEF vars
<1>7. \A p \in Proc : ~WriteEntryFails(p) /\ ~WriteNewlineFails(p)
  BY DEF WriteEntryFails, WriteNewlineFails
<1>8. \A i, j : ~SwapLines(i, j) /\ ~RemoveLine(i) /\ \A ev : ~EditEvent(i, ev)
  BY DEF SwapLines, RemoveLine, EditEvent, Edited
<1> QED
  BY <1>1, <1>2, <1>3, <1>4, <1>5, <1>6, <1>7, <1>8 DEF Next

\* The log refines the abstract trail: an append is one atomic Record, a sync
\* one Persist, a crash one Lose, and everything else changes nothing that a
\* caller could tell.
THEOREM SoleWriterImplementsTrail ==
  ASSUME SoleWriter, Faults = {}
  PROVE  Spec => ImplementsTrail
<1>1. Init => Trail!TrailInit
  BY DEF Init, Trail!TrailInit
<1>2. SoleInv /\ [Next]_vars => [Trail!TrailNext]_<<events, synced.n>>
  BY TrailStep
<1>3. [Trail!TrailNext]_<<events, synced.n>> => [Trail!TrailNext]_(Trail!trailVars)
  BY DEF Trail!trailVars, events
<1> QED
  BY <1>1, <1>2, <1>3, SoleWriterInv, PTL DEF Spec, ImplementsTrail, Trail!TrailSpec
-----------------------------------------------------------------------------
(* What verify_chain shows of a file that anything may have happened to.   *)

\* Every hash on the line l is in ms.
HashesIn(l, ms) == \A m \in 1..Len(l) : l[m] # Torn => l[m][1].hash \in ms

\* Every hash on the file was computed by an append.
HashesMinted ==
  /\ \A i \in 1..Len(lines) : HashesIn(lines[i], minted)
  /\ HashesIn(tail, minted)

LEMMA HashesStep ==
  ASSUME TypeInv, HashesMinted, [Next]_vars
  PROVE  HashesMinted'
<1>0. /\ lines \in Seq(Line) /\ tail \in Line
      /\ \A i \in 1..Len(lines) : lines[i] \in Line
  BY DEF TypeInv, TypeOK
<1> USE DEF Line
<1>1. ASSUME UNCHANGED <<lines, tail, minted>> PROVE HashesMinted'
  BY <1>1 DEF HashesMinted
<1>2. ASSUME NEW p \in Proc, NEW ev \in Event, WriteEntry(p, ev)
      PROVE  HashesMinted'
  <2> DEFINE e == NextEntry(p, ev)
  <2>1. /\ lines' = lines
        /\ tail' = Append(tail, <<e>>)
        /\ minted' = minted \cup {e.hash}
    BY <1>2 DEF WriteEntry
  <2>2. \A l, ms : HashesIn(l, minted) => HashesIn(l, minted')
    BY <2>1 DEF HashesIn
  <2>3. HashesIn(tail', minted')
    <3> HIDE DEF e
    <3> QED
      BY <1>0, <2>1, <2>2 DEF HashesMinted, HashesIn
  <2> QED
    BY <2>1, <2>2, <2>3 DEF HashesMinted
<1>3. ASSUME NEW p \in Proc, WriteEntryFails(p) PROVE HashesMinted'
  <2>1. UNCHANGED <<lines, minted>> /\ tail' = Append(tail, Torn)
    BY <1>3 DEF WriteEntryFails
  <2>2. HashesIn(tail', minted)
    <3> HIDE DEF Torn
    <3> QED
      BY <1>0, <2>1 DEF HashesMinted, HashesIn
  <2> QED
    BY <2>1, <2>2 DEF HashesMinted
<1>4. ASSUME NEW p \in Proc, WriteNewline(p) PROVE HashesMinted'
  <2>1. lines' = Append(lines, tail) /\ tail' = <<>> /\ minted' = minted
    BY <1>4 DEF WriteNewline
  <2>2. HashesIn(<<>>, minted)
    BY DEF HashesIn
  <2>3. ASSUME NEW i \in 1..Len(lines') PROVE HashesIn(lines'[i], minted)
    <3>1. lines'[i] = IF i = Len(lines) + 1 THEN tail ELSE lines[i]
      BY <1>0, <2>1, <2>3, AppendProperties
    <3>2. i = Len(lines) + 1 \/ i \in 1..Len(lines)
      BY <1>0, <2>1, <2>3, AppendProperties
    <3>3. Len(lines) + 1 \notin 1..Len(lines)
      BY <1>0
    <3> QED
      BY <3>1, <3>2, <3>3 DEF HashesMinted
  <2> QED
    BY <2>1, <2>2, <2>3 DEF HashesMinted
<1>5. ASSUME NEW k \in synced.n..Len(lines),
             NEW j \in 0..Len(LineAt(k + 1)), NEW torn \in BOOLEAN,
             PowerLoss(k, j, torn)
      PROVE  HashesMinted'
  <2>1. k \in 0..Len(lines)
    BY DEF TypeInv, TypeOK
  <2>2. LineAt(k + 1) \in Line /\ HashesIn(LineAt(k + 1), minted)
    BY <1>0, <2>1 DEF LineAt, HashesMinted
  <2> DEFINE kept == SubSeq(LineAt(k + 1), 1, j)
  <2>3. /\ kept \in Seq(Fragment) /\ Len(kept) = j
        /\ \A m \in 1..j : kept[m] = LineAt(k + 1)[m]
    BY <2>2, SubSeqProperties
  <2>4. HashesIn(kept, minted)
    BY <2>2, <2>3 DEF HashesIn
  <2>5. Append(kept, Torn) \in Seq(Fragment) => HashesIn(Append(kept, Torn), minted)
    <3> HIDE DEF kept, Torn
    <3> QED
      BY <2>3, <2>4 DEF HashesIn
  <2>6. Torn \in Fragment
    BY DEF Torn, Fragment
  <2>7. HashesIn(tail', minted)
    BY <1>5, <2>3, <2>4, <2>5, <2>6 DEF PowerLoss
  <2>8. lines' = SubSeq(lines, 1, k) /\ minted' = minted
    BY <1>5 DEF PowerLoss
  <2>9. Len(lines') = k /\ \A i \in 1..k : lines'[i] = lines[i]
    BY <1>0, <2>1, <2>8, SubSeqProperties
  <2> QED
    BY <2>1, <2>7, <2>8, <2>9 DEF HashesMinted
<1>6. ASSUME NEW i \in 1..Len(lines), NEW ev \in Event, EditEvent(i, ev)
      PROVE  HashesMinted'
  <2> DEFINE e == lines[i][1][1]
             f == [e EXCEPT !.event = ev]
  <2>1. lines' = [lines EXCEPT ![i] = <<<<f>>>>] /\ UNCHANGED <<tail, minted>>
    BY <1>6 DEF EditEvent, Edited
  <2>2. Len(lines[i]) = 1 /\ lines[i][1] # Torn
    BY <1>6 DEF EditEvent, Parses
  <2>3. lines[i][1] \in Seq(Entry) /\ Len(lines[i][1]) = 1
    <3>1. lines[i][1] \in Fragment
      BY <1>0, <2>2
    <3> QED
      BY <2>2, <3>1, WholeFragment
  <2>4. e \in Entry
    BY <2>3
  <2>5. f.hash = e.hash
    BY <2>4 DEF Entry
  <2>6. e.hash \in minted
    BY <2>2 DEF HashesMinted, HashesIn
  <2> HIDE DEF e, f
  <2>7. HashesIn(<<<<f>>>>, minted)
    BY <2>5, <2>6 DEF HashesIn
  <2>8. ASSUME NEW m \in 1..Len(lines') PROVE HashesIn(lines'[m], minted)
    <3>1. m \in 1..Len(lines)
      BY <1>0, <2>1
    <3>2. lines'[m] = IF m = i THEN <<<<f>>>> ELSE lines[m]
      BY <1>0, <2>1, <3>1
    <3> QED
      BY <2>7, <3>1, <3>2 DEF HashesMinted
  <2> QED
    BY <2>1, <2>8 DEF HashesMinted
<1>7. ASSUME NEW i \in 1..Len(lines), NEW j \in 1..(i - 1), SwapLines(i, j)
      PROVE  HashesMinted'
  <2>1. /\ lines' = [lines EXCEPT ![i] = lines[j], ![j] = lines[i]]
        /\ UNCHANGED <<tail, minted>>
    BY <1>7 DEF SwapLines, Edited
  <2>2. j \in 1..Len(lines)
    BY <1>0
  <2>3. \A m \in 1..Len(lines') :
          m \in 1..Len(lines) /\ lines'[m] \in {lines[m], lines[i], lines[j]}
    BY <1>0, <2>1, <2>2
  <2> QED
    BY <2>1, <2>2, <2>3 DEF HashesMinted
<1>8. ASSUME NEW i \in 1..Len(lines), RemoveLine(i)
      PROVE  HashesMinted'
  <2> DEFINE a == SubSeq(lines, 1, i - 1)
             b == SubSeq(lines, i + 1, Len(lines))
  <2>1. lines' = a \o b /\ UNCHANGED <<tail, minted>>
    BY <1>8 DEF RemoveLine, Edited
  <2>2. /\ a \in Seq(Line) /\ Len(a) = i - 1
        /\ \A m \in 1..(i - 1) : a[m] = lines[m]
    BY <1>0, SubSeqProperties
  <2>3. /\ b \in Seq(Line) /\ Len(b) = Len(lines) - i
        /\ \A m \in 1..(Len(lines) - i) : b[m] = lines[i + m]
    BY <1>0, SubSeqProperties
  <2> HIDE DEF a, b
  <2>4. ASSUME NEW m \in 1..Len(lines')
        PROVE  \E n \in 1..Len(lines) : lines'[m] = lines[n]
    <3>1. Len(lines') = Len(lines) - 1
      <4>1. Len(a \o b) = Len(a) + Len(b)
        BY <2>2, <2>3, ConcatProperties
      <4>2. Len(lines) \in Nat /\ i \in Nat
        BY <1>0
      <4> QED
        BY <2>1, <2>2, <2>3, <4>1, <4>2
    <3>2. CASE m <= i - 1
      <4>1. lines'[m] = a[m]
        BY <1>0, <2>1, <2>2, <2>3, <3>2, ConcatProperties
      <4> QED
        BY <1>0, <2>2, <3>2, <4>1
    <3>3. CASE m > i - 1
      <4>1. lines'[m] = b[m - (i - 1)]
        <5>1. m \in 1..(Len(a) + Len(b)) /\ ~(m <= Len(a))
          BY <1>0, <2>2, <2>3, <3>1, <3>3
        <5>2. (a \o b)[m] = b[m - Len(a)]
          BY <2>2, <2>3, <5>1, ConcatProperties
        <5> QED
          BY <2>1, <2>2, <5>2
      <4>2. m - (i - 1) \in 1..(Len(lines) - i)
        BY <1>0, <3>1, <3>3
      <4> QED
        BY <1>0, <2>3, <4>1, <4>2
    <3> QED
      BY <1>0, <3>2, <3>3
  <2> QED
    BY <2>1, <2>4 DEF HashesMinted
<1>9. ASSUME NEW p \in Proc,
             \/ Open(p) \/ Close(p) \/ WriteNewlineFails(p)
             \/ Sync(p) \/ SyncFails(p) \/ Kill(p)
      PROVE  HashesMinted'
  BY <1>1, <1>9 DEF Open, Close, WriteNewlineFails, Sync, SyncFails, Kill
<1>10. CASE UNCHANGED vars
  BY <1>1, <1>10 DEF vars
<1> QED
  BY <1>2, <1>3, <1>4, <1>5, <1>6, <1>7, <1>8, <1>9, <1>10 DEF Next

LEMMA LeastNat ==
  ASSUME NEW T, T \subseteq Nat, T # {}
  PROVE  \E x \in T : \A y \in T : x <= y
<1>1. PICK x \in T : \A y \in T : <<y, x>> \notin OpToRel(<, Nat)
  BY NatLessThanWellFounded, WFMin
<1>2. \A y \in T : ~(y < x)
  BY <1>1 DEF OpToRel
<1> QED
  BY <1>2

\* Each hash of an accepted file is the history of the lines up to it.
LEMMA VerifiedHashes ==
  ASSUME TypeOK, verify_chain, NEW i \in 1..Len(Content)
  PROVE  EntryAt(i).hash = [j \in 1..i |-> <<EntryAt(j).seq, EntryAt(j).event>>]
<1> DEFINE pair(j) == <<EntryAt(j).seq, EntryAt(j).event>>
           history(n) == [j \in 1..n |-> pair(j)]
           Bad == {n \in 1..Len(Content) : EntryAt(n).hash # history(n)}
<1>1. Content \in Seq(Line)
  BY ReadableRange
<1>2. SUFFICES ASSUME Bad # {} PROVE FALSE
  OBVIOUS
<1>3. PICK n \in Bad : \A m \in Bad : n <= m
  <2>1. Bad \subseteq Nat
    BY <1>1
  <2> HIDE DEF Bad
  <2> QED
    BY <1>2, <2>1, LeastNat
<1>4. n \in 1..Len(Content) /\ n \in Nat \ {0} /\ Len(Content) \in Nat
  BY <1>1
<1>5. /\ EntryAt(n) \in Entry
      /\ EntryAt(n).prev = PrevHash(n)
      /\ EntryAt(n).hash = Append(PrevHash(n), pair(n))
  BY <1>4, ParsedEntry DEF verify_chain, entry_hash
<1>6. PrevHash(n) = history(n - 1)
  <2>1. CASE n = 1
    BY <2>1 DEF PrevHash
  <2>2. CASE n # 1
    <3>1. n - 1 \in 1..Len(Content) /\ ~(n <= n - 1)
      BY <1>4, <2>2
    <3>2. n - 1 \notin Bad
      <4> HIDE DEF Bad
      <4> QED
        BY <1>3, <3>1
    <3> QED
      BY <2>2, <3>1, <3>2 DEF PrevHash
  <2> QED
    BY <2>1, <2>2
<1>7. PrevHash(n) \in Seq(Nat \X Event) /\ pair(n) \in Nat \X Event
  BY <1>5 DEF Entry, Hash
<1> HIDE DEF pair
<1>8. Len(PrevHash(n)) = n - 1
  BY <1>4, <1>6, <1>7
<1>9. Append(PrevHash(n), pair(n)) = history(n)
  <2>1. \A j \in 1..n : Append(PrevHash(n), pair(n))[j] = pair(j)
    BY <1>4, <1>6, <1>7, <1>8, AppendProperties
  <2>2. /\ Append(PrevHash(n), pair(n)) \in Seq(Nat \X Event)
        /\ Len(Append(PrevHash(n), pair(n))) = n
    BY <1>4, <1>7, <1>8, AppendProperties
  <2> DEFINE s == Append(PrevHash(n), pair(n))
  <2>3. Len(s) = n /\ s \in Seq(Nat \X Event) /\ \A j \in 1..n : s[j] = pair(j)
    BY <2>1, <2>2
  <2>4. s = history(n)
    <3> HIDE DEF s
    <3>1. s = [j \in 1..n |-> s[j]]
      BY <2>3
    <3> QED
      BY <2>3, <3>1
  <2> QED
    BY <2>4
<1> QED
  BY <1>5, <1>9

\* Whatever crashed, failed, interleaved or was edited: the events of a file
\* that verify_chain accepts are, in order, a history that an append of this
\* program committed to.
THEOREM AcceptedIsHistory == Spec => []VerifiedIsHistory
<1>1. Init => TypeInv /\ HashesMinted
  BY DEF Init, TypeInv, TypeOK, PendingOK, NoAudit, Hash, Line, PC,
         HashesMinted, HashesIn
<1>2. TypeInv /\ HashesMinted /\ [Next]_vars => TypeInv' /\ HashesMinted'
  BY TypeStep, HashesStep
<1>3. TypeInv /\ HashesMinted => VerifiedIsHistory
  <2> SUFFICES ASSUME TypeInv, HashesMinted, verify_chain
               PROVE  [i \in 1..Len(Content) |-> <<EntryAt(i).seq, EntryAt(i).event>>]
                        \in minted \cup {<<>>}
    BY DEF VerifiedIsHistory
  <2> DEFINE n == Len(Content)
             h == [i \in 1..n |-> <<EntryAt(i).seq, EntryAt(i).event>>]
  <2>1. TypeOK /\ n \in Nat
    BY ReadableRange DEF TypeInv
  <2>2. CASE n = 0
    BY <2>2
  <2>3. CASE n # 0
    <3>1. n \in 1..Len(Content) /\ Parses(Content[n])
      BY <2>1, <2>3 DEF verify_chain
    <3>2. EntryAt(n).hash = h
      BY <2>1, <3>1, VerifiedHashes
    <3>3. HashesIn(Content[n], minted)
      BY <2>1, <2>3 DEF Content, HashesMinted, TypeOK, Line
    <3>4. EntryAt(n).hash \in minted
      BY <3>1, <3>3 DEF HashesIn, Parses, EntryAt
    <3> QED
      BY <3>2, <3>4
  <2> QED
    BY <2>2, <2>3
<1> QED
  BY <1>1, <1>2, <1>3, PTL DEF Spec
=============================================================================
