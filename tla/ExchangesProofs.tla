-------------------------- MODULE ExchangesProofs ---------------------------
(***************************************************************************)
(* Theorems about one egress call, one call that runs a child process, the  *)
(* registry of the tools, a job's schedule and the calls on the files, for  *)
(* every set of hosts, addresses, words and names, every policy and every   *)
(* tree, every length of a week and every value of the bounds.  The other   *)
(* parts of MCExchanges leave the variables of these five alone.            *)
(***************************************************************************)
EXTENDS MCExchanges, FiniteSetTheorems, SequenceTheorems, NaturalsInduction,
        WellFoundedInduction, TLAPS

(* Egress.                                                                 *)

Contacts == [host : Net!Host, addr : Addr]

\* A contact that a policy permits.
Vetted(c, allow) ==
  c.host \in allow /\ (Mapped[c.addr] \notin Private \/ c.addr \in allow)

EgressTypes ==
  /\ url \in Net!Url
  /\ hops \in Nat /\ body \in Nat
  /\ epc \in {"vet", "resolve", "send", "body", "returned", "denied"}
  /\ epc = "send" => addr \in Addr

\* A call has sent one request for every redirect it follows, and one more once
\* it has an answer that is none.
ContactsInv ==
  /\ contacts \in Seq(Contacts)
  /\ \A i \in 1..Len(contacts) : Vetted(contacts[i], egress_allow)
  /\ Len(contacts) <= MAX_REDIRECTS + 1
  /\ epc \in {"vet", "resolve", "send"} =>
       Len(contacts) = hops /\ hops <= MAX_REDIRECTS
  /\ epc \in {"body", "returned"} => Len(contacts) > 0 /\ body <= MAX_BODY
  /\ epc \notin {"body", "returned", "denied"} => body = 0

\* The host in hand has been vetted before it is resolved, its address before it
\* is contacted.
VettedInv ==
  /\ epc \in {"resolve", "send"} => url.host \in egress_allow
  /\ epc = "send" => Vetted([host |-> url.host, addr |-> addr], egress_allow)

EgressInv == part = "egress" => EgressTypes /\ ContactsInv /\ VettedInv

LEMMA EgressConstants == MAX_REDIRECTS \in Nat /\ MAX_BODY \in Nat
  BY ExchangesAssumption DEF ExchangesAssumption, Net!EgressAssumption

LEMMA EgressBegins == ASSUME Net!Init PROVE EgressInv
<1>1. contacts = <<>> /\ Len(contacts) = 0 /\ contacts \in Seq(Contacts)
  BY DEF Net!Init
<1>2. EgressTypes
  BY DEF Net!Init, EgressTypes
<1>3. ContactsInv
  BY <1>1, EgressConstants DEF Net!Init, ContactsInv
<1>4. VettedInv
  BY DEF Net!Init, VettedInv
<1> QED
  BY <1>2, <1>3, <1>4 DEF EgressInv

\* A request more, to a host and an address that have been vetted.
LEMMA ContactIs ==
  ASSUME EgressTypes, ContactsInv, VettedInv, epc = "send", NEW a \in Addr,
         a \in Net!Peers(url.host), Net!Contact(a), UNCHANGED egress_allow
  PROVE  /\ contacts' \in Seq(Contacts)
         /\ Len(contacts') = hops + 1 /\ Len(contacts') <= MAX_REDIRECTS + 1
         /\ \A i \in 1..Len(contacts') : Vetted(contacts'[i], egress_allow)
<1> DEFINE c == [host |-> url.host, addr |-> a]
<1>1. url.host \in Net!Host
  BY DEF EgressTypes, Net!Url
<1>2. c \in Contacts /\ c.host = url.host /\ c.addr = a
  BY <1>1 DEF Contacts
<1>3. Vetted(c, egress_allow)
  BY DEF Net!Peers, VettedInv
<1>4. contacts' = Append(contacts, c)
  BY DEF Net!Contact
<1> HIDE DEF c
<1>5. /\ contacts \in Seq(Contacts) /\ Len(contacts) = hops /\ hops <= MAX_REDIRECTS
      /\ hops \in Nat /\ MAX_REDIRECTS \in Nat
  BY EgressConstants DEF ContactsInv, EgressTypes
<1>6. /\ contacts' \in Seq(Contacts) /\ Len(contacts') = hops + 1
      /\ \A i \in 1..Len(contacts) : contacts'[i] = contacts[i]
      /\ contacts'[hops + 1] = c
  BY <1>2, <1>4, <1>5
<1>7. ASSUME NEW i \in 1..Len(contacts')
      PROVE  Vetted(contacts'[i], egress_allow)
  <2>1. i \in 1..Len(contacts) \/ i = hops + 1
    BY <1>5, <1>6
  <2> QED
    BY <1>3, <1>6, <2>1 DEF ContactsInv
<1> QED
  BY <1>5, <1>6, <1>7

LEMMA EgressStep ==
  ASSUME EgressTypes, ContactsInv, VettedInv, Net!Next
  PROVE  EgressTypes' /\ ContactsInv' /\ VettedInv'
<1>0. /\ hops \in Nat /\ body \in Nat /\ MAX_REDIRECTS \in Nat /\ MAX_BODY \in Nat
  BY EgressConstants DEF EgressTypes
<1>1. egress_allow' = egress_allow
  BY DEF Net!Next, Net!Vet, Net!ResolveFails, Net!BodyEnds, Net!PickAllowedAddr,
         Net!SendFails, Net!Answered, Net!Redirected, Net!ReadCapped, Net!Denied
<1>2. ASSUME UNCHANGED contacts
      PROVE  /\ contacts' \in Seq(Contacts) /\ Len(contacts') = Len(contacts)
             /\ Len(contacts') <= MAX_REDIRECTS + 1
             /\ \A i \in 1..Len(contacts') : Vetted(contacts'[i], egress_allow)
  BY <1>2 DEF ContactsInv
<1>3. CASE Net!Denied
  <2>1. epc' = "denied" /\ UNCHANGED <<egress_allow, url, addr, hops, body, contacts>>
    BY <1>3 DEF Net!Denied
  <2> QED
    BY <1>2, <2>1 DEF EgressTypes, ContactsInv, VettedInv
<1>4. CASE Net!Vet /\ ~Net!Denied
  <2>1. /\ epc = "vet" /\ epc' = "resolve" /\ url.host \in egress_allow
        /\ UNCHANGED <<egress_allow, url, addr, hops, body, contacts>>
    BY <1>4 DEF Net!Vet, Net!egress_allowed
  <2> QED
    BY <1>2, <2>1 DEF EgressTypes, ContactsInv, VettedInv
<1>5. ASSUME NEW answer \in Net!Answers(url.host), Net!PickAllowedAddr(answer), ~Net!Denied
      PROVE  EgressTypes' /\ ContactsInv' /\ VettedInv'
  <2>1. PICK i \in DOMAIN answer :
          /\ epc = "resolve" /\ epc' = "send" /\ addr' = answer[i]
          /\ Net!Permitted(answer[i])
          /\ UNCHANGED <<egress_allow, url, hops, body, contacts>>
    BY <1>5 DEF Net!PickAllowedAddr
  <2>2. answer[i] \in Addr
    <3>1. CASE url.host \in Addr
      BY <1>5, <3>1 DEF Net!Answers
    <3>2. CASE url.host \notin Addr
      <4>1. PICK k \in 0..2 : answer \in [1..k -> Addr]
        BY <1>5, <3>2 DEF Net!Answers
      <4> QED
        BY <4>1
    <3> QED
      BY <3>1, <3>2
  <2>3. Vetted([host |-> url.host, addr |-> answer[i]], egress_allow)
    BY <2>1
    DEF VettedInv, Vetted, Net!Permitted, Net!is_blocked_ip, Net!ip_explicitly_allowed
  <2> QED
    BY <1>2, <2>1, <2>2, <2>3 DEF EgressTypes, ContactsInv, VettedInv
<1>6. ASSUME NEW a \in Addr, Net!SendFails(a) \/ Net!Answered(a)
      PROVE  EgressTypes' /\ ContactsInv' /\ VettedInv'
  <2>1. /\ epc = "send" /\ a \in Net!Peers(url.host) /\ Net!Contact(a)
        /\ epc' \in {"denied", "body"}
        /\ UNCHANGED <<egress_allow, url, addr, hops, body>>
    BY <1>6 DEF Net!SendFails, Net!Answered
  <2>2. body = 0
    BY <2>1 DEF ContactsInv
  <2> QED
    BY <1>0, <2>1, <2>2, ContactIs DEF EgressTypes, ContactsInv, VettedInv
<1>7. ASSUME NEW a \in Addr, NEW to \in Net!Url, Net!Redirected(a, to)
      PROVE  EgressTypes' /\ ContactsInv' /\ VettedInv'
  <2>1. /\ epc = "send" /\ a \in Net!Peers(url.host) /\ Net!Contact(a)
        /\ hops' = hops + 1
        /\ UNCHANGED <<egress_allow, addr, body>>
        /\ \/ hops' > MAX_REDIRECTS /\ epc' = "denied" /\ url' = url
           \/ hops' <= MAX_REDIRECTS /\ epc' = "vet" /\ url' = to
    BY <1>0, <1>7 DEF Net!Redirected
  <2>2. body = 0
    BY <2>1 DEF ContactsInv
  <2> QED
    BY <1>0, <2>1, <2>2, ContactIs DEF EgressTypes, ContactsInv, VettedInv
<1>8. ASSUME NEW chunk \in 1..2, Net!ReadCapped(chunk), ~Net!Denied
      PROVE  EgressTypes' /\ ContactsInv' /\ VettedInv'
  <2>1. /\ epc = "body" /\ epc' = "body" /\ body' = body + chunk /\ body' <= MAX_BODY
        /\ UNCHANGED <<egress_allow, url, addr, hops, contacts>>
    BY <1>0, <1>8 DEF Net!ReadCapped
  <2> QED
    BY <1>0, <1>2, <2>1 DEF EgressTypes, ContactsInv, VettedInv
<1>9. CASE Net!BodyEnds
  <2>1. /\ epc = "body" /\ epc' \in {"returned", "denied"}
        /\ UNCHANGED <<egress_allow, url, addr, hops, body, contacts>>
    BY <1>9 DEF Net!BodyEnds
  <2> QED
    BY <1>2, <2>1 DEF EgressTypes, ContactsInv, VettedInv
<1> QED
  BY <1>3, <1>4, <1>5, <1>6, <1>7, <1>8, <1>9 DEF Net!Next, Net!ResolveFails

\* For every policy, all hosts and addresses, and any number of redirects, names
\* and bodies: every request of a call goes to a listed host at a permitted
\* address, and there are at most MAX_REDIRECTS + 1 of them (egress_request).
THEOREM ContactsAreVetted == Spec => []ContactsVetted
<1>1. Init => EgressInv
  BY EgressBegins DEF Init, EgressInv
<1>2. EgressInv /\ [Next]_vars => EgressInv'
  <2> SUFFICES ASSUME EgressInv, [Next]_vars, part' = "egress"
               PROVE  EgressTypes' /\ ContactsInv' /\ VettedInv'
    BY DEF EgressInv
  <2>1. part' = part
    BY DEF Next, Of, DeliveryNext, McpNext, ToolboxNext, EgressNext, ExecutionNext,
           DialogueNext, ScheduleNext, FileToolsNext, vars
  <2>2. EgressTypes /\ ContactsInv /\ VettedInv
    BY <2>1 DEF EgressInv
  <2>3. CASE Net!Next
    BY <2>2, <2>3, EgressStep
  <2>4. CASE UNCHANGED egressVars
    BY <2>2, <2>4
    DEF egressVars, EgressTypes, ContactsInv, VettedInv
  <2>5. Net!Next \/ UNCHANGED egressVars
    BY <2>1
    DEF Next, Of, DeliveryNext, McpNext, ToolboxNext, EgressNext, ExecutionNext,
        DialogueNext, ScheduleNext, FileToolsNext, vars
  <2> QED
    BY <2>3, <2>4, <2>5
<1>3. EgressInv => ContactsVetted
  BY EgressConstants
  DEF EgressInv, ContactsInv, EgressTypes, Vetted, ContactsVetted, Net!ContactsVetted,
      Net!Permitted, Net!is_blocked_ip, Net!ip_explicitly_allowed
<1> QED
  BY <1>1, <1>2, <1>3, PTL DEF Spec
-----------------------------------------------------------------------------
(* Execution.                                                              *)

\* Nothing has been started at the start, and an input that is being written is
\* not that of execute_code on this machine.
StartedInv ==
  /\ backend # "unconfined"
  /\ started = <<>> \/ \E way : started = <<way>>
  /\ xpc = "start" => started = <<>>
  /\ xpc = "write" => ~(caller = "execute_code" /\ backend = "local")
  /\ how = "unconfined" =>
       allow_unsandboxed /\ backend = "local" /\ caller = "execute_code"

LEMMA FirstSpawn ==
  ASSUME StartedInv, started = <<>>, NEW way, NEW piped, Exe!Spawn(way, piped),
         UNCHANGED <<caller, backend, enforced, allow_unsandboxed, input, program>>,
         way = "unconfined" =>
           allow_unsandboxed /\ backend = "local" /\ caller = "execute_code",
         piped => ~(caller = "execute_code" /\ backend = "local")
  PROVE  StartedInv'
<1>1. started' = <<way>> /\ how' = way
  BY DEF Exe!Spawn
<1>2. xpc' \in {"read", "write"} /\ (xpc' = "write" => piped)
  BY DEF Exe!Spawn
<1> QED
  BY <1>1, <1>2 DEF StartedInv

LEMMA NoSpawn ==
  ASSUME StartedInv, started' = started, how' = how, xpc' # "start",
         xpc' = "write" => xpc = "write",
         UNCHANGED <<caller, backend, enforced, allow_unsandboxed, input, program>>
  PROVE  StartedInv'
  BY DEF StartedInv

LEMMA FailsIs ==
  ASSUME StartedInv, Exe!Fails, UNCHANGED Exe!callVars,
         Exe!Overridable => started = <<>>
  PROVE  StartedInv'
<1>1. CASE Exe!Overridable /\ Exe!Spawn("unconfined", FALSE)
  BY <1>1, FirstSpawn DEF Exe!Overridable, Exe!callVars
<1>2. CASE xpc' = "failed" /\ UNCHANGED <<how, started>>
  BY <1>2, NoSpawn DEF Exe!callVars
<1> QED
  BY <1>1, <1>2 DEF Exe!Fails

LEMMA ExecutionStep == ASSUME StartedInv, Exe!Next PROVE StartedInv'
<1>1. CASE Exe!Start
  <2>1. started = <<>> /\ UNCHANGED Exe!callVars
    BY <1>1 DEF Exe!Start, StartedInv
  <2>2. CASE Exe!Spawn("confined", FALSE)
    BY <2>1, <2>2, FirstSpawn DEF Exe!callVars
  <2>3. CASE Exe!Spawn(backend, TRUE) /\ backend # "local"
    <3>1. backend # "unconfined"
      BY DEF StartedInv
    <3> QED
      BY <2>1, <2>3, <3>1, FirstSpawn DEF Exe!callVars
  <2>4. CASE Exe!Spawn("vouched", caller = "tts")
    <3>1. (caller = "tts") => ~(caller = "execute_code" /\ backend = "local")
      OBVIOUS
    <3> QED
      BY <2>1, <2>4, <3>1, FirstSpawn DEF Exe!callVars
  <2> QED
    BY <1>1, <2>2, <2>3, <2>4 DEF Exe!Start
<1>2. CASE Exe!Refused \/ Exe!SpawnFails
  BY <1>2, FailsIs DEF Exe!Refused, Exe!SpawnFails, StartedInv
<1>3. CASE Exe!WriteFails
  <2>1. xpc = "write" /\ Exe!Fails /\ UNCHANGED Exe!callVars
    BY <1>3 DEF Exe!WriteFails
  <2>2. ~Exe!Overridable
    BY <2>1 DEF Exe!Overridable, StartedInv
  <2> QED
    BY <2>1, <2>2, FailsIs
<1>4. CASE Exe!Return
  <2>1. CASE Exe!Fails /\ caller \in {"stt", "tts"}
    <3>1. ~Exe!Overridable /\ UNCHANGED Exe!callVars
      BY <1>4, <2>1 DEF Exe!Overridable, Exe!Return
    <3> QED
      BY <2>1, <3>1, FailsIs
  <2>2. CASE xpc' = "returned" /\ UNCHANGED <<how, started>>
    BY <1>4, <2>2, NoSpawn DEF Exe!Return, Exe!callVars
  <2> QED
    BY <1>4, <2>1, <2>2 DEF Exe!Return
<1>5. CASE /\ \/ Exe!Write \/ Exe!CloseInput \/ Exe!Read("out") \/ Exe!Read("err")
  <2>1. /\ xpc \in {"write", "read"} /\ xpc' \in {xpc, "read"}
        /\ UNCHANGED <<how, started, Exe!callVars>>
    BY <1>5 DEF Exe!Write, Exe!CloseInput, Exe!Read
  <2> QED
    BY <2>1, NoSpawn DEF Exe!callVars
<1>6. CASE Exe!ChildStep
  <2>1. UNCHANGED <<xpc, how, started, Exe!callVars>>
    BY <1>6 DEF Exe!ChildStep, Exe!ChildDoes, Exe!ChildEnds
  <2> QED
    BY <2>1 DEF StartedInv, Exe!callVars
<1> QED
  BY <1>1, <1>2, <1>3, <1>4, <1>5, <1>6 DEF Exe!Next, Exe!ParentStep

\* For any input, any program and any pipes: the code of a call is started at
\* most once, and without a sandbox only if execute_code was given the override
\* and the local backend could not start it (ExecuteCode::run).
THEOREM CodeStartsOnce == Spec => []StartedOnce
<1>1. Init => StartedInv
  BY DEF Init, Exe!Init, StartedInv
<1>2. StartedInv /\ [Next]_vars => StartedInv'
  <2> SUFFICES ASSUME StartedInv, [Next]_vars
               PROVE  StartedInv'
    OBVIOUS
  <2>1. CASE Exe!Next
    BY <2>1, ExecutionStep
  <2>2. CASE UNCHANGED executionVars
    BY <2>2 DEF executionVars, StartedInv
  <2>3. Exe!Next \/ UNCHANGED executionVars
    BY DEF Next, Of, DeliveryNext, McpNext, ToolboxNext, EgressNext, ExecutionNext,
           DialogueNext, ScheduleNext, FileToolsNext, vars, ofDelivery, ofMcp
  <2> QED
    BY <2>1, <2>2, <2>3
<1>3. StartedInv => StartedOnce
  <2>1. ASSUME NEW way, started = <<way>> PROVE Len(started) <= 1
    BY <2>1
  <2>2. started = <<>> => Len(started) <= 1
    OBVIOUS
  <2> QED
    BY <2>1, <2>2 DEF StartedInv, StartedOnce, Exe!StartedOnce
<1> QED
  BY <1>1, <1>2, <1>3, PTL DEF Spec

-----------------------------------------------------------------------------
(* The registry.                                                           *)

\* A registered name and what stands for it, as long as the servers are being
\* connected: a builtin has one word, a remote tool two.
Registered(n, tool) ==
  \/ /\ tool.kind = "builtin" /\ \E w \in Box!Builtin : n = <<w>>
  \/ /\ tool.kind = "mcp"
     /\ \E w, t \in Word : n = <<w, t>> /\ tool.server = <<w>> /\ tool.inner = <<t>>

ToolboxInv ==
  /\ tpc \in {"builtin", "mcp", "op_tools"}
  /\ DOMAIN first = DOMAIN tools
  /\ tpc = "builtin" => DOMAIN tools = {}
  /\ tpc # "builtin" =>
       \A b \in Box!AlwaysThere : <<b>> \in DOMAIN tools /\ tools[<<b>>].kind = "builtin"
  /\ \A n \in DOMAIN tools :
       /\ tools[n].kind = first[n].kind
       /\ Registered(n, tools[n]) \/ (tpc = "op_tools" /\ tools[n].kind = "op_tool")

LEMMA TwoWords ==
  ASSUME NEW w, NEW t
  PROVE  /\ Len(<<w, t>>) = 2 /\ <<w, t>>[2] = t /\ SubSeq(<<w, t>>, 1, 1) = <<w>>
         /\ Len(<<t>>) = 1 /\ <<t>>[1] = t /\ <<w>> \o <<t>> = <<w, t>>
<1> DEFINE S == {w, t}
           cut == SubSeq(<<w, t>>, 1, 1)
           joined == <<w>> \o <<t>>
<1>1. Len(<<w, t>>) = 2 /\ <<w, t>>[2] = t /\ Len(<<t>>) = 1 /\ <<t>>[1] = t
  OBVIOUS
<1>2. <<w>> \in Seq(S) /\ <<t>> \in Seq(S) /\ <<w, t>> \in Seq(S)
  OBVIOUS
<1>3. <<w, t>>[1] = w /\ <<w>>[1] = w /\ Len(<<w>>) = 1
  OBVIOUS
<1>4. \A i \in 1..1 : <<w, t>>[i] \in S
  BY <1>3
<1> HIDE DEF S
<1>5. cut \in Seq(S) /\ Len(cut) = 1 /\ \A i \in 1..1 : cut[i] = <<w, t>>[1 + i - 1]
  BY <1>4, SubSeqProperties
<1>6. joined \in Seq(S) /\ Len(joined) = 2
      /\ \A i \in 1..2 : joined[i] = IF i <= 1 THEN <<w>>[i] ELSE <<t>>[i - 1]
  BY <1>1, <1>2, <1>3, ConcatProperties
<1> HIDE DEF cut, joined
<1>7. cut[1] = w
  BY <1>3, <1>5
<1>8. joined[1] = w /\ joined[2] = t
  BY <1>1, <1>3, <1>6
<1>9. \A i \in 1..Len(cut) : cut[i] = <<w>>[i]
  <2> SUFFICES ASSUME NEW i \in 1..Len(cut) PROVE cut[i] = <<w>>[i]
    OBVIOUS
  <2>1. i = 1
    BY <1>5
  <2> QED
    BY <2>1, <1>3, <1>7
<1>10. \A i \in 1..Len(joined) : joined[i] = <<w, t>>[i]
  <2> SUFFICES ASSUME NEW i \in 1..Len(joined) PROVE joined[i] = <<w, t>>[i]
    OBVIOUS
  <2>1. i = 1 \/ i = 2
    BY <1>6
  <2> QED
    BY <2>1, <1>1, <1>3, <1>8
<1>11. cut = <<w>>
  BY <1>2, <1>3, <1>5, <1>9, SeqEqual
<1>12. joined = <<w, t>>
  BY <1>1, <1>2, <1>6, <1>10, SeqEqual
<1> QED
  BY <1>1, <1>11, <1>12 DEF cut, joined

LEMMA RegistryIsSound == ToolboxInv => Box!RegistrySound
<1> SUFFICES ASSUME ToolboxInv, NEW n \in DOMAIN tools
             PROVE  /\ tools[n].kind = first[n].kind
                    /\ n \in {<<b>> : b \in Box!AlwaysThere} => tools[n].kind = "builtin"
                    /\ tools[n].kind = "mcp" =>
                         /\ tools[n].server = SubSeq(n, 1, Len(n) - 1)
                         /\ Box!approval_required(tools[n].inner) => Box!approval_required(n)
  BY DEF Box!RegistrySound
<1>1. tools[n].kind = first[n].kind
  BY DEF ToolboxInv
<1>2. ASSUME NEW b \in Box!AlwaysThere, n = <<b>> PROVE tools[n].kind = "builtin"
  <2>1. tpc # "builtin"
    BY DEF ToolboxInv
  <2> QED
    BY <1>2, <2>1 DEF ToolboxInv
<1>3. ASSUME tools[n].kind = "mcp"
      PROVE  /\ tools[n].server = SubSeq(n, 1, Len(n) - 1)
             /\ Box!approval_required(tools[n].inner) => Box!approval_required(n)
  <2>1. Registered(n, tools[n])
    BY <1>3 DEF ToolboxInv
  <2>2. PICK w \in Word, t \in Word :
          n = <<w, t>> /\ tools[n].server = <<w>> /\ tools[n].inner = <<t>>
    BY <1>3, <2>1 DEF Registered
  <2>3. n[Len(n)] = t /\ tools[n].inner[Len(tools[n].inner)] = t
    BY <2>2, TwoWords
  <2>4. Len(n) - 1 = 1
    BY <2>2, TwoWords
  <2>5. SubSeq(n, 1, Len(n) - 1) = <<w>>
    BY <2>2, <2>4, TwoWords
  <2> QED
    BY <2>2, <2>3, <2>5 DEF Box!approval_required
<1> QED
  BY <1>1, <1>2, <1>3

\* New tools whose names are taken by none of another kind.
LEMMA RegisterKeeps ==
  ASSUME ToolboxInv, NEW new, Box!Register(new), tpc' \in {"mcp", "op_tools"},
         tpc = "op_tools" => tpc' = "op_tools",
         tpc = "builtin" => \A b \in Box!AlwaysThere : <<b>> \in DOMAIN new,
         \A n \in DOMAIN new :
           /\ Registered(n, new[n]) \/ (tpc' = "op_tools" /\ new[n].kind = "op_tool")
           /\ n \in DOMAIN tools => new[n].kind = tools[n].kind,
         \A b \in Box!AlwaysThere : <<b>> \in DOMAIN new => new[<<b>>].kind = "builtin"
  PROVE  ToolboxInv'
<1>1. /\ DOMAIN tools' = DOMAIN tools \cup DOMAIN new
      /\ \A n \in DOMAIN tools' : tools'[n] = IF n \in DOMAIN new THEN new[n] ELSE tools[n]
  BY DEF Box!Register
<1>2. /\ DOMAIN first' = DOMAIN first \cup DOMAIN new
      /\ \A n \in DOMAIN first' : first'[n] = IF n \in DOMAIN first THEN first[n] ELSE new[n]
  BY DEF Box!Register
<1>3. DOMAIN first = DOMAIN tools /\ DOMAIN first' = DOMAIN tools'
  BY <1>1, <1>2 DEF ToolboxInv
<1>4. ASSUME NEW b \in Box!AlwaysThere
      PROVE  <<b>> \in DOMAIN tools' /\ tools'[<<b>>].kind = "builtin"
  BY <1>1 DEF ToolboxInv
<1>5. ASSUME NEW n \in DOMAIN tools'
      PROVE  /\ tools'[n].kind = first'[n].kind
             /\ \/ Registered(n, tools'[n])
                \/ tpc' = "op_tools" /\ tools'[n].kind = "op_tool"
  <2>1. CASE n \in DOMAIN new
    BY <1>1, <1>2, <1>3, <2>1 DEF ToolboxInv
  <2>2. CASE n \notin DOMAIN new
    BY <1>1, <1>2, <1>3, <2>2 DEF ToolboxInv
  <2> QED
    BY <2>1, <2>2
<1> QED
  BY <1>3, <1>4, <1>5 DEF ToolboxInv

LEMMA ToolboxStep ==
  ASSUME ToolboxInv, Box!Next
  PROVE  ToolboxInv'
<1>1. CASE Box!RegisterBuiltins
  <2> DEFINE names == {<<b>> : b \in Box!AlwaysThere
                                   \cup (IF search_url THEN {"web_search"} ELSE {})}
             new == [n \in names |-> [kind |-> "builtin", server |-> <<>>, inner |-> n]]
  <2>1. /\ Box!Register(new) /\ tpc = "builtin" /\ tpc' = "mcp" /\ DOMAIN new = names
        /\ \A n \in names : new[n].kind = "builtin"
    BY <1>1 DEF Box!RegisterBuiltins
  <2>2. \A b \in Box!AlwaysThere : <<b>> \in names
    OBVIOUS
  <2>3. \A n \in names : \E w \in Box!Builtin : n = <<w>>
    BY DEF Box!Builtin
  <2>4. DOMAIN tools = {}
    BY <2>1 DEF ToolboxInv
  <2> HIDE DEF new, names
  <2> QED
    BY <2>1, <2>2, <2>3, <2>4, RegisterKeeps DEF Registered
<1>2. ASSUME NEW s \in Box!Server, NEW advertised \in SUBSET {<<w>> : w \in Word},
             Box!ConnectServer(s, advertised)
      PROVE  ToolboxInv'
  <2> DEFINE allowed == Box!filter_allowed(advertised, s.allow_tools)
             names == {Box!namespaced(s.name, t) : t \in allowed}
             inner(n) == CHOOSE t \in allowed : Box!namespaced(s.name, t) = n
             new == [n \in names |-> [kind |-> "mcp", server |-> s.name, inner |-> inner(n)]]
  <2>1. Box!Register(new) /\ tpc = "mcp" /\ tpc' = "mcp" /\ DOMAIN new = names
    BY <1>2 DEF Box!ConnectServer
  <2>2. PICK v \in Word : s.name = <<v>>
    BY DEF Box!Server
  <2>3. \A t \in allowed : \E w \in Word : t = <<w>>
    BY DEF Box!filter_allowed
  <2>4. ASSUME NEW n \in names
        PROVE  Registered(n, new[n]) /\ new[n].kind = "mcp"
    <3>1. inner(n) \in allowed /\ Box!namespaced(s.name, inner(n)) = n
      <4> HIDE DEF allowed
      <4> QED
        OBVIOUS
    <3>2. new[n] = [kind |-> "mcp", server |-> s.name, inner |-> inner(n)]
      OBVIOUS
    <3> HIDE DEF inner, allowed, names, new
    <3>3. PICK w \in Word : inner(n) = <<w>>
      BY <2>3, <3>1
    <3>4. n = <<v, w>>
      BY <2>2, <3>1, <3>3, TwoWords DEF Box!namespaced
    <3> QED
      BY <2>2, <3>2, <3>3, <3>4 DEF Registered
  <2> HIDE DEF new, names
  <2>5. \A n \in names : n \in DOMAIN tools => tools[n].kind = "mcp"
    <3> SUFFICES ASSUME NEW n \in names, n \in DOMAIN tools PROVE tools[n].kind = "mcp"
      OBVIOUS
    <3>1. \E w, t \in Word : n = <<w, t>>
      BY <2>4 DEF Registered
    <3>2. ~\E w : n = <<w>>
      BY <3>1
    <3> QED
      BY <2>1, <3>2 DEF ToolboxInv, Registered
  <2>6. \A b \in Box!AlwaysThere : <<b>> \notin names
    BY <2>4 DEF Registered
  <2> QED
    BY <2>1, <2>4, <2>5, <2>6, RegisterKeeps
<1>3. ASSUME NEW ot \in Box!OpTool, Box!RegisterOpTool(ot)
      PROVE  ToolboxInv'
  <2>1. CASE UNCHANGED <<tools, first>>
    BY <1>3, <2>1 DEF Box!RegisterOpTool, ToolboxInv, Registered
  <2>2. CASE ~UNCHANGED <<tools, first>>
    <3> DEFINE new == [n \in {ot.name} |->
                         [kind |-> "op_tool", server |-> <<>>, inner |-> n]]
    <3>1. /\ Box!Register(new) /\ ot.name \notin DOMAIN tools
          /\ tpc = "op_tools" /\ tpc' = "op_tools"
      BY <1>3, <2>2 DEF Box!RegisterOpTool
    <3>2. DOMAIN new = {ot.name} /\ \A n \in DOMAIN new : new[n].kind = "op_tool"
      OBVIOUS
    <3>3. \A b \in Box!AlwaysThere : <<b>> \notin DOMAIN new
      BY <3>1, <3>2 DEF ToolboxInv
    <3> HIDE DEF new
    <3> QED
      BY <3>1, <3>2, <3>3, RegisterKeeps
  <2> QED
    BY <2>1, <2>2
<1>4. CASE Box!SkipServer
  BY <1>4 DEF Box!SkipServer, ToolboxInv, Registered
<1>5. CASE Box!ServersDone
  BY <1>5 DEF Box!ServersDone, ToolboxInv, Registered
<1> QED
  BY <1>1, <1>2, <1>3, <1>4, <1>5 DEF Box!Next

\* For any words, servers and op_tools, however a server names its tools: a name
\* of the registry stands for the tool that it says, and one that is called like a
\* tool behind the approval gate is behind it (setup.rs build_registry, mcp.rs).
THEOREM NamesStandForTools == Spec => []RegistrySound
<1>1. Init => ToolboxInv
  BY DEF Init, Box!Init, ToolboxInv
<1>2. ToolboxInv /\ [Next]_vars => ToolboxInv'
  <2> SUFFICES ASSUME ToolboxInv, [Next]_vars
               PROVE  ToolboxInv'
    OBVIOUS
  <2>1. CASE Box!Next
    BY <2>1, ToolboxStep
  <2>2. CASE UNCHANGED toolboxVars
    BY <2>2 DEF toolboxVars, ToolboxInv, Registered
  <2>3. Box!Next \/ UNCHANGED toolboxVars
    BY DEF Next, Of, DeliveryNext, McpNext, ToolboxNext, EgressNext, ExecutionNext,
           DialogueNext, ScheduleNext, FileToolsNext, vars, ofDelivery, ofMcp, ofExecution
  <2> QED
    BY <2>1, <2>2, <2>3
<1>3. ToolboxInv => RegistrySound
  BY RegistryIsSound DEF RegistrySound
<1> QED
  BY <1>1, <1>2, <1>3, PTL DEF Spec
-----------------------------------------------------------------------------
(* Schedule: induction, loops, products and remainders.                    *)

\* Induction over the natural numbers, with a set for the predicate.
LEMMA InductionOverNat ==
  ASSUME NEW S \in SUBSET Nat, 0 \in S, \A n \in S : n + 1 \in S
  PROVE  S = Nat
<1> DEFINE R == OpToRel(<, Nat)
<1>1. IsWellFoundedOn(R, Nat)
  BY NatLessThanWellFounded
<1> SUFFICES ASSUME Nat \ S # {} PROVE FALSE
  OBVIOUS
<1>2. Nat \ S \subseteq Nat
  OBVIOUS
<1> HIDE DEF R
<1>3. PICK x \in Nat \ S : \A y \in Nat \ S : ~(<<y, x>> \in R)
  BY <1>1, <1>2, WFMin
<1>4. x # 0 /\ x - 1 \in Nat \ S
  BY <1>3
<1>5. <<x - 1, x>> \in R
  BY <1>4 DEF R, OpToRel
<1> QED
  BY <1>3, <1>4, <1>5

\* A loop of n steps that starts with a, and what it has after each of them.
Steps(S, a, n, step) == a \in S /\ \A k \in 1..n, x \in S : step[k][x] \in S

Loops(f, S, a, n, step) ==
  f \in [0..n -> S] /\ f[0] = a /\ \A k \in 1..n : f[k] = step[k][f[k - 1]]

LEMMA LoopExists ==
  ASSUME NEW S, NEW a, NEW n \in Nat, NEW step, Steps(S, a, n, step)
  PROVE  \E f : Loops(f, S, a, n, step)
<1> USE DEF Steps
<1> DEFINE Is(f, m) ==
             f \in [0..m -> S] /\ f[0] = a /\ \A k \in 1..m : f[k] = step[k][f[k - 1]]
           T == {m \in Nat : m <= n => \E f : Is(f, m)}
<1>1. 0 \in T
  <2>1. Is([k \in 0..0 |-> a], 0)
    OBVIOUS
  <2> QED
    BY <2>1
<1>2. ASSUME NEW m \in T PROVE m + 1 \in T
  <2> SUFFICES ASSUME m + 1 <= n PROVE \E f : Is(f, m + 1)
    OBVIOUS
  <2>1. m \in Nat /\ m <= n /\ m + 1 \in 1..n /\ m \in 0..m
    OBVIOUS
  <2>2. PICK f : Is(f, m)
    BY <2>1
  <2> DEFINE v == step[m + 1][f[m]]
             g == [k \in 0..m + 1 |-> IF k = m + 1 THEN v ELSE f[k]]
  <2>3. v \in S
    <3>1. f[m] \in S
      BY <2>1, <2>2
    <3> QED
      BY <2>1, <3>1
  <2> HIDE DEF v
  <2>4. \A k \in 0..m + 1 : k # m + 1 => k \in 0..m
    BY <2>1
  <2>5. g \in [0..m + 1 -> S] /\ g[0] = a
    BY <2>1, <2>2, <2>3, <2>4
  <2>6. ASSUME NEW k \in 1..m + 1 PROVE g[k] = step[k][g[k - 1]]
    <3>1. k \in 0..m + 1 /\ k - 1 \in 0..m + 1 /\ k - 1 # m + 1 /\ k - 1 \in 0..m
      BY <2>1
    <3>2. g[k - 1] = f[k - 1]
      BY <3>1
    <3>3. CASE k = m + 1
      <4>1. g[k] = v /\ k - 1 = m
        BY <2>1, <3>1, <3>3
      <4> QED
        BY <3>2, <3>3, <4>1 DEF v
    <3>4. CASE k # m + 1
      <4>1. k \in 1..m /\ g[k] = f[k]
        BY <2>1, <3>1, <3>4
      <4> QED
        BY <2>2, <3>2, <4>1
    <3> QED
      BY <3>3, <3>4
  <2> HIDE DEF g
  <2>7. Is(g, m + 1)
    BY <2>5, <2>6
  <2> QED
    BY <2>7
<1>3. T = Nat
  <2>1. T \in SUBSET Nat
    OBVIOUS
  <2> HIDE DEF T
  <2> QED
    BY <1>1, <1>2, <2>1, InductionOverNat
<1>4. \E f : Is(f, n)
  <2>1. n \in {m \in Nat : m <= n => \E f : Is(f, m)}
    BY <1>3
  <2> HIDE DEF Is
  <2> QED
    BY <2>1
<1> QED
  BY <1>4 DEF Loops

\* A function that is defined like a loop stays in S.
Follows(f, S, a, n, step) ==
  f[0] = a /\ \A k \in 1..n : f[k - 1] \in S => f[k] = step[k][f[k - 1]]

LEMMA LoopStays ==
  ASSUME NEW S, NEW a, NEW n \in Nat, NEW step, Steps(S, a, n, step),
         NEW f, Follows(f, S, a, n, step)
  PROVE  \A k \in 0..n : f[k] \in S
<1> USE DEF Follows
<1> DEFINE T == {k \in Nat : k <= n => f[k] \in S}
<1>1. 0 \in T
  BY DEF Steps
<1>2. ASSUME NEW k \in T PROVE k + 1 \in T
  <2> SUFFICES ASSUME k + 1 <= n PROVE f[k + 1] \in S
    OBVIOUS
  <2>1. k \in Nat /\ f[k] \in S /\ k + 1 \in 1..n /\ (k + 1) - 1 = k
    OBVIOUS
  <2>2. f[k + 1] = step[k + 1][f[k]]
    BY <2>1
  <2> QED
    BY <2>1, <2>2 DEF Steps
<1>3. T = Nat
  <2>1. T \in SUBSET Nat
    OBVIOUS
  <2> HIDE DEF T
  <2> QED
    BY <1>1, <1>2, <2>1, InductionOverNat
<1> QED
  BY <1>3

LEMMA ProductGrows ==
  ASSUME NEW a \in Nat, NEW b \in Nat, NEW c \in Nat, a <= b
  PROVE  a * c <= b * c /\ a * c \in Nat /\ b * c \in Nat
OBVIOUS

LEMMA DivisionIs ==
  ASSUME NEW c \in Nat \ {0}, NEW n \in Nat
  PROVE  /\ n % c \in 0..c - 1 /\ (n < c => n % c = n)
         /\ n \div c \in Nat /\ n = c * (n \div c) + (n % c)
OBVIOUS

LEMMA RemainderIs ==
  ASSUME NEW c \in Nat \ {0}, NEW q \in Nat, NEW r \in 0..c - 1
  PROVE  (c * q + r) % c = r
OBVIOUS

LEMMA RemainderOfSum ==
  ASSUME NEW c \in Nat \ {0}, NEW n \in Nat, NEW p \in Nat
  PROVE  (n + p) % c = ((n % c) + p) % c
<1> DEFINE q == n \div c
           r == n % c
           k == (r + p) \div c
           s == (r + p) % c
<1>1. q \in Nat /\ r \in Nat /\ n = c * q + r
  BY DivisionIs
<1> HIDE DEF q, r
<1>2. k \in Nat /\ s \in 0..c - 1 /\ r + p = c * k + s
  BY <1>1, DivisionIs
<1> HIDE DEF k, s
<1>3. c * (q + k) = c * q + c * k /\ c * q \in Nat /\ c * k \in Nat
  BY <1>1, <1>2
<1>4. n + p = c * (q + k) + s
  <2> DEFINE x == c * q
             y == c * k
             z == c * (q + k)
  <2>1. x \in Nat /\ y \in Nat /\ z = x + y /\ n = x + r /\ r + p = y + s /\ s \in Nat
    BY <1>1, <1>2, <1>3
  <2> HIDE DEF x, y, z
  <2>2. n + p = z + s
    BY <1>1, <2>1
  <2> QED
    BY <2>2 DEF z
<1>5. (c * (q + k) + s) % c = s
  <2> DEFINE u == q + k
  <2>1. u \in Nat
    BY <1>1, <1>2
  <2> HIDE DEF u
  <2>2. (c * u + s) % c = s
    BY <1>2, <2>1, RemainderIs
  <2> QED
    BY <2>2 DEF u
<1> QED
  BY <1>4, <1>5 DEF s, r

-----------------------------------------------------------------------------
(* The slots of an expression.                                             *)

Slot(e, n) == n % Sch!Cycle \in Sch!Slots(e)

LEMMA CycleIs ==
  /\ Sch!Cycle \in Nat \ {0} /\ Hour \in Nat \ {0} /\ Day \in Nat \ {0} /\ Week \in Nat \ {0}
  /\ Day * Hour \in Nat \ {0}
  /\ Hour <= Sch!Cycle /\ Day * Hour <= Sch!Cycle
<1>1. Hour \in Nat \ {0} /\ Day \in Nat \ {0} /\ Week \in Nat \ {0}
  BY ExchangesAssumption DEF Sch!ScheduleAssumption
<1>2. \A a \in Nat \ {0}, b \in Nat \ {0} : a * b \in Nat \ {0} /\ b <= a * b
  OBVIOUS
<1>3. \A a \in Nat, b \in Nat, c \in Nat : (a * b) * c = a * (b * c)
  OBVIOUS
<1>4. Sch!Cycle = Week * (Day * Hour)
  BY <1>1, <1>3 DEF Sch!Cycle
<1>5. Day * Hour \in Nat \ {0} /\ Hour <= Day * Hour
  BY <1>1, <1>2
<1> DEFINE d == Day * Hour
<1> HIDE DEF d
<1>6. Week * d \in Nat \ {0} /\ d <= Week * d
  BY <1>1, <1>2, <1>5 DEF d
<1>7. Sch!Cycle = Week * d /\ Hour <= d /\ d \in Nat
  BY <1>4, <1>5 DEF d
<1>8. Sch!Cycle \in Nat \ {0} /\ Hour <= Sch!Cycle /\ d <= Sch!Cycle
  <2> DEFINE w == Week * d
  <2>1. w \in Nat \ {0} /\ d <= w /\ Sch!Cycle = w
    BY <1>6, <1>7
  <2> HIDE DEF w
  <2> QED
    BY <1>1, <1>7, <2>1
<1> QED
  BY <1>1, <1>5, <1>8 DEF d

\* A slot lies in the cycle.
LEMMA SlotsAre ==
  ASSUME NEW e \in Sch!Expr
  PROVE  Sch!Slots(e) \subseteq 0..Sch!Cycle - 1
<1> SUFFICES ASSUME NEW m \in e.minutes, NEW h \in e.hours, NEW d \in e.days
             PROVE  (d * Day + h) * Hour + m \in 0..Sch!Cycle - 1
  BY DEF Sch!Slots
<1>1. /\ m \in 0..Hour - 1 /\ h \in 0..Day - 1 /\ d \in 0..Week - 1
      /\ Hour \in Nat /\ Day \in Nat /\ Week \in Nat
  BY CycleIs DEF Sch!Expr
<1> DEFINE x == d * Day
           y == Week * Day
           v == x + h
           z == v * Hour
           w == y * Hour
<1>2. x \in Nat /\ y \in Nat /\ v + 1 <= y
  <2>1. d + 1 \in Nat /\ d \in Nat /\ d + 1 <= Week
    BY <1>1
  <2>2. (d + 1) * Day <= Week * Day /\ y \in Nat
    BY <1>1, <2>1, ProductGrows
  <2>3. (d + 1) * Day = x + Day /\ x \in Nat
    BY <1>1, <2>1
  <2> DEFINE u == (d + 1) * Day
  <2>4. u <= y /\ u = x + Day
    BY <2>2, <2>3
  <2> HIDE DEF u, x, y
  <2> QED
    BY <1>1, <2>2, <2>3, <2>4
<1> HIDE DEF x, y
<1>3. v \in Nat /\ v + 1 <= y
  BY <1>1, <1>2
<1> HIDE DEF v
<1>4. (v + 1) * Hour <= y * Hour /\ (v + 1) * Hour = z + Hour /\ z \in Nat /\ w \in Nat
  <2>1. (v + 1) * Hour <= y * Hour /\ w \in Nat
    BY <1>1, <1>2, <1>3, ProductGrows
  <2>2. (v + 1) * Hour = z + Hour /\ z \in Nat
    BY <1>1, <1>3
  <2> QED
    BY <2>1, <2>2
<1>5. z + Hour <= w
  BY <1>4
<1> HIDE DEF z, w
<1>6. z + m \in 0..w - 1
  BY <1>1, <1>4, <1>5
<1>7. w = Sch!Cycle
  BY DEF w, y, Sch!Cycle
<1> QED
  BY <1>6, <1>7 DEF z, v, x

\* There is a next slot within a cycle, and none before it.
LEMMA NextFireIs ==
  ASSUME NEW e \in Sch!Expr, Sch!Fires(e), NEW after \in Nat
  PROVE  LET t == Sch!next_fire_unix(e, after)
         IN /\ t \in Nat /\ t > after /\ Slot(e, t)
            /\ \A u \in Nat : after < u /\ u < t => ~Slot(e, u)
<1> DEFINE c == Sch!Cycle
           S == {t \in (after + 1)..(after + c) : Slot(e, t)}
           R == OpToRel(<, Nat)
           Is(t) == /\ t % c \in Sch!Slots(e)
                    /\ \A u \in (after + 1)..(t - 1) : u % c \notin Sch!Slots(e)
           t == Sch!next_fire_unix(e, after)
<1>1. c \in Nat \ {0}
  BY CycleIs
<1>2. PICK v \in 0..c - 1 : v \in Sch!Slots(e)
  BY SlotsAre DEF Sch!Fires
<1>3. S # {} /\ S \subseteq Nat
  <2> HIDE DEF c
  <2> DEFINE r == after % c
             q == after \div c
             x == c * q
  <2>1. r \in 0..c - 1 /\ q \in Nat /\ after = x + r /\ x \in Nat
    <3>1. r \in 0..c - 1 /\ q \in Nat /\ after = c * q + r
      BY <1>1, DivisionIs
    <3> HIDE DEF r, q
    <3>2. c * q \in Nat
      BY <1>1, <3>1
    <3> QED
      BY <3>1, <3>2
  <2>2. c * (q + 1) = x + c
    BY <1>1, <2>1
  <2>3. (x + v) % c = v
    BY <1>1, <1>2, <2>1, RemainderIs
  <2>4. ((x + c) + v) % c = v
    <3> DEFINE u == q + 1
    <3>1. (c * u + v) % c = v
      <4>1. u \in Nat
        BY <2>1
      <4> HIDE DEF u
      <4> QED
        BY <1>1, <1>2, <4>1, RemainderIs
    <3> QED
      BY <2>2, <3>1
  <2> HIDE DEF r, q, x
  <2>5. x + v \in (after + 1)..(after + c) \/ (x + c) + v \in (after + 1)..(after + c)
    BY <1>1, <1>2, <2>1
  <2> QED
    BY <1>1, <1>2, <2>3, <2>4, <2>5 DEF Slot, c
<1>4. PICK y \in S : \A z \in S : ~(<<z, y>> \in R)
  <2>1. IsWellFoundedOn(R, Nat)
    BY NatLessThanWellFounded
  <2> HIDE DEF R, S
  <2> QED
    BY <1>3, <2>1, WFMin
<1>5. \A z \in S : ~(z < y)
  BY <1>3, <1>4 DEF R, OpToRel
<1>6. y \in (after + 1)..(after + c) /\ Is(y)
  <2>1. y \in (after + 1)..(after + c) /\ y % c \in Sch!Slots(e)
    BY DEF Slot
  <2>2. ASSUME NEW u \in (after + 1)..(y - 1) PROVE u % c \notin Sch!Slots(e)
    <3>1. u \in (after + 1)..(after + c) /\ u < y
      BY <1>1, <2>1
    <3> QED
      BY <1>5, <3>1 DEF Slot
  <2> QED
    BY <2>1, <2>2
<1>7. t = CHOOSE x \in (after + 1)..(after + c) : Is(x)
  BY DEF Sch!next_fire_unix
<1>8. t \in (after + 1)..(after + c) /\ Is(t)
  <2> HIDE DEF Is, t
  <2> QED
    BY <1>6, <1>7
<1> HIDE DEF t, c
<1>9. t \in Nat /\ t > after /\ \A u \in Nat : after < u /\ u < t => u \in (after + 1)..(t - 1)
  BY <1>1, <1>8
<1> QED
  BY <1>8, <1>9 DEF Slot, t, c

-----------------------------------------------------------------------------
(* The sample that validate_cron looks at.                                 *)

LEMMA SampleIs ==
  ASSUME NEW e \in Sch!Expr, Sch!Fires(e), NEW n \in Nat
  PROVE  LET s == Sch!Sample(e, n)
         IN \A k \in 1..n : s[k] = Sch!next_fire_unix(e, IF k = 1 THEN 0 ELSE s[k - 1])
<1> DEFINE Nf(a) == Sch!next_fire_unix(e, a)
           Is(g) == g = [k \in 0..n |-> IF k = 0 THEN 0 ELSE Nf(g[k - 1])]
           f == CHOOSE g : Is(g)
           s == Sch!Sample(e, n)
           step == [k \in 1..n |-> [a \in Nat |-> Nf(a)]]
<1>1. s = [k \in 1..n |-> f[k]]
  BY DEF Sch!Sample
<1>2. \E g : Is(g)
  <2>1. \A a \in Nat : Nf(a) \in Nat
    BY NextFireIs
  <2> HIDE DEF Nf
  <2>2. Steps(Nat, 0, n, step)
    BY <2>1 DEF Steps
  <2>3. \A k \in 1..n, a \in Nat : step[k][a] = Nf(a)
    OBVIOUS
  <2> HIDE DEF step, f, s
  <2>4. PICK g : Loops(g, Nat, 0, n, step)
    BY <2>2, LoopExists
  <2>5. ASSUME NEW k \in 0..n PROVE g[k] = IF k = 0 THEN 0 ELSE Nf(g[k - 1])
    <3>1. CASE k = 0
      BY <2>4, <3>1 DEF Loops
    <3>2. CASE k # 0
      <4>1. k \in 1..n /\ k - 1 \in 0..n
        BY <3>2
      <4>2. g[k - 1] \in Nat /\ g[k] = step[k][g[k - 1]]
        BY <2>4, <4>1 DEF Loops
      <4> QED
        BY <2>3, <3>2, <4>1, <4>2
    <3> QED
      BY <3>1, <3>2
  <2>6. g = [k \in 0..n |-> g[k]]
    BY <2>4 DEF Loops
  <2>7. Is(g)
    BY <2>5, <2>6
  <2> QED
    BY <2>7
<1>3. Is(f)
  <2> HIDE DEF Is
  <2> QED
    BY <1>2
<1> HIDE DEF f, s, Nf
<1>4. \A k \in 0..n : f[k] = IF k = 0 THEN 0 ELSE Nf(f[k - 1])
  BY <1>3
<1> HIDE DEF Is
<1>5. ASSUME NEW k \in 1..n PROVE s[k] = Nf(IF k = 1 THEN 0 ELSE s[k - 1])
  <2>1. s[k] = f[k] /\ f[k] = Nf(f[k - 1])
    BY <1>1, <1>4
  <2>2. CASE k = 1
    <3>1. f[k - 1] = 0
      BY <1>4, <2>2
    <3> QED
      BY <2>1, <2>2, <3>1
  <2>3. CASE k # 1
    <3>1. k - 1 \in 1..n
      BY <2>3
    <3>2. s[k - 1] = f[k - 1]
      BY <1>1, <3>1
    <3> QED
      BY <2>1, <2>3, <3>2
  <2> QED
    BY <2>2, <2>3
<1> QED
  BY <1>5 DEF s, Nf

\* The slots up to a minute, counted.
Upto(e, x) == {u \in 1..x : Slot(e, u)}

LEMMA UptoIs ==
  ASSUME NEW e, NEW x \in Nat
  PROVE  IsFiniteSet(Upto(e, x)) /\ Cardinality(Upto(e, x)) \in Nat
<1>1. IsFiniteSet(1..x) /\ Upto(e, x) \subseteq 1..x
  BY FS_Interval DEF Upto
<1> QED
  BY <1>1, FS_Subset, FS_CardinalityType

LEMMA UptoNext ==
  ASSUME NEW e \in Sch!Expr, Sch!Fires(e), NEW x \in Nat
  PROVE  Cardinality(Upto(e, Sch!next_fire_unix(e, x))) = Cardinality(Upto(e, x)) + 1
<1> DEFINE t == Sch!next_fire_unix(e, x)
<1>1. t \in Nat /\ t > x /\ Slot(e, t) /\ \A u \in Nat : x < u /\ u < t => ~Slot(e, u)
  BY NextFireIs
<1> HIDE DEF t
<1>2. Upto(e, t) = Upto(e, x) \cup {t}
  <2>1. ASSUME NEW u \in Upto(e, t) PROVE u \in Upto(e, x) \cup {t}
    BY <1>1 DEF Upto
  <2>2. ASSUME NEW u \in Upto(e, x) \cup {t} PROVE u \in Upto(e, t)
    BY <1>1 DEF Upto
  <2> QED
    BY <2>1, <2>2
<1>3. t \notin Upto(e, x)
  BY <1>1 DEF Upto
<1>4. Cardinality(Upto(e, x) \cup {t}) = Cardinality(Upto(e, x)) + 1
  BY <1>3, UptoIs, FS_AddElement
<1> QED
  BY <1>2, <1>4 DEF t

LEMMA UptoGrows ==
  ASSUME NEW e, NEW x \in Nat, NEW y \in Nat, x < y, Slot(e, y)
  PROVE  Cardinality(Upto(e, x)) + 1 <= Cardinality(Upto(e, y))
<1>1. Upto(e, x) \cup {y} \subseteq Upto(e, y) /\ y \notin Upto(e, x)
  BY DEF Upto
<1>2. Cardinality(Upto(e, x) \cup {y}) = Cardinality(Upto(e, x)) + 1
  BY <1>1, UptoIs, FS_AddElement
<1>3. Cardinality(Upto(e, x) \cup {y}) <= Cardinality(Upto(e, y))
  BY <1>1, UptoIs, FS_Subset
<1> QED
  BY <1>2, <1>3

\* The k-th of the sample is the k-th slot.
LEMMA SampleCounts ==
  ASSUME NEW e \in Sch!Expr, Sch!Fires(e), NEW n \in Nat
  PROVE  LET s == Sch!Sample(e, n)
         IN \A k \in 1..n : s[k] \in Nat /\ Slot(e, s[k]) /\ Cardinality(Upto(e, s[k])) = k
<1> DEFINE s == Sch!Sample(e, n)
           Good(k) == s[k] \in Nat /\ Slot(e, s[k]) /\ Cardinality(Upto(e, s[k])) = k
           T == {k \in Nat : k + 1 <= n => Good(k + 1)}
<1>1. \A k \in 1..n : s[k] = Sch!next_fire_unix(e, IF k = 1 THEN 0 ELSE s[k - 1])
  BY SampleIs
<1> HIDE DEF s
<1>2. 0 \in T
  <2> SUFFICES ASSUME 1 <= n PROVE Good(1)
    OBVIOUS
  <2>1. s[1] = Sch!next_fire_unix(e, 0)
    BY <1>1
  <2>2. Upto(e, 0) = {}
    BY DEF Upto
  <2>3. Cardinality(Upto(e, 0)) = 0
    BY <2>2, FS_EmptySet
  <2>4. Cardinality(Upto(e, s[1])) = 1
    BY <2>1, <2>3, UptoNext
  <2>5. s[1] \in Nat /\ Slot(e, s[1])
    BY <2>1, NextFireIs
  <2> QED
    BY <2>4, <2>5
<1>3. ASSUME NEW k \in T PROVE k + 1 \in T
  <2> DEFINE j == k + 1
  <2> SUFFICES ASSUME j + 1 <= n PROVE Good(j + 1)
    OBVIOUS
  <2>1. j \in Nat /\ j + 1 \in 1..n /\ j + 1 # 1 /\ (j + 1) - 1 = j
    OBVIOUS
  <2>2. Good(j)
    <3>1. j <= n
      BY <2>1
    <3> QED
      BY <3>1
  <2> HIDE DEF j
  <2>3. s[j + 1] = Sch!next_fire_unix(e, s[j])
    BY <1>1, <2>1
  <2>4. Cardinality(Upto(e, s[j + 1])) = j + 1
    BY <2>2, <2>3, UptoNext
  <2>5. s[j + 1] \in Nat /\ Slot(e, s[j + 1])
    BY <2>2, <2>3, NextFireIs
  <2> QED
    BY <2>4, <2>5
<1>4. T = Nat
  <2>1. T \in SUBSET Nat
    OBVIOUS
  <2> HIDE DEF T
  <2> QED
    BY <1>2, <1>3, <2>1, InductionOverNat
<1>5. ASSUME NEW k \in 1..n PROVE Good(k)
  <2> DEFINE j == k - 1
  <2>1. j \in Nat /\ j + 1 = k /\ j + 1 <= n
    OBVIOUS
  <2> HIDE DEF j
  <2>2. Good(j + 1)
    BY <1>4, <2>1
  <2> QED
    BY <2>1, <2>2, Zenon
<1> QED
  BY <1>5 DEF s

-----------------------------------------------------------------------------
(* The slots of a job.                                                     *)

\* The slots repeat after a period, of which the sample holds all and one more.
Period(e, p) ==
  /\ p \in Nat \ {0} /\ p <= Sch!Cycle
  /\ \A n \in Nat : Slot(e, n) <=> Slot(e, n + p)
  /\ Cardinality(Upto(e, p)) < SAMPLE

LEMMA SampledHasPeriod ==
  ASSUME NEW e \in Sch!Expr, Sch!Sampled(e)
  PROVE  \E p : Period(e, p)
<1> DEFINE c == Sch!Cycle
<1>1. c \in Nat \ {0} /\ SAMPLE \in Nat
  BY CycleIs, ExchangesAssumption DEF Sch!ScheduleAssumption
<1>2. \A S : Sch!Cardinality(S) = Cardinality(S)
  BY DEF Sch!Cardinality, Cardinality
<1>3. PICK p \in {Hour, Day * Hour, c} :
        /\ \A n \in 0..c - 1 : n \in Sch!Slots(e) <=> (n + p) % c \in Sch!Slots(e)
        /\ Cardinality({n \in Sch!Slots(e) : n < p}) < SAMPLE
  BY <1>2 DEF Sch!Sampled
<1>4. p \in Nat \ {0} /\ p <= c
  BY CycleIs
<1> HIDE DEF c
<1>5. ASSUME NEW n \in Nat PROVE Slot(e, n) <=> Slot(e, n + p)
  <2>1. n % c \in 0..c - 1
    BY <1>1, DivisionIs
  <2>2. (n + p) % c = ((n % c) + p) % c
    BY <1>1, <1>4, RemainderOfSum
  <2> QED
    BY <1>3, <2>1, <2>2 DEF Slot, c
<1> DEFINE S == {n \in Sch!Slots(e) : n < p}
<1>6. \A n \in Nat : n < p => (Slot(e, n) <=> n \in S)
  <2> SUFFICES ASSUME NEW n \in Nat, n < p PROVE Slot(e, n) <=> n \in S
    OBVIOUS
  <2>1. n % c = n
    BY <1>1, <1>4, DivisionIs
  <2> QED
    BY <2>1 DEF Slot, c
<1>7. S \subseteq 0..p - 1
  <2>1. Sch!Slots(e) \subseteq Nat
    BY <1>1, SlotsAre DEF c
  <2> QED
    BY <1>4, <2>1
<1>8. IsFiniteSet(S) /\ Cardinality(S) \in Nat
  <2>1. IsFiniteSet(0..p - 1)
    BY <1>4, FS_Interval
  <2> HIDE DEF S
  <2> QED
    BY <1>7, <2>1, FS_Subset, FS_CardinalityType
<1>9. Slot(e, p) <=> 0 \in S
  <2>1. Slot(e, 0) <=> Slot(e, 0 + p)
    BY <1>5
  <2> QED
    BY <1>4, <1>6, <2>1
<1> HIDE DEF S
<1> DEFINE T == Upto(e, p)
           f == [n \in T |-> IF n = p THEN 0 ELSE n]
<1>10. \A n \in T : n \in 1..p /\ Slot(e, n)
  BY DEF Upto
<1>11. \A n \in T : f[n] \in S
  <2> SUFFICES ASSUME NEW n \in T PROVE f[n] \in S
    OBVIOUS
  <2>1. CASE n = p
    BY <1>9, <1>10, <2>1
  <2>2. CASE n # p
    BY <1>4, <1>6, <1>10, <2>2
  <2> QED
    BY <2>1, <2>2
<1>12. \A m, n \in T : f[m] = f[n] => m = n
  BY <1>4, <1>10
<1>13. f \in [T -> S]
  BY <1>11
<1> HIDE DEF f
<1>14. f \in Injection(T, S)
  BY <1>12, <1>13 DEF Injection, IsInjective
<1>15. Cardinality(T) <= Cardinality(S)
  BY <1>8, <1>14, FS_Injection
<1>16. Cardinality(T) \in Nat
  BY <1>4, UptoIs
<1>17. Cardinality(T) < SAMPLE
  BY <1>1, <1>3, <1>8, <1>15, <1>16 DEF S
<1> QED
  BY <1>4, <1>5, <1>17 DEF Period, c

\* What the gate lets pass keeps its distance, for ever.
LEMMA SlotsApart ==
  ASSUME NEW e \in Sch!Expr, Sch!validate_cron(e), Sch!Sampled(e),
         NEW s \in Nat, NEW t \in Nat, s < t, Slot(e, s), Slot(e, t)
  PROVE  t - s >= MIN_INTERVAL
<1>1. SAMPLE \in Nat /\ MIN_INTERVAL \in Nat
  BY ExchangesAssumption DEF Sch!ScheduleAssumption
<1> DEFINE fires == Sch!Sample(e, SAMPLE)
<1>2. Sch!Fires(e) /\ \A k \in 2..SAMPLE : fires[k] - fires[k - 1] >= MIN_INTERVAL
  BY DEF Sch!validate_cron
<1>3. \A k \in 1..SAMPLE :
        fires[k] \in Nat /\ Slot(e, fires[k]) /\ Cardinality(Upto(e, fires[k])) = k
  BY <1>1, <1>2, SampleCounts
<1>4. \A k \in 1..SAMPLE :
        fires[k] = Sch!next_fire_unix(e, IF k = 1 THEN 0 ELSE fires[k - 1])
  BY <1>1, <1>2, SampleIs
<1> HIDE DEF fires
<1>5. PICK p : Period(e, p)
  BY SampledHasPeriod
<1>6. p \in Nat \ {0} /\ \A n \in Nat : Slot(e, n) <=> Slot(e, n + p)
  BY <1>5 DEF Period
\* In the first period the two are in the sample.
<1>7. ASSUME NEW x \in 1..p, NEW y \in Nat, x < y, Slot(e, x), Slot(e, y)
      PROVE  y - x >= MIN_INTERVAL
  <2> DEFINE k == Cardinality(Upto(e, x))
  <2>1. k \in 1..SAMPLE /\ k + 1 \in 2..SAMPLE
    <3>1. Upto(e, x) \subseteq Upto(e, p) /\ x \in Nat
      BY <1>6 DEF Upto
    <3>2. k <= Cardinality(Upto(e, p)) /\ Cardinality(Upto(e, p)) \in Nat /\ k \in Nat
      BY <1>6, <3>1, UptoIs, FS_Subset
    <3>3. k >= 1
      <4>1. Cardinality(Upto(e, 0)) \in Nat /\ Cardinality(Upto(e, 0)) + 1 <= k
        BY <1>7, <3>1, UptoIs, UptoGrows
      <4> QED
        BY <3>2, <4>1
    <3> QED
      BY <1>1, <1>5, <3>2, <3>3 DEF Period
  <2> HIDE DEF k
  <2>2. fires[k] = x
    <3>1. fires[k] \in Nat /\ Slot(e, fires[k]) /\ Cardinality(Upto(e, fires[k])) = k
      BY <1>3, <2>1
    <3>2. x \in Nat /\ Cardinality(Upto(e, x)) = k /\ k \in Nat
      BY <1>6, <2>1 DEF k
    <3>3. ~(fires[k] < x)
      BY <1>7, <3>1, <3>2, UptoGrows
    <3>4. ~(x < fires[k])
      BY <1>7, <3>1, <3>2, UptoGrows
    <3> QED
      BY <3>1, <3>2, <3>3, <3>4
  <2>3. fires[k + 1] = Sch!next_fire_unix(e, x)
    <3>1. k + 1 \in 1..SAMPLE /\ k + 1 # 1 /\ (k + 1) - 1 = k
      BY <2>1
    <3> QED
      BY <1>4, <2>2, <3>1
  <2>4. fires[k + 1] - x >= MIN_INTERVAL
    <3>1. k + 1 \in 2..SAMPLE /\ (k + 1) - 1 = k
      BY <2>1
    <3> QED
      BY <1>2, <2>2, <3>1
  <2>5. fires[k + 1] \in Nat /\ ~(y < fires[k + 1])
    <3>1. x \in Nat
      BY <1>6
    <3> QED
      BY <1>2, <1>7, <2>3, <3>1, NextFireIs
  <2> QED
    BY <1>1, <1>6, <2>4, <2>5
\* A pair that is too close would have one in an earlier period.
<1> DEFINE Close(x) == \E y \in Nat : /\ x < y /\ Slot(e, x) /\ Slot(e, y)
                                      /\ ~(y - x >= MIN_INTERVAL)
           S == {n \in Nat : \A x \in 0..n : ~Close(x)}
<1>8. ~Close(0)
  <2> SUFFICES ASSUME Close(0) PROVE FALSE
    OBVIOUS
  <2>1. PICK y \in Nat : 0 < y /\ Slot(e, 0) /\ Slot(e, y) /\ ~(y - 0 >= MIN_INTERVAL)
    OBVIOUS
  <2>2. p \in 1..p /\ y + p \in Nat /\ p < y + p /\ 0 + p = p /\ (y + p) - p = y - 0
    BY <1>6, <2>1
  <2>3. Slot(e, p) /\ Slot(e, y + p)
    BY <1>6, <2>1, <2>2
  <2> QED
    BY <1>7, <2>1, <2>2, <2>3
<1>9. 0 \in S
  BY <1>8
<1>10. ASSUME NEW n \in S PROVE n + 1 \in S
  <2>1. ~Close(n + 1)
    <3> SUFFICES ASSUME Close(n + 1) PROVE FALSE
      OBVIOUS
    <3> DEFINE x == n + 1
    <3>1. x \in Nat /\ x > 0 /\ n \in Nat
      OBVIOUS
    <3>2. PICK y \in Nat : x < y /\ Slot(e, x) /\ Slot(e, y) /\ ~(y - x >= MIN_INTERVAL)
      OBVIOUS
    <3>3. CASE x <= p
      BY <1>6, <1>7, <3>1, <3>2, <3>3
    <3>4. CASE x > p
      <4> DEFINE u == x - p
                 v == y - p
      <4>1. u \in 0..n /\ u \in Nat /\ v \in Nat /\ u < v /\ u + p = x /\ v + p = y
            /\ v - u = y - x
        BY <1>6, <3>1, <3>2, <3>4
      <4> HIDE DEF u, v, x
      <4>2. Slot(e, u) /\ Slot(e, v)
        BY <1>6, <3>2, <4>1
      <4>3. Close(u)
        BY <3>2, <4>1, <4>2
      <4> QED
        BY <4>1, <4>3
    <3> QED
      BY <1>6, <3>1, <3>3, <3>4
  <2>2. \A x \in 0..n + 1 : x \in 0..n \/ x = n + 1
    OBVIOUS
  <2> QED
    BY <2>1, <2>2
<1>11. S = Nat
  <2>1. S \in SUBSET Nat
    OBVIOUS
  <2> HIDE DEF S
  <2> QED
    BY <1>9, <1>10, <2>1, InductionOverNat
<1>12. ~Close(s)
  <2>1. s \in S /\ s \in 0..s
    BY <1>11
  <2> QED
    BY <2>1
<1> QED
  BY <1>1, <1>12

\* An armed expression has passed the gate; the next run is one of its slots, after
\* the last one.
ScheduleInv ==
  IF cron_expr = Sch!NoJob THEN last_slot = 0
  ELSE /\ cron_expr \in Sch!Expr /\ Sch!validate_cron(cron_expr)
       /\ next_run \in Nat /\ Slot(cron_expr, next_run)
       /\ last_slot # 0 =>
            last_slot \in Nat /\ Slot(cron_expr, last_slot) /\ last_slot < next_run

LEMMA AnswerIsExpr ==
  ASSUME NEW reply \in Reply
  PROVE  Sch!nl_to_cron(reply) \in Sch!Expr
<1> DEFINE fives == {k \in 1..Len(reply.lines) : reply.lines[k].fields = 5}
<1>1. reply.lines \in Seq(Sch!Expr) /\ reply.whole \in Sch!Expr
  BY ExchangesAssumption DEF Sch!ScheduleAssumption
<1>2. Sch!nl_to_cron(reply) =
        IF fives = {} THEN reply.whole ELSE reply.lines[Sch!Min(fives)]
  BY DEF Sch!nl_to_cron
<1>3. fives \subseteq Nat
  OBVIOUS
<1>4. \A k \in fives : reply.lines[k] \in Sch!Expr
  BY <1>1
<1> HIDE DEF fives
<1>5. CASE fives = {}
  BY <1>1, <1>2, <1>5
<1>6. CASE fives # {}
  <2> DEFINE R == OpToRel(<, Nat)
  <2>1. IsWellFoundedOn(R, Nat)
    BY NatLessThanWellFounded
  <2> HIDE DEF R
  <2>2. PICK x \in fives : \A y \in fives : ~(<<y, x>> \in R)
    BY <1>3, <1>6, <2>1, WFMin
  <2>3. ASSUME NEW y \in fives PROVE x <= y
    <3>1. x \in Nat /\ y \in Nat /\ ~(<<y, x>> \in R)
      BY <1>3, <2>2
    <3>2. ~(y < x)
      BY <3>1 DEF R, OpToRel
    <3> QED
      BY <3>1, <3>2
  <2>4. Sch!Min(fives) \in fives
    BY <2>3 DEF Sch!Min
  <2> QED
    BY <1>2, <1>4, <1>6, <2>4
<1> QED
  BY <1>5, <1>6

LEMMA ScheduleStep ==
  ASSUME ScheduleInv, Sch!Next
  PROVE  ScheduleInv'
<1>1. CASE Sch!add
  <2>1. PICK reply \in Reply :
          /\ Sch!validate_cron(Sch!nl_to_cron(reply)) /\ cron_expr' = Sch!nl_to_cron(reply)
          /\ \E now \in 0..Sch!Cycle - 1 :
               next_run' = Sch!next_fire_unix(Sch!nl_to_cron(reply), now)
    BY <1>1 DEF Sch!add
  <2> DEFINE e == Sch!nl_to_cron(reply)
  <2>2. e \in Sch!Expr /\ Sch!validate_cron(e) /\ cron_expr' = e
    BY <2>1, AnswerIsExpr
  <2>3. PICK now \in 0..Sch!Cycle - 1 : next_run' = Sch!next_fire_unix(e, now)
    BY <2>1
  <2>4. last_slot' = 0
    BY <1>1 DEF ScheduleInv, Sch!add
  <2> HIDE DEF e
  <2>5. Sch!Fires(e) /\ now \in Nat
    BY <2>2, CycleIs DEF Sch!validate_cron
  <2>6. next_run' \in Nat /\ Slot(e, next_run')
    BY <2>2, <2>3, <2>5, NextFireIs
  <2> QED
    BY <2>2, <2>4, <2>6 DEF ScheduleInv, Slot
<1>2. ASSUME NEW late \in 0..MaxLate, Sch!Fire(late)
      PROVE  ScheduleInv'
  <2>1. /\ cron_expr # Sch!NoJob /\ cron_expr' = cron_expr /\ last_slot' = next_run
        /\ next_run' = Sch!next_fire_unix(cron_expr, next_run + late)
    BY <1>2 DEF Sch!Fire
  <2>2. /\ cron_expr \in Sch!Expr /\ Sch!validate_cron(cron_expr)
        /\ next_run \in Nat /\ Slot(cron_expr, next_run)
    BY <2>1 DEF ScheduleInv
  <2>3. Sch!Fires(cron_expr) /\ late \in Nat /\ next_run + late \in Nat
    BY <2>2, ExchangesAssumption DEF Sch!validate_cron, Sch!ScheduleAssumption
  <2> DEFINE t == Sch!next_fire_unix(cron_expr, next_run + late)
  <2>4. t \in Nat /\ t > next_run + late /\ Slot(cron_expr, t)
    BY <2>2, <2>3, NextFireIs
  <2>5. next_run' = t
    BY <2>1
  <2> HIDE DEF t
  <2>6. next_run < t
    BY <2>2, <2>3, <2>4
  <2> QED
    BY <2>1, <2>2, <2>4, <2>5, <2>6 DEF ScheduleInv, Slot
<1> QED
  BY <1>1, <1>2 DEF Sch!Next

\* For hours, days and weeks of any length, whatever a model answers and however
\* late the ticks are: two slots of an armed job whose period the sample of the gate
\* shows are MIN_INTERVAL apart at all times (schedule.rs validate_cron).
THEOREM JobsKeepInterval == Spec => []SlotsKeepInterval
<1>1. Init => ScheduleInv
  BY DEF Init, Sch!Init, ScheduleInv
<1>2. ScheduleInv /\ [Next]_vars => ScheduleInv'
  <2> SUFFICES ASSUME ScheduleInv, [Next]_vars
               PROVE  ScheduleInv'
    OBVIOUS
  <2>1. CASE Sch!Next
    BY <2>1, ScheduleStep
  <2>2. CASE UNCHANGED scheduleVars
    BY <2>2 DEF scheduleVars, ScheduleInv, Slot
  <2>3. Sch!Next \/ UNCHANGED scheduleVars
    BY DEF Next, Of, DeliveryNext, McpNext, ToolboxNext, EgressNext, ExecutionNext,
           DialogueNext, ScheduleNext, FileToolsNext, vars, ofDelivery, ofMcp, ofExecution
  <2> QED
    BY <2>1, <2>2, <2>3
<1>3. ScheduleInv => SlotsKeepInterval
  <2> SUFFICES ASSUME ScheduleInv, cron_expr # Sch!NoJob, last_slot # 0,
                      Sch!Sampled(cron_expr)
               PROVE  next_run - last_slot >= MIN_INTERVAL
    BY DEF SlotsKeepInterval, Sch!SlotsKeepInterval
  <2> QED
    BY SlotsApart DEF ScheduleInv
<1> QED
  BY <1>1, <1>2, <1>3, PTL DEF Spec
-----------------------------------------------------------------------------
(* FileTools: prefixes, trees and the places in them.                      *)

Component == FileName \cup {".."}

LEMMA NameIs == "none" \notin FileName /\ ".." \notin FileName /\ Fil!None \notin Seq(FileName)
<1>1. "none" \notin FileName /\ ".." \notin FileName
  BY ExchangesAssumption DEF Fil!FileToolsAssumption
<1>2. ASSUME Fil!None \in Seq(FileName) PROVE FALSE
  <2>1. Fil!None[1] = "none" /\ Len(Fil!None) = 1
    BY DEF Fil!None
  <2>2. Fil!None[1] \in FileName
    BY <1>2, <2>1
  <2> QED
    BY <1>1, <2>1, <2>2
<1> QED
  BY <1>1, <1>2

LEMMA PrefixIs ==
  ASSUME NEW S, NEW s \in Seq(S), NEW t \in Seq(S)
  PROVE  Fil!IsPrefix(s, t) <=> Len(s) <= Len(t) /\ \A i \in 1..Len(s) : s[i] = t[i]
<1>1. Len(s) \in Nat /\ Len(t) \in Nat
  OBVIOUS
<1>2. SubSeq(s, 1, Len(s)) = [i \in 1..Len(s) |-> s[i]]
  BY <1>1
<1>3. SubSeq(t, 1, Len(s)) = [i \in 1..Len(s) |-> t[i]]
  BY <1>1
<1> QED
  BY <1>2, <1>3 DEF Fil!IsPrefix

LEMMA FrontIs ==
  ASSUME NEW S, NEW s \in Seq(S), s # <<>>
  PROVE  /\ Fil!Front(s) \in Seq(S) /\ Len(Fil!Front(s)) = Len(s) - 1 /\ Len(s) > 0
         /\ \A i \in 1..Len(s) - 1 : Fil!Front(s)[i] = s[i]
         /\ s[Len(s)] \in S /\ Fil!Last(s) = s[Len(s)]
<1>1. Len(s) \in Nat \ {0}
  OBVIOUS
<1>2. \A i \in 1..Len(s) - 1 : s[i] \in S
  BY <1>1
<1>3. Fil!Front(s) = [i \in 1..Len(s) - 1 |-> s[i]]
  BY <1>1 DEF Fil!Front
<1> QED
  BY <1>1, <1>2, <1>3 DEF Fil!Last

LEMMA FrontOfAppend ==
  ASSUME NEW S, NEW s \in Seq(S), NEW c \in S
  PROVE  /\ Append(s, c) \in Seq(S) /\ Append(s, c) # <<>> /\ Append(s, c) # s
         /\ Fil!Front(Append(s, c)) = s /\ Fil!IsPrefix(s, Append(s, c))
<1> DEFINE t == Append(s, c)
<1>1. t \in Seq(S) /\ t # <<>> /\ Len(t) = Len(s) + 1 /\ Len(s) \in Nat
  OBVIOUS
<1>2. \A i \in 1..Len(s) : t[i] = s[i]
  OBVIOUS
<1> HIDE DEF t
<1>3. /\ Fil!Front(t) \in Seq(S) /\ Len(Fil!Front(t)) = Len(t) - 1
      /\ \A i \in 1..Len(t) - 1 : Fil!Front(t)[i] = t[i]
  BY <1>1, FrontIs
<1>4. Fil!Front(t) = s
  BY <1>1, <1>2, <1>3
<1>5. Fil!IsPrefix(s, t)
  BY <1>1, <1>2, PrefixIs
<1>6. t # s
  BY <1>1
<1> QED
  BY <1>1, <1>4, <1>5, <1>6 DEF t

LEMMA PrefixOfPrefix ==
  ASSUME NEW S, NEW s \in Seq(S), NEW t \in Seq(S), NEW u \in Seq(S),
         Fil!IsPrefix(s, t), Fil!IsPrefix(t, u)
  PROVE  Fil!IsPrefix(s, u)
<1>1. Len(s) <= Len(t) /\ \A i \in 1..Len(s) : s[i] = t[i]
  BY PrefixIs
<1>2. Len(t) <= Len(u) /\ \A i \in 1..Len(t) : t[i] = u[i]
  BY PrefixIs
<1>3. Len(s) <= Len(u) /\ \A i \in 1..Len(s) : s[i] = u[i]
  BY <1>1, <1>2
<1> QED
  BY <1>3, PrefixIs

\* Where a path leads: what exists and is no link.
Real(fs) == {p \in DOMAIN fs : fs[p].is # "link"}

LEMMA TreeIs ==
  ASSUME NEW fs, Fil!IsTree(fs)
  PROVE  /\ DOMAIN fs \subseteq Seq(FileName) /\ Fil!None \notin DOMAIN fs
         /\ <<>> \in Real(fs) /\ Fil!None \notin Real(fs)
         /\ \A p \in Real(fs) : fs[p] \in {Fil!Dir, Fil!File, Fil!Written}
         /\ \A p \in Real(fs) : fs[p] = Fil!Dir <=> fs[p].is = "dir"
         /\ \A p \in DOMAIN fs \ {<<>>} :
              Fil!Front(p) \in Real(fs) /\ fs[Fil!Front(p)] = Fil!Dir
         /\ \A p \in DOMAIN fs : fs[p].is = "link" => fs[p].to \in Real(fs)
<1>1. DOMAIN fs \subseteq Seq(FileName) /\ Fil!None \notin DOMAIN fs
  BY NameIs DEF Fil!IsTree
<1>2. Fil!Dir.is = "dir" /\ Fil!File.is = "file" /\ Fil!Written.is = "written"
  BY DEF Fil!Dir, Fil!File, Fil!Written
<1>3. <<>> \in Real(fs)
  BY <1>2 DEF Fil!IsTree, Real
<1>4. \A p \in Real(fs) : fs[p] \in {Fil!Dir, Fil!File, Fil!Written}
  BY DEF Fil!IsTree, Real
<1>5. \A p \in Real(fs) : fs[p] = Fil!Dir <=> fs[p].is = "dir"
  BY <1>2, <1>4
<1>6. \A p \in DOMAIN fs \ {<<>>} : Fil!Front(p) \in Real(fs) /\ fs[Fil!Front(p)] = Fil!Dir
  BY <1>2 DEF Fil!IsTree, Real
<1>7. \A p \in DOMAIN fs : fs[p].is = "link" => fs[p].to \in Real(fs)
  BY DEF Fil!IsTree, Real
<1> QED
  BY <1>1, <1>3, <1>4, <1>5, <1>6, <1>7 DEF Real

\* A prefix of a place that exists is a place that exists, and a directory if it
\* is another.
LEMMA TreePrefix ==
  ASSUME NEW fs, Fil!IsTree(fs), NEW p \in DOMAIN fs, NEW q \in Seq(FileName),
         Fil!IsPrefix(q, p)
  PROVE  q \in DOMAIN fs /\ (q # p => q \in Real(fs) /\ fs[q] = Fil!Dir)
<1>1. DOMAIN fs \subseteq Seq(FileName)
  BY TreeIs
<1> DEFINE Above(m) ==
             \A r \in DOMAIN fs : Len(r) = Len(q) + m /\ Fil!IsPrefix(q, r) =>
               q \in DOMAIN fs /\ (q # r => q \in Real(fs) /\ fs[q] = Fil!Dir)
           T == {m \in Nat : Above(m)}
<1>2. 0 \in T
  <2>1. ASSUME NEW r \in DOMAIN fs, Len(r) = Len(q), Fil!IsPrefix(q, r) PROVE q = r
    <3>1. r \in Seq(FileName) /\ \A i \in 1..Len(q) : q[i] = r[i]
      BY <1>1, <2>1, PrefixIs
    <3> QED
      BY <2>1, <3>1
  <2>2. Above(0)
    BY <2>1
  <2> QED
    BY <2>2
<1>3. ASSUME NEW m \in T PROVE m + 1 \in T
  <2>1. ASSUME NEW r \in DOMAIN fs, Len(r) = Len(q) + (m + 1), Fil!IsPrefix(q, r)
        PROVE  q \in Real(fs) /\ fs[q] = Fil!Dir
    <3>1. r \in Seq(FileName) /\ r # <<>> /\ m \in Nat /\ Len(q) \in Nat
      BY <1>1, <2>1
    <3>2. /\ Fil!Front(r) \in Real(fs) /\ fs[Fil!Front(r)] = Fil!Dir
          /\ Fil!Front(r) \in DOMAIN fs
      BY <3>1, TreeIs DEF Real
    <3>3. /\ Len(Fil!Front(r)) = Len(q) + m /\ Fil!Front(r) \in Seq(FileName)
          /\ \A i \in 1..Len(r) - 1 : Fil!Front(r)[i] = r[i]
      BY <2>1, <3>1, FrontIs
    <3>4. \A i \in 1..Len(q) : q[i] = r[i]
      BY <2>1, <3>1, PrefixIs
    <3>5. \A i \in 1..Len(q) : q[i] = Fil!Front(r)[i]
      BY <2>1, <3>1, <3>3, <3>4
    <3>6. Fil!IsPrefix(q, Fil!Front(r))
      BY <3>1, <3>3, <3>5, PrefixIs
    <3>7. q # Fil!Front(r) => q \in Real(fs) /\ fs[q] = Fil!Dir
      BY <3>2, <3>3, <3>6
    <3> QED
      BY <3>2, <3>7
  <2>2. Above(m + 1)
    BY <2>1 DEF Real
  <2> QED
    BY <2>2
<1>4. T = Nat
  <2>1. T \in SUBSET Nat
    OBVIOUS
  <2> HIDE DEF T
  <2> QED
    BY <1>2, <1>3, <2>1, InductionOverNat
<1>5. Len(p) - Len(q) \in Nat /\ Len(p) = Len(q) + (Len(p) - Len(q))
  <2>1. p \in Seq(FileName) /\ Len(q) <= Len(p)
    BY <1>1, PrefixIs
  <2> QED
    BY <2>1
<1>6. Above(Len(p) - Len(q))
  <2> DEFINE m == Len(p) - Len(q)
  <2>1. m \in T
    BY <1>4, <1>5
  <2> QED
    BY <2>1
<1> QED
  BY <1>5, <1>6

LEMMA EnterIs ==
  ASSUME NEW fs, Fil!IsTree(fs), NEW p \in Real(fs) \cup {Fil!None}, NEW c \in Component
  PROVE  /\ Fil!Enter(fs, p, c) \in Real(fs) \cup {Fil!None}
         /\ p = Fil!None => Fil!Enter(fs, p, c) = Fil!None
         /\ p # Fil!None /\ fs[p] # Fil!Dir => Fil!Enter(fs, p, c) = Fil!None
         /\ c # ".." /\ Append(p, c) \notin DOMAIN fs => Fil!Enter(fs, p, c) = Fil!None
         /\ p # Fil!None /\ c # ".." /\ Fil!Enter(fs, p, c) = Fil!None =>
              fs[p] # Fil!Dir \/ Append(p, c) \notin DOMAIN fs
<1>1. p # Fil!None => /\ p \in Real(fs) /\ p \in DOMAIN fs /\ p \in Seq(FileName)
                      /\ fs[p] = Fil!Dir <=> fs[p].is = "dir"
  BY TreeIs DEF Real
<1>2. CASE p = Fil!None \/ fs[p].is # "dir"
  <2>1. Fil!Enter(fs, p, c) = Fil!None
    BY <1>2 DEF Fil!Enter
  <2> QED
    BY <1>1, <1>2, <2>1, TreeIs
<1>3. CASE p # Fil!None /\ fs[p].is = "dir" /\ c = ".."
  <2>1. Fil!Enter(fs, p, c) = IF p = <<>> THEN p ELSE Fil!Front(p)
    BY <1>3 DEF Fil!Enter
  <2> QED
    BY <1>1, <1>3, <2>1, TreeIs
<1>4. CASE p # Fil!None /\ fs[p].is = "dir" /\ c # ".."
  <2> DEFINE q == Append(p, c)
  <2>1. Fil!Enter(fs, p, c) =
          IF q \notin DOMAIN fs THEN Fil!None
          ELSE IF fs[q].is = "link" THEN fs[q].to ELSE q
    BY <1>4 DEF Fil!Enter
  <2> HIDE DEF q
  <2>2. CASE q \notin DOMAIN fs
    BY <1>4, <2>1, <2>2 DEF q
  <2>3. CASE q \in DOMAIN fs /\ fs[q].is = "link"
    <3>1. fs[q].to \in Real(fs) /\ fs[q].to # Fil!None
      BY <2>3, TreeIs
    <3>2. Fil!Enter(fs, p, c) = fs[q].to
      BY <2>1, <2>3
    <3> QED
      BY <1>1, <1>4, <2>3, <3>1, <3>2 DEF q
  <2>4. CASE q \in DOMAIN fs /\ fs[q].is # "link"
    <3>1. q \in Real(fs) /\ Fil!Enter(fs, p, c) = q
      BY <2>1, <2>4 DEF Real
    <3>2. q # Fil!None
      BY <3>1, TreeIs
    <3> QED
      BY <1>1, <1>4, <2>4, <3>1, <3>2 DEF q
  <2> QED
    BY <2>2, <2>3, <2>4
<1> QED
  BY <1>2, <1>3, <1>4

\* The walk along a path, and what it has reached after each component.
Walk(f, path) ==
  /\ f \in [0..Len(path) -> Real(nodes) \cup {Fil!None}] /\ f[0] = <<>>
  /\ \A k \in 1..Len(path) : f[k] = Fil!Enter(nodes, f[k - 1], path[k])

LEMMA PlacesAre ==
  ASSUME Fil!IsTree(nodes), NEW path \in Seq(Component)
  PROVE  Walk(Fil!Places(path), path) /\ Fil!canonicalize(path) = Fil!Places(path)[Len(path)]
<1> DEFINE n == Len(path)
           S == Real(nodes) \cup {Fil!None}
           Go(x, k) == Fil!Enter(nodes, x, path[k])
           Is(g) == g = [k \in 0..n |-> IF k = 0 THEN <<>> ELSE Go(g[k - 1], k)]
           f == CHOOSE g : Is(g)
           step == [k \in 1..n |-> [x \in S |-> Go(x, k)]]
<1>1. Fil!Places(path) = f
  BY DEF Fil!Places
<1>2. n \in Nat /\ \A k \in 1..n : path[k] \in Component
  OBVIOUS
<1>3. Steps(S, <<>>, n, step)
  <2>1. \A x \in S, k \in 1..n : Go(x, k) \in S
    BY <1>2, EnterIs
  <2>2. <<>> \in S
    BY TreeIs
  <2> HIDE DEF S, Go, n
  <2> QED
    BY <2>1, <2>2 DEF Steps
<1>4. \A k \in 1..n, x \in S : step[k][x] = Go(x, k)
  OBVIOUS
<1> HIDE DEF step, S, Go
<1>5. \E g : Is(g)
  <2>1. PICK g : Loops(g, S, <<>>, n, step)
    BY <1>2, <1>3, LoopExists
  <2>2. ASSUME NEW k \in 0..n PROVE g[k] = IF k = 0 THEN <<>> ELSE Go(g[k - 1], k)
    <3>1. CASE k = 0
      BY <2>1, <3>1 DEF Loops
    <3>2. CASE k # 0
      <4>1. k \in 1..n /\ k - 1 \in 0..n
        BY <1>2, <3>2
      <4>2. g[k - 1] \in S /\ g[k] = step[k][g[k - 1]]
        BY <2>1, <4>1 DEF Loops
      <4> QED
        BY <1>4, <3>2, <4>1, <4>2
    <3> QED
      BY <3>1, <3>2
  <2>3. g = [k \in 0..n |-> g[k]]
    BY <2>1 DEF Loops
  <2>4. Is(g)
    BY <2>2, <2>3
  <2> QED
    BY <2>4
<1>6. Is(f)
  <2> HIDE DEF Is
  <2> QED
    BY <1>5
<1> HIDE DEF f
<1>7. f[0] = <<>> /\ \A k \in 1..n : f[k] = Go(f[k - 1], k)
  BY <1>2, <1>6
<1>8. DOMAIN f = 0..n /\ f = [k \in 0..n |-> f[k]]
  BY <1>6
<1> HIDE DEF Is
<1>9. \A k \in 0..n : f[k] \in S
  <2>1. Follows(f, S, <<>>, n, step)
    BY <1>4, <1>7 DEF Follows
  <2> HIDE DEF n
  <2> QED
    BY <1>2, <1>3, <2>1, LoopStays
<1>10. f \in [0..n -> S]
  BY <1>8, <1>9
<1> QED
  BY <1>1, <1>7, <1>10 DEF Walk, S, Go, Fil!canonicalize

\* What a walk has left, it does not find again.
LEMMA WalkEnds ==
  ASSUME Fil!IsTree(nodes), NEW path \in Seq(Component), NEW f, Walk(f, path),
         NEW e \in 0..Len(path), f[e] # Fil!None
  PROVE  \A k \in 0..e : f[k] # Fil!None
<1> DEFINE T == {m \in Nat : m <= e => f[e - m] # Fil!None}
<1>1. 0 \in T
  OBVIOUS
<1>2. ASSUME NEW m \in T PROVE m + 1 \in T
  <2> SUFFICES ASSUME m + 1 <= e PROVE f[e - (m + 1)] # Fil!None
    OBVIOUS
  <2> DEFINE k == e - m
  <2>1. k \in 1..Len(path) /\ k - 1 \in 0..Len(path) /\ e - (m + 1) = k - 1 /\ f[k] # Fil!None
    OBVIOUS
  <2> HIDE DEF k
  <2>2. f[k] = Fil!Enter(nodes, f[k - 1], path[k]) /\ path[k] \in Component
        /\ f[k - 1] \in Real(nodes) \cup {Fil!None}
    BY <2>1 DEF Walk
  <2> QED
    BY <2>1, <2>2, EnterIs
<1>3. T = Nat
  <2>1. T \in SUBSET Nat
    OBVIOUS
  <2> HIDE DEF T
  <2> QED
    BY <1>1, <1>2, <2>1, InductionOverNat
<1>4. ASSUME NEW k \in 0..e PROVE f[k] # Fil!None
  <2> DEFINE m == e - k
  <2>1. m \in Nat /\ m <= e /\ e - m = k
    OBVIOUS
  <2> HIDE DEF m
  <2>2. m \in {i \in Nat : i <= e => f[e - i] # Fil!None}
    BY <1>3, <2>1
  <2> QED
    BY <2>1, <2>2
<1> QED
  BY <1>4

\* The last place that a walk finds.
LEMMA LastPlace ==
  ASSUME Fil!IsTree(nodes), NEW path \in Seq(Component), NEW f, Walk(f, path)
  PROVE  LET e == Fil!Max({k \in 0..Len(path) : f[k] # Fil!None})
         IN  /\ e \in 0..Len(path) /\ f[e] # Fil!None
             /\ \A k \in 0..Len(path) : k > e => f[k] = Fil!None
             /\ \A k \in 0..e : f[k] # Fil!None
<1> DEFINE n == Len(path)
           K == {k \in 0..n : f[k] # Fil!None}
           e == Fil!Max(K)
<1>1. n \in Nat /\ 0 \in K
  BY TreeIs DEF Walk
<1>2. \E x \in K : \A y \in K : x >= y
  <2> DEFINE T == {m \in Nat : m <= n => \E x \in 0..n : x \in K /\ x >= m}
  <2> SUFFICES ASSUME \A x \in K : \E y \in K : ~(x >= y)
               PROVE  FALSE
    OBVIOUS
  <2>1. K \subseteq 0..n
    OBVIOUS
  <2> HIDE DEF K
  <2> DEFINE U == {m \in Nat : \E y \in K : y >= m}
  <2>2. 0 \in U
    BY <1>1, <2>1
  <2>3. ASSUME NEW m \in U PROVE m + 1 \in U
    <3>1. PICK y \in K : y >= m
      OBVIOUS
    <3>2. PICK z \in K : ~(y >= z)
      OBVIOUS
    <3>3. y \in Nat /\ z \in Nat /\ m \in Nat
      BY <2>1
    <3>4. z >= m + 1
      BY <3>1, <3>2, <3>3
    <3> QED
      BY <3>3, <3>4
  <2>4. U = Nat
    <3>1. U \in SUBSET Nat
      OBVIOUS
    <3> HIDE DEF U
    <3> QED
      BY <2>2, <2>3, <3>1, InductionOverNat
  <2>5. n + 1 \in U
    BY <1>1, <2>4
  <2>6. PICK y \in K : y >= n + 1
    BY <2>5
  <2> QED
    BY <1>1, <2>1, <2>6
<1>3. e \in K /\ \A y \in K : e >= y
  BY <1>2 DEF Fil!Max
<1> HIDE DEF e
<1>4. e \in 0..n /\ f[e] # Fil!None /\ \A k \in 0..n : k > e => f[k] = Fil!None
  BY <1>1, <1>3
<1>5. \A k \in 0..e : f[k] # Fil!None
  BY <1>4, WalkEnds
<1> QED
  BY <1>4, <1>5 DEF e
-----------------------------------------------------------------------------
(* FileTools: how a tree changes.                                          *)

NodeFor(fs) == {Fil!Dir, Fil!File, Fil!Written} \cup {Fil!LinkTo(p) : p \in Real(fs)}

LEMMA NodesAre ==
  ASSUME NEW fs, Fil!IsTree(fs), NEW node \in NodeFor(fs)
  PROVE  /\ node \in Fil!Node
         /\ IF node.is = "link" THEN node.to \in Real(fs)
            ELSE node \in {Fil!Dir, Fil!File, Fil!Written}
<1>1. CASE node \in {Fil!Dir, Fil!File, Fil!Written}
  <2>1. <<>> \in Seq(FileName)
    OBVIOUS
  <2>2. node.is \in {"dir", "file", "written"}
        /\ node = [is |-> node.is, to |-> <<>>]
    BY <1>1 DEF Fil!Dir, Fil!File, Fil!Written
  <2>3. \A k \in {"dir", "file", "written", "link"}, p \in Seq(FileName) :
          [is |-> k, to |-> p] \in Fil!Node
    BY DEF Fil!Node
  <2>4. [is |-> node.is, to |-> <<>>] \in Fil!Node
    BY <2>1, <2>2, <2>3
  <2> QED
    BY <1>1, <2>2, <2>4
<1>2. CASE \E p \in Real(fs) : node = Fil!LinkTo(p)
  BY <1>2, TreeIs DEF Fil!LinkTo, Fil!Node, Real
<1> QED
  BY <1>1, <1>2 DEF NodeFor

\* Something new in a directory.
LEMMA TreeGrows ==
  ASSUME NEW fs, Fil!IsTree(fs), NEW p \in Real(fs), fs[p] = Fil!Dir, NEW c \in FileName,
         Append(p, c) \notin DOMAIN fs, NEW node \in NodeFor(fs)
  PROVE  Fil!IsTree(Fil!With(fs, Append(p, c), node))
<1> DEFINE q == Append(p, c)
           new == Fil!With(fs, q, node)
<1>1. p \in DOMAIN fs /\ p \in Seq(FileName) /\ DOMAIN fs \subseteq Seq(FileName)
  BY TreeIs DEF Real
<1>2. q \in Seq(FileName) /\ q # <<>> /\ Fil!Front(q) = p /\ q \notin DOMAIN fs
  BY <1>1, FrontOfAppend
<1>3. node \in Fil!Node /\ IF node.is = "link" THEN node.to \in Real(fs)
                           ELSE node \in {Fil!Dir, Fil!File, Fil!Written}
  BY NodesAre
<1> HIDE DEF q
<1>4. /\ DOMAIN new = DOMAIN fs \cup {q} /\ new[q] = node
      /\ \A r \in DOMAIN fs : r # q /\ new[r] = fs[r]
  BY <1>2 DEF Fil!With
<1>5. new = [r \in DOMAIN new |-> new[r]]
  BY DEF Fil!With
<1> HIDE DEF new
<1>6. new \in [DOMAIN new -> Fil!Node] /\ DOMAIN new \subseteq Seq(FileName)
  <2>1. \A r \in DOMAIN fs : fs[r] \in Fil!Node
    BY DEF Fil!IsTree
  <2>2. \A r \in DOMAIN new : new[r] \in Fil!Node
    BY <1>3, <1>4, <2>1
  <2> QED
    BY <1>1, <1>2, <1>4, <1>5, <2>2
<1>7. <<>> \in DOMAIN new /\ new[<<>>] = Fil!Dir
  BY <1>4 DEF Fil!IsTree
<1>8. ASSUME NEW r \in DOMAIN new \ {<<>>}
      PROVE  Fil!Front(r) \in DOMAIN new /\ new[Fil!Front(r)] = Fil!Dir
  <2>1. CASE r = q
    BY <1>1, <1>2, <1>4, <2>1
  <2>2. CASE r \in DOMAIN fs
    <3>1. Fil!Front(r) \in DOMAIN fs /\ fs[Fil!Front(r)] = Fil!Dir
      BY <2>2 DEF Fil!IsTree
    <3> QED
      BY <1>4, <3>1
  <2> QED
    BY <1>4, <2>1, <2>2
<1>9. ASSUME NEW r \in DOMAIN new
      PROVE  IF new[r].is = "link" THEN new[r].to \in DOMAIN new /\ new[new[r].to].is # "link"
             ELSE new[r] \in {Fil!Dir, Fil!File, Fil!Written}
  <2>1. \A s \in Real(fs) : s \in DOMAIN new /\ new[s].is # "link"
    BY <1>4 DEF Real
  <2>2. CASE r = q
    BY <1>3, <1>4, <2>1, <2>2
  <2>3. CASE r \in DOMAIN fs
    <3>1. IF fs[r].is = "link" THEN fs[r].to \in Real(fs)
          ELSE fs[r] \in {Fil!Dir, Fil!File, Fil!Written}
      BY <2>3 DEF Fil!IsTree, Real
    <3>2. new[r] = fs[r]
      BY <1>4, <2>3
    <3> QED
      BY <2>1, <3>1, <3>2
  <2> QED
    BY <1>4, <2>2, <2>3
<1>10. Fil!IsTree(new)
  BY <1>6, <1>7, <1>8, <1>9 DEF Fil!IsTree
<1> QED
  BY <1>10 DEF new, q

\* A file gets another text.
LEMMA TreeRewritten ==
  ASSUME NEW fs, Fil!IsTree(fs), NEW p \in Real(fs), fs[p] # Fil!Dir
  PROVE  Fil!IsTree(Fil!With(fs, p, Fil!Written))
<1> DEFINE new == Fil!With(fs, p, Fil!Written)
<1>1. p \in DOMAIN fs /\ DOMAIN fs \subseteq Seq(FileName) /\ fs[p].is # "link"
  BY TreeIs DEF Real
<1>2. Fil!Written.is = "written" /\ Fil!Written \in Fil!Node
  BY DEF Fil!Written, Fil!Node
<1>3. DOMAIN new = DOMAIN fs /\ \A r \in DOMAIN fs : new[r] = IF r = p THEN Fil!Written ELSE fs[r]
  BY <1>1 DEF Fil!With
<1>4. new = [r \in DOMAIN new |-> new[r]]
  BY DEF Fil!With
<1> HIDE DEF new
<1>5. new \in [DOMAIN new -> Fil!Node]
  <2>1. \A r \in DOMAIN fs : fs[r] \in Fil!Node
    BY DEF Fil!IsTree
  <2>2. \A r \in DOMAIN new : new[r] \in Fil!Node
    BY <1>2, <1>3, <2>1
  <2> QED
    BY <1>4, <2>2
<1>6. <<>> \in DOMAIN new /\ new[<<>>] = Fil!Dir
  BY <1>3 DEF Fil!IsTree
<1>7. \A r \in DOMAIN new \ {<<>>} : Fil!Front(r) \in DOMAIN new /\ new[Fil!Front(r)] = Fil!Dir
  BY <1>3 DEF Fil!IsTree
<1>8. ASSUME NEW r \in DOMAIN new
      PROVE  IF new[r].is = "link" THEN new[r].to \in DOMAIN new /\ new[new[r].to].is # "link"
             ELSE new[r] \in {Fil!Dir, Fil!File, Fil!Written}
  <2>1. \A s \in Real(fs) : s \in DOMAIN new /\ new[s].is # "link"
    BY <1>2, <1>3 DEF Real
  <2>2. CASE r = p
    BY <1>2, <1>3, <2>2
  <2>3. CASE r # p
    <3>1. IF fs[r].is = "link" THEN fs[r].to \in Real(fs)
          ELSE fs[r] \in {Fil!Dir, Fil!File, Fil!Written}
      BY <1>3 DEF Fil!IsTree, Real
    <3>2. new[r] = fs[r]
      BY <1>3, <2>3
    <3> QED
      BY <2>1, <3>1, <3>2
  <2> QED
    BY <2>2, <2>3
<1>9. Fil!IsTree(new)
  BY <1>1, <1>3, <1>5, <1>6, <1>7, <1>8 DEF Fil!IsTree
<1> QED
  BY <1>9 DEF new

\* What create_dir_all may have made so far.
Trees == {fs \in UNION {[D -> Fil!Node] : D \in SUBSET Seq(FileName)} : Fil!IsTree(fs)}

Making ==
  {m \in [fs : Trees, at : Seq(FileName) \cup {Fil!None}] :
     m.at \in Real(m.fs) \cup {Fil!None}}

LEMMA TreesAre ==
  \A fs : Fil!IsTree(fs) <=> fs \in Trees
<1>1. ASSUME NEW fs, Fil!IsTree(fs) PROVE fs \in Trees
  <2>1. fs \in [DOMAIN fs -> Fil!Node] /\ DOMAIN fs \in SUBSET Seq(FileName)
    BY <1>1 DEF Fil!IsTree
  <2> QED
    BY <1>1, <2>1 DEF Trees
<1> QED
  BY <1>1 DEF Trees

LEMMA MakingIs ==
  ASSUME NEW fs, Fil!IsTree(fs), NEW p \in Real(fs) \cup {Fil!None}
  PROVE  [fs |-> fs, at |-> p] \in Making
<1>1. fs \in Trees /\ p \in Seq(FileName) \cup {Fil!None}
  BY TreesAre, TreeIs DEF Real
<1> QED
  BY <1>1 DEF Making

LEMMA MakeDirIs ==
  ASSUME NEW m \in Making, NEW c \in Component
  PROVE  /\ Fil!MakeDir(m, c) \in Making
         /\ Fil!MakeDir(m, c) =
              IF m.at # Fil!None /\ c # ".." /\ m.fs[m.at] = Fil!Dir
                 /\ Append(m.at, c) \notin DOMAIN m.fs
              THEN [fs |-> Fil!With(m.fs, Append(m.at, c), Fil!Dir), at |-> Append(m.at, c)]
              ELSE [fs |-> m.fs, at |-> Fil!Enter(m.fs, m.at, c)]
<1>1. /\ m = [fs |-> m.fs, at |-> m.at] /\ Fil!IsTree(m.fs)
      /\ m.at \in Real(m.fs) \cup {Fil!None}
  BY TreesAre DEF Making
<1> DEFINE new == m.at # Fil!None /\ c # ".." /\ m.fs[m.at] = Fil!Dir
                  /\ Append(m.at, c) \notin DOMAIN m.fs
           q == Append(m.at, c)
<1>2. CASE new
  <2>1. Fil!MakeDir(m, c) = [fs |-> Fil!With(m.fs, q, Fil!Dir), at |-> q]
    BY <1>2 DEF Fil!MakeDir
  <2>2. c \in FileName /\ Fil!Dir \in NodeFor(m.fs) /\ m.at \in Real(m.fs)
    BY <1>1, <1>2 DEF Component, NodeFor
  <2>3. Fil!IsTree(Fil!With(m.fs, q, Fil!Dir))
    BY <1>1, <1>2, <2>2, TreeGrows
  <2>4. q \in Real(Fil!With(m.fs, q, Fil!Dir))
    BY DEF Real, Fil!With, Fil!Dir
  <2>5. Fil!MakeDir(m, c) \in Making
    BY <2>1, <2>3, <2>4, MakingIs
  <2> QED
    BY <1>2, <2>1, <2>5
<1>3. CASE ~new
  <2>1. Fil!MakeDir(m, c) = [m EXCEPT !.at = Fil!Enter(m.fs, m.at, c)]
    BY <1>3 DEF Fil!MakeDir
  <2>2. Fil!MakeDir(m, c) = [fs |-> m.fs, at |-> Fil!Enter(m.fs, m.at, c)]
    BY <1>1, <2>1
  <2>3. Fil!Enter(m.fs, m.at, c) \in Real(m.fs) \cup {Fil!None}
    BY <1>1, EnterIs
  <2>4. Fil!MakeDir(m, c) \in Making
    BY <1>1, <2>2, <2>3, MakingIs
  <2> QED
    BY <1>3, <2>2, <2>4
<1> QED
  BY <1>2, <1>3

\* create_dir_all, component by component.
Made(g, path) ==
  /\ g \in [0..Len(path) -> Making] /\ g[0] = [fs |-> nodes, at |-> <<>>]
  /\ \A k \in 1..Len(path) : g[k] = Fil!MakeDir(g[k - 1], path[k])

LEMMA MadeIs ==
  ASSUME Fil!IsTree(nodes), NEW path \in Seq(Component)
  PROVE  \E g : Made(g, path) /\ Fil!create_dir_all(path) = g[Len(path)]
<1> DEFINE n == Len(path)
           S == Making
           a == [fs |-> nodes, at |-> <<>>]
           Go(x, k) == Fil!MakeDir(x, path[k])
           Is(g) == g = [k \in 0..n |-> IF k = 0 THEN a ELSE Go(g[k - 1], k)]
           f == CHOOSE g : Is(g)
           step == [k \in 1..n |-> [x \in S |-> Go(x, k)]]
<1>1. Fil!create_dir_all(path) = f[n]
  BY DEF Fil!create_dir_all
<1>2. n \in Nat /\ \A k \in 1..n : path[k] \in Component
  OBVIOUS
<1>3. Steps(S, a, n, step)
  <2>1. \A x \in S, k \in 1..n : Go(x, k) \in S
    BY <1>2, MakeDirIs
  <2>2. a \in S
    BY TreeIs, MakingIs
  <2> HIDE DEF S, Go, n, a
  <2> QED
    BY <2>1, <2>2 DEF Steps
<1>4. \A k \in 1..n, x \in S : step[k][x] = Go(x, k)
  OBVIOUS
<1> HIDE DEF step, S, Go, a
<1>5. \E g : Is(g)
  <2>1. PICK g : Loops(g, S, a, n, step)
    BY <1>2, <1>3, LoopExists
  <2>2. ASSUME NEW k \in 0..n PROVE g[k] = IF k = 0 THEN a ELSE Go(g[k - 1], k)
    <3>1. CASE k = 0
      BY <2>1, <3>1 DEF Loops
    <3>2. CASE k # 0
      <4>1. k \in 1..n /\ k - 1 \in 0..n
        BY <1>2, <3>2
      <4>2. g[k - 1] \in S /\ g[k] = step[k][g[k - 1]]
        BY <2>1, <4>1 DEF Loops
      <4> QED
        BY <1>4, <3>2, <4>1, <4>2
    <3> QED
      BY <3>1, <3>2
  <2>3. g = [k \in 0..n |-> g[k]]
    BY <2>1 DEF Loops
  <2>4. Is(g)
    BY <2>2, <2>3
  <2> QED
    BY <2>4
<1>6. Is(f)
  <2> HIDE DEF Is
  <2> QED
    BY <1>5
<1> HIDE DEF f
<1>7. f[0] = a /\ \A k \in 1..n : f[k] = Go(f[k - 1], k)
  BY <1>2, <1>6
<1>8. DOMAIN f = 0..n /\ f = [k \in 0..n |-> f[k]]
  BY <1>6
<1> HIDE DEF Is
<1>9. \A k \in 0..n : f[k] \in S
  <2>1. Follows(f, S, a, n, step)
    BY <1>4, <1>7 DEF Follows
  <2> HIDE DEF n
  <2> QED
    BY <1>2, <1>3, <2>1, LoopStays
<1>10. f \in [0..n -> S]
  BY <1>8, <1>9
<1>11. Made(f, path)
  BY <1>7, <1>10 DEF Made, S, Go, a
<1> QED
  BY <1>1, <1>11
-----------------------------------------------------------------------------
(* FileTools: what write_file changes.                                     *)

FileInv ==
  /\ Fil!IsTree(nodes)
  /\ read_roots \subseteq Seq(Component) /\ write_roots \subseteq Seq(Component)

LEMMA RequestIs ==
  ASSUME NEW path \in Fil!Request
  PROVE  path \in Seq(Component) /\ path # <<>> /\ Len(path) \in Nat \ {0}
<1>1. Depth \in Nat
  BY ExchangesAssumption DEF Fil!FileToolsAssumption
<1>2. PICK n \in 1..Depth : path \in [1..n -> Component]
  BY DEF Fil!Request, Component
<1>3. n \in Nat /\ path \in Seq(Component) /\ Len(path) = n
  BY <1>1, <1>2
<1>4. path # <<>>
  BY <1>2, <1>3
<1> QED
  BY <1>2, <1>3, <1>4

\* The last place on the way along a path that resolves_within a root that exists
\* is beneath this root, and no `..` comes after it.
LEMMA ResolvesBeneath ==
  ASSUME FileInv, NEW path \in Seq(Component), NEW r \in write_roots, Fil!Exists(r),
         Fil!resolves_within(r, path)
  PROVE  LET f == Fil!Places(path)
             e == Fil!Max({k \in 0..Len(path) : f[k] # Fil!None})
         IN  /\ \A k \in 1..Len(path) : k > e => path[k] # ".."
             /\ Fil!IsPrefix(Fil!canonicalize(r), f[e])
<1> DEFINE n == Len(path)
           f == Fil!Places(path)
           e == Fil!Max({k \in 0..n : f[k] # Fil!None})
           E == f[e]
           C == Fil!canonicalize(r)
           rem == SubSeq(path, e + 1, n)
<1>1. Fil!IsTree(nodes) /\ r \in Seq(Component)
  BY DEF FileInv
<1>2. Walk(f, path)
  BY <1>1, PlacesAre
<1>3. C \in Real(nodes) /\ C \in Seq(FileName) /\ C \in DOMAIN nodes
  <2>1. Walk(Fil!Places(r), r) /\ C = Fil!Places(r)[Len(r)] /\ Len(r) \in 0..Len(r)
    BY <1>1, PlacesAre
  <2>2. C \in Real(nodes) \cup {Fil!None}
    BY <2>1 DEF Walk
  <2>3. C # Fil!None
    BY DEF Fil!Exists
  <2> QED
    BY <1>1, <2>2, <2>3, TreeIs DEF Real
<1>4. ".." \notin Fil!ToSet(rem) /\ Fil!IsPrefix(C, E \o rem)
  BY DEF Fil!resolves_within
<1> HIDE DEF f, C
<1>5. e \in 0..n /\ E # Fil!None /\ \A k \in 0..n : k > e => f[k] = Fil!None
  BY <1>1, <1>2, LastPlace
<1> HIDE DEF e
<1>6. E \in Real(nodes) /\ E \in Seq(FileName)
  <2>1. E \in Real(nodes) \cup {Fil!None}
    BY <1>2, <1>5 DEF Walk
  <2> QED
    BY <1>1, <1>5, <2>1, TreeIs DEF Real
<1> HIDE DEF E
<1>7. /\ rem \in Seq(Component) /\ Len(rem) = n - e
      /\ \A i \in 1..n - e : rem[i] = path[e + i]
  BY <1>5
<1> HIDE DEF rem
<1>8. \A i \in 1..Len(rem) : rem[i] \in FileName
  <2>1. \A i \in 1..Len(rem) : rem[i] \in Component /\ rem[i] \in Fil!ToSet(rem)
    BY <1>7 DEF Fil!ToSet
  <2> QED
    BY <1>4, <2>1 DEF Component
<1>9. rem \in Seq(FileName)
  <2>1. rem = [i \in 1..Len(rem) |-> rem[i]] /\ Len(rem) \in Nat
    BY <1>7
  <2> QED
    BY <1>8, <2>1
<1>10. \A k \in 1..n : k > e => path[k] # ".."
  <2> SUFFICES ASSUME NEW k \in 1..n, k > e PROVE path[k] # ".."
    OBVIOUS
  <2>1. k - e \in 1..Len(rem) /\ rem[k - e] = path[e + (k - e)] /\ e + (k - e) = k
    BY <1>5, <1>7
  <2> QED
    BY <1>8, <2>1, NameIs
<1> DEFINE t == E \o rem
<1>11. /\ t \in Seq(FileName) /\ Len(t) = Len(E) + Len(rem)
       /\ \A i \in 1..Len(E) : t[i] = E[i]
       /\ Len(rem) > 0 => t[Len(E) + 1] = rem[1]
  BY <1>6, <1>9
<1> HIDE DEF t
<1>12. Len(C) <= Len(t) /\ \A i \in 1..Len(C) : C[i] = t[i]
  <2>1. Fil!IsPrefix(C, t)
    BY <1>4 DEF t
  <2> QED
    BY <1>3, <1>11, <2>1, PrefixIs
<1>13. Len(C) <= Len(E)
  <2> SUFFICES ASSUME Len(C) > Len(E) PROVE FALSE
    BY <1>3, <1>6
  <2>1. Len(rem) > 0 /\ Len(E) \in Nat /\ Len(C) \in Nat /\ e + 1 \in 1..n
    BY <1>3, <1>5, <1>6, <1>7, <1>11, <1>12
  <2> DEFINE q == Append(E, path[e + 1])
  <2>2. path[e + 1] = rem[1] /\ rem[1] \in FileName
    BY <1>7, <1>8, <2>1
  <2>3. /\ q \in Seq(FileName) /\ Len(q) = Len(E) + 1 /\ q[Len(E) + 1] = rem[1]
        /\ \A i \in 1..Len(E) : q[i] = E[i]
    BY <1>6, <2>2
  <2> HIDE DEF q
  <2>4. ASSUME NEW i \in 1..Len(q) PROVE q[i] = C[i]
    <3>1. i \in 1..Len(C) /\ C[i] = t[i]
      BY <1>12, <2>1, <2>3
    <3>2. CASE i = Len(E) + 1
      BY <1>11, <2>1, <2>3, <3>1, <3>2
    <3>3. CASE i # Len(E) + 1
      <4>1. i \in 1..Len(E)
        BY <2>1, <2>3, <3>3
      <4> QED
        BY <1>11, <2>3, <3>1, <4>1
    <3> QED
      BY <3>2, <3>3
  <2>5. Fil!IsPrefix(q, C)
    BY <1>3, <2>1, <2>3, <2>4, PrefixIs
  <2>6. q \in DOMAIN nodes
    BY <1>1, <1>3, <2>3, <2>5, TreePrefix
  <2>7. Fil!IsPrefix(E, C)
    BY <1>3, <1>6, <1>11, <1>12, <2>1, PrefixIs
  <2>8. E # C
    BY <2>1
  <2>9. nodes[E] = Fil!Dir
    BY <1>1, <1>3, <1>6, <2>7, <2>8, TreePrefix
  <2>10. Fil!Enter(nodes, E, path[e + 1]) = Fil!None
    <3>1. f[e + 1] = Fil!None /\ (e + 1) - 1 = e
      BY <1>5, <2>1
    <3>2. f[e + 1] = Fil!Enter(nodes, f[(e + 1) - 1], path[e + 1])
      BY <1>2, <2>1 DEF Walk
    <3> QED
      BY <3>1, <3>2 DEF E
  <2>11. path[e + 1] \in Component /\ path[e + 1] # ".." /\ E # Fil!None
    BY <1>5, <2>2, NameIs DEF Component, E
  <2>12. nodes[E] # Fil!Dir \/ q \notin DOMAIN nodes
    BY <1>1, <1>6, <2>10, <2>11, EnterIs DEF q
  <2> QED
    BY <2>6, <2>9, <2>12
<1>14. Fil!IsPrefix(C, E)
  BY <1>3, <1>6, <1>11, <1>12, <1>13, PrefixIs
<1> QED
  BY <1>10, <1>14 DEF f, e, E, C

\* While create_dir_all goes along what exists, it makes nothing.
LEMMA MadeSoFar ==
  ASSUME Fil!IsTree(nodes), NEW path \in Seq(Component), path # <<>>,
         NEW f, Walk(f, path), NEW g, Made(g, Fil!Front(path)),
         NEW e \in 0..Len(path), f[e] # Fil!None
  PROVE  \A k \in 0..Len(path) - 1 : k <= e => g[k] = [fs |-> nodes, at |-> f[k]]
<1> DEFINE n == Len(path)
           T == {k \in Nat : k <= n - 1 /\ k <= e => g[k] = [fs |-> nodes, at |-> f[k]]}
<1>1. n \in Nat \ {0} /\ Len(Fil!Front(path)) = n - 1
      /\ \A k \in 1..n - 1 : Fil!Front(path)[k] = path[k]
  BY FrontIs
<1>2. 0 \in T
  BY DEF Made, Walk
<1>3. ASSUME NEW k \in T PROVE k + 1 \in T
  <2> SUFFICES ASSUME k + 1 <= n - 1, k + 1 <= e
               PROVE  g[k + 1] = [fs |-> nodes, at |-> f[k + 1]]
    OBVIOUS
  <2> DEFINE c == path[k + 1]
  <2>1. k \in Nat /\ k + 1 \in 1..n - 1 /\ k + 1 \in 1..n /\ (k + 1) - 1 = k /\ k \in 0..n
        /\ g[k] = [fs |-> nodes, at |-> f[k]]
    BY <1>1
  <2>2. c \in Component
    BY <2>1
  <2>3. f[k + 1] = Fil!Enter(nodes, f[k], c) /\ f[k] \in Real(nodes) \cup {Fil!None}
    BY <2>1 DEF Walk
  <2>4. f[k + 1] # Fil!None
    BY <2>1, WalkEnds
  <2>5. g[k + 1] = Fil!MakeDir(g[k], c)
    BY <1>1, <2>1 DEF Made
  <2> HIDE DEF c
  <2>6. ~(c # ".." /\ Append(f[k], c) \notin DOMAIN nodes)
    BY <2>2, <2>3, <2>4, EnterIs
  <2>7. g[k] \in Making
    BY <2>1, <2>3, MakingIs
  <2>8. g[k + 1] = [fs |-> nodes, at |-> Fil!Enter(nodes, f[k], c)]
    <3>1. g[k].fs = nodes /\ g[k].at = f[k]
      BY <2>1
    <3>2. Fil!MakeDir(g[k], c) = [fs |-> g[k].fs, at |-> Fil!Enter(g[k].fs, g[k].at, c)]
      BY <2>2, <2>6, <2>7, <3>1, MakeDirIs
    <3> QED
      BY <2>5, <3>1, <3>2
  <2> QED
    BY <2>3, <2>8
<1>4. T = Nat
  <2>1. T \in SUBSET Nat
    OBVIOUS
  <2> HIDE DEF T
  <2> QED
    BY <1>2, <1>3, <2>1, InductionOverNat
<1> QED
  BY <1>4

\* Behind the last place that exists, E, it makes directories beneath E, or ends
\* where nothing is; c is the next component.
Beyond(m, E, c) ==
  /\ DOMAIN nodes \subseteq DOMAIN m.fs
  /\ \A q \in DOMAIN m.fs :
       IF q \in DOMAIN nodes THEN m.fs[q] = nodes[q] ELSE Fil!IsPrefix(E, q)
  /\ m.at # Fil!None =>
       Fil!IsPrefix(E, m.at) /\ (m.fs[m.at] = Fil!Dir => Append(m.at, c) \notin DOMAIN m.fs)

LEMMA BeyondStep ==
  ASSUME NEW m \in Making, NEW E \in Seq(FileName), NEW c \in FileName, NEW d \in FileName,
         Beyond(m, E, c)
  PROVE  Beyond(Fil!MakeDir(m, c), E, d)
<1>1. Fil!IsTree(m.fs) /\ m.at \in Real(m.fs) \cup {Fil!None}
  BY TreesAre DEF Making
<1>2. c \in Component /\ c # ".."
  BY NameIs DEF Component
<1> DEFINE new == Fil!MakeDir(m, c)
<1>3. CASE m.at = Fil!None \/ m.fs[m.at] # Fil!Dir
  <2>1. Fil!Enter(m.fs, m.at, c) = Fil!None
    BY <1>1, <1>2, <1>3, EnterIs
  <2>2. new = [fs |-> m.fs, at |-> Fil!None]
    BY <1>2, <1>3, <2>1, MakeDirIs
  <2> HIDE DEF new
  <2>3. Beyond(new, E, d)
    BY <2>2 DEF Beyond
  <2> QED
    BY <2>3 DEF new
<1>4. CASE m.at # Fil!None /\ m.fs[m.at] = Fil!Dir
  <2> DEFINE q == Append(m.at, c)
             fs == Fil!With(m.fs, q, Fil!Dir)
  <2>1. m.at \in Seq(FileName) /\ DOMAIN m.fs \subseteq Seq(FileName)
    BY <1>1, <1>4, TreeIs DEF Real
  <2>2. q \notin DOMAIN m.fs /\ Fil!IsPrefix(E, m.at)
    BY <1>4 DEF Beyond
  <2>3. new = [fs |-> fs, at |-> q]
    BY <1>2, <1>4, <2>2, MakeDirIs
  <2>4. q \in Seq(FileName) /\ q # <<>> /\ Fil!IsPrefix(m.at, q)
    BY <2>1, FrontOfAppend
  <2> HIDE DEF q, new
  <2>5. Fil!IsPrefix(E, q)
    BY <2>1, <2>2, <2>4, PrefixOfPrefix
  <2>6. DOMAIN fs = DOMAIN m.fs \cup {q} /\ \A p \in DOMAIN m.fs : fs[p] = m.fs[p]
    BY <2>2 DEF Fil!With
  <2> HIDE DEF fs
  <2>7. Append(q, d) \notin DOMAIN fs
    <3>1. Append(q, d) # q /\ Append(q, d) # <<>> /\ Fil!Front(Append(q, d)) = q
      BY <2>4, FrontOfAppend
    <3>2. ASSUME Append(q, d) \in DOMAIN m.fs PROVE FALSE
      <4>1. Fil!Front(Append(q, d)) \in DOMAIN m.fs
        BY <1>1, <3>1, <3>2, TreeIs DEF Real
      <4> QED
        BY <2>2, <3>1, <4>1
    <3> QED
      BY <2>6, <3>1, <3>2
  <2>8. \A p \in DOMAIN fs :
          IF p \in DOMAIN nodes THEN fs[p] = nodes[p] ELSE Fil!IsPrefix(E, p)
    BY <2>2, <2>5, <2>6 DEF Beyond
  <2>9. DOMAIN nodes \subseteq DOMAIN fs
    BY <2>6 DEF Beyond
  <2>10. Beyond(new, E, d)
    BY <2>3, <2>5, <2>7, <2>8, <2>9 DEF Beyond
  <2> QED
    BY <2>10 DEF new
<1> QED
  BY <1>3, <1>4

LEMMA MadeBeyond ==
  ASSUME Fil!IsTree(nodes), NEW path \in Seq(Component), path # <<>>,
         NEW f, Walk(f, path), NEW g, Made(g, Fil!Front(path)),
         NEW e \in 0..Len(path) - 1, f[e] # Fil!None, f[e + 1] = Fil!None,
         \A k \in 1..Len(path) : k > e => path[k] # ".."
  PROVE  Beyond(g[Len(path) - 1], f[e], path[Len(path)])
<1> DEFINE n == Len(path)
           T == {k \in Nat : k <= n - 1 - e => Beyond(g[e + k], f[e], path[e + k + 1])}
<1>1. n \in Nat \ {0} /\ Len(Fil!Front(path)) = n - 1
      /\ \A k \in 1..n - 1 : Fil!Front(path)[k] = path[k]
  BY FrontIs
<1>2. e \in 0..n /\ e + 1 \in 1..n /\ (e + 1) - 1 = e /\ e \in 0..n - 1
  BY <1>1
<1>3. f[e] \in Real(nodes) /\ f[e] \in Seq(FileName)
  <2>1. f[e] \in Real(nodes) \cup {Fil!None}
    BY <1>2 DEF Walk
  <2> QED
    BY <2>1, TreeIs DEF Real
<1>4. \A k \in 1..n : k > e => path[k] \in FileName
  <2>1. \A k \in 1..n : path[k] \in Component
    OBVIOUS
  <2> QED
    BY <2>1 DEF Component
<1>5. 0 \in T
  <2>1. g[e] = [fs |-> nodes, at |-> f[e]]
    BY <1>2, MadeSoFar
  <2>2. Fil!Enter(nodes, f[e], path[e + 1]) = Fil!None
    BY <1>2 DEF Walk
  <2>3. path[e + 1] \in Component /\ path[e + 1] # ".."
    BY <1>2
  <2>4. nodes[f[e]] # Fil!Dir \/ Append(f[e], path[e + 1]) \notin DOMAIN nodes
    BY <1>3, <2>2, <2>3, EnterIs
  <2>5. Fil!IsPrefix(f[e], f[e])
    BY <1>3, PrefixIs
  <2>6. Beyond(g[e], f[e], path[e + 1])
    BY <2>1, <2>4, <2>5 DEF Beyond
  <2> QED
    BY <1>2, <2>6
<1>6. ASSUME NEW k \in T PROVE k + 1 \in T
  <2> SUFFICES ASSUME k + 1 <= n - 1 - e
               PROVE  Beyond(g[e + (k + 1)], f[e], path[e + (k + 1) + 1])
    OBVIOUS
  <2> DEFINE i == e + k + 1
  <2>1. /\ k \in Nat /\ i \in 1..n - 1 /\ i - 1 = e + k /\ i \in 1..n /\ i > e
        /\ i + 1 \in 1..n /\ i + 1 > e /\ e + (k + 1) = i /\ k <= n - 1 - e
    BY <1>1, <1>2
  <2>2. Beyond(g[i - 1], f[e], path[i])
    BY <2>1
  <2> HIDE DEF i
  <2>3. path[i] \in FileName /\ path[i + 1] \in FileName
    BY <1>4, <2>1
  <2>4. g[i] = Fil!MakeDir(g[i - 1], path[i]) /\ g[i - 1] \in Making
    <3>1. i \in 1..Len(Fil!Front(path)) /\ i - 1 \in 0..Len(Fil!Front(path))
      BY <1>1, <2>1
    <3>2. Fil!Front(path)[i] = path[i]
      BY <1>1, <2>1
    <3> QED
      BY <3>1, <3>2 DEF Made
  <2>5. Beyond(g[i], f[e], path[i + 1])
    BY <1>3, <2>2, <2>3, <2>4, BeyondStep
  <2> QED
    BY <2>1, <2>5
<1>7. T = Nat
  <2>1. T \in SUBSET Nat
    OBVIOUS
  <2> HIDE DEF T
  <2> QED
    BY <1>5, <1>6, <2>1, InductionOverNat
<1>8. n - 1 - e \in Nat /\ e + (n - 1 - e) = n - 1 /\ e + (n - 1 - e) + 1 = n
  BY <1>1, <1>2
<1>9. Beyond(g[e + (n - 1 - e)], f[e], path[e + (n - 1 - e) + 1])
  <2> DEFINE k == n - 1 - e
  <2>1. k \in {j \in Nat : j <= n - 1 - e => Beyond(g[e + j], f[e], path[e + j + 1])}
    BY <1>7, <1>8
  <2>2. k <= n - 1 - e
    BY <1>8
  <2> HIDE DEF k
  <2>3. Beyond(g[e + k], f[e], path[e + k + 1])
    BY <2>1, <2>2
  <2> QED
    BY <2>3 DEF k
<1> QED
  BY <1>8, <1>9

\* What differs between the two trees is beneath E.
OnlyBeneath(E) ==
  \A q \in DOMAIN nodes \cup DOMAIN nodes' : Fil!Same(q) \/ Fil!IsPrefix(E, q)

\* The file is written where nothing is, or over another one.
LEMMA WriteIs ==
  ASSUME FileInv, NEW path \in Fil!Request, Fil!path_allowed(path, TRUE), Fil!WriteFile(path)
  PROVE  \E m \in Making :
           LET name == path[Len(path)]
               there == Fil!Enter(m.fs, m.at, name)
           IN  /\ \E g : Made(g, Fil!Front(path)) /\ m = g[Len(path) - 1]
               /\ \/ nodes' = m.fs
                  \/ /\ m.at # Fil!None /\ m.fs[m.at] = Fil!Dir
                     /\ there # Fil!None /\ m.fs[there] # Fil!Dir
                     /\ nodes' = Fil!With(m.fs, there, Fil!Written)
                  \/ /\ m.at # Fil!None /\ m.fs[m.at] = Fil!Dir
                     /\ there = Fil!None /\ name # ".."
                     /\ nodes' = Fil!With(m.fs, Append(m.at, name), Fil!Written)
<1> DEFINE n == Len(path)
           name == path[n]
           m == Fil!create_dir_all(Fil!Front(path))
           there == Fil!Enter(m.fs, m.at, name)
<1>1. path \in Seq(Component) /\ path # <<>> /\ n \in Nat \ {0} /\ Fil!IsTree(nodes)
  BY RequestIs DEF FileInv
<1>2. Fil!Front(path) \in Seq(Component) /\ Len(Fil!Front(path)) = n - 1 /\ Fil!Last(path) = name
  BY <1>1, FrontIs
<1>3. PICK g : Made(g, Fil!Front(path)) /\ m = g[n - 1]
  BY <1>1, <1>2, MadeIs
<1>4. m \in Making
  <2>1. n - 1 \in 0..n - 1
    BY <1>1
  <2> QED
    BY <1>2, <1>3, <2>1 DEF Made
<1>5. IF m.at # Fil!None /\ m.fs[m.at] = Fil!Dir
         /\ (IF there # Fil!None THEN m.fs[there] # Fil!Dir ELSE name # "..")
      THEN nodes' = Fil!With(m.fs, IF there # Fil!None THEN there ELSE Append(m.at, name),
                             Fil!Written)
      ELSE nodes' = m.fs
  BY <1>2 DEF Fil!WriteFile, Fil!Refuses
<1> HIDE DEF m
<1> QED
  BY <1>3, <1>4, <1>5

LEMMA WriteStep ==
  ASSUME FileInv, NEW path \in Fil!Request, Fil!path_allowed(path, TRUE), Fil!WriteFile(path)
  PROVE  LET f == Fil!Places(path)
             e == Fil!Max({k \in 0..Len(path) : f[k] # Fil!None})
         IN  /\ Fil!IsTree(nodes')
             /\ (\A k \in 1..Len(path) : k > e => path[k] # "..") => OnlyBeneath(f[e])
<1> DEFINE n == Len(path)
           name == path[n]
           f == Fil!Places(path)
           e == Fil!Max({k \in 0..n : f[k] # Fil!None})
<1>1. path \in Seq(Component) /\ path # <<>> /\ n \in Nat \ {0} /\ Fil!IsTree(nodes)
  BY RequestIs DEF FileInv
<1>2. Walk(f, path)
  BY <1>1, PlacesAre
<1> HIDE DEF f
<1>3. e \in 0..n /\ f[e] # Fil!None /\ \A k \in 0..n : k > e => f[k] = Fil!None
  BY <1>1, <1>2, LastPlace
<1> HIDE DEF e
<1>4. f[e] \in Real(nodes) /\ f[e] \in Seq(FileName) /\ f[e] \in DOMAIN nodes
  <2>1. f[e] \in Real(nodes) \cup {Fil!None}
    BY <1>2, <1>3 DEF Walk
  <2> QED
    BY <1>1, <1>3, <2>1, TreeIs DEF Real
<1>5. name \in Component
  BY <1>1
<1>6. PICK m \in Making :
         LET there == Fil!Enter(m.fs, m.at, name)
         IN  /\ \E g : Made(g, Fil!Front(path)) /\ m = g[n - 1]
             /\ \/ nodes' = m.fs
                \/ /\ m.at # Fil!None /\ m.fs[m.at] = Fil!Dir
                   /\ there # Fil!None /\ m.fs[there] # Fil!Dir
                   /\ nodes' = Fil!With(m.fs, there, Fil!Written)
                \/ /\ m.at # Fil!None /\ m.fs[m.at] = Fil!Dir
                   /\ there = Fil!None /\ name # ".."
                   /\ nodes' = Fil!With(m.fs, Append(m.at, name), Fil!Written)
  BY WriteIs
<1> DEFINE there == Fil!Enter(m.fs, m.at, name)
<1>7. Fil!IsTree(m.fs) /\ m.at \in Real(m.fs) \cup {Fil!None}
  BY TreesAre DEF Making
<1>8. there \in Real(m.fs) \cup {Fil!None}
      /\ (there = Fil!None /\ m.at # Fil!None /\ name # ".." /\ m.fs[m.at] = Fil!Dir =>
            Append(m.at, name) \notin DOMAIN m.fs)
      /\ (name # ".." /\ Append(m.at, name) \notin DOMAIN m.fs => there = Fil!None)
  BY <1>5, <1>7, EnterIs
<1>9. PICK g : Made(g, Fil!Front(path)) /\ m = g[n - 1]
  BY <1>6
<1> HIDE DEF n, name
<1>10. \/ nodes' = m.fs
       \/ /\ there # Fil!None /\ m.fs[there] # Fil!Dir
          /\ nodes' = Fil!With(m.fs, there, Fil!Written)
       \/ /\ m.at # Fil!None /\ m.fs[m.at] = Fil!Dir
          /\ there = Fil!None /\ name # ".."
          /\ nodes' = Fil!With(m.fs, Append(m.at, name), Fil!Written)
  BY <1>6
<1> HIDE DEF there
<1>11. Fil!IsTree(nodes')
  <2>1. CASE nodes' = m.fs
    BY <1>7, <2>1
  <2>2. CASE /\ there # Fil!None /\ m.fs[there] # Fil!Dir
             /\ nodes' = Fil!With(m.fs, there, Fil!Written)
    BY <1>7, <1>8, <2>2, TreeRewritten
  <2>3. CASE /\ m.at # Fil!None /\ m.fs[m.at] = Fil!Dir
             /\ there = Fil!None /\ name # ".."
             /\ nodes' = Fil!With(m.fs, Append(m.at, name), Fil!Written)
    <3>1. /\ name \in FileName /\ m.at \in Real(m.fs) /\ Append(m.at, name) \notin DOMAIN m.fs
          /\ Fil!Written \in NodeFor(m.fs)
      BY <1>5, <1>7, <1>8, <2>3 DEF Component, NodeFor
    <3> QED
      BY <1>7, <2>3, <3>1, TreeGrows
  <2> QED
    BY <1>10, <2>1, <2>2, <2>3
<1>12. ASSUME \A k \in 1..n : k > e => path[k] # ".."
       PROVE  OnlyBeneath(f[e])
  <2>1. CASE e = n
    <3>1. n - 1 \in 0..n - 1 /\ n - 1 <= e /\ n \in 1..n
      BY <1>1, <2>1
    <3>2. m = [fs |-> nodes, at |-> f[n - 1]]
      BY <1>1, <1>2, <1>3, <1>9, <3>1, MadeSoFar DEF n
    <3>3. there = f[e]
      BY <1>2, <2>1, <3>1, <3>2 DEF Walk, there, n, name
    <3>4. nodes' = nodes \/ nodes' = Fil!With(nodes, f[e], Fil!Written)
      BY <1>3, <1>10, <3>2, <3>3
    <3>5. Fil!IsPrefix(f[e], f[e])
      BY <1>4, PrefixIs
    <3>6. CASE nodes' = nodes
      BY <3>6 DEF OnlyBeneath, Fil!Same
    <3>7. CASE nodes' = Fil!With(nodes, f[e], Fil!Written)
      <4>1. DOMAIN nodes' = DOMAIN nodes /\ \A q \in DOMAIN nodes : q # f[e] => nodes'[q] = nodes[q]
        BY <1>4, <3>7 DEF Fil!With
      <4> QED
        BY <3>5, <4>1 DEF OnlyBeneath, Fil!Same
    <3> QED
      BY <3>4, <3>6, <3>7
  <2>2. CASE e # n
    <3>1. e \in 0..n - 1 /\ f[e + 1] = Fil!None /\ n \in 1..n /\ n > e
      BY <1>1, <1>3, <2>2
    <3>2. Beyond(m, f[e], name)
      BY <1>1, <1>2, <1>3, <1>9, <1>12, <3>1, MadeBeyond DEF n, name
    <3>3. name # ".."
      BY <1>12, <3>1 DEF name
    <3>4. \A q \in DOMAIN nodes : q \in DOMAIN m.fs /\ m.fs[q] = nodes[q]
      BY <3>2 DEF Beyond
    <3>5. \A q \in DOMAIN m.fs : q \in DOMAIN nodes \/ Fil!IsPrefix(f[e], q)
      BY <3>2 DEF Beyond
    <3>6. CASE nodes' = m.fs
      BY <3>4, <3>5, <3>6 DEF OnlyBeneath, Fil!Same
    <3>7. CASE nodes' # m.fs
      <4>1. /\ m.at # Fil!None /\ m.fs[m.at] = Fil!Dir
            /\ Append(m.at, name) \notin DOMAIN m.fs
        <5>1. m.at # Fil!None /\ m.fs[m.at] = Fil!Dir
          <6>1. m.at = Fil!None \/ m.fs[m.at] # Fil!Dir => there = Fil!None
            BY <1>5, <1>7, EnterIs DEF there
          <6> QED
            BY <1>10, <3>7, <6>1
        <5> QED
          BY <3>2, <5>1 DEF Beyond
      <4> DEFINE q == Append(m.at, name)
      <4>2. nodes' = Fil!With(m.fs, q, Fil!Written)
        BY <1>8, <1>10, <3>3, <3>7, <4>1
      <4>3. m.at \in Seq(FileName) /\ name \in FileName /\ Fil!IsPrefix(f[e], m.at)
        BY <1>5, <1>7, <3>2, <3>3, <4>1, TreeIs DEF Real, Component, Beyond
      <4>4. q \in Seq(FileName) /\ Fil!IsPrefix(m.at, q)
        BY <4>3, FrontOfAppend
      <4>5. Fil!IsPrefix(f[e], q) /\ q \notin DOMAIN m.fs
        BY <1>4, <4>1, <4>3, <4>4, PrefixOfPrefix
      <4> HIDE DEF q
      <4>6. DOMAIN nodes' = DOMAIN m.fs \cup {q} /\ \A p \in DOMAIN m.fs : nodes'[p] = m.fs[p]
        BY <4>2, <4>5 DEF Fil!With
      <4> QED
        BY <3>4, <3>5, <4>5, <4>6 DEF OnlyBeneath, Fil!Same
    <3> QED
      BY <3>6, <3>7
  <2> QED
    BY <2>1, <2>2
<1> QED
  BY <1>11, <1>12 DEF f, e, n
-----------------------------------------------------------------------------
(* FileTools: what read_file finds in a tree without links.                *)

NormStep(x, c) ==
  IF x = Fil!None THEN Fil!None
  ELSE IF c # ".." THEN Append(x, c)
  ELSE IF x = <<>> THEN Fil!None ELSE Fil!Front(x)

Norm(g, path) ==
  /\ g \in [0..Len(path) -> Seq(FileName) \cup {Fil!None}] /\ g[0] = <<>>
  /\ \A k \in 1..Len(path) : g[k] = NormStep(g[k - 1], path[k])

LEMMA NormIs ==
  ASSUME NEW path \in Seq(Component)
  PROVE  \E g : Norm(g, path) /\ Fil!normalize(path) = g[Len(path)]
<1> DEFINE n == Len(path)
           S == Seq(FileName) \cup {Fil!None}
           Go(x, k) == IF x = Fil!None THEN Fil!None
                       ELSE IF path[k] # ".." THEN Append(x, path[k])
                       ELSE IF x = <<>> THEN Fil!None ELSE Fil!Front(x)
           Is(g) == g = [k \in 0..n |-> IF k = 0 THEN <<>> ELSE Go(g[k - 1], k)]
           f == CHOOSE g : Is(g)
           step == [k \in 1..n |-> [x \in S |-> Go(x, k)]]
<1>1. Fil!normalize(path) = f[n]
  BY DEF Fil!normalize
<1>2. n \in Nat /\ \A k \in 1..n : path[k] \in Component
  OBVIOUS
<1>3. Steps(S, <<>>, n, step)
  <2>1. ASSUME NEW x \in S, NEW k \in 1..n PROVE Go(x, k) \in S
    <3>1. CASE x = Fil!None
      BY <3>1
    <3>2. CASE x # Fil!None /\ path[k] # ".."
      <4>1. x \in Seq(FileName) /\ path[k] \in FileName
        BY <1>2, <3>2 DEF Component
      <4> QED
        BY <3>2, <4>1
    <3>3. CASE x # Fil!None /\ path[k] = ".." /\ x = <<>>
      BY <3>3
    <3>4. CASE x # Fil!None /\ path[k] = ".." /\ x # <<>>
      <4>1. Fil!Front(x) \in Seq(FileName)
        BY <3>4, FrontIs
      <4> QED
        BY <3>4, <4>1
    <3> QED
      BY <3>1, <3>2, <3>3, <3>4
  <2>2. <<>> \in S
    OBVIOUS
  <2> HIDE DEF S, Go, n
  <2> QED
    BY <2>1, <2>2 DEF Steps
<1>4. \A k \in 1..n, x \in S : step[k][x] = Go(x, k)
  OBVIOUS
<1> HIDE DEF step, S, Go
<1>5. \E g : Is(g)
  <2>1. PICK g : Loops(g, S, <<>>, n, step)
    BY <1>2, <1>3, LoopExists
  <2>2. ASSUME NEW k \in 0..n PROVE g[k] = IF k = 0 THEN <<>> ELSE Go(g[k - 1], k)
    <3>1. CASE k = 0
      BY <2>1, <3>1 DEF Loops
    <3>2. CASE k # 0
      <4>1. k \in 1..n /\ k - 1 \in 0..n
        BY <1>2, <3>2
      <4>2. g[k - 1] \in S /\ g[k] = step[k][g[k - 1]]
        BY <2>1, <4>1 DEF Loops
      <4> QED
        BY <1>4, <3>2, <4>1, <4>2
    <3> QED
      BY <3>1, <3>2
  <2>3. g = [k \in 0..n |-> g[k]]
    BY <2>1 DEF Loops
  <2>4. Is(g)
    BY <2>2, <2>3
  <2> QED
    BY <2>4
<1>6. Is(f)
  <2> HIDE DEF Is
  <2> QED
    BY <1>5
<1> HIDE DEF f
<1>7. f[0] = <<>> /\ \A k \in 1..n : f[k] = Go(f[k - 1], k)
  BY <1>2, <1>6
<1>8. DOMAIN f = 0..n /\ f = [k \in 0..n |-> f[k]]
  BY <1>6
<1> HIDE DEF Is
<1>9. \A k \in 0..n : f[k] \in S
  <2>1. Follows(f, S, <<>>, n, step)
    BY <1>4, <1>7 DEF Follows
  <2> HIDE DEF n
  <2> QED
    BY <1>2, <1>3, <2>1, LoopStays
<1>10. f \in [0..n -> S]
  BY <1>8, <1>9
<1>11. Norm(f, path)
  BY <1>7, <1>10 DEF Norm, NormStep, S, Go
<1> QED
  BY <1>1, <1>11

NoLinks == \A p \in DOMAIN nodes : nodes[p].is # "link"

\* The place that a path leads to is the one that its text names.
LEMMA PlaceIsText ==
  ASSUME Fil!IsTree(nodes), NoLinks, NEW path \in Seq(Component),
         NEW f, Walk(f, path), NEW g, Norm(g, path)
  PROVE  f[Len(path)] # Fil!None /\ g[Len(path)] # Fil!None =>
           f[Len(path)] = g[Len(path)]
<1> DEFINE n == Len(path)
           T == {k \in Nat : k <= n => f[k] = Fil!None \/ g[k] = Fil!None \/ f[k] = g[k]}
<1>1. 0 \in T
  BY DEF Walk, Norm
<1>2. ASSUME NEW k \in T PROVE k + 1 \in T
  <2> SUFFICES ASSUME k + 1 <= n, f[k + 1] # Fil!None, g[k + 1] # Fil!None
               PROVE  f[k + 1] = g[k + 1]
    OBVIOUS
  <2> DEFINE c == path[k + 1]
             x == f[k]
  <2>1. k \in Nat /\ k + 1 \in 1..n /\ (k + 1) - 1 = k /\ k \in 0..n /\ c \in Component
        /\ (x = Fil!None \/ g[k] = Fil!None \/ x = g[k])
    OBVIOUS
  <2>2. f[k + 1] = Fil!Enter(nodes, x, c) /\ x \in Real(nodes) \cup {Fil!None}
    BY <2>1 DEF Walk
  <2>3. g[k + 1] = NormStep(g[k], c)
    BY <2>1 DEF Norm
  <2> HIDE DEF c, x
  <2>4. x # Fil!None /\ x = g[k] /\ nodes[x] = Fil!Dir /\ x \in DOMAIN nodes
    <3>1. x # Fil!None /\ nodes[x] = Fil!Dir
      BY <2>1, <2>2, EnterIs
    <3>2. g[k] # Fil!None
      BY <2>3 DEF NormStep
    <3> QED
      BY <2>1, <2>2, <3>1, <3>2 DEF Real
  <2>5. nodes[x].is = "dir"
    BY <2>4 DEF Fil!Dir
  <2>6. CASE c = ".."
    <3>1. g[k + 1] = Fil!Front(x) /\ x # <<>>
      BY <2>3, <2>4, <2>6 DEF NormStep
    <3>2. f[k + 1] = Fil!Front(x)
      BY <2>2, <2>4, <2>5, <2>6, <3>1 DEF Fil!Enter
    <3> QED
      BY <3>1, <3>2
  <2>7. CASE c # ".."
    <3> DEFINE q == Append(x, c)
    <3>1. g[k + 1] = q
      BY <2>3, <2>4, <2>7 DEF NormStep
    <3>2. f[k + 1] = IF q \notin DOMAIN nodes THEN Fil!None
                     ELSE IF nodes[q].is = "link" THEN nodes[q].to ELSE q
      BY <2>2, <2>4, <2>5, <2>7 DEF Fil!Enter
    <3> HIDE DEF q
    <3> QED
      BY <3>1, <3>2 DEF NoLinks
  <2> QED
    BY <2>6, <2>7
<1>3. T = Nat
  <2>1. T \in SUBSET Nat
    OBVIOUS
  <2> HIDE DEF T
  <2> QED
    BY <1>1, <1>2, <2>1, InductionOverNat
<1>4. n \in {k \in Nat : k <= n => f[k] = Fil!None \/ g[k] = Fil!None \/ f[k] = g[k]}
  BY <1>3
<1> QED
  BY <1>4

\* The first k components of r.
Begins(x, r, k) ==
  x \in Seq(FileName) /\ Len(x) = k /\ \A i \in 1..k : x[i] = r[i]

LEMMA BeginsNext ==
  ASSUME NEW r \in Seq(FileName), NEW k \in Nat, k + 1 <= Len(r), NEW x, Begins(x, r, k)
  PROVE  Begins(Append(x, r[k + 1]), r, k + 1)
<1>1. k + 1 \in 1..Len(r) /\ r[k + 1] \in FileName
  OBVIOUS
<1> DEFINE c == r[k + 1]
           y == Append(x, c)
<1>2. /\ y \in Seq(FileName) /\ Len(y) = k + 1 /\ y[k + 1] = c
      /\ \A i \in 1..k : y[i] = x[i]
  BY <1>1 DEF Begins
<1> HIDE DEF y
<1>3. ASSUME NEW i \in 1..k + 1 PROVE y[i] = r[i]
  <2>1. CASE i = k + 1
    BY <1>2, <2>1
  <2>2. CASE i # k + 1
    <3>1. i \in 1..k
      BY <2>2
    <3> QED
      BY <1>2, <3>1 DEF Begins
  <2> QED
    BY <2>1, <2>2
<1> QED
  BY <1>2, <1>3 DEF Begins, y

LEMMA BeginsAll ==
  ASSUME NEW r \in Seq(FileName), NEW x, Begins(x, r, Len(r))
  PROVE  x = r
BY DEF Begins

LEMMA BeginsPrefix ==
  ASSUME NEW r \in Seq(FileName), NEW p \in Seq(FileName), Fil!IsPrefix(r, p),
         NEW x, NEW k \in 0..Len(r), Begins(x, r, k)
  PROVE  Fil!IsPrefix(x, p)
<1>1. Len(r) <= Len(p) /\ \A i \in 1..Len(r) : r[i] = p[i]
  BY PrefixIs
<1>2. x \in Seq(FileName) /\ Len(x) <= Len(p) /\ \A i \in 1..Len(x) : x[i] = p[i]
  BY <1>1 DEF Begins
<1> QED
  BY <1>2, PrefixIs

\* A root without `..` is its own text, and its own place if something beneath it
\* exists.
LEMMA RootIsText ==
  ASSUME NEW r \in Seq(FileName), NEW g, Norm(g, r)
  PROVE  g[Len(r)] = r
<1> DEFINE n == Len(r)
           T == {k \in Nat : k <= n => Begins(g[k], r, k)}
<1>1. 0 \in T
  <2>1. g[0] = <<>>
    BY DEF Norm
  <2>2. Begins(g[0], r, 0)
    BY <2>1 DEF Begins
  <2> QED
    BY <2>2
<1>2. ASSUME NEW k \in T PROVE k + 1 \in T
  <2> SUFFICES ASSUME k + 1 <= n PROVE Begins(g[k + 1], r, k + 1)
    OBVIOUS
  <2>1. k \in Nat /\ k + 1 \in 1..n /\ (k + 1) - 1 = k /\ r[k + 1] \in FileName
        /\ Begins(g[k], r, k)
    OBVIOUS
  <2>2. g[k + 1] = NormStep(g[k], r[k + 1])
    BY <2>1 DEF Norm
  <2>3. g[k] # Fil!None /\ r[k + 1] # ".."
    BY <2>1, NameIs DEF Begins
  <2>4. g[k + 1] = Append(g[k], r[k + 1])
    BY <2>2, <2>3 DEF NormStep
  <2> QED
    BY <2>1, <2>4, BeginsNext
<1>3. T = Nat
  <2>1. T \in SUBSET Nat
    OBVIOUS
  <2> HIDE DEF T
  <2> QED
    BY <1>1, <1>2, <2>1, InductionOverNat
<1>4. n \in {k \in Nat : k <= n => Begins(g[k], r, k)}
  BY <1>3
<1> QED
  BY <1>4, BeginsAll

LEMMA RootIsPlace ==
  ASSUME Fil!IsTree(nodes), NoLinks, NEW r \in Seq(FileName), NEW f, Walk(f, r),
         NEW p \in DOMAIN nodes, Fil!IsPrefix(r, p)
  PROVE  f[Len(r)] = r
<1> DEFINE n == Len(r)
           T == {k \in Nat : k <= n => Begins(f[k], r, k)}
<1>0. p \in Seq(FileName) /\ n <= Len(p) /\ \A i \in 1..n : r[i] = p[i]
  <2>1. p \in Seq(FileName)
    BY TreeIs
  <2> QED
    BY <2>1, PrefixIs
<1>1. 0 \in T
  <2>1. f[0] = <<>>
    BY DEF Walk
  <2>2. Begins(f[0], r, 0)
    BY <2>1 DEF Begins
  <2> QED
    BY <2>2
<1>2. ASSUME NEW k \in T PROVE k + 1 \in T
  <2> SUFFICES ASSUME k + 1 <= n PROVE Begins(f[k + 1], r, k + 1)
    OBVIOUS
  <2> DEFINE x == f[k]
             c == r[k + 1]
             q == Append(x, c)
  <2>1. k \in Nat /\ k + 1 \in 1..n /\ (k + 1) - 1 = k /\ c \in FileName /\ Begins(x, r, k)
    OBVIOUS
  <2>2. f[k + 1] = Fil!Enter(nodes, x, c)
    BY <2>1 DEF Walk
  <2>3. Begins(q, r, k + 1)
    BY <2>1, BeginsNext
  <2>4. x \in Seq(FileName) /\ Len(x) = k /\ x # Fil!None /\ c # ".."
    BY <2>1, NameIs DEF Begins
  <2> HIDE DEF x, q, c
  <2>5. k \in 0..n /\ k + 1 \in 0..n
    BY <2>1
  <2>6. Fil!IsPrefix(x, p) /\ Fil!IsPrefix(q, p)
    BY <1>0, <2>1, <2>3, <2>5, BeginsPrefix
  <2>7. x # p
    BY <1>0, <2>1, <2>4
  <2>8. x \in Real(nodes) /\ nodes[x] = Fil!Dir
    BY <2>4, <2>6, <2>7, TreePrefix
  <2>9. q \in Seq(FileName)
    BY <2>3 DEF Begins
  <2>10. q \in DOMAIN nodes
    BY <2>6, <2>9, TreePrefix
  <2>11. nodes[x].is = "dir"
    BY <2>8 DEF Fil!Dir
  <2>12. Fil!Enter(nodes, x, c) =
           IF q \notin DOMAIN nodes THEN Fil!None
           ELSE IF nodes[q].is = "link" THEN nodes[q].to ELSE q
    BY <2>4, <2>11 DEF Fil!Enter, q
  <2>13. f[k + 1] = q
    BY <2>2, <2>10, <2>12 DEF NoLinks
  <2> QED
    BY <2>3, <2>13
<1>3. T = Nat
  <2>1. T \in SUBSET Nat
    OBVIOUS
  <2> HIDE DEF T
  <2> QED
    BY <1>1, <1>2, <2>1, InductionOverNat
<1>4. n \in {k \in Nat : k <= n => Begins(f[k], r, k)}
  BY <1>3
<1> QED
  BY <1>4, BeginsAll

LEMMA ReadsBeneath ==
  ASSUME FileInv, NoLinks, NEW path \in Seq(Component),
         NEW r \in read_roots, ".." \notin Fil!ToSet(r), Fil!LexicallyIn(r, path),
         Fil!canonicalize(path) # Fil!None
  PROVE  Fil!Beneath(Fil!canonicalize(path), read_roots)
<1>1. Fil!IsTree(nodes) /\ r \in Seq(Component)
  BY DEF FileInv
<1>2. r \in Seq(FileName)
  <2>1. \A i \in 1..Len(r) : r[i] \in Component /\ r[i] \in Fil!ToSet(r)
    BY <1>1 DEF Fil!ToSet
  <2>2. \A i \in 1..Len(r) : r[i] \in FileName
    BY <2>1 DEF Component
  <2>3. r = [i \in 1..Len(r) |-> r[i]] /\ Len(r) \in Nat
    BY <1>1
  <2> QED
    BY <2>2, <2>3
<1> DEFINE f == Fil!Places(path)
           p == Fil!canonicalize(path)
<1>3. Walk(f, path) /\ p = f[Len(path)]
  BY <1>1, PlacesAre
<1>4. PICK g : Norm(g, path) /\ Fil!normalize(path) = g[Len(path)]
  BY NormIs
<1>5. PICK h : Norm(h, r) /\ Fil!normalize(r) = h[Len(r)]
  BY <1>1, NormIs
<1>6. Fil!normalize(r) = r
  BY <1>2, <1>5, RootIsText
<1>7. Fil!normalize(path) # Fil!None /\ Fil!IsPrefix(r, Fil!normalize(path))
  BY <1>6 DEF Fil!LexicallyIn
<1> HIDE DEF f, p
<1>8. p # Fil!None
  BY DEF p
<1>9. Fil!normalize(path) = p
  BY <1>1, <1>3, <1>4, <1>7, <1>8, PlaceIsText
<1>10. p \in DOMAIN nodes
  <2>1. Len(path) \in 0..Len(path)
    OBVIOUS
  <2>2. p \in Real(nodes) \cup {Fil!None}
    BY <1>3, <2>1 DEF Walk
  <2> QED
    BY <1>8, <2>2 DEF Real
<1>11. Fil!IsPrefix(r, p)
  BY <1>7, <1>9
<1>12. Walk(Fil!Places(r), r) /\ Fil!canonicalize(r) = Fil!Places(r)[Len(r)]
  BY <1>1, PlacesAre
<1>13. Fil!canonicalize(r) = r
  BY <1>1, <1>2, <1>10, <1>11, <1>12, RootIsPlace
<1>14. Fil!Exists(r)
  BY <1>2, <1>13, NameIs DEF Fil!Exists
<1> QED
  BY <1>11, <1>13, <1>14 DEF Fil!Beneath, p
-----------------------------------------------------------------------------
(* FileTools: every step.                                                  *)

LEMMA FileInit == Init => FileInv
<1> SUFFICES ASSUME Init PROVE FileInv
  OBVIOUS
<1>1. CASE part = "file_tools"
  <2>1. read_roots \in Roots /\ write_roots \in Roots /\ nodes \in Tree
    BY <1>1 DEF Init, Fil!Init
  <2> QED
    BY <2>1, ExchangesAssumption DEF Fil!FileToolsAssumption, FileInv, Component
<1>2. CASE part # "file_tools"
  <2>1. read_roots = {} /\ write_roots = {} /\ nodes = [p \in {<<>>} |-> Fil!Dir]
    BY <1>2 DEF Init
  <2>2. DOMAIN nodes = {<<>>} /\ nodes[<<>>] = Fil!Dir
    BY <2>1
  <2>3. <<>> \in Seq(FileName) /\ Fil!Dir.is = "dir"
    BY DEF Fil!Dir
  <2>4. Fil!Dir \in Fil!Node
    <3>1. \A k \in {"dir", "file", "written", "link"}, p \in Seq(FileName) :
            [is |-> k, to |-> p] \in Fil!Node
      BY DEF Fil!Node
    <3> QED
      BY <2>3, <3>1 DEF Fil!Dir
  <2>5. Fil!IsTree(nodes)
    BY <2>1, <2>2, <2>3, <2>4 DEF Fil!IsTree
  <2> QED
    BY <2>1, <2>5 DEF FileInv
<1> QED
  BY <1>1, <1>2

LEMMA StillSame ==
  ASSUME UNCHANGED nodes
  PROVE  \A q \in DOMAIN nodes \cup DOMAIN nodes' : Fil!Same(q)
BY DEF Fil!Same

\* What lies beneath a place beneath a root is beneath the root.
LEMMA BeneathBeneath ==
  ASSUME FileInv, NEW p \in DOMAIN nodes, NEW q \in Seq(FileName), Fil!IsPrefix(p, q),
         Fil!Beneath(p, write_roots)
  PROVE  Fil!Beneath(q, write_roots)
<1>1. PICK r \in write_roots : Fil!Exists(r) /\ Fil!IsPrefix(Fil!canonicalize(r), p)
  BY DEF Fil!Beneath
<1>2. Fil!IsTree(nodes) /\ r \in Seq(Component)
  BY DEF FileInv
<1> DEFINE C == Fil!canonicalize(r)
<1>3. C \in Seq(FileName)
  <2>1. Walk(Fil!Places(r), r) /\ C = Fil!Places(r)[Len(r)] /\ Len(r) \in 0..Len(r)
    BY <1>2, PlacesAre
  <2>2. C \in Real(nodes) \cup {Fil!None}
    BY <2>1 DEF Walk
  <2>3. C # Fil!None
    BY <1>1 DEF Fil!Exists
  <2> QED
    BY <1>2, <2>2, <2>3, TreeIs DEF Real
<1>4. p \in Seq(FileName)
  BY <1>2, TreeIs
<1> HIDE DEF C
<1>5. Fil!IsPrefix(C, p)
  BY <1>1 DEF C
<1>6. Fil!IsPrefix(C, q)
  BY <1>3, <1>4, <1>5, PrefixOfPrefix
<1> QED
  BY <1>1, <1>6 DEF Fil!Beneath, C

\* The place that a path leads to.
LEMMA PlaceIs ==
  ASSUME FileInv, NEW path \in Seq(Component), Fil!canonicalize(path) # Fil!None
  PROVE  Fil!canonicalize(path) \in Real(nodes)
<1>1. Fil!IsTree(nodes)
  BY DEF FileInv
<1>2. Walk(Fil!Places(path), path) /\ Fil!canonicalize(path) = Fil!Places(path)[Len(path)]
  BY <1>1, PlacesAre
<1>3. Len(path) \in 0..Len(path)
  OBVIOUS
<1> QED
  BY <1>2, <1>3 DEF Walk

LEMMA ReadStep ==
  ASSUME FileInv, NEW path \in Fil!Request, Fil!ReadFile(path)
  PROVE  FileInv' /\ Fil!Contained
<1>1. path \in Seq(Component)
  BY RequestIs
<1>2. UNCHANGED <<read_roots, write_roots, nodes>>
  BY DEF Fil!ReadFile, Fil!Refuses
<1>3. FileInv'
  BY <1>2 DEF FileInv
<1>4. ASSUME text' # Fil!None, NoLinks, \A r \in read_roots : ".." \notin Fil!ToSet(r)
      PROVE  Fil!Beneath(text', read_roots)
  <2>1. Fil!path_allowed(path, FALSE) /\ text' = Fil!canonicalize(path)
    BY <1>4 DEF Fil!ReadFile, Fil!Refuses
  <2>2. PICK r \in read_roots : Fil!LexicallyIn(r, path)
    BY <2>1 DEF Fil!path_allowed
  <2>3. Fil!canonicalize(path) # Fil!None /\ ".." \notin Fil!ToSet(r)
    BY <1>4, <2>1
  <2>4. Fil!Beneath(Fil!canonicalize(path), read_roots)
    BY <1>1, <1>4, <2>2, <2>3, ReadsBeneath
  <2> QED
    BY <2>1, <2>4
<1>5. \A q \in DOMAIN nodes \cup DOMAIN nodes' : Fil!Same(q)
  BY <1>2, StillSame
<1> QED
  BY <1>3, <1>4, <1>5 DEF Fil!Contained, NoLinks

LEMMA WriteFileStep ==
  ASSUME FileInv, NEW path \in Fil!Request, Fil!WriteFile(path)
  PROVE  FileInv' /\ Fil!Contained
<1>1. path \in Seq(Component) /\ Fil!IsTree(nodes)
  BY RequestIs DEF FileInv
<1>2. UNCHANGED <<read_roots, write_roots>> /\ text' = Fil!None
  BY DEF Fil!WriteFile, Fil!Refuses
<1>3. CASE ~Fil!path_allowed(path, TRUE)
  <2>1. UNCHANGED nodes
    BY <1>3 DEF Fil!WriteFile, Fil!Refuses
  <2>2. \A q \in DOMAIN nodes \cup DOMAIN nodes' : Fil!Same(q)
    BY <2>1, StillSame
  <2> QED
    BY <1>2, <2>1, <2>2 DEF FileInv, Fil!Contained
<1>4. CASE Fil!path_allowed(path, TRUE)
  <2> DEFINE f == Fil!Places(path)
             e == Fil!Max({k \in 0..Len(path) : f[k] # Fil!None})
  <2>1. /\ Fil!IsTree(nodes')
        /\ (\A k \in 1..Len(path) : k > e => path[k] # "..") => OnlyBeneath(f[e])
    BY <1>4, WriteStep
  <2>2. FileInv'
    BY <1>2, <2>1 DEF FileInv
  <2>3. ASSUME \A r \in write_roots : Fil!Exists(r),
               NEW q \in DOMAIN nodes \cup DOMAIN nodes'
        PROVE  Fil!Same(q) \/ Fil!Beneath(q, write_roots)
    <3>1. PICK r \in write_roots : Fil!Exists(r) /\ Fil!resolves_within(r, path)
      BY <1>4, <2>3 DEF Fil!path_allowed
    <3>2. /\ \A k \in 1..Len(path) : k > e => path[k] # ".."
          /\ Fil!IsPrefix(Fil!canonicalize(r), f[e])
      BY <1>1, <3>1, ResolvesBeneath
    <3>3. Walk(f, path)
      BY <1>1, PlacesAre
    <3> HIDE DEF f
    <3>4. e \in 0..Len(path) /\ f[e] # Fil!None
      BY <1>1, <3>3, LastPlace
    <3> HIDE DEF e
    <3>5. f[e] \in DOMAIN nodes
      <4>1. f[e] \in Real(nodes) \cup {Fil!None}
        BY <3>3, <3>4 DEF Walk
      <4> QED
        BY <3>4, <4>1 DEF Real
    <3>6. Fil!Beneath(f[e], write_roots)
      BY <3>1, <3>2 DEF Fil!Beneath
    <3>7. q \in Seq(FileName)
      BY <1>1, <2>1, TreeIs
    <3>8. Fil!Same(q) \/ Fil!IsPrefix(f[e], q)
      BY <2>1, <2>3, <3>2 DEF OnlyBeneath
    <3> QED
      BY <3>5, <3>6, <3>7, <3>8, BeneathBeneath
  <2> QED
    BY <1>2, <2>2, <2>3 DEF Fil!Contained
<1> QED
  BY <1>3, <1>4

LEMMA ConfinedStep ==
  ASSUME FileInv, NEW path \in Fil!Request,
         \/ Fil!ConfinedWrites(path)
         \/ \E node \in {Fil!Dir, Fil!Written} \cup {Fil!LinkTo(place) : place \in Fil!Target} :
              Fil!ConfinedMakes(path, node)
  PROVE  FileInv' /\ Fil!Contained
<1>1. path \in Seq(Component) /\ path # <<>> /\ Len(path) \in Nat \ {0} /\ Fil!IsTree(nodes)
  BY RequestIs DEF FileInv
<1>2. UNCHANGED <<read_roots, write_roots>> /\ text' = Fil!None
  BY DEF Fil!ConfinedWrites, Fil!ConfinedMakes
<1>3. \E p \in DOMAIN nodes : /\ Fil!IsTree(nodes') /\ Fil!Beneath(p, write_roots)
                              /\ OnlyBeneath(p)
  <2>1. CASE Fil!ConfinedWrites(path)
    <3> DEFINE p == Fil!canonicalize(path)
    <3>1. /\ p # Fil!None /\ nodes[p] = Fil!File /\ Fil!Beneath(p, write_roots)
          /\ nodes' = [nodes EXCEPT ![p] = Fil!Written]
      BY <2>1 DEF Fil!ConfinedWrites, Fil!Exists
    <3>2. p \in Real(nodes)
      BY <1>1, <3>1, PlaceIs
    <3> HIDE DEF p
    <3>3. p \in DOMAIN nodes /\ p \in Seq(FileName) /\ nodes[p] # Fil!Dir
      BY <1>1, <3>1, <3>2, TreeIs DEF Real, Fil!Dir, Fil!File
    <3>4. nodes' = Fil!With(nodes, p, Fil!Written)
      <4>1. nodes = [q \in DOMAIN nodes |-> nodes[q]] /\ DOMAIN nodes \cup {p} = DOMAIN nodes
        BY <1>1, <3>3 DEF Fil!IsTree
      <4> QED
        BY <3>1, <4>1 DEF Fil!With
    <3>5. Fil!IsTree(nodes')
      BY <1>1, <3>2, <3>3, <3>4, TreeRewritten
    <3>6. Fil!IsPrefix(p, p)
      BY <3>3, PrefixIs
    <3>7. OnlyBeneath(p)
      BY <3>1, <3>6 DEF OnlyBeneath, Fil!Same
    <3> QED
      BY <3>1, <3>3, <3>5, <3>7
  <2>2. CASE \E node \in {Fil!Dir, Fil!Written} \cup {Fil!LinkTo(place) : place \in Fil!Target} :
               Fil!ConfinedMakes(path, node)
    <3>1. PICK node \in {Fil!Dir, Fil!Written} \cup {Fil!LinkTo(place) : place \in Fil!Target} :
               Fil!ConfinedMakes(path, node)
      BY <2>2
    <3>2. node \in NodeFor(nodes)
      BY <3>1 DEF NodeFor, Fil!Target, Real
    <3> DEFINE p == Fil!canonicalize(Fil!Front(path))
               name == Fil!Last(path)
               q == Append(p, name)
    <3>3. /\ name # ".." /\ p # Fil!None /\ nodes[p] = Fil!Dir /\ Fil!Beneath(p, write_roots)
          /\ q \notin DOMAIN nodes /\ nodes' = Fil!With(nodes, q, node)
      BY <3>1 DEF Fil!ConfinedMakes
    <3>4. Fil!Front(path) \in Seq(Component) /\ name \in FileName
      <4>1. Fil!Front(path) \in Seq(Component) /\ name \in Component
        BY <1>1, FrontIs
      <4> QED
        BY <3>3, <4>1 DEF Component
    <3>5. p \in Real(nodes)
      BY <3>3, <3>4, PlaceIs
    <3> HIDE DEF p, name
    <3>6. p \in DOMAIN nodes /\ p \in Seq(FileName)
      BY <1>1, <3>5, TreeIs DEF Real
    <3>7. Fil!IsTree(nodes')
      BY <1>1, <3>2, <3>3, <3>4, <3>5, TreeGrows
    <3>8. Fil!IsPrefix(p, q)
      BY <3>4, <3>6, FrontOfAppend
    <3> HIDE DEF q
    <3>9. DOMAIN nodes' = DOMAIN nodes \cup {q} /\ \A r \in DOMAIN nodes : nodes'[r] = nodes[r]
      BY <3>3 DEF Fil!With
    <3>10. OnlyBeneath(p)
      BY <3>8, <3>9 DEF OnlyBeneath, Fil!Same
    <3> QED
      BY <3>3, <3>6, <3>7, <3>10
  <2> QED
    BY <2>1, <2>2
<1>4. FileInv'
  BY <1>2, <1>3 DEF FileInv
<1>5. ASSUME NEW q \in DOMAIN nodes \cup DOMAIN nodes'
      PROVE  Fil!Same(q) \/ Fil!Beneath(q, write_roots)
  <2>1. PICK p \in DOMAIN nodes : /\ Fil!IsTree(nodes') /\ Fil!Beneath(p, write_roots)
                                  /\ OnlyBeneath(p)
    BY <1>3
  <2>2. q \in Seq(FileName)
    BY <1>1, <2>1, TreeIs
  <2>3. Fil!Same(q) \/ Fil!IsPrefix(p, q)
    BY <2>1 DEF OnlyBeneath
  <2> QED
    BY <2>1, <2>2, <2>3, BeneathBeneath
<1> QED
  BY <1>2, <1>4, <1>5 DEF Fil!Contained

\* For every tree, roots and request, whatever links confined code has left:
\* with write roots that exist, a call changes nothing outside their real places,
\* and in a tree without links read_file returns nothing from outside the read
\* roots (policy.rs path_allowed and resolves_within, sa-tools/lib.rs, landlock_linux.rs).
THEOREM CallsAreContained == Spec => PathsContained
<1>1. Init => FileInv
  BY FileInit
<1>2. FileInv /\ [Next]_vars => FileInv' /\ [Fil!Contained]_(Fil!vars)
  <2> SUFFICES ASSUME FileInv, [Next]_vars
               PROVE  FileInv' /\ [Fil!Contained]_(Fil!vars)
    OBVIOUS
  <2>1. CASE Fil!Next
    <3>1. PICK path \in Fil!Request :
            \/ Fil!ReadFile(path) \/ Fil!WriteFile(path) \/ Fil!ConfinedWrites(path)
            \/ \E node \in {Fil!Dir, Fil!Written}
                           \cup {Fil!LinkTo(place) : place \in Fil!Target} :
                 Fil!ConfinedMakes(path, node)
      BY <2>1 DEF Fil!Next
    <3>2. CASE Fil!ReadFile(path)
      BY <3>2, ReadStep
    <3>3. CASE Fil!WriteFile(path)
      BY <3>3, WriteFileStep
    <3>4. CASE ~Fil!ReadFile(path) /\ ~Fil!WriteFile(path)
      BY <3>1, <3>4, ConfinedStep
    <3> QED
      BY <3>2, <3>3, <3>4
  <2>2. CASE UNCHANGED fileVars
    BY <2>2 DEF fileVars, FileInv, Fil!vars
  <2>3. Fil!Next \/ UNCHANGED fileVars
    BY DEF Next, Of, DeliveryNext, McpNext, ToolboxNext, EgressNext, ExecutionNext,
           DialogueNext, ScheduleNext, FileToolsNext, vars, ofDelivery, ofMcp, ofExecution
  <2> QED
    BY <2>1, <2>2, <2>3
<1> QED
  BY <1>1, <1>2, PTL DEF Spec, PathsContained, Fil!PathsContained

=============================================================================
