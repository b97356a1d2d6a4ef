------------------------------- MODULE Egress -------------------------------
(***************************************************************************)
(* egress_request of crates/sa-tools/src/egress.rs, the one place through   *)
(* which fetch, web_extract, web_search and http_request reach the network: *)
(* it vets a URL, resolves its host, contacts the address it has vetted, and *)
(* does all of this again for each redirect.                               *)
(*                                                                         *)
(* What lies outside answers as it likes: a name resolves to other          *)
(* addresses at every lookup, and a host that is contacted may redirect     *)
(* anywhere.                                                               *)
(***************************************************************************)
EXTENDS Naturals, Sequences

CONSTANTS
  Name,           \* hosts that are names
  Addr,           \* addresses, which are also hosts (literals in a URL)
  Private,        \* the addresses in the ranges of is_blocked_ip
  Mapped,         \* to_ipv4_mapped: the address that a mapped one stands for
  MAX_REDIRECTS,  \* egress.rs
  MAX_BODY        \* egress.rs, in chunks

Host == Name \cup Addr

\* Of the constants; MCExchanges assumes it.
EgressAssumption ==
  /\ Name \cap Addr = {} /\ Private \subseteq Addr
  /\ Mapped \in [Addr -> Addr]
  /\ MAX_REDIRECTS \in Nat /\ MAX_BODY \in Nat

VARIABLES
  egress_allow,  \* the policy's list of exact hosts
  pc,            \* the step of the loop, or how it has ended
  url,           \* the URL in hand: its scheme, whether it has userinfo, its host
  addr,          \* the address the client is pinned to
  hops,          \* redirects followed
  buf,           \* read_capped: how much of the body has been read
  contacts       \* history: every request sent, [host, addr]

vars == <<egress_allow, pc, url, addr, hops, buf, contacts>>

NoAddr == "none"

Url == [scheme : {"http", "ftp"}, userinfo : BOOLEAN, host : Host]

Init ==
  /\ egress_allow \in SUBSET Host
  /\ url \in Url
  /\ pc = "vet" /\ addr = NoAddr /\ hops = 0 /\ buf = 0 /\ contacts = <<>>

\* The call returns an error.
Denied ==
  /\ pc' = "denied"
  /\ UNCHANGED <<egress_allow, url, addr, hops, buf, contacts>>

egress_allowed(host) == host \in egress_allow

\* The scheme, the userinfo and the host of the URL in hand.
Vet ==
  /\ pc = "vet"
  /\ IF url.scheme # "http" \/ url.userinfo \/ ~egress_allowed(url.host)
       THEN Denied
       ELSE /\ pc' = "resolve"
            /\ UNCHANGED <<egress_allow, url, addr, hops, buf, contacts>>

\* What a lookup may answer: a literal is its own address.
Answers(host) ==
  IF host \in Addr THEN {<<host>>} ELSE UNION {[1..k -> Addr] : k \in 0..2}

is_blocked_ip(a) == Mapped[a] \in Private

\* The exact address, as the policy has it: the mapped form is another one.
ip_explicitly_allowed(a) == a \in egress_allow

Permitted(a) == ~is_blocked_ip(a) \/ ip_explicitly_allowed(a)

\* pick_allowed_addr: the first address the policy permits.
PickAllowedAddr(answer) ==
  /\ pc = "resolve"
  /\ \/ (\A i \in DOMAIN answer : ~Permitted(answer[i])) /\ Denied
     \/ \E i \in DOMAIN answer :
          /\ Permitted(answer[i]) /\ \A j \in 1..(i - 1) : ~Permitted(answer[j])
          /\ addr' = answer[i] /\ pc' = "send"
          /\ UNCHANGED <<egress_allow, url, hops, buf, contacts>>

ResolveFails == pc = "resolve" /\ Denied

\* Without resolve(): the client looks the host up again.
MutPeers(host) == {answer[1] : answer \in Answers(host) \ {<<>>}}

\* The address that the client connects to: the one it is pinned to.
Peers(host) == {addr}

\* One request with redirects off, and what is answered.
Contact(a) == contacts' = Append(contacts, [host |-> url.host, addr |-> a])

SendFails(a) ==
  /\ pc = "send" /\ a \in Peers(url.host)
  /\ Contact(a) /\ pc' = "denied"
  /\ UNCHANGED <<egress_allow, url, addr, hops, buf>>

\* A redirect: its target, absolute or joined to the URL in hand, is vetted anew.
Redirected(a, target) ==
  /\ pc = "send" /\ a \in Peers(url.host)
  /\ Contact(a)
  /\ hops' = hops + 1
  /\ IF hops' > MAX_REDIRECTS
       THEN pc' = "denied" /\ UNCHANGED url
       ELSE pc' = "vet" /\ url' = target
  /\ UNCHANGED <<egress_allow, addr, buf>>

Answered(a) ==
  /\ pc = "send" /\ a \in Peers(url.host)
  /\ Contact(a) /\ pc' = "body"
  /\ UNCHANGED <<egress_allow, url, addr, hops, buf>>

\* read_capped: a chunk more, unless it exceeds the cap.
ReadCapped(chunk) ==
  /\ pc = "body"
  /\ IF buf + chunk > MAX_BODY
       THEN Denied
       ELSE buf' = buf + chunk /\ UNCHANGED <<egress_allow, pc, url, addr, hops, contacts>>

BodyEnds ==
  /\ pc = "body"
  /\ pc' \in {"returned", "denied"}
  /\ UNCHANGED <<egress_allow, url, addr, hops, buf, contacts>>

Next ==
  \/ Vet \/ ResolveFails \/ BodyEnds
  \/ \E answer \in Answers(url.host) : PickAllowedAddr(answer)
  \/ \E a \in Addr : SendFails(a) \/ Answered(a)
  \/ \E a \in Addr, target \in Url : Redirected(a, target)
  \/ \E chunk \in 1..2 : ReadCapped(chunk)

Spec == Init /\ [][Next]_vars
-----------------------------------------------------------------------------
\* However names resolve from one lookup to the next and wherever redirects
\* lead, every request of a call goes to a host of the list at an address the
\* policy permits (egress.rs:43-44), there are at most MAX_REDIRECTS + 1 of
\* them, and a body that is returned is within the cap.
ContactsVetted ==
  /\ \A i \in 1..Len(contacts) :
       contacts[i].host \in egress_allow /\ Permitted(contacts[i].addr)
  /\ Len(contacts) <= MAX_REDIRECTS + 1
  /\ pc = "returned" => contacts # <<>> /\ buf <= MAX_BODY
=============================================================================
