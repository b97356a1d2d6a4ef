------------------------------ MODULE Delivery -------------------------------
(***************************************************************************)
(* crates/sa-connectors and drive_connector of gateway.rs: one connector    *)
(* task between a transport that may hand a message over again and an agent *)
(* that runs what it is handed.                                            *)
(*                                                                         *)
(* `held` is what the transport would still hand over: Telegram's           *)
(* unconfirmed updates, Slack's unacknowledged envelopes, the mails without *)
(* \Seen, and nothing for Discord, whose events are pushed once.  The mail   *)
(* server is the one of RFC 3501: FETCH RFC822 is BODY[], not BODY.PEEK[],   *)
(* and sets \Seen itself.  A message is its place in the order of arrival.   *)
(* Gateway models the audit mutex and the scheduler around the step          *)
(* "dispatch" of this task.                                                 *)
(***************************************************************************)
EXTENDS Naturals, Sequences, FiniteSets

CONSTANTS
  Kind,         \* the kinds of connector that are configured
  MaxMsgs,      \* bound: messages sent to the agent
  Flaws,        \* what each message lacks or is that may exclude it
  SEEN_CAP,     \* slack.rs: the size of the ring of seen envelopes
  Window,       \* Slack: how many newer messages an unacknowledged one may have
  MaxFaults,    \* bound: transport errors
  MaxCrashes    \* bound: ends of the daemon

Msg == 1..MaxMsgs

Flaw == {"no_text", "blank", "no_sender", "no_chat", "bot", "subtype"}

\* Of the constants; MCExchanges assumes it.
DeliveryAssumption ==
  /\ Kind \subseteq {"telegram", "slack", "email", "discord"}
  /\ MaxMsgs \in Nat
  /\ Flaws \in [Msg -> SUBSET Flaw]
  /\ SEEN_CAP \in Nat /\ Window \in Nat /\ SEEN_CAP > 2 * Window
  /\ MaxFaults \in Nat /\ MaxCrashes \in Nat

VARIABLES
  kind,       \* the kind of this connector
  arrived,    \* how many messages users have sent
  held,       \* transport: what it would hand over (again)
  pc,         \* where the task is
  buf,        \* the connector's buf: parsed messages not yet returned
  hand,       \* the message in hand, 0 if none
  offset,     \* telegram: the largest update_id parsed
  ws,         \* slack, discord: the frames in the open socket, or NoSocket
  seen,       \* slack: the ring of envelope ids
  uids,       \* email: the UIDs of the search not fetched yet
  handed,     \* history: dispatches of each message since the last restart
  doubts,     \* history: mails read whose \Seen the server did not keep, since then
  concluded,  \* history: messages ever dispatched
  dropped,    \* history: messages lost with the process, or sent to no one
  unread,     \* history: messages that a transport error took before they were read
  faults,     \* history: transport errors so far
  crashes     \* history: ends of the daemon so far

connectorVars == <<buf, hand, offset, ws, seen, uids>>
historyVars == <<handed, doubts, concluded, dropped, unread, faults, crashes>>
vars == <<kind, arrived, held, pc, connectorVars, historyVars>>

NoSocket == <<0>>

Members(s) == {s[i] : i \in 1..Len(s)}

\* In the order of their update_id: the i-th is the one with i of them up to it.
Ordered(S) ==
  [i \in 1..Cardinality(S) |-> CHOOSE m \in S : Cardinality({k \in S : k <= m}) = i]

Largest(S) == CHOOSE m \in S : \A k \in S : k <= m
-----------------------------------------------------------------------------
(* What the pure parsers keep of a batch.                                  *)

\* telegram.rs: an update without message, text, sender or chat is skipped.
parse_updates(batch) ==
  Ordered({m \in batch : Flaws[m] \cap {"no_text", "no_sender", "no_chat"} = {}})

\* slack.rs map_message.
slack_map(m) == IF Flaws[m] = {} THEN <<m>> ELSE <<>>

\* email.rs: only a From address is needed.
parse_inbound_email(m) == IF "no_sender" \in Flaws[m] THEN <<>> ELSE <<m>>

\* discord.rs map_message.
discord_map(m) ==
  IF Flaws[m] \cap {"bot", "blank", "no_text"} = {} THEN <<m>> ELSE <<>>

\* The messages this connector means for the agent.
Usable(m) ==
  CASE kind = "telegram" -> parse_updates({m}) # <<>>
    [] kind = "slack" -> slack_map(m) # <<>>
    [] kind = "email" -> parse_inbound_email(m) # <<>>
    [] kind = "discord" -> discord_map(m) # <<>>

\* slack.rs note_envelope: the new ring; an id already in it is not new.
note_envelope(ring, m) ==
  IF m \in Members(ring) THEN ring
  ELSE IF Len(ring) >= SEEN_CAP THEN Append(Tail(ring), m) ELSE Append(ring, m)
-----------------------------------------------------------------------------
Init ==
  /\ kind \in Kind
  /\ arrived = 0
  /\ held = {}
  /\ pc = "off"
  /\ buf = <<>>
  /\ hand = 0
  /\ offset = 0
  /\ ws = NoSocket
  /\ seen = <<>>
  /\ uids = {}
  /\ handed = [m \in Msg |-> 0]
  /\ doubts = [m \in Msg |-> 0]
  /\ concluded = {}
  /\ dropped = {}
  /\ unread = {}
  /\ faults = 0
  /\ crashes = 0

\* A user sends a message.  Slack redelivers within seconds (slack.rs:109), so
\* an envelope is settled before Window newer ones exist.  Discord keeps
\* nothing for a bot that is not connected.
Arrive ==
  /\ arrived < MaxMsgs
  /\ kind = "slack" => \A m \in held : arrived + 1 - m <= Window
  /\ arrived' = arrived + 1
  /\ IF kind = "discord"
     THEN /\ UNCHANGED held
          /\ IF ws = NoSocket
             THEN dropped' = dropped \cup {arrived'} /\ UNCHANGED ws
             ELSE ws' = Append(ws, arrived') /\ UNCHANGED dropped
     ELSE /\ held' = held \cup {arrived'}
          /\ UNCHANGED <<ws, dropped>>
  /\ UNCHANGED <<kind, pc, buf, hand, offset, seen, uids, handed, doubts,
                 concluded, unread, faults, crashes>>

\* construct_connector and the spawn in run_until: nothing is kept on disk.
\* Discord's shard connects by itself.
Start ==
  /\ pc = "off"
  /\ pc' = "recv"
  /\ ws' = IF kind = "discord" THEN <<>> ELSE NoSocket
  /\ UNCHANGED <<kind, arrived, held, buf, hand, offset, seen, uids, historyVars>>

\* A transport error: recv returns Err.
Fails ==
  /\ faults < MaxFaults
  /\ faults' = faults + 1
  /\ pc' = "backoff"

\* drive_connector sleeps 5 seconds and calls recv again.
Retry ==
  /\ pc = "backoff"
  /\ pc' = "recv"
  /\ UNCHANGED <<kind, arrived, held, connectorVars, historyVars>>

\* An operator named Mut... is a faulty variant of a definition after it, kept
\* to show that a property would notice the fault.
MutReturnDropsRest ==
  /\ pc = "recv" /\ buf # <<>>
  /\ hand' = Head(buf)
  /\ buf' = <<>>
  /\ pc' = "dispatch"
  /\ UNCHANGED <<kind, arrived, held, offset, ws, seen, uids, historyVars>>

\* recv: buffered messages first.
Return ==
  /\ pc = "recv" /\ buf # <<>>
  /\ hand' = Head(buf)
  /\ buf' = Tail(buf)
  /\ pc' = "dispatch"
  /\ UNCHANGED <<kind, arrived, held, offset, ws, seen, uids, historyVars>>
-----------------------------------------------------------------------------
(* Telegram.                                                               *)

Polling(k) == kind = k /\ pc = "recv" /\ buf = <<>>

\* What getUpdates(offset + 1) leaves unconfirmed.
Unconfirmed == {m \in held : m > offset}

MutConfirmsAtOnce ==
  /\ Polling("telegram")
  /\ \E n \in Unconfirmed :
       LET batch == {m \in Unconfirmed : m <= n}
       IN  /\ held' = Unconfirmed \ batch
           /\ offset' = Largest(batch)
           /\ buf' = parse_updates(batch)
  /\ UNCHANGED <<kind, arrived, pc, hand, ws, seen, uids, historyVars>>

\* The request confirms everything up to offset; the answer is the first
\* updates behind it.
GetUpdates ==
  /\ Polling("telegram")
  /\ held' = Unconfirmed
  /\ \E n \in Unconfirmed :
       LET batch == {m \in Unconfirmed : m <= n}
       IN  /\ offset' = Largest(batch)
           /\ buf' = parse_updates(batch)
  /\ UNCHANGED <<kind, arrived, pc, hand, ws, seen, uids, historyVars>>

\* No update for 25 seconds.
GetUpdatesEmpty ==
  /\ Polling("telegram")
  /\ held # Unconfirmed
  /\ held' = Unconfirmed
  /\ UNCHANGED <<kind, arrived, pc, connectorVars, historyVars>>

\* The request or its answer is lost.
GetUpdatesFails ==
  /\ Polling("telegram")
  /\ held' \in {held, Unconfirmed}
  /\ Fails
  /\ UNCHANGED <<kind, arrived, connectorVars, handed, doubts, concluded,
                 dropped, unread, crashes>>
-----------------------------------------------------------------------------
(* Slack.                                                                  *)

\* connect_ws.
Connect ==
  /\ Polling("slack") /\ ws = NoSocket
  /\ ws' = <<>>
  /\ UNCHANGED <<kind, arrived, held, pc, buf, hand, offset, seen, uids, historyVars>>

ConnectFails ==
  /\ Polling("slack") /\ ws = NoSocket
  /\ Fails
  /\ UNCHANGED <<kind, arrived, held, connectorVars, handed, doubts, concluded,
                 dropped, unread, crashes>>

\* Slack sends an envelope, or sends it again.
Push(m) ==
  /\ kind = "slack" /\ ws # NoSocket
  /\ m \in held \ Members(ws)
  /\ ws' = Append(ws, m)
  /\ UNCHANGED <<kind, arrived, held, pc, buf, hand, offset, seen, uids, historyVars>>

\* A frame is read and its acknowledgement is sent; Slack receives it, or the
\* socket is lost behind it.
Acknowledge ==
  /\ Polling("slack") /\ ws \notin {NoSocket, <<>>}
  /\ hand' = Head(ws)
  /\ ws' = Tail(ws)
  /\ pc' = "note"
  /\ \/ held' = held \ {hand'} /\ UNCHANGED faults
     \/ faults < MaxFaults /\ faults' = faults + 1 /\ UNCHANGED held
  /\ UNCHANGED <<kind, arrived, buf, offset, seen, uids, handed, doubts,
                 concluded, dropped, unread, crashes>>

MutNoteWithoutCheck ==
  /\ pc = "note"
  /\ seen' = note_envelope(seen, hand)
  /\ buf' = buf \o slack_map(hand)
  /\ hand' = 0
  /\ pc' = "recv"
  /\ UNCHANGED <<kind, arrived, held, offset, ws, uids, historyVars>>

\* The envelope is noted, and mapped if it is new.
Note ==
  /\ pc = "note"
  /\ seen' = note_envelope(seen, hand)
  /\ buf' = IF hand \in Members(seen) THEN buf ELSE buf \o slack_map(hand)
  /\ hand' = 0
  /\ pc' = "recv"
  /\ UNCHANGED <<kind, arrived, held, offset, ws, uids, historyVars>>

\* The socket ends while it is read or while an acknowledgement is sent, or
\* Slack asks for a new one: recv goes on without it.
SocketDrops ==
  /\ Polling("slack") /\ ws # NoSocket
  /\ faults < MaxFaults
  /\ faults' = faults + 1
  /\ ws' = NoSocket
  /\ UNCHANGED <<kind, arrived, held, pc, buf, hand, offset, seen, uids, handed,
                 doubts, concluded, dropped, unread, crashes>>
-----------------------------------------------------------------------------
(* E-mail.                                                                 *)

\* poll_inbox up to UID SEARCH UNSEEN.  An empty INBOX sleeps in recv.
Search ==
  /\ Polling("email") /\ held # {}
  /\ uids' = held
  /\ pc' = "fetch"
  /\ UNCHANGED <<kind, arrived, held, buf, hand, offset, ws, seen, historyVars>>

SearchFails ==
  /\ Polling("email")
  /\ Fails
  /\ UNCHANGED <<kind, arrived, held, connectorVars, handed, doubts, concluded,
                 dropped, unread, crashes>>

\* UID FETCH of the next mail; uid_search returns a set, in no order.  The server
\* sets \Seen while it answers.
Fetch(u) ==
  /\ pc = "fetch"
  /\ held' = held \ {u}
  /\ buf' = buf \o parse_inbound_email(u)
  /\ uids' = uids \ {u}
  /\ pc' = "store"
  /\ UNCHANGED <<kind, arrived, hand, offset, ws, seen, historyVars>>

\* The connection breaks: the request is lost, or the answer with the mail, or
\* only what follows the mail in it.  The server may have set \Seen by then.  `?`
\* ends the poll with what it has buffered, the mail in hand perhaps too.
FetchFails(u) ==
  /\ pc = "fetch"
  /\ held' \in {held, held \ {u}}
  /\ \/ /\ unread' = IF u \in held' THEN unread ELSE unread \cup {u}
        /\ UNCHANGED <<buf, doubts>>
     \/ /\ buf' = buf \o parse_inbound_email(u)
        /\ doubts' = IF u \in held' THEN [doubts EXCEPT ![u] = @ + 1] ELSE doubts
        /\ UNCHANGED unread
  /\ uids' = {}
  /\ Fails
  /\ UNCHANGED <<kind, arrived, hand, offset, ws, seen, handed, concluded, dropped,
                 crashes>>

\* UID STORE +FLAGS (\Seen), of a mail that has the flag.
StoreSeen ==
  /\ pc = "store"
  /\ pc' = "fetch"
  /\ UNCHANGED <<kind, arrived, held, connectorVars, historyVars>>

\* It or its answer is lost; the mails not fetched yet are left to the next poll.
StoreFails ==
  /\ pc = "store"
  /\ uids' = {}
  /\ Fails
  /\ UNCHANGED <<kind, arrived, held, buf, hand, offset, ws, seen, handed, doubts,
                 concluded, dropped, unread, crashes>>

\* Logout.
PollEnds ==
  /\ pc = "fetch" /\ uids = {}
  /\ pc' = "recv"
  /\ UNCHANGED <<kind, arrived, held, connectorVars, historyVars>>
-----------------------------------------------------------------------------
(* Discord.                                                                *)

\* next_event yields a message; a bot's or a blank one is passed over.
NextEvent ==
  /\ Polling("discord") /\ ws \notin {NoSocket, <<>>}
  /\ buf' = discord_map(Head(ws))
  /\ ws' = Tail(ws)
  /\ UNCHANGED <<kind, arrived, held, pc, hand, offset, seen, uids, historyVars>>

\* The error is logged and the loop goes on: an event that does not decode is
\* lost; the shard connects again by itself, and unless Discord resumes the
\* session the events waiting in it are lost.
ReceiveError ==
  /\ Polling("discord") /\ ws # NoSocket
  /\ faults < MaxFaults
  /\ faults' = faults + 1
  /\ \E n \in 0..Len(ws) :
       /\ ws' = SubSeq(ws, n + 1, Len(ws))
       /\ unread' = unread \cup {ws[i] : i \in 1..n}
  /\ UNCHANGED <<kind, arrived, held, pc, buf, hand, offset, seen, uids, handed,
                 doubts, concluded, dropped, crashes>>
-----------------------------------------------------------------------------
(* The dispatch, and the end of the task.                                  *)

\* dispatch_inbound: a reply to send, or a rejected sender or an Err.
Dispatch ==
  /\ pc = "dispatch"
  /\ handed' = [handed EXCEPT ![hand] = @ + 1]
  /\ concluded' = concluded \cup {hand}
  /\ \/ pc' = "send" /\ UNCHANGED hand
     \/ pc' = "recv" /\ hand' = 0
  /\ UNCHANGED <<kind, arrived, held, buf, offset, ws, seen, uids, doubts,
                 dropped, unread, faults, crashes>>

\* The reply is sent; an Err is logged and the reply given up.
Send ==
  /\ pc = "send"
  /\ hand' = 0
  /\ pc' = "recv"
  /\ UNCHANGED <<kind, arrived, held, buf, offset, ws, seen, uids, historyVars>>

\* Taken from the transport and not dispatched.
InMemory == Members(buf) \cup (IF pc \in {"note", "dispatch"} THEN {hand} ELSE {})

\* The daemon is stopped or dies, or a closed shard ends the task until the
\* next start.  To die with a FETCH under way is FetchFails and then this.
Crash ==
  /\ pc # "off" /\ crashes < MaxCrashes
  /\ crashes' = crashes + 1
  /\ pc' = "off"
  /\ dropped' = dropped \cup ((InMemory \cup (IF kind = "discord" THEN Members(ws) ELSE {}))
                               \ (held \cup {0}))
  /\ buf' = <<>> /\ hand' = 0 /\ offset' = 0
  /\ ws' = NoSocket /\ seen' = <<>> /\ uids' = {}
  /\ handed' = [m \in Msg |-> 0]
  /\ doubts' = [m \in Msg |-> 0]
  /\ UNCHANGED <<kind, arrived, held, concluded, unread, faults>>

TelegramStep == GetUpdates \/ GetUpdatesEmpty \/ GetUpdatesFails

SlackStep == Connect \/ ConnectFails \/ Acknowledge \/ Note \/ SocketDrops

EmailStep ==
  \/ Search \/ SearchFails \/ StoreSeen \/ StoreFails \/ PollEnds
  \/ \E u \in uids : Fetch(u) \/ FetchFails(u)

DiscordStep == NextEvent \/ ReceiveError

TaskStep ==
  \/ Start \/ Retry \/ Return \/ Dispatch \/ Send
  \/ TelegramStep \/ SlackStep \/ EmailStep \/ DiscordStep

Next == Arrive \/ TaskStep \/ (\E m \in held : Push(m)) \/ Crash

Spec == Init /\ [][Next]_vars

\* The task is polled and restarted, a call to the transport returns, and Slack
\* sends what is not acknowledged.
FairSpec == Spec /\ WF_vars(TaskStep) /\ \A m \in Msg : WF_vars(Push(m))
-----------------------------------------------------------------------------
(* Properties.                                                             *)

\* Between two restarts a message runs once, plus once for each mail that was read
\* and whose \Seen the server did not keep: neither lost acknowledgements nor lost
\* answers nor new sockets make a side-effect-armed message run again
\* (slack.rs:254-258).
Promise == INSTANCE Inbox

ImplementsInbox == Promise!Spec

\* A message the transport no longer holds was dispatched or is in memory, or it was
\* lost with the process or before it was read.  With Telegram and Slack no error of
\* the transport loses one, and with e-mail an error loses one mail at most, the one
\* whose answer it cut off; Telegram loses none with the process either: a batch is
\* confirmed by the poll after its last dispatch (telegram.rs:1-4).  What Slack is not
\* to run again is remembered in a ring that stays within its size.
NothingLost ==
  /\ \A m \in 1..arrived :
       Usable(m) => m \in held \cup InMemory \cup concluded \cup dropped \cup unread
                          \cup (IF kind = "discord" THEN Members(ws) ELSE {})
  /\ kind = "telegram" => dropped = {}
  /\ kind \in {"telegram", "slack"} => unread = {}
  /\ kind = "email" => Cardinality(unread) <= faults
  /\ Len(seen) <= SEEN_CAP

\* A message for the agent is dispatched in the end, or was lost with a process or,
\* by mail or Discord, before it was read: no other error of the transport leaves it
\* behind.
MessageDispatched ==
  \A m \in Msg :
    (m <= arrived /\ Usable(m)) ~>
      m \in concluded \cup dropped \cup (IF kind \in {"email", "discord"} THEN unread ELSE {})
=============================================================================
