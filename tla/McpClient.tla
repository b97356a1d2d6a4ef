----------------------------- MODULE McpClient ------------------------------
(***************************************************************************)
(* McpClient and McpConnection::connect of crates/sa-tools/src/mcp.rs: one  *)
(* client that speaks JSON-RPC, a line per message, to a server process     *)
(* over two bounded pipes.                                                  *)
(*                                                                         *)
(* A line travels as two pieces, its "head" and its "tail" with the         *)
(* newline, so that a timeout can cut one that is half written or half      *)
(* read; an oversized line has a "rest" between them.  The server is slow   *)
(* and may be broken: it answers each request once, in any order and as     *)
(* late as it likes, sends notifications and requests of its own, and may   *)
(* end.                                                                     *)
(***************************************************************************)
EXTENDS Naturals, Sequences

CONSTANTS
  MaxCalls,                  \* bound: tools/call requests
  MAX_MESSAGES_PER_REQUEST,  \* mcp.rs: messages read for one request
  PipeRoom,                  \* pieces a pipe holds
  MaxNoise                   \* bound: lines the server sends unasked, and its end

\* Of the constants; MCExchanges assumes it.
McpAssumption ==
  /\ MaxCalls \in Nat /\ MaxNoise \in Nat
  /\ MAX_MESSAGES_PER_REQUEST \in Nat \ {0} /\ PipeRoom \in Nat \ {0}

VARIABLES
  stage,    \* what the caller is about: the handshake, calls, or no connection
  next_id,  \* the client's next_id
  id,       \* the request in progress, 0 for a notification
  phase,    \* "idle", "write" or "read"
  todo,     \* the pieces of the line still to be written
  buf,      \* read_message's buf: the pieces read of a line
  count,    \* `seen`: messages read for this request
  stdin,    \* the pipe to the server
  stdout,   \* the pipe from the server
  half,     \* server: the pieces read of a line
  asked,    \* server: the requests it has not answered
  out,      \* server: the pieces of a line still to be written
  closed,   \* the server has ended
  result,   \* history: the last message taken for an answer, and for which id
  noise,    \* history: lines sent unasked, and the end of the server
  cuts,     \* history: lines whose reading was given up halfway
  broken,   \* history: lines read that are no JSON
  torn,     \* history: requests whose writing was given up halfway
  garbled   \* history: lines the server could not read

clientVars == <<stage, next_id, id, phase, todo, buf, count>>
serverVars == <<half, asked, out, noise>>
historyVars == <<result, cuts, broken, torn, garbled>>
vars == <<clientVars, stdin, stdout, closed, serverVars, historyVars>>

Kinds == {"answer", "error", "request", "notification", "huge"}

Message == [id : 0..(MaxCalls + 2), kind : Kinds]

Broken == [id |-> 0, kind |-> "broken"]
Blank == [id |-> 0, kind |-> "blank"]

\* A line as the pieces that travel.
Line(m) == LET piece(p) == [msg |-> m, part |-> p]
           IN IF m.kind = "huge" THEN <<piece("head"), piece("rest"), piece("tail")>>
                                 ELSE <<piece("head"), piece("tail")>>
-----------------------------------------------------------------------------
Init ==
  /\ stage = "initialize" /\ next_id = 1 /\ id = 0 /\ phase = "idle"
  /\ todo = <<>> /\ buf = <<>> /\ count = 0
  /\ stdin = <<>> /\ stdout = <<>> /\ closed = FALSE
  /\ half = <<>> /\ asked = {} /\ out = <<>>
  /\ result = [id |-> 0, for |-> 0, kind |-> "none"]
  /\ noise = 0 /\ cuts = 0 /\ broken = 0 /\ torn = 0 /\ garbled = 0

\* McpConnection::connect makes its two requests and the notification between
\* them one after the other; then the agent loop makes one call at a time.
NextStage == [initialize |-> "notify", notify |-> "list", list |-> "up", up |-> "up"]

\* A request or a notification returns.  Its error ends a connection that is not
\* up yet, and with the connection the process of the server (kill_on_drop).
Return(ok) ==
  /\ phase' = "idle" /\ todo' = <<>> /\ buf' = <<>> /\ count' = 0
  /\ stage' = IF ok THEN NextStage[stage] ELSE IF stage = "up" THEN "up" ELSE "skipped"
  /\ closed' = (closed \/ stage' = "skipped")
  /\ UNCHANGED <<next_id, id>>

\* request: a fresh id, and its line to be written.
Request ==
  /\ phase = "idle" /\ stage \in {"initialize", "list", "up"}
  /\ stage = "up" => next_id <= MaxCalls + 2
  /\ id' = next_id /\ next_id' = next_id + 1
  /\ phase' = "write" /\ todo' = Line([id |-> next_id, kind |-> "request"])
  /\ UNCHANGED <<stage, buf, count, stdin, stdout, closed, serverVars, historyVars>>

\* initialize: the notification after the answer, outside REQUEST_TIMEOUT.
Notify ==
  /\ phase = "idle" /\ stage = "notify"
  /\ id' = 0
  /\ phase' = "write" /\ todo' = Line([id |-> 0, kind |-> "notification"])
  /\ UNCHANGED <<stage, next_id, buf, count, stdin, stdout, closed, serverVars, historyVars>>

\* write_message: a full pipe makes it wait, a server that has ended fails it.
WritePiece ==
  /\ phase = "write" /\ ~closed /\ Len(stdin) < PipeRoom
  /\ stdin' = Append(stdin, Head(todo))
  /\ IF Len(todo) > 1
       THEN todo' = Tail(todo) /\ UNCHANGED <<stage, next_id, id, phase, buf, count, closed>>
       ELSE IF id = 0
              THEN Return(TRUE)
              ELSE /\ todo' = <<>> /\ phase' = "read"
                   /\ UNCHANGED <<stage, next_id, id, buf, count, closed>>
  /\ UNCHANGED <<stdout, serverVars, historyVars>>

WriteFails ==
  /\ phase = "write" /\ closed
  /\ Return(FALSE)
  /\ UNCHANGED <<stdin, stdout, serverVars, historyVars>>

\* What a line is read as.  Without its head it is no JSON, or blank when only
\* the newline is left of it; a head at the end of the stream may lack no more
\* than the newline.
Readings(line, whole) ==
  IF line[1].part = "head"
    THEN {line[1].msg} \cup (IF whole THEN {} ELSE {Broken})
    ELSE {Broken, Blank}

\* Any answer is taken.
MutMatchesAny(m) == m.kind \in {"answer", "error"}

\* request: the answer is the message with the id, whatever else it says;
\* anything else is skipped, up to the limit.
Matches(m) == m.id = id

Take(m) ==
  \/ /\ m # Broken /\ m # Blank /\ Matches(m)
     /\ result' = [id |-> m.id, for |-> id, kind |-> m.kind]
     /\ Return(m.kind # "error")
     /\ UNCHANGED <<cuts, broken>>
  \/ /\ m = Broken
     /\ broken' = broken + 1
     /\ Return(FALSE)
     /\ UNCHANGED <<result, cuts>>
  \/ /\ m # Broken /\ (m = Blank \/ ~Matches(m))
     /\ IF count + 1 = MAX_MESSAGES_PER_REQUEST
          THEN Return(FALSE)
          ELSE /\ count' = count + 1 /\ buf' = <<>>
               /\ UNCHANGED <<stage, next_id, id, phase, todo, closed>>
     /\ UNCHANGED <<result, cuts, broken>>

\* read_message: up to MAX_LINE_BYTES, the head, and the newline after it.
ReadPiece ==
  /\ phase = "read" /\ stdout # <<>>
  /\ stdout' = Tail(stdout)
  /\ LET line == Append(buf, Head(stdout))
     IN \/ /\ Head(stdout).part = "tail"
           /\ \E m \in Readings(line, TRUE) : Take(m)
        \/ /\ Head(stdout).part = "rest" /\ buf # <<>>
           /\ cuts' = cuts + 1
           /\ Return(FALSE)
           /\ UNCHANGED <<result, broken>>
        \/ /\ Head(stdout).part # "tail" /\ (Head(stdout).part = "rest" => buf = <<>>)
           /\ buf' = line
           /\ UNCHANGED <<stage, next_id, id, phase, todo, count, closed, result, cuts, broken>>
  /\ UNCHANGED <<stdin, serverVars, torn, garbled>>

\* The stream ends: in the middle of a line, or between two.
ReadEnd ==
  /\ phase = "read" /\ stdout = <<>> /\ closed
  /\ \/ buf # <<>> /\ \E m \in Readings(buf, FALSE) : Take(m)
     \/ buf = <<>> /\ Return(FALSE) /\ UNCHANGED <<result, cuts, broken>>
  /\ UNCHANGED <<stdin, stdout, serverVars, torn, garbled>>

\* With the write outside the timeout.
MutTimeoutReadOnly ==
  /\ phase = "read"
  /\ Return(FALSE)
  /\ cuts' = IF buf # <<>> THEN cuts + 1 ELSE cuts
  /\ UNCHANGED <<stdin, stdout, serverVars, result, broken, torn, garbled>>

\* request: REQUEST_TIMEOUT over the write and the reads.  A line half read is
\* dropped with its buffer, a line half written stays so.
Timeout ==
  /\ phase # "idle" /\ id # 0
  /\ Return(FALSE)
  /\ cuts' = IF buf # <<>> THEN cuts + 1 ELSE cuts
  /\ torn' = IF Len(todo) = 1 THEN torn + 1 ELSE torn
  /\ UNCHANGED <<stdin, stdout, serverVars, result, broken, garbled>>

\* load_mcp_tools: CONNECT_TIMEOUT over the whole of connect.
ConnectTimeout ==
  /\ stage \notin {"up", "skipped"}
  /\ Return(FALSE)
  /\ UNCHANGED <<stdin, stdout, serverVars, historyVars>>
-----------------------------------------------------------------------------
(* The server.                                                             *)

ServerReads ==
  /\ ~closed /\ stdin # <<>>
  /\ stdin' = Tail(stdin)
  /\ IF Head(stdin).part = "head"
       THEN half' = Append(half, Head(stdin)) /\ UNCHANGED <<asked, garbled>>
       ELSE /\ half' = <<>>
            /\ IF Len(half) = 1
                 THEN /\ asked' = asked \cup ({Head(stdin).msg.id} \ {0})
                      /\ UNCHANGED garbled
                 ELSE garbled' = garbled + 1 /\ UNCHANGED asked
  /\ UNCHANGED <<clientVars, stdout, closed, out, noise, result, cuts, broken, torn>>

ServerAnswers(i, kind) ==
  /\ ~closed /\ out = <<>>
  /\ out' = Line([id |-> i, kind |-> kind]) /\ asked' = asked \ {i}
  /\ UNCHANGED <<clientVars, stdin, stdout, closed, half, noise, historyVars>>

\* A notification, an oversized line, or a request of the server's own, which it
\* numbers from 1 as the client does.
ServerSpeaks(m) ==
  /\ ~closed /\ out = <<>> /\ noise < MaxNoise
  /\ out' = Line(m) /\ noise' = noise + 1
  /\ UNCHANGED <<clientVars, stdin, stdout, closed, half, asked, historyVars>>

ServerWrites ==
  /\ ~closed /\ out # <<>> /\ Len(stdout) < PipeRoom
  /\ stdout' = Append(stdout, Head(out)) /\ out' = Tail(out)
  /\ UNCHANGED <<clientVars, stdin, closed, half, asked, noise, historyVars>>

ServerEnds ==
  /\ ~closed /\ noise < MaxNoise
  /\ closed' = TRUE /\ noise' = noise + 1
  /\ UNCHANGED <<clientVars, stdin, stdout, half, asked, out, historyVars>>

ServerStep ==
  \/ ServerReads \/ ServerWrites \/ ServerEnds
  \/ \E i \in asked, kind \in {"answer", "error"} : ServerAnswers(i, kind)
  \/ \E m \in {[id |-> 0, kind |-> "notification"], [id |-> 0, kind |-> "huge"],
               [id |-> 1, kind |-> "request"], [id |-> 3, kind |-> "request"]} :
       ServerSpeaks(m)

Next ==
  \/ Request \/ Notify \/ WritePiece \/ WriteFails
  \/ ReadPiece \/ ReadEnd \/ Timeout \/ ConnectTimeout
  \/ ServerStep

\* The timers go off, and connect goes on to its next request; nothing is asked
\* of the server.
Fairness == WF_vars(Timeout) /\ WF_vars(ConnectTimeout)

Spec == Init /\ [][Next]_vars /\ Fairness
-----------------------------------------------------------------------------
(* Properties.                                                             *)

\* What giving a request up leaves behind stays harmless.  The message taken for
\* an answer is the one to the request in progress, however late the others come
\* (only a request of the server's own, under that number, passes for one); every
\* broken line is the rest of one that was cut, or the end of the stream, so that
\* a timeout costs one later request at most; and every line the server cannot
\* read has a request in it that was torn.
AftermathBounded ==
  /\ result.for # 0 =>
       result.id = result.for /\ result.kind \in {"answer", "error", "request"}
  /\ broken <= cuts + (IF closed THEN 1 ELSE 0)
  /\ garbled <= torn

\* The agent waits for the handshake, or for a call.
Waiting == phase # "idle" \/ stage \notin {"up", "skipped"}

\* Neither a silent server nor one that never reads keeps anyone waiting:
\* connecting ends (load_mcp_tools), and so does every call (request).
RequestsEnd == Waiting ~> ~Waiting
=============================================================================
