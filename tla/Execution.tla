----------------------------- MODULE Execution ------------------------------
(***************************************************************************)
(* One call that runs a child process: execute_code and shell on the        *)
(* backend of crates/sa-exec, the speech commands of voice.rs, and an       *)
(* op_tool.  The parent writes the whole input before it reads anything,    *)
(* then reads both outputs until they end.                                 *)
(*                                                                         *)
(* The three pipes between them hold PIPE pieces each.  The child is any    *)
(* short program of reads and writes, which may end before it has read its  *)
(* input; nothing it starts outlives it, or the outputs would not end, and  *)
(* an input that is not a pipe is at its end.                              *)
(***************************************************************************)
EXTENDS Naturals, Sequences, FiniteSets

CONSTANTS
  PIPE,       \* pieces a pipe holds
  MaxInput,   \* bound: pieces of input
  MaxOps      \* bound: reads and writes of the child

\* Of the constants; MCExchanges assumes it.
ExecutionAssumption == PIPE \in Nat \ {0} /\ MaxInput \in Nat /\ MaxOps \in Nat

VARIABLES
  caller,             \* whose call it is
  backend,            \* [exec] backend
  enforced,           \* the kernel enforces landlock
  allow_unsandboxed,  \* --allow-unsandboxed-exec was given to this run
  input,              \* pieces of the code or the text to be said
  program,            \* what the child does
  pc,                 \* where the parent is, or how the call has ended
  how,                \* how the child in hand was started
  left,               \* pieces of input not yet written
  at,                 \* how many operations the child has done
  status,             \* "running", or the child's exit status
  pipes,              \* what each of the three pipes holds
  got,                \* what has been read of the two outputs
  started             \* history: how the code was started, each time

callVars == <<caller, backend, enforced, allow_unsandboxed, input, program>>
vars == <<callVars, pc, how, left, at, status, pipes, got, started>>

Callers == {"execute_code", "shell", "stt", "tts", "op_tool"}

Programs == UNION {[1..k -> {"in", "out", "err"}] : k \in 0..MaxOps}

\* How many of a program's operations are of a kind.
Count(kind) == Cardinality({i \in 1..Len(program) : program[i] = kind})

Init ==
  /\ caller \in Callers /\ backend \in {"local", "docker", "ssh"}
  /\ enforced \in BOOLEAN
  /\ allow_unsandboxed \in (IF caller = "execute_code" THEN BOOLEAN ELSE {FALSE})
  /\ input \in 0..MaxInput /\ program \in Programs
  /\ pc = "start" /\ how = "none" /\ left = 0 /\ at = 0 /\ status = "none"
  /\ pipes = [in |-> 0, out |-> 0, err |-> 0] /\ got = [out |-> 0, err |-> 0]
  /\ started = <<>>

\* A child is started, with its input on a pipe or without any.
Spawn(way, piped) ==
  /\ how' = way /\ started' = Append(started, way)
  /\ at' = 0 /\ status' = "running"
  /\ left' = (IF piped THEN input ELSE 0)
  /\ pc' = (IF piped THEN "write" ELSE "read")
  /\ pipes' = [in |-> 0, out |-> 0, err |-> 0] /\ got' = [out |-> 0, err |-> 0]

\* The override for any error.
MutOverridable == caller = "execute_code" /\ allow_unsandboxed /\ how # "unconfined"

\* ExecuteCode::run: an error of the local backend, under the override.
Overridable ==
  /\ caller = "execute_code" /\ allow_unsandboxed /\ how # "unconfined"
  /\ backend = "local"

\* The call fails, or the code runs without a sandbox instead (which fails only
\* where there is no shell).
Fails ==
  \/ Overridable /\ Spawn("unconfined", FALSE)
  \/ pc' = "failed" /\ UNCHANGED <<how, left, at, status, pipes, got, started>>

Sandboxed == caller \in {"execute_code", "shell"}

\* Backend::run: landlock or nothing, or the client of the container or the
\* host, whose input is the code; voice's speaker is told the answer the same
\* way, and the other commands have all they need in argv.
Start ==
  /\ pc = "start"
  /\ IF Sandboxed
       THEN IF backend = "local"
              THEN enforced /\ Spawn("confined", FALSE)
              ELSE Spawn(backend, TRUE)
       ELSE Spawn("vouched", caller = "tts")
  /\ UNCHANGED callVars

\* RefuseSandbox and LandlockSandbox without landlock.
Refused ==
  /\ pc = "start" /\ Sandboxed /\ backend = "local" /\ ~enforced
  /\ Fails
  /\ UNCHANGED callVars

\* There is no such program, or landlock cannot be applied in the fork.
SpawnFails ==
  /\ pc = "start" /\ Fails
  /\ UNCHANGED callVars

\* write_all: a full pipe makes it wait; after the last piece stdin is closed.
Write ==
  /\ pc = "write" /\ left > 0 /\ status = "running" /\ pipes.in < PIPE
  /\ left' = left - 1 /\ pipes' = [pipes EXCEPT !.in = @ + 1]
  /\ UNCHANGED <<callVars, pc, how, at, status, got, started>>

CloseInput ==
  /\ pc = "write" /\ left = 0
  /\ pc' = "read"
  /\ UNCHANGED <<callVars, how, left, at, status, pipes, got, started>>

\* The child has ended before its input has: a broken pipe, and with it the
\* output of the child is lost.
WriteFails ==
  /\ pc = "write" /\ left > 0 /\ status # "running"
  /\ Fails
  /\ UNCHANGED callVars

\* Only the first output until it ends.
MutRead(out) ==
  /\ pc = "read" /\ pipes[out] > 0
  /\ out = "err" => status # "running" /\ pipes.out = 0
  /\ pipes' = [pipes EXCEPT ![out] = @ - 1] /\ got' = [got EXCEPT ![out] = @ + 1]
  /\ UNCHANGED <<callVars, pc, how, left, at, status, started>>

\* wait_with_output and output: both outputs, as they come.
Read(out) ==
  /\ pc = "read" /\ pipes[out] > 0
  /\ pipes' = [pipes EXCEPT ![out] = @ - 1] /\ got' = [got EXCEPT ![out] = @ + 1]
  /\ UNCHANGED <<callVars, pc, how, left, at, status, started>>

\* Both have ended, and so has the child: only voice asks for its status.
Return ==
  /\ pc = "read" /\ status # "running" /\ pipes.out = 0 /\ pipes.err = 0
  /\ IF caller \in {"stt", "tts"} /\ status = "failure"
       THEN Fails
       ELSE /\ pc' = "returned"
            /\ UNCHANGED <<how, left, at, status, pipes, got, started>>
  /\ UNCHANGED callVars

ParentStep ==
  \/ Start \/ Refused \/ SpawnFails \/ Write \/ CloseInput \/ WriteFails
  \/ Read("out") \/ Read("err") \/ Return
-----------------------------------------------------------------------------
\* The child does the next thing: a read waits until there is something or the
\* input has ended, a write until there is room.
ChildDoes ==
  /\ status = "running" /\ at < Len(program)
  /\ LET op == program[at + 1]
     IN \/ op = "in" /\ pipes.in > 0 /\ pipes' = [pipes EXCEPT !.in = @ - 1]
        \/ op = "in" /\ pipes.in = 0 /\ pc # "write" /\ UNCHANGED pipes
        \/ op # "in" /\ pipes[op] < PIPE /\ pipes' = [pipes EXCEPT ![op] = @ + 1]
  /\ at' = at + 1
  /\ UNCHANGED <<callVars, pc, how, left, status, got, started>>

ChildEnds ==
  /\ status = "running" /\ at = Len(program)
  /\ status' \in {"success", "failure"}
  /\ UNCHANGED <<callVars, pc, how, left, at, pipes, got, started>>

ChildStep == ChildDoes \/ ChildEnds

Next == ParentStep \/ ChildStep

\* Both processes are scheduled.
Fairness == WF_vars(ParentStep) /\ WF_vars(ChildStep)

Spec == Init /\ [][Next]_vars /\ Fairness
-----------------------------------------------------------------------------
(* Properties.                                                             *)

\* Either the input fits a pipe or each of the outputs does.
Fits == input <= PIPE \/ (Count("out") <= PIPE /\ Count("err") <= PIPE)

\* A call that starts returns all of both outputs, or fails, although nothing
\* limits its time: when the input fits a pipe, or when the outputs do.  (When
\* neither does, pipe_code and spawn_capture may wait for a child that waits for
\* them, sa-exec/src/lib.rs:172 and voice.rs:57.)
CallEnds ==
  Fits ~> \/ pc = "failed"
          \/ pc = "returned" /\ got = [out |-> Count("out"), err |-> Count("err")]

\* The code of a call is started once: the override never runs again what a
\* backend has begun, and never anything but the code of execute_code that the
\* sandbox of this machine has refused.
StartedOnce ==
  /\ Len(started) <= 1
  /\ how = "unconfined" => allow_unsandboxed /\ backend = "local" /\ caller = "execute_code"
=============================================================================
