-------------------------------- MODULE Inbox --------------------------------
(***************************************************************************)
(* What a connector promises the daemon: a message is handed to the agent  *)
(* at most once between two restarts.  The exception is a doubt: the        *)
(* transport could not be told that a message was taken, so it may hand     *)
(* that message over once more.                                            *)
(***************************************************************************)
EXTENDS Naturals

CONSTANT Msg    \* messages

VARIABLES
  handed,   \* how often each message was handed over since the last restart
  doubts    \* how often the transport could not be told it was

vars == <<handed, doubts>>

Init ==
  /\ handed = [m \in Msg |-> 0]
  /\ doubts = [m \in Msg |-> 0]

Hand(m) ==
  /\ handed[m] <= doubts[m]
  /\ handed' = [handed EXCEPT ![m] = @ + 1]
  /\ UNCHANGED doubts

Doubt(m) ==
  /\ doubts' = [doubts EXCEPT ![m] = @ + 1]
  /\ UNCHANGED handed

Restart ==
  /\ handed' = [m \in Msg |-> 0]
  /\ doubts' = [m \in Msg |-> 0]

Next == (\E m \in Msg : Hand(m) \/ Doubt(m)) \/ Restart

Spec == Init /\ [][Next]_vars
=============================================================================
