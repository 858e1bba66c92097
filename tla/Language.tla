------------------------------ MODULE Language ------------------------------
(***************************************************************************)
(* What a source means, token by token: the abstract specification that    *)
(* every target (compiler and runner together) has to implement.           *)
(*                                                                         *)
(* A program is run or rejected.  One step executes some commands that     *)
(* nobody outside can see and then at most one that can be seen, so that   *)
(* targets are free to merge, drop and reorder invisible work between two  *)
(* visible effects as long as memory and pointer agree at the steps.       *)
(***************************************************************************)
EXTENDS Commands

VARIABLES
  source,
  pc, dp, memory, \* next token, data pointer, working memory
  event,          \* the last visible effect
  status          \* "READY", "RUNNING", or why the program is not running

vars == <<source, pc, dp, memory, event, status>>

Config == [pc |-> pc, dp |-> dp, memory |-> memory]

Become(c) == pc' = c.pc /\ dp' = c.dp /\ memory' = c.memory

-----------------------------------------------------------------------------

Init ==
  /\ pc = 1
  /\ dp = 0
  /\ memory = [i \in Cell |-> 0]
  /\ event = [kind |-> "none", dp |-> 0, value |-> 0]
  /\ status = "READY"

(* Only a source without a fault is run. *)
Start ==
  /\ status = "READY"
  /\ IsVerdict(source, Len(source) + 1, "SUCCESS")
  /\ status' = "RUNNING"
  /\ UNCHANGED <<source, pc, dp, memory, event>>

(* A source is rejected for its first fault, or for lack of memory. *)
Reject(e) ==
  /\ status = "READY"
  /\ \/ e = "MALLOC"
     \/ e # "SUCCESS" /\ \E i \in 1 .. Len(source) + 1 : IsVerdict(source, i, e)
  /\ status' = e
  /\ UNCHANGED <<source, pc, dp, memory, event>>

Think(c) == Become(c) /\ UNCHANGED event

Nothing(c) == /\ Here(source, c) = "nothing"
              /\ Become(Onward(c))
              /\ event' = [kind |-> "write", dp |-> 0, value |-> c.memory[c.dp]]

Beats(c) == \E v \in Byte :
              /\ Here(source, c) = "beats"
              /\ Become([Onward(c) EXCEPT !.memory[c.dp] = v])
              /\ event' = [kind |-> "read", dp |-> 0, value |-> v]

Holiday(c) == /\ Here(source, c) = "holiday"
              /\ Become(Onward(c))
              /\ event' = [kind |-> "debug", dp |-> c.dp, value |-> c.memory[c.dp]]

Run == /\ status = "RUNNING"
       /\ \E c \in Ahead(source, Config) : Think(c) \/ Nothing(c) \/ Beats(c) \/ Holiday(c)
       /\ UNCHANGED <<source, status>>

(* Memory and pointer are what they were when the last command was reached. *)
Stop(s) ==
  /\ status = "RUNNING"
  /\ \E c \in Ahead(source, Config) : c.dp = dp /\ c.memory = memory /\ Ends(source, c, s)
  /\ status' = s
  /\ UNCHANGED <<source, pc, dp, memory, event>>

Next ==
  \/ Start
  \/ \E e \in CompilerErrors : Reject(e)
  \/ Run
  \/ \E s \in {"SUCCESS", "DP_OUT_OF_BOUNDS", "IO", "END_OF_INPUT_FILE"} : Stop(s)

Spec == Init /\ [][Next]_vars

=============================================================================
