----------------------------- MODULE BytecodeVM -----------------------------
(***************************************************************************)
(* nbajh_run_bytecode (bytecode_run.c) over a struct nbajh_context         *)
(* (context.h): one turn of the fetch loop per step.                       *)
(*                                                                         *)
(* ip and dp are offsets from ctx->program and ctx->memory.  What the      *)
(* outside sees is `event', the last character written or read or the last *)
(* call of the debugging event handler; the handler is the one of cmd/,    *)
(* which prints the context and does not change it.                        *)
(***************************************************************************)
EXTENDS Bytecode

VARIABLES
  program, \* the code: offsets to instructions
  ip, dp, memory,
  event,   \* the last visible effect
  status   \* "RUNNING", or what the call returned

context == <<ip, dp, memory, event, status>>
vars    == <<program, context>>

NoEvent == [kind |-> "none", dp |-> 0, value |-> 0]
Event   == [kind : {"none", "write", "read", "debug"}, dp : Cell, value : Byte]
Status  == {"RUNNING", "SUCCESS", "DP_OUT_OF_BOUNDS", "IO", "END_OF_INPUT_FILE",
            "INVALID_OP"}

(* nbajh_context_init *)
ContextInit ==
  /\ ip = 0
  /\ dp = 0
  /\ memory = [c \in Cell |-> 0]
  /\ event = NoEvent
  /\ status = "RUNNING"

Init == WellFormedCode(program) /\ ContextInit

-----------------------------------------------------------------------------

Value == memory[dp]

(* The loop fetches an instruction: `instr' stands for its bytes at ip. *)
instr == program[ip]
Fetch(ops) == status = "RUNNING" /\ ip \in DOMAIN program /\ instr.op \in ops

(* Definitions marked "Mutant" are no part of the specification: each is a *)
(* plausible mistake in the definition below it.                           *)

(* Mutant: operands are not skipped. *)
AdvanceByOpcode == ip' = ip + 1 /\ UNCHANGED <<program, status>>

(* Go on behind the instruction. *)
Advance == ip' = ip + InstrSize(instr.op) /\ UNCHANGED <<program, status>>

(* Mutant: the operand is skipped before the instruction fails. *)
ReturnBehind(s) ==
  /\ status' = s
  /\ ip' = ip + InstrSize(instr.op)
  /\ UNCHANGED <<program, dp, memory, event>>

(* Return with ip just behind the opcode. *)
Return(s) ==
  /\ status' = s
  /\ ip' = ip + 1
  /\ UNCHANGED <<program, dp, memory, event>>

(* Mutant: one cell too many. *)
BeyondEndByOne(n) == dp > MEMORY_SIZE - n

(* The bounds check of addp. *)
BeyondEnd(n) == dp >= MEMORY_SIZE - n

(* Mutant: both jumps test for zero. *)
TakenOnZero == Value = 0

(* Whether jmpz, or else jmpnz, jumps. *)
Taken == (instr.op = "jmpz") = (Value = 0)

RunRet == Fetch({"ret"}) /\ Return("SUCCESS")

RunAddp ==
  /\ Fetch({"addp"})
  /\ IF BeyondEnd(instr.operand)
     THEN Return("DP_OUT_OF_BOUNDS")
     ELSE Advance /\ dp' = dp + instr.operand /\ UNCHANGED <<memory, event>>

RunSubp ==
  /\ Fetch({"subp"})
  /\ IF dp < instr.operand
     THEN Return("DP_OUT_OF_BOUNDS")
     ELSE Advance /\ dp' = dp - instr.operand /\ UNCHANGED <<memory, event>>

(* 8-bit arithmetic on the cell: it wraps. *)
RunAddv ==
  /\ Fetch({"addv"})
  /\ Advance
  /\ memory' = [memory EXCEPT ![dp] = (@ + instr.operand) % (UINT8_MAX + 1)]
  /\ UNCHANGED <<dp, event>>

RunSubv ==
  /\ Fetch({"subv"})
  /\ Advance
  /\ memory' = [memory EXCEPT
                  ![dp] = (@ + (UINT8_MAX + 1) - instr.operand) % (UINT8_MAX + 1)]
  /\ UNCHANGED <<dp, event>>

(* fputc may fail. *)
RunWrite ==
  /\ Fetch({"write"})
  /\ \/ /\ Advance
        /\ event' = [kind |-> "write", dp |-> 0, value |-> Value]
        /\ UNCHANGED <<dp, memory>>
     \/ Return("IO")

(* Mutant: the cell is assigned before the result is looked at. *)
RunReadEof ==
  /\ Fetch({"read"})
  /\ \/ \E v \in Byte :
          /\ Advance
          /\ memory' = [memory EXCEPT ![dp] = v]
          /\ event' = [kind |-> "read", dp |-> 0, value |-> v]
     \/ /\ status' = "END_OF_INPUT_FILE"
        /\ ip' = ip + 1
        /\ memory' = [memory EXCEPT ![dp] = UINT8_MAX]
        /\ UNCHANGED <<program, event>>
  /\ UNCHANGED dp

(* fgetc gives any byte, or EOF, which ferror tells apart. *)
RunRead ==
  /\ Fetch({"read"})
  /\ \/ \E v \in Byte :
          /\ Advance
          /\ memory' = [memory EXCEPT ![dp] = v]
          /\ event' = [kind |-> "read", dp |-> 0, value |-> v]
          /\ UNCHANGED dp
     \/ Return("IO")
     \/ Return("END_OF_INPUT_FILE")

(* nbajh_bytecode_run_jmpz and _jmpnz. *)
RunJump ==
  /\ Fetch(Jumps)
  /\ ip' = IF Taken THEN instr.operand ELSE ip + InstrSize(instr.op)
  /\ UNCHANGED <<program, dp, memory, event, status>>

RunDebug ==
  /\ Fetch({"debug"})
  /\ Advance
  /\ event' = [kind |-> "debug", dp |-> dp, value |-> Value]
  /\ UNCHANGED <<dp, memory>>

RunInvalidOp ==
  /\ status = "RUNNING" /\ ip \in DOMAIN program /\ instr.op \notin Opcode
  /\ Return("INVALID_OP")

Next ==
  \/ RunRet  \/ RunAddp  \/ RunSubp \/ RunAddv \/ RunSubv
  \/ RunWrite \/ RunRead \/ RunJump \/ RunDebug \/ RunInvalidOp

Spec == Init /\ [][Next]_vars

-----------------------------------------------------------------------------

(* The data pointer never leaves the working memory. *)
TypeOK ==
  /\ ip \in Nat
  /\ dp \in Cell
  /\ memory \in [Cell -> Byte]
  /\ event \in Event
  /\ status \in Status

(* Fetches only ever start at an instruction of the program: never inside  *)
(* an operand, never behind the end.                                       *)
IpAtInstruction == status = "RUNNING" => ip \in DOMAIN program

(***************************************************************************)
(* When the call returns, ip - 1 is the address of the instruction that    *)
(* ended it, and the state the context is left in is the one in which that *)
(* instruction had to fail: main.cpp of the C++ example reports ip - 1.    *)
(***************************************************************************)
Explains(i, s) ==
  CASE s = "SUCCESS" -> i.op = "ret"
    [] s = "DP_OUT_OF_BOUNDS" ->
         \/ i.op = "addp" /\ dp + i.operand \notin Cell
         \/ i.op = "subp" /\ dp - i.operand \notin Cell
    [] s = "IO" -> i.op \in {"read", "write"}
    [] s = "END_OF_INPUT_FILE" -> i.op = "read"
    [] OTHER -> i.op \notin Opcode

StopsAtCulprit ==
  status # "RUNNING" =>
    /\ ip - 1 \in DOMAIN program
    /\ Explains(program[ip - 1], status)

(* An instruction that fails has no effect: pointer, memory and what the   *)
(* outside saw are as before it; and nothing happens after a return.       *)
FailureIsClean ==
  [][/\ status = "RUNNING"
     /\ status' # "RUNNING" => UNCHANGED <<program, dp, memory, event>>]_vars

=============================================================================
