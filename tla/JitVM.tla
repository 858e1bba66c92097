-------------------------------- MODULE JitVM --------------------------------
(***************************************************************************)
(* nbajh_run_jit_x86_64 (jit_x86_64_run.c), a call of the machine code,    *)
(* and what the groups that jit_x86_64_compile.c emits do to registers,    *)
(* stack and struct nbajh_context: one group per step.                     *)
(*                                                                         *)
(* rbx, r12, r13 and r15 are constants of a run (context, fgetc, fputc,    *)
(* memory) and left out but for the caller's values of them.  What the     *)
(* outside sees is `event', as in BytecodeVM.                              *)
(***************************************************************************)
EXTENDS JitCode, Sequences

VARIABLES
  code,            \* the program
  rip,             \* the offset of the next group
  r14,             \* the data pointer, as an index of memory
  al, eax,         \* the register rax: a character, an error code
  stack,           \* words pushed, the last one on top
  kept,            \* the callee-saved registers that hold the caller's values
  ctx_ip, ctx_dp,  \* ip and dp of the context, as offset and index
  memory,          \* memory of the context
  in,              \* ctx->in: "ok", or the indicator that is set, "eof" or "error"
  event,           \* the last visible effect
  status           \* "RUNNING", what the call returned, or "UNDEFINED"

registers == <<rip, r14, al, eax, stack, kept>>
context   == <<ctx_ip, ctx_dp, memory>>
outside   == <<in, event>>
vars      == <<code, registers, context, outside, status>>

OUTSIDE == -1 \* an address or value that is no offset of the program

(* A word on the stack: the address the caller of the program is resumed   *)
(* at, the caller's value of a register, or an address in the program.     *)
Word(what, to) == [what |-> what, to |-> to]
CalleeSaved    == <<"rbx", "r12", "r13", "r14", "r15">>
Registers      == {"rbx", "r12", "r13", "r14", "r15"}
StackWord      == [what : {"caller", "return"} \cup Registers, to : Nat \cup {OUTSIDE}]
Caller         == Word("caller", OUTSIDE)
Saved          == [i \in 1 .. 5 |-> Word(CalleeSaved[i], OUTSIDE)]

NoEvent == [kind |-> "none", dp |-> 0, value |-> 0]
Event   == [kind : {"none", "write", "read", "debug"}, dp : Cell, value : Byte]
Error   == {"SUCCESS", "DP_OUT_OF_BOUNDS", "IO", "END_OF_INPUT_FILE"}

(* nbajh_context_init, and the call of ctx->ip: the registers are the caller's. *)
ContextInit ==
  /\ ctx_ip = 0
  /\ ctx_dp = 0
  /\ memory = [c \in Cell |-> 0]
  /\ in = "ok"
  /\ event = NoEvent

Call ==
  /\ rip = ctx_ip
  /\ r14 \in Cell
  /\ al = 0
  /\ eax \in Error
  /\ stack = <<Caller>>
  /\ kept = Registers
  /\ status = "RUNNING"

Init == WellFormed(code) /\ ContextInit /\ Call

-----------------------------------------------------------------------------

group == code[rip]
At(ops) == status = "RUNNING" /\ rip \in DOMAIN code /\ group.op \in ops

FallThrough == rip' = End(code, rip)
JumpIf(taken) == rip' = IF taken THEN Target(code, rip) ELSE End(code, rip)

Value == memory[r14]

(* Definitions marked "Mutant" are no part of the specification: each is a *)
(* plausible mistake in the definition below it.                           *)

(* push rbx, r12 .. r15; r14 becomes the data pointer. *)
RunHeader ==
  /\ At({"header"})
  /\ FallThrough
  /\ stack' = stack \o Saved
  /\ kept' = {}
  /\ r14' = ctx_dp
  /\ UNCHANGED <<code, al, eax, context, outside, status>>

(* Mutant: ja instead of jae. *)
LeavesMemoryByOne ==
  IF group.op = "above" THEN r14 > MEMORY_SIZE - group.n ELSE r14 < group.n

(* cmp, jae or jb. *)
LeavesMemory ==
  IF group.op = "above" THEN r14 >= MEMORY_SIZE - group.n ELSE r14 < group.n

RunCheck ==
  /\ At({"above", "below"})
  /\ JumpIf(LeavesMemory)
  /\ UNCHANGED <<code, r14, al, eax, stack, kept, context, outside, status>>

RunMove ==
  /\ At({"addp", "subp"})
  /\ FallThrough
  /\ r14' = IF group.op = "addp" THEN r14 + group.n ELSE r14 - group.n
  /\ UNCHANGED <<code, al, eax, stack, kept, context, outside, status>>

Sum ==
  (IF group.op = "addv" THEN Value + group.n ELSE Value + (UINT8_MAX + 1) - group.n)
    % (UINT8_MAX + 1)

RunAdd ==
  /\ At({"addv", "subv"})
  /\ FallThrough
  /\ memory' = [memory EXCEPT ![r14] = Sum]
  /\ UNCHANGED <<code, r14, al, eax, stack, kept, ctx_ip, ctx_dp, outside, status>>

(* fputc may fail. *)
RunFputc ==
  /\ At({"fputc"})
  /\ \/ /\ JumpIf(FALSE)
        /\ event' = [kind |-> "write", dp |-> 0, value |-> Value]
     \/ JumpIf(TRUE) /\ UNCHANGED event
  /\ UNCHANGED <<code, r14, al, eax, stack, kept, context, in, status>>

(* fgetc gives any byte, or EOF and sets an indicator of the file. *)
RunFgetc ==
  /\ At({"fgetc"})
  /\ \/ \E v \in Byte :
          /\ JumpIf(FALSE)
          /\ al' = v
          /\ event' = [kind |-> "read", dp |-> 0, value |-> v]
          /\ UNCHANGED in
     \/ /\ JumpIf(TRUE)
        /\ in' \in {"eof", "error"}
        /\ UNCHANGED <<al, event>>
  /\ UNCHANGED <<code, r14, eax, stack, kept, context, status>>

RunStore ==
  /\ At({"store"})
  /\ FallThrough
  /\ memory' = [memory EXCEPT ![r14] = al]
  /\ UNCHANGED <<code, r14, al, eax, stack, kept, ctx_ip, ctx_dp, outside, status>>

(* Mutant: je at both ends. *)
LoopJumpsOnZero == Value = 0

(* je at the beginning of a loop, jne at its end. *)
LoopJumps == (group.op = "jz") = (Value = 0)

RunLoop ==
  /\ At({"jz", "jnz"})
  /\ JumpIf(LoopJumps)
  /\ UNCHANGED <<code, r14, al, eax, stack, kept, context, outside, status>>

Pop(n) == SubSeq(stack, 1, Len(stack) - n)

(* Mutant: the call itself is returned to. *)
CallAddress == rip

(* What a call pushes. *)
ReturnAddress == End(code, rip)

(* call .handler *)
RunCall ==
  /\ At({"debug"})
  /\ rip' = Target(code, rip)
  /\ stack' = Append(stack, Word("return", ReturnAddress))
  /\ UNCHANGED <<code, r14, al, eax, kept, context, outside, status>>

(* Mutant: the return address is read and not popped. *)
Peeked == stack

(* pop [rbx] *)
Popped == Pop(1)

(* Mutant: dp is not stored for the handler. *)
StaleDp == ctx_dp

(* mov [rbx + dp], r14 *)
StoredDp == r14

(* The return address and the data pointer go into the context; the        *)
(* handler is called (that of cmd/ prints the context); jmp [rbx].         *)
RunHandler ==
  /\ At({"handler"})
  /\ ctx_ip' = stack[Len(stack)].to
  /\ stack' = Popped
  /\ ctx_dp' = StoredDp
  /\ event' = [kind |-> "debug", dp |-> ctx_dp', value |-> memory[ctx_dp']]
  /\ r14' = ctx_dp'
  /\ rip' = ctx_ip'
  /\ UNCHANGED <<code, al, eax, kept, memory, in, status>>

(* xor eax, eax *)
RunSuccess ==
  /\ At({"success"})
  /\ FallThrough
  /\ eax' = "SUCCESS"
  /\ UNCHANGED <<code, r14, al, stack, kept, context, outside, status>>

(* The error each stub returns; jmp .exit. *)
StubError == [oob |-> "DP_OUT_OF_BOUNDS", io |-> "IO", eof |-> "END_OF_INPUT_FILE"]

RunStub ==
  /\ At(DOMAIN StubError)
  /\ rip' = Target(code, rip)
  /\ eax' = StubError[group.op]
  /\ UNCHANGED <<code, r14, al, stack, kept, context, outside, status>>

(* The displacement byte behind the opcode of `jne .exit'. *)
Rel8 == (Target(code, rip) - End(code, rip)) % 256

(* A ModR/M byte from 0xC0 on names a register. *)
IsRegisterOperand == Rel8 >= 192

(***************************************************************************)
(* What ferror says of the file is compared and the code for an I/O error  *)
(* loaded.  Then the opcode 0F 75 of `jne rel8' is that of pcmpeqw, which  *)
(* takes the displacement for its operand byte: with register operands it  *)
(* changes nothing here and control goes on to the next group, otherwise   *)
(* it takes the next bytes for an address and what follows is not known.   *)
(***************************************************************************)
RunFerror ==
  /\ At({"ferror"})
  /\ eax' = "IO"
  /\ IF IsRegisterOperand
     THEN FallThrough /\ UNCHANGED status
     ELSE status' = "UNDEFINED" /\ UNCHANGED rip
  /\ UNCHANGED <<code, r14, al, stack, kept, context, outside>>

(* pop r15 .. r12, rbx; ret *)
RunExit ==
  /\ At({"exit"})
  /\ LET base == Len(stack) - 5
     IN  /\ kept' = {CalleeSaved[i] : i \in {k \in 1 .. 5 : stack[base + k] = Saved[k]}}
         /\ status' = IF stack[base] = Caller THEN eax ELSE "UNDEFINED"
  /\ stack' = Pop(6)
  /\ UNCHANGED <<code, rip, r14, al, eax, context, outside>>

Next ==
  \/ RunHeader \/ RunCheck \/ RunMove \/ RunAdd \/ RunFputc \/ RunFgetc \/ RunStore
  \/ RunLoop \/ RunCall \/ RunHandler \/ RunSuccess \/ RunStub \/ RunFerror \/ RunExit

Spec == Init /\ [][Next]_vars

-----------------------------------------------------------------------------

Returned == status \in Error

(* The data pointer never leaves the working memory. *)
TypeOK ==
  /\ {rip, ctx_ip} \subseteq Nat \cup {OUTSIDE}
  /\ {r14, ctx_dp} \subseteq Cell
  /\ al \in Byte
  /\ eax \in Error
  /\ stack \in Seq(StackWord)
  /\ kept \subseteq Registers
  /\ memory \in [Cell -> Byte]
  /\ in \in {"ok", "eof", "error"}
  /\ event \in Event
  /\ status \in Error \cup {"RUNNING", "UNDEFINED"}

(***************************************************************************)
(* The System V ABI is kept on every path through checks, loops, debugging *)
(* calls and error exits: a call of C code (fputc, fgetc, ferror, and the  *)
(* debugging handler behind the pop) finds rsp at a multiple of 16, that   *)
(* is an even number of words; and when the program returns, it returns to *)
(* its caller, has left nothing on the stack, and all callee-saved         *)
(* registers hold the caller's values.                                     *)
(***************************************************************************)
AbiKept ==
  /\ At({"fputc", "fgetc", "ferror"}) => Len(stack) % 2 = 0
  /\ At({"handler"}) => Len(stack) % 2 = 1
  /\ Returned => stack = <<>> /\ kept = Registers

(***************************************************************************)
(* Control leaves what the compiler meant at one place only, the jump      *)
(* behind ferror: everywhere else the next group is a group of the         *)
(* program, and the exit finds the frame of the header.                    *)
(***************************************************************************)
AstrayOnlyAtFerror ==
  /\ status = "RUNNING" => rip \in DOMAIN code
  /\ status = "UNDEFINED" => rip \in DOMAIN code /\ group.op = "ferror"

(***************************************************************************)
(* ip and dp of the context "are only updated when calling the debugging   *)
(* event handler" (jit_x86_64.h), and then they are the address behind the *)
(* call and the data pointer.                                              *)
(***************************************************************************)
ContextUpdate ==
  <<ctx_ip, ctx_dp>>' # <<ctx_ip, ctx_dp>> =>
    /\ event'.kind = "debug" /\ event'.dp = r14 /\ ctx_dp' = r14
    /\ \E o \in DOMAIN code : code[o].op = "debug" /\ ctx_ip' = End(code, o)

ContextOnlyAtHandler == [][ContextUpdate]_vars

=============================================================================
