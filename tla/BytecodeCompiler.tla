-------------------------- MODULE BytecodeCompiler --------------------------
(***************************************************************************)
(* nbajh_compile_bytecode (bytecode_compile.c): one pass over the tokens,  *)
(* one call of nbajh_bytecode_emit per step.                               *)
(*                                                                         *)
(* compiler->token is the token at index `pos' of `source'.  `code' is     *)
(* what has been stored in dst->data, by offset: the room begin_loop       *)
(* reserves for a jmpz is inside dst->size and not in the domain of        *)
(* `code' until end_loop patches it.  An access outside allocated storage  *)
(* is undefined behaviour: the model stops there, in outcome "UNDEFINED".  *)
(***************************************************************************)
EXTENDS Faults, Buffer, Bytecode

CONSTANT Sources \* the token sequences the lexer may deliver before EOF

ASSUME SourcesAssumption == Sources \subseteq Seq(Keyword \cup {"INVALID"})

VARIABLES
  source,     \* the tokens of the source file
  pos,        \* index of compiler->token; 0 before the first is read
  dst,        \* the program buffer, initialised by the caller
  code,       \* the instructions stored in dst->data
  loop_stack, \* the offsets stored in compiler->loop_stack, top last
  loop_buf,   \* the buffer that holds them
  last_token, \* index of *last_token_dst; 0 while it is not written
  outcome     \* what the call returned

vars == <<source, pos, dst, code, loop_stack, loop_buf, last_token, outcome>>

Freed   == [size |-> 0, cap |-> 1, alloc |-> 0] \* no buffer
Outcome == NbajhError \cup {"READY", "RUNNING", "UNDEFINED"}

Token == TokenAt(source, pos)

(***************************************************************************)
(* What the compiler computes from one token run or one loop.  Definitions *)
(* marked "Mutant" are no part of the specification: each is a plausible   *)
(* mistake in the definition below it, kept to show that a property would  *)
(* notice it.                                                              *)
(***************************************************************************)

(* Mutant: one move too few fits the operand. *)
TooLongByOne(n) == n >= UINT16_MAX

(* The check in the loop that counts moves. *)
TooLong(n) == n > UINT16_MAX

(* Mutant: the counter is wider than the operand. *)
Unwrapped(n) == n

(* uint8_t operand, counted up from 1. *)
Wrapped(n) == n % (UINT8_MAX + 1)

(* Mutant: no room for the opcode. *)
ReserveOperand(b) == [b EXCEPT !.size = @ + SIZE_T]

(* compiler->dst->size += sizeof(nbajh_bytecode_instr_size) *)
Reserve(b) == [b EXCEPT !.size = @ + JUMP_SIZE]

(* Mutant: the outermost loop instead of the innermost. *)
Bottom(stack) == stack[1]

(* What nbajh_buffer_pop_size reads off the loop stack. *)
Top(stack) == stack[Len(stack)]

(* Mutant: a jmpz that jumps to itself. *)
OwnOffset(start, b) == start - JUMP_SIZE

(* loop_end, the target of the jmpz: where the program ends by now. *)
LoopEnd(start, b) == b.size

(* Mutant: open loops are not looked for. *)
NeverUnclosed == FALSE

(* loop_stack_size != 0 *)
Unclosed == loop_stack # <<>>

Init ==
  /\ source \in Sources
  /\ pos = 0
  /\ dst = FreshBuffer
  /\ code = [o \in {} |-> [op |-> "ret", operand |-> 0]]
  /\ loop_stack = <<>>
  /\ loop_buf = Freed
  /\ last_token = 0
  /\ outcome = "READY"

(* Mutant: an early return without nbajh_bytecode_compiler_fini. *)
ReturnsLeaking(error, p, b) ==
  /\ pos' = p
  /\ UNCHANGED source
  /\ loop_buf' = b
  /\ IF error = "SUCCESS"
     THEN outcome' = "RUNNING" /\ UNCHANGED last_token
     ELSE outcome' = error /\ last_token' = p

(***************************************************************************)
(* How a call of nbajh_bytecode_emit ends, with compiler->token at p and   *)
(* the loop stack in buffer b: the driver loop goes on after a success and *)
(* otherwise hands out the token, frees the loop stack and returns.        *)
(***************************************************************************)
Returns(error, p, b) ==
  /\ pos' = p
  /\ UNCHANGED source
  /\ IF error = "SUCCESS"
     THEN outcome' = "RUNNING" /\ loop_buf' = b /\ UNCHANGED last_token
     ELSE outcome' = error /\ loop_buf' = Freed /\ last_token' = p

Store(o, instr) ==
  [x \in DOMAIN code \cup {o} |-> IF x = o THEN instr ELSE code[x]]

(* The bytes of a successful write that fall outside the storage. *)
Result(w) ==
  IF w.error = "SUCCESS" /\ ~InStorage(w.buf) THEN "UNDEFINED" ELSE w.error

(* nbajh_buffer_write of one instruction at the end of the program; the    *)
(* token is at index p afterwards, and at index q if the write failed.     *)
Emit(op, operand, p, q) ==
  \E w \in Write(dst, InstrSize(op)) :
    /\ dst' = w.buf
    /\ code' = IF w.error = "SUCCESS"
               THEN Store(dst.size, [op |-> op, operand |-> operand])
               ELSE code
    /\ Returns(Result(w), IF w.error = "SUCCESS" THEN p ELSE q, loop_buf)
    /\ UNCHANGED loop_stack

(* nbajh_bytecode_compiler_init: the first token, then the loop stack. *)
CompilerInit ==
  /\ outcome = "READY"
  /\ \/ Returns("SUCCESS", 1, FreshBuffer)
     \/ Returns("MALLOC", 1, Freed)
  /\ UNCHANGED <<dst, code, loop_stack>>

(* A run of n `darling' or `hold' tokens becomes one instruction; the      *)
(* token at which a 16-bit operand would overflow is an error at once.     *)
EmitAdditiveP ==
  /\ outcome = "RUNNING" /\ Token \in Moves
  /\ \E n \in 1 .. Len(source) :
       /\ IsRun(source, pos, n)
       /\ \/ /\ TooLong(n)
             /\ Returns("DP_OUT_OF_BOUNDS", pos + UINT16_MAX, loop_buf)
             /\ UNCHANGED <<dst, code, loop_stack>>
          \/ /\ ~TooLong(n)
             /\ Emit(IF Token = "darling" THEN "addp" ELSE "subp", n, pos + n, pos + n)

(* A run of `my' or `hand': the 8-bit operand wraps, and one that wrapped  *)
(* to zero emits nothing.                                                  *)
EmitAdditiveV ==
  /\ outcome = "RUNNING" /\ Token \in Adds
  /\ \E n \in 1 .. Len(source) :
       LET operand == Wrapped(n)
       IN  /\ IsRun(source, pos, n)
           /\ \/ /\ operand = 0
                 /\ Returns("SUCCESS", pos + n, loop_buf)
                 /\ UNCHANGED <<dst, code, loop_stack>>
              \/ /\ operand # 0
                 /\ Emit(IF Token = "my" THEN "addv" ELSE "subv", operand,
                         pos + n, pos + n)

EmitNoOperand ==
  /\ outcome = "RUNNING" /\ Token \in Effects
  /\ Emit(CASE Token = "nothing" -> "write"
            [] Token = "beats"   -> "read"
            [] OTHER             -> "debug", 0, pos + 1, pos)

(* nbajh_bytecode_begin_loop: room for a jmpz is taken by raising dst->size *)
(* and nothing else, then the offset behind it is pushed.                   *)
BeginLoop ==
  /\ outcome = "RUNNING" /\ Token = "a"
  /\ dst' = Reserve(dst)
  /\ \E w \in Write(loop_buf, SIZE_T) :
       /\ loop_stack' = IF w.error = "SUCCESS"
                        THEN Append(loop_stack, dst'.size) ELSE loop_stack
       /\ Returns(Result(w), IF w.error = "SUCCESS" THEN pos + 1 ELSE pos, w.buf)
  /\ UNCHANGED code

(***************************************************************************)
(* nbajh_bytecode_end_loop: the offset popped is the target of the jmpnz   *)
(* written here, and the end of that jmpnz is the target of the jmpz that  *)
(* is patched in before it.  The patch is made even if the write failed.   *)
(***************************************************************************)
EndLoop ==
  /\ outcome = "RUNNING" /\ Token = "jet2"
  /\ \/ /\ loop_stack = <<>>
        /\ Returns("UNEXPECTED_LOOP_END", pos, loop_buf)
        /\ UNCHANGED <<dst, code, loop_stack>>
     \/ /\ loop_stack # <<>>
        /\ \E w \in Write(dst, JUMP_SIZE) :
             LET loop_start == Top(loop_stack)
                 ok         == w.error = "SUCCESS"
                 jmpnz      == [op |-> "jmpnz", operand |-> loop_start]
                 jmpz       == [op |-> "jmpz", operand |-> LoopEnd(loop_start, w.buf)]
             IN  /\ dst' = w.buf
                 /\ code' = [x \in DOMAIN code \cup {loop_start - JUMP_SIZE}
                                     \cup (IF ok THEN {dst.size} ELSE {}) |->
                               IF x = loop_start - JUMP_SIZE THEN jmpz
                               ELSE IF ok /\ x = dst.size THEN jmpnz
                               ELSE code[x]]
                 /\ loop_stack' = SubSeq(loop_stack, 1, Len(loop_stack) - 1)
                 /\ Returns(IF loop_start > w.buf.alloc THEN "UNDEFINED" ELSE Result(w),
                            IF ok THEN pos + 1 ELSE pos, PopSize(loop_buf))

(* Mutant: the default case falls out of the switch with success. *)
InvalidTokenIgnored ==
  /\ outcome = "RUNNING" /\ Token = "INVALID"
  /\ Returns("SUCCESS", pos, loop_buf)
  /\ UNCHANGED <<dst, code, loop_stack>>

InvalidToken ==
  /\ outcome = "RUNNING" /\ Token = "INVALID"
  /\ Returns("INVALID_TOKEN", pos, loop_buf)
  /\ UNCHANGED <<dst, code, loop_stack>>

(* The end of nbajh_compile_bytecode: an open loop is an error, otherwise  *)
(* a ret closes the program.                                               *)
Finish ==
  /\ outcome = "RUNNING" /\ Token = "EOF"
  /\ last_token' = pos
  /\ loop_buf' = Freed
  /\ \/ /\ Unclosed
        /\ outcome' = "UNCLOSED_LOOPS"
        /\ UNCHANGED <<dst, code>>
     \/ /\ ~Unclosed
        /\ \E w \in Write(dst, InstrSize("ret")) :
             /\ dst' = w.buf
             /\ code' = IF w.error = "SUCCESS"
                        THEN Store(dst.size, [op |-> "ret", operand |-> 0])
                        ELSE code
             /\ outcome' = Result(w)
  /\ UNCHANGED <<source, pos, loop_stack>>

Next ==
  \/ CompilerInit
  \/ EmitAdditiveP
  \/ EmitAdditiveV
  \/ EmitNoOperand
  \/ BeginLoop
  \/ EndLoop
  \/ InvalidToken
  \/ Finish

Spec == Init /\ [][Next]_vars

(* The compiler is a plain loop in one thread: it is never held up. *)
FairSpec == Spec /\ WF_vars(Next)


-----------------------------------------------------------------------------

InProgress == outcome \in {"READY", "RUNNING"}

(* Rooms reserved for a jmpz and not patched yet, and the pieces that make *)
(* up the program so far: stored instructions and those rooms.             *)
Reserved  == {loop_stack[k] - JUMP_SIZE : k \in DOMAIN loop_stack}
Pieces    == DOMAIN code \cup Reserved
PieceSize(o) == IF o \in DOMAIN code THEN InstrSize(code[o].op) ELSE JUMP_SIZE
Boundaries == Pieces \cup {dst.size}

Instruction == {i \in [op : Opcode, operand : Nat] : OperandOK(i)}

TypeOK ==
  /\ source \in Sources
  /\ pos \in Nat
  /\ dst \in BufferRecord
  /\ DOMAIN code \subseteq Nat
  /\ code \in [DOMAIN code -> Instruction]
  /\ loop_stack \in Seq(Nat)
  /\ loop_buf \in BufferRecord
  /\ last_token \in Nat
  /\ outcome \in Outcome

(***************************************************************************)
(* Back-patching never damages the program: while it is being compiled,    *)
(* instructions and reserved rooms follow one another from offset 0 to     *)
(* dst->size with no gap and no overlap, so end_loop's memcpy of a jmpz    *)
(* overwrites exactly the room its begin_loop reserved.                    *)
(***************************************************************************)
CodeTiles ==
  InProgress =>
    /\ DOMAIN code \cap Reserved = {}
    /\ 0 \in Boundaries
    /\ \A o \in Pieces :
         /\ o + PieceSize(o) \in Boundaries
         /\ o + PieceSize(o) <= dst.size
         /\ \A q \in Pieces : o < q => o + PieceSize(o) <= q

(***************************************************************************)
(* Loops are closed both ways: a jmpz jumps just behind the jmpnz that     *)
(* jumps just behind it, and conversely, whatever is nested in between.    *)
(***************************************************************************)
JumpsPaired ==
  outcome \notin {"MALLOC", "UNDEFINED"} =>
    \A o \in DOMAIN code : code[o].op \in Jumps =>
      LET other == code[o].operand - JUMP_SIZE
      IN  /\ other \in DOMAIN code
          /\ code[other] = [op |-> IF code[o].op = "jmpz" THEN "jmpnz" ELSE "jmpz",
                            operand |-> o + JUMP_SIZE]
          /\ code[o].op = "jmpz" <=> o < other

(* A program handed out with success can be run: no reserved room is left, *)
(* control never falls off its end and every jump lands on an instruction. *)
SuccessIsRunnable == outcome = "SUCCESS" => WellFormedCode(code)

(***************************************************************************)
(* The compiler reports the first fault in source order and points at the  *)
(* token that is at fault; without one it succeeds, with EOF as the last   *)
(* token.  Only memory running out may replace that verdict.               *)
(***************************************************************************)
VerdictIsFirstFault ==
  outcome \notin {"READY", "RUNNING", "UNDEFINED", "MALLOC"} =>
    IsVerdict(source, last_token, outcome)

(* The loop stack never writes outside its own storage, holds one size_t   *)
(* per open loop, and is given back on every way out.                      *)
LoopStackSound ==
  /\ InStorage(loop_buf) \/ outcome = "UNDEFINED"
  /\ outcome = "RUNNING" => loop_buf.size = SIZE_T * Len(loop_stack)
  /\ ~InProgress => loop_buf = Freed

(* Every write of the compiler lands in storage the buffers own (buffer.h: *)
(* "Writes `n` bytes from `data` at the end of the given buffer").         *)
WritesLandInStorage == outcome # "UNDEFINED"

(* Compilation ends, whatever the source. *)
Termination == <>(~InProgress)

=============================================================================
