----------------------------- MODULE JitCompiler -----------------------------
(***************************************************************************)
(* nbajh_compile_jit_x86_64 (jit_x86_64_compile.c): one call of            *)
(* nbajh_jit_x86_64_emit per step, then one turn of the footer's loop per  *)
(* step.                                                                   *)
(* Machine code is a program of groups (module JitCode); `from' in the C   *)
(* code is the end of a group.                                             *)
(***************************************************************************)
EXTENDS Faults, Buffer, JitCode

CONSTANTS
  Sources,   \* the token sequences the lexer may deliver before EOF
  PAGE_SIZE, \* sysconf(_SC_PAGESIZE), 4096
  INT8_MAX,  \* reach of a rel8 displacement, 127
  INT32_MAX  \* reach of a rel32 displacement, 2^31 - 1

ASSUME JitAssumption ==
  /\ Sources \subseteq Seq(Keyword \cup {"INVALID"})
  /\ PAGE_SIZE \in Nat \ {0}
  /\ INT8_MAX \in Nat /\ INT8_MAX >= 78 \* the footer is within reach of its short jumps
  /\ INT32_MAX \in Nat

VARIABLES
  source,              \* the tokens of the source file
  compiler,            \* struct nbajh_jit_x86_64_compiler
  exit_offset,         \* locals of emit_footer: where the exit is,
  jump_target_offsets, \* where the stubs are, 0 for none,
  linked,              \* and how many entries of jumps are done
  last_token,          \* index of *last_token_dst; 0 while it is not written
  outcome              \* what the call returned

vars == <<source, compiler, exit_offset, jump_target_offsets, linked,
          last_token, outcome>>

(* sizeof(struct nbajh_jit_x86_64_jump) *)
JUMP_STRUCT == 2 * SIZE_T

Freed    == [size |-> 0, cap |-> 1, alloc |-> 0] \* no buffer
FreshJit == [size |-> 0, cap |-> PAGE_SIZE, alloc |-> PAGE_SIZE]

Init ==
  /\ source \in Sources
  /\ compiler = [token |-> 0, jumps |-> <<>>, jumps_buf |-> Freed,
                 loop_stack |-> <<>>, loop_buf |-> Freed,
                 dst |-> FreshJit, code |-> [o \in {} |-> 0]]
  /\ exit_offset = 0
  /\ jump_target_offsets = [s \in Stub |-> 0]
  /\ linked = 0
  /\ last_token = 0
  /\ outcome = "READY"

-----------------------------------------------------------------------------
(* The functions of the compiler, each as the set of its results: the      *)
(* compiler it leaves behind and the error it returns.                     *)

Result(c, e) == [c |-> c, error |-> e]

(* if (error != NBAJH_ERROR_SUCCESS) return error; *)
Then(results, F(_)) ==
  UNION {IF r.error = "SUCCESS" THEN F(r.c) ELSE {r} : r \in results}

(* A successful write behind the allocated storage is undefined behaviour. *)
ErrorOf(w) ==
  IF w.error = "SUCCESS" /\ ~InStorage(w.buf) THEN "UNDEFINED" ELSE w.error

(* NBAJH_BUFFER_WRITE_JIT of one group. *)
WriteGroup(c, op, n) ==
  {Result([c EXCEPT !.dst = w.buf,
                    !.code = IF w.error = "SUCCESS"
                             THEN [o \in DOMAIN @ \cup {c.dst.size} |->
                                     IF o = c.dst.size
                                     THEN [op |-> op, n |-> n, to |-> NOWHERE]
                                     ELSE @[o]]
                             ELSE @],
          ErrorOf(w)) : w \in Write(c.dst, GroupSize[op])}

(* The displacement in front of `from' is remembered for the footer. *)
RecordJump(c, stub) ==
  {Result([c EXCEPT !.jumps_buf = w.buf,
                    !.jumps = IF w.error = "SUCCESS"
                              THEN Append(@, [from |-> c.dst.size, to |-> stub])
                              ELSE @],
          ErrorOf(w)) : w \in Write(c.jumps_buf, JUMP_STRUCT)}

PushLoop(c) ==
  {Result([c EXCEPT !.loop_buf = w.buf,
                    !.loop_stack = IF w.error = "SUCCESS"
                                   THEN Append(@, c.dst.size) ELSE @],
          ErrorOf(w)) : w \in Write(c.loop_buf, SIZE_T)}

(* nbajh_jit_x86_64_set_rel8 and _set_rel32, by the reach they check. *)
SetRel(c, from, to, max) ==
  IF to - from \in -(max + 1) .. max
  THEN {Result([c EXCEPT !.code = [o \in DOMAIN @ |->
                  IF End(@, o) = from THEN [@[o] EXCEPT !.to = to] ELSE @[o]]],
               "SUCCESS")}
  ELSE {Result(c, "JUMP_TOO_LARGE")}

Advanced(c, n) == [c EXCEPT !.token = @ + n]

(* The end of nbajh_jit_x86_64_emit for tokens that are taken one by one. *)
NextToken(results) == Then(results, LAMBDA c : {Result(Advanced(c, 1), "SUCCESS")})

(* The number of tokens the loops of the emit_additive functions consume. *)
RunLength(c) == CHOOSE n \in 1 .. Len(source) : IsRun(source, c.token, n)

(* Mutant: one move too few fits the operand. *)
TooLongByOne(n) == n >= UINT16_MAX

TooLong(n) == n > UINT16_MAX

(* Mutant: the counter is wider than the operand. *)
Unwrapped(n) == n

(* uint8_t operand, counted up from 1. *)
Wrapped(n) == n % (UINT8_MAX + 1)

(* Mutant: the jump is remembered behind the move. *)
MovesRecordedLate(c, check, op, n) ==
  LET checked == WriteGroup(c, check, n)
      moved   == Then(checked, LAMBDA d : WriteGroup(d, op, n))
  IN  Then(moved, LAMBDA d : RecordJump(d, "oob"))

(* Bounds check and move. *)
Moved(c, check, op, n) ==
  LET checked  == WriteGroup(c, check, n)
      recorded == Then(checked, LAMBDA d : RecordJump(d, "oob"))
  IN  Then(recorded, LAMBDA d : WriteGroup(d, op, n))

AdditiveP(c) ==
  LET n == RunLength(c)
  IN  IF TooLong(n)
      THEN {Result(Advanced(c, UINT16_MAX), "DP_OUT_OF_BOUNDS")}
      ELSE IF source[c.token] = "darling"
           THEN Moved(Advanced(c, n), "above", "addp", n)
           ELSE Moved(Advanced(c, n), "below", "subp", n)

AdditiveV(c) ==
  LET n == Wrapped(RunLength(c))
      d == Advanced(c, RunLength(c))
  IN  IF n = 0
      THEN {Result(d, "SUCCESS")}
      ELSE WriteGroup(d, IF source[c.token] = "my" THEN "addv" ELSE "subv", n)

WriteChar(c) == Then(WriteGroup(c, "fputc", 0), LAMBDA d : RecordJump(d, "io"))

ReadChar(c) ==
  LET recorded == Then(WriteGroup(c, "fgetc", 0), LAMBDA d : RecordJump(d, "ferror"))
  IN  Then(recorded, LAMBDA d : WriteGroup(d, "store", 0))

Debug(c) == Then(WriteGroup(c, "debug", 0), LAMBDA d : RecordJump(d, "handler"))

LoopStart(c) == Then(WriteGroup(c, "jz", 0), PushLoop)

(* Mutant: the outermost loop instead of the innermost. *)
Bottom(stack) == stack[1]

(* What nbajh_buffer_pop_size reads off the loop stack. *)
Top(stack) == stack[Len(stack)]

(* nbajh_jit_x86_64_end_loop with a loop open: each end of the loop gets   *)
(* the displacement to just behind the other.                              *)
LoopEnd(c) ==
  LET start == Top(c.loop_stack)
      popped(d) == [d EXCEPT !.loop_stack = SubSeq(@, 1, Len(@) - 1),
                             !.loop_buf = PopSize(@)]
      back == Then(WriteGroup(c, "jnz", 0),
                   LAMBDA d : SetRel(popped(d), d.dst.size, start, INT32_MAX))
  IN  Then(back, LAMBDA d : SetRel(d, start, d.dst.size, INT32_MAX))

(* jmp .exit or jne .exit at the end of the program so far. *)
ToExit(c) == SetRel(c, c.dst.size, exit_offset, INT8_MAX)

(* nbajh_jit_x86_64_emit_jump_target *)
EmitStub(c, stub) ==
  CASE stub \in {"oob", "io"} -> Then(WriteGroup(c, stub, 0), ToExit)
    [] stub = "ferror" ->
         LET jne == Then(WriteGroup(c, "ferror", 0), ToExit)
         IN  Then(Then(jne, LAMBDA d : WriteGroup(d, "eof", 0)), ToExit)
    [] stub = "handler" -> WriteGroup(c, "handler", 0)

-----------------------------------------------------------------------------

(* Mutant: an early return without nbajh_jit_x86_64_compiler_fini. *)
ReturnsLeaking(r, next) ==
  /\ compiler' = r.c
  /\ IF r.error = "SUCCESS"
     THEN outcome' = next /\ UNCHANGED last_token
     ELSE outcome' = r.error /\ last_token' = r.c.token
  /\ UNCHANGED source

(* What nbajh_compile_jit_x86_64 does with the result of a call: on        *)
(* success it goes on with `next', otherwise it cleans up and returns.     *)
Returns(r, next) ==
  /\ IF r.error = "SUCCESS"
     THEN /\ compiler' = r.c
          /\ outcome' = next
          /\ UNCHANGED last_token
     ELSE /\ compiler' = [r.c EXCEPT !.jumps_buf = Freed, !.loop_buf = Freed]
          /\ outcome' = r.error
          /\ last_token' = r.c.token
  /\ UNCHANGED source

footer_vars == <<exit_offset, jump_target_offsets, linked>>

(***************************************************************************)
(* nbajh_jit_x86_64_compiler_init: the first token, the table of jumps and *)
(* the loop stack.  Its caller does not clean up when it fails, so the     *)
(* table is lost if the loop stack cannot be had.                          *)
(***************************************************************************)
CompilerInit ==
  /\ outcome = "READY"
  /\ \/ /\ compiler' = [compiler EXCEPT !.token = 1, !.jumps_buf = FreshBuffer,
                                        !.loop_buf = FreshBuffer]
        /\ outcome' = "HEADER"
        /\ UNCHANGED last_token
     \/ \E b \in {Freed, FreshBuffer} :
          /\ compiler' = [compiler EXCEPT !.token = 1, !.jumps_buf = b]
          /\ outcome' = "MALLOC"
          /\ last_token' = 1
  /\ UNCHANGED <<source, footer_vars>>

EmitHeader ==
  /\ outcome = "HEADER"
  /\ \E r \in WriteGroup(compiler, "header", 0) : Returns(r, "RUNNING")
  /\ UNCHANGED footer_vars

(* One call of nbajh_jit_x86_64_emit for a token of the given types. *)
Emit(types, results) ==
  /\ outcome = "RUNNING"
  /\ TokenAt(source, compiler.token) \in types
  /\ \E r \in results : Returns(r, "RUNNING")
  /\ UNCHANGED footer_vars

EmitAdditiveP == Emit(Moves, AdditiveP(compiler))
EmitAdditiveV == Emit(Adds, AdditiveV(compiler))
EmitWrite     == Emit({"nothing"}, NextToken(WriteChar(compiler)))
EmitRead      == Emit({"beats"}, NextToken(ReadChar(compiler)))
EmitDebug     == Emit({"holiday"}, NextToken(Debug(compiler)))
BeginLoop     == Emit({"a"}, NextToken(LoopStart(compiler)))

EndLoop ==
  \/ /\ compiler.loop_stack # <<>>
     /\ Emit({"jet2"}, NextToken(LoopEnd(compiler)))
  \/ /\ compiler.loop_stack = <<>>
     /\ Emit({"jet2"}, {Result(compiler, "UNEXPECTED_LOOP_END")})

InvalidToken == Emit({"INVALID"}, {Result(compiler, "INVALID_TOKEN")})

(* compiler.loop_stack.size != 0 *)
Unclosed == compiler.loop_stack # <<>>

(* End of file: the footer begins with what a program without errors does. *)
BeginFooter ==
  /\ outcome = "RUNNING" /\ TokenAt(source, compiler.token) = "EOF"
  /\ LET success == WriteGroup(compiler, "success", 0)
         footer  == IF Unclosed THEN {Result(compiler, "UNCLOSED_LOOPS")}
                    ELSE Then(success, LAMBDA c : WriteGroup(c, "exit", 0))
     IN  \E r \in footer : Returns(r, "LINKING")
  /\ exit_offset' = compiler.dst.size + GroupSize.success
  /\ UNCHANGED <<jump_target_offsets, linked>>

(* Mutant: the offset is taken after the stub is written. *)
OffsetBehind(before, after) == after.size

(* jump_target_offsets[jump->to] = dst->size, in front of the stub. *)
StubOffset(before, after) == before.size

(***************************************************************************)
(* One turn of the footer's loop: the stub is emitted when the first jump  *)
(* to it is met, and the error of doing so is ignored; then the jump's     *)
(* displacement is written.                                                *)
(***************************************************************************)
LinkJump ==
  /\ outcome = "LINKING" /\ linked < Len(compiler.jumps)
  /\ LET jump   == compiler.jumps[linked + 1]
         known  == jump_target_offsets[jump.to] # 0
         stubs  == IF known THEN {Result(compiler, "SUCCESS")}
                   ELSE EmitStub(compiler, jump.to)
     IN  \E s \in stubs :
           LET offset == IF known THEN jump_target_offsets[jump.to]
                         ELSE StubOffset(compiler.dst, s.c.dst)
           IN  /\ jump_target_offsets' = [jump_target_offsets EXCEPT ![jump.to] = offset]
               /\ \E r \in SetRel(s.c, jump.from, offset, INT32_MAX) :
                    Returns(IF s.error = "UNDEFINED" THEN s ELSE r, "LINKING")
  /\ linked' = linked + 1
  /\ UNCHANGED exit_offset

EndFooter ==
  /\ outcome = "LINKING" /\ linked = Len(compiler.jumps)
  /\ compiler' = [compiler EXCEPT !.jumps_buf = Freed, !.loop_buf = Freed]
  /\ outcome' = "SUCCESS"
  /\ last_token' = compiler.token
  /\ UNCHANGED <<source, footer_vars>>

Next ==
  \/ CompilerInit
  \/ EmitHeader
  \/ EmitAdditiveP
  \/ EmitAdditiveV
  \/ EmitWrite
  \/ EmitRead
  \/ EmitDebug
  \/ BeginLoop
  \/ EndLoop
  \/ InvalidToken
  \/ BeginFooter
  \/ LinkJump
  \/ EndFooter

Spec == Init /\ [][Next]_vars

-----------------------------------------------------------------------------

code   == compiler.code
Ended  == outcome \notin {"READY", "HEADER", "RUNNING", "LINKING"}

(* Groups whose displacement is not written yet. *)
Open(ops) == {o \in DOMAIN code : code[o].op \in ops /\ code[o].to = NOWHERE}

(* The table entries not linked yet. *)
Pending == {compiler.jumps[k] : k \in linked + 1 .. Len(compiler.jumps)}

TypeOK ==
  /\ source \in Sources
  /\ compiler.token \in Nat
  /\ compiler.jumps \in Seq([from : Nat, to : Stub])
  /\ compiler.loop_stack \in Seq(Nat)
  /\ {compiler.jumps_buf, compiler.loop_buf, compiler.dst} \subseteq BufferRecord
  /\ DOMAIN code \subseteq Nat
  /\ \A o \in DOMAIN code : IsGroup(code[o])
  /\ exit_offset \in Nat
  /\ jump_target_offsets \in [Stub -> Nat]
  /\ linked \in 0 .. Len(compiler.jumps)
  /\ last_token \in Nat
  /\ outcome \in NbajhError \cup {"READY", "HEADER", "RUNNING", "LINKING", "UNDEFINED"}

(***************************************************************************)
(* No displacement is forgotten and none is claimed twice: those not yet   *)
(* written are exactly the ones in front of the offsets that the loop      *)
(* stack and the table of jumps hold, each once, with the right stub.      *)
(***************************************************************************)
DisplacementsRemembered ==
  outcome \in {"RUNNING", "LINKING"} =>
    /\ {End(code, o) : o \in Open({"jz"})} =
         {compiler.loop_stack[k] : k \in DOMAIN compiler.loop_stack}
    /\ Open({"jnz"}) = {}
    /\ Pending = {[from |-> End(code, o), to |-> StubOf[code[o].op]] :
                    o \in Open(DOMAIN StubOf)}
    /\ Cardinality(Pending) = Len(compiler.jumps) - linked

(***************************************************************************)
(* Both ends of a loop lead just behind the other end, however loops are   *)
(* nested and whatever is between them.                                    *)
(***************************************************************************)
LoopsPaired ==
  outcome \notin {"MALLOC", "UNDEFINED", "JUMP_TOO_LARGE"} =>
    \A o \in DOMAIN code \ Open({"jz"}) : code[o].op \in {"jz", "jnz"} =>
      \E p \in DOMAIN code :
        /\ code[p].op = IF code[o].op = "jz" THEN "jnz" ELSE "jz"
        /\ code[p].op = "jnz" <=> o < p
        /\ code[o].to = End(code, p)
        /\ code[p].to = End(code, o)

(***************************************************************************)
(* Machine code handed out with success is complete: control never leaves  *)
(* it but through the exit, each move is behind its check, each jump to    *)
(* the footer reaches the stub meant, and every stub reaches the exit with *)
(* its short jump.  (Said for code in memory that could be had whenever it *)
(* was asked for.)                                                         *)
(***************************************************************************)
SuccessIsComplete ==
  outcome = "SUCCESS" /\ compiler.dst.cap = compiler.dst.alloc =>
    WellFormed(code)

(***************************************************************************)
(* And whatever was lost: a program handed out with success is complete up *)
(* to its exit, its loops and moves among it, jumps to the footer lead     *)
(* behind the exit, and each stub that is there returns to it.  Only in    *)
(* the footer can control be lost.                                         *)
(***************************************************************************)
CompleteUpToExit ==
  outcome = "SUCCESS" =>
    /\ {0, exit_offset} \subseteq DOMAIN code
    /\ \A o \in DOMAIN code :
         LET g == code[o]
         IN  /\ g.op = "header" <=> o = 0
             /\ g.op = "exit" <=> o = exit_offset
             /\ g.op \in {"oob", "io", "ferror", "eof", "handler"} <=> o > exit_offset
             /\ o < exit_offset => End(code, o) \in DOMAIN code
                                   /\ Follows(g, code[End(code, o)])
             /\ g.op \in {"jz", "jnz"} => g.to \in DOMAIN code /\ code[g.to].op \in Opening
             /\ g.op \in DOMAIN StubOf => g.to > exit_offset
             /\ g.op \in {"oob", "io", "ferror", "eof"} => g.to = exit_offset

(***************************************************************************)
(* The same without that condition, which jit_x86_64.h does not make:      *)
(* "Returns the error that occurred in the process."  Nor are stubs then   *)
(* written behind the pages, as they are after a growth that failed.       *)
(***************************************************************************)
ErrorsAreReturned ==
  /\ outcome # "UNDEFINED"
  /\ outcome = "SUCCESS" => WellFormed(code)

(***************************************************************************)
(* The verdict is the first fault of the source, at its token, as for      *)
(* bytecode; only memory running out or a program larger than a            *)
(* displacement can reach may replace it.                                  *)
(***************************************************************************)
VerdictIsFirstFault ==
  Ended =>
    \/ outcome \in {"MALLOC", "UNDEFINED"}
    \/ outcome = "JUMP_TOO_LARGE" /\ compiler.dst.size > INT32_MAX
    \/ IsVerdict(source, last_token, outcome)

(* The table of jumps and the loop stack hold what their sizes say, inside *)
(* their storage, and are given back on every way out behind their init.   *)
BuffersSound ==
  /\ outcome \in {"RUNNING", "LINKING"} =>
       /\ InStorage(compiler.jumps_buf) /\ InStorage(compiler.loop_buf)
       /\ compiler.jumps_buf.size = JUMP_STRUCT * Len(compiler.jumps)
       /\ compiler.loop_buf.size = SIZE_T * Len(compiler.loop_stack)
  /\ Ended => compiler.loop_buf = Freed
  /\ Ended /\ compiler.dst.size > 0 => compiler.jumps_buf = Freed

=============================================================================
