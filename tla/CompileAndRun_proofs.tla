------------------------ MODULE CompileAndRun_proofs ------------------------
(***************************************************************************)
(* compile_and_run with the bytecode target, for any sources and any       *)
(* widths.  What the compiler and the interpreter guarantee on their own   *)
(* is taken from their modules of proofs, instantiated here: CP and VP are *)
(* the two of them together with the facts proved about them.              *)
(*                                                                         *)
(* The first half proves what compile_and_run promises of itself (IInv);   *)
(* the second half, from "What the instructions stand for" on, that what   *)
(* it runs is what the source says (MInv and ImplementsTheLanguage).       *)
(***************************************************************************)
EXTENDS CompileAndRun, Compilers_proofs

CP == INSTANCE BytecodeCompiler_proofs
VP == INSTANCE BytecodeVM_proofs WITH program <- code

-----------------------------------------------------------------------------

(***************************************************************************)
(* CP!Next and Compiler!Next are two instances of one definition; so are   *)
(* the helpers.  Unfolded, the two sides of each fact are the same.        *)
(***************************************************************************)

LEMMA SameBuffers ==
  /\ \A b, n : CP!Write(b, n) = Write(b, n) /\ Compiler!Write(b, n) = Write(b, n)
  /\ CP!BufferRecord = BufferRecord
  /\ CP!FreshBuffer = FreshBuffer
  /\ CP!Freed = Compiler!Freed
<1>1. \A b, n : CP!Write(b, n) = Write(b, n)
  BY DEF CP!Write, Write, CP!GrownCap, GrownCap, CP!GROWTH_FACTOR, GROWTH_FACTOR
<1>2. \A b, n : Compiler!Write(b, n) = Write(b, n)
  BY DEF Compiler!Write, Write, Compiler!GrownCap, GrownCap, Compiler!GROWTH_FACTOR,
         GROWTH_FACTOR
<1> QED
  BY <1>1, <1>2
  DEF CP!BufferRecord, BufferRecord, CP!FreshBuffer, FreshBuffer, CP!Freed, Compiler!Freed

LEMMA SameCode ==
  /\ \A c : CP!WellFormedCode(c) <=> WellFormedCode(c)
  /\ \A c : VP!WellFormedCode(c) <=> WellFormedCode(c)
  /\ \A op : Compiler!InstrSize(op) = InstrSize(op)
  /\ \A op : VM!InstrSize(op) = InstrSize(op)
  /\ Compiler!JUMP_SIZE = JUMP_SIZE /\ CP!JUMP_SIZE = JUMP_SIZE
  /\ CP!Jumps = Jumps /\ VM!Jumps = Jumps
<1>1. \A c : CP!WellFormedCode(c) <=> WellFormedCode(c)
  BY DEF CP!WellFormedCode, WellFormedCode, CP!OperandOK, OperandOK, CP!Byte, Byte,
         CP!InstrSize, InstrSize, CP!JUMP_SIZE, JUMP_SIZE, CP!Jumps, Jumps, CP!Opcode, Opcode
<1>2. \A c : VP!WellFormedCode(c) <=> WellFormedCode(c)
  BY DEF VP!WellFormedCode, WellFormedCode, VP!OperandOK, OperandOK, VP!Byte, Byte,
         VP!InstrSize, InstrSize, VP!JUMP_SIZE, JUMP_SIZE, VP!Jumps, Jumps, VP!Opcode, Opcode
<1>3. \A op : Compiler!InstrSize(op) = InstrSize(op)
  BY DEF Compiler!InstrSize, InstrSize, Compiler!JUMP_SIZE, JUMP_SIZE, Compiler!Jumps, Jumps
<1>4. \A op : VM!InstrSize(op) = InstrSize(op)
  BY DEF VM!InstrSize, InstrSize, VM!JUMP_SIZE, JUMP_SIZE, VM!Jumps, Jumps
<1> QED
  BY <1>1, <1>2, <1>3, <1>4
  DEF Compiler!JUMP_SIZE, CP!JUMP_SIZE, JUMP_SIZE, CP!Jumps, VM!Jumps, Jumps

LEMMA SameFaults ==
  /\ \A s, i, e : CP!IsVerdict(s, i, e) <=> IsVerdict(s, i, e)
  /\ \A s, i : Compiler!TokenAt(s, i) = TokenAt(s, i)
  /\ \A s, i, n : Compiler!IsRun(s, i, n) <=> IsRun(s, i, n)
  /\ \A s, i : CP!Balance(s, i) = Balance(s, i)
<1>1. \A s, i, e : CP!IsVerdict(s, i, e) <=> IsVerdict(s, i, e)
  BY DEF CP!IsVerdict, IsVerdict, CP!FaultAt, FaultAt, CP!TokenAt, TokenAt, CP!Balance,
         Balance, CP!Moves, Moves, CP!Faultless, Faultless
<1>2. \A s, i : Compiler!TokenAt(s, i) = TokenAt(s, i)
  BY DEF Compiler!TokenAt, TokenAt
<1>3. \A s, i, n : Compiler!IsRun(s, i, n) <=> IsRun(s, i, n)
  BY DEF Compiler!TokenAt, TokenAt, Compiler!IsRun, IsRun
<1>4. \A s, i : CP!Balance(s, i) = Balance(s, i)
  BY DEF CP!Balance, Balance, CP!Cardinality, Cardinality, CP!IsFiniteSet, IsFiniteSet
<1> QED
  BY <1>1, <1>2, <1>3, <1>4

LEMMA SameCompiler == Compiler!Next <=> CP!Next
<1> USE DEF Compiler!Token, CP!Token, Compiler!TokenAt, CP!TokenAt, Compiler!Freed, CP!Freed,
            Compiler!Write, CP!Write, Compiler!GrownCap, CP!GrownCap,
            Compiler!GROWTH_FACTOR, CP!GROWTH_FACTOR, Compiler!InstrSize, CP!InstrSize,
            Compiler!JUMP_SIZE, CP!JUMP_SIZE, Compiler!Jumps, CP!Jumps,
            Compiler!Store, CP!Store, Compiler!Result, CP!Result,
            Compiler!InStorage, CP!InStorage, Compiler!Returns, CP!Returns,
            Compiler!Emit, CP!Emit, Compiler!IsRun, CP!IsRun,
            Compiler!Moves, CP!Moves, Compiler!Adds, CP!Adds, Compiler!Effects, CP!Effects
<1>1. Compiler!CompilerInit <=> CP!CompilerInit
  BY DEF Compiler!CompilerInit, CP!CompilerInit, Compiler!FreshBuffer, CP!FreshBuffer
<1>2. Compiler!EmitAdditiveP <=> CP!EmitAdditiveP
  BY DEF Compiler!EmitAdditiveP, CP!EmitAdditiveP, Compiler!TooLong, CP!TooLong
<1>3. Compiler!EmitAdditiveV <=> CP!EmitAdditiveV
  BY DEF Compiler!EmitAdditiveV, CP!EmitAdditiveV, Compiler!Wrapped, CP!Wrapped
<1>4. Compiler!EmitNoOperand <=> CP!EmitNoOperand
  BY DEF Compiler!EmitNoOperand, CP!EmitNoOperand
<1>5. Compiler!BeginLoop <=> CP!BeginLoop
  BY DEF Compiler!BeginLoop, CP!BeginLoop, Compiler!Reserve, CP!Reserve
<1>6. Compiler!EndLoop <=> CP!EndLoop
  BY DEF Compiler!EndLoop, CP!EndLoop, Compiler!Top, CP!Top, Compiler!LoopEnd, CP!LoopEnd,
         Compiler!PopSize, CP!PopSize
<1>7. Compiler!InvalidToken <=> CP!InvalidToken
  BY DEF Compiler!InvalidToken, CP!InvalidToken
<1>8. Compiler!Finish <=> CP!Finish
  BY DEF Compiler!Finish, CP!Finish, Compiler!Unclosed, CP!Unclosed
<1> QED
  BY <1>1, <1>2, <1>3, <1>4, <1>5, <1>6, <1>7, <1>8 DEF Compiler!Next, CP!Next

LEMMA SameVM == VM!Next <=> VP!Next
<1> USE DEF VM!Fetch, VP!Fetch, VM!instr, VP!instr, VM!Return, VP!Return, VM!Advance,
            VP!Advance, VM!InstrSize, VP!InstrSize, VM!JUMP_SIZE, VP!JUMP_SIZE,
            VM!Jumps, VP!Jumps, VM!Value, VP!Value, VM!Byte, VP!Byte
<1>1. VM!RunRet <=> VP!RunRet
  BY DEF VM!RunRet, VP!RunRet
<1>2. VM!RunAddp <=> VP!RunAddp
  BY DEF VM!RunAddp, VP!RunAddp, VM!BeyondEnd, VP!BeyondEnd
<1>3. VM!RunSubp <=> VP!RunSubp
  BY DEF VM!RunSubp, VP!RunSubp
<1>4. VM!RunAddv <=> VP!RunAddv
  BY DEF VM!RunAddv, VP!RunAddv
<1>5. VM!RunSubv <=> VP!RunSubv
  BY DEF VM!RunSubv, VP!RunSubv
<1>6. VM!RunWrite <=> VP!RunWrite
  BY DEF VM!RunWrite, VP!RunWrite
<1>7. VM!RunRead <=> VP!RunRead
  BY DEF VM!RunRead, VP!RunRead
<1>8. VM!RunJump <=> VP!RunJump
  BY DEF VM!RunJump, VP!RunJump, VM!Taken, VP!Taken
<1>9. VM!RunDebug <=> VP!RunDebug
  BY DEF VM!RunDebug, VP!RunDebug
<1>10. VM!RunInvalidOp <=> VP!RunInvalidOp
  BY DEF VM!RunInvalidOp, VP!RunInvalidOp, VM!Opcode, VP!Opcode
<1> QED
  BY <1>1, <1>2, <1>3, <1>4, <1>5, <1>6, <1>7, <1>8, <1>9, <1>10 DEF VM!Next, VP!Next

(* The invariants of the compiler and of the interpreter, for their        *)
(* instances here; whether a state is one now or after a step.             *)
LEMMA CompilerInvariant ==
  /\ CP!Init => CP!IInv /\ CP!VInv
  /\ CP!IInv /\ CP!VInv /\ (Compiler!Next \/ UNCHANGED compiling) => CP!IInv' /\ CP!VInv'
<1> USE WidthAssumption, BufferAssumption, SourcesAssumption DEF CP!Keyword, Keyword,
        CP!Moves, Moves, CP!Adds, Adds, CP!Effects, Effects
<1>1. CP!Init => CP!IInv
  BY CP!InitIInv
<1>2. CP!IInv /\ (CP!Next \/ UNCHANGED compiling) => CP!IInv'
  BY CP!NextIInv DEF CP!vars, compiling
<1>3. CP!IInv /\ CP!VInv /\ (CP!Next \/ UNCHANGED compiling) => CP!VInv'
  BY CP!NextVInv DEF CP!vars, compiling
<1>4. CP!Init => CP!VInv
  BY DEF CP!Init, CP!VInv, CP!Reading, CP!VerdictIsFirstFault
<1> QED
  BY <1>1, <1>2, <1>3, <1>4, SameCompiler

LEMMA InterpreterInvariant ==
  /\ VP!Init => VP!IInv
  /\ VP!IInv /\ (VM!Next \/ UNCHANGED <<code, running>>) => VP!IInv'
<1>1. VP!Init => VP!IInv
  BY VP!InitIInv, WidthAssumption
<1>2. VP!IInv /\ (VP!Next \/ UNCHANGED <<code, running>>) => VP!IInv'
  BY VP!NextIInv, WidthAssumption DEF VP!vars, VP!context, running
<1> QED
  BY <1>1, <1>2, SameVM

LEMMA InvariantsStart ==
  /\ CP!Init' => CP!IInv' /\ CP!VInv'
  /\ VP!Init' => VP!IInv'
  BY CompilerInvariant, InterpreterInvariant, PTL

-----------------------------------------------------------------------------

(***************************************************************************)
(* The invariant.  Flow is where compile_and_run is and what it has in     *)
(* hand there; Traced is why a run that returns successfully has executed  *)
(* all of the source: behind the last token with an instruction of its own *)
(* there have only been runs that wrapped to nothing, and the only ret     *)
(* comes last.                                                             *)
(***************************************************************************)
Having == stage \in {"compile", "context", "run", "fini"}

(* What the compiler will find when it is called. *)
Untouched ==
  /\ source \in Sources
  /\ pos = 0
  /\ origin = [o \in {0} |-> 1]
  /\ code = [o \in {} |-> [op |-> "ret", operand |-> 0]]
  /\ loop_stack = <<>>
  /\ loop_buf = Compiler!Freed
  /\ last_token = 0
  /\ outcome = "READY"

Flow ==
  /\ Having \/ stage \in {"fopen", "init", "exited"}
  /\ stage \in {"fopen", "init"} => Untouched
  /\ stage = "fopen" => file = "closed"
  /\ stage # "compile" => loop_buf = Compiler!Freed /\ outcome # "RUNNING"
  /\ stage \in {"context", "run"} => outcome = "SUCCESS" /\ file = "closed"
  /\ stage \in {"fini", "exited"} =>
       file = "closed" /\ exit_status \in {"SUCCESS", "FAILURE"}
  /\ stage \notin {"fini", "exited"} => exit_status = "none"

Storage ==
  /\ dst \in BufferRecord
  /\ Having => dst.alloc # 0
  /\ ~Having => dst = Compiler!Freed

Compiling == stage = "compile" => CP!IInv /\ CP!VInv

Traced ==
  /\ outcome \in {"READY", "RUNNING"} /\ stage = "compile" =>
       /\ dst.size \in DOMAIN origin /\ origin[dst.size] \in Nat
       /\ \A o \in DOMAIN code : code[o].op # "ret"
       /\ outcome = "READY" => origin[dst.size] = 1
       /\ outcome = "RUNNING" =>
            \A k \in origin[dst.size] .. pos - 1 : source[k] \in Adds
  /\ outcome = "SUCCESS" =>
       /\ WellFormedCode(code)
       /\ IsVerdict(source, Len(source) + 1, "SUCCESS")
       /\ \A o \in DOMAIN code : code[o].op = "ret" =>
            \A k \in origin[o] .. Len(source) : source[k] \in Adds

Running == stage = "run" => VP!IInv

(* The instruction at ip - 1 stays the reason for what the run returned,   *)
(* and that is what is told; without a run there is no success.            *)
Told ==
  /\ stage \in {"fopen", "init", "compile", "context"} => status = "READY"
  /\ status # "READY" => outcome = "SUCCESS" /\ VP!StopsAtCulprit
  /\ stage \in {"fini", "exited"} =>
       status # "RUNNING" /\ (exit_status = "SUCCESS" <=> status = "SUCCESS")

IInv == Flow /\ Storage /\ Compiling /\ Traced /\ Running /\ Told

LEMMA InitIInv == Init => IInv
<1> SUFFICES ASSUME Init PROVE IInv
  OBVIOUS
<1>1. Compiler!Freed \in BufferRecord
  BY DEF Compiler!Freed, BufferRecord
<1>2. Untouched /\ stage = "fopen" /\ exit_status = "none" /\ dst = Compiler!Freed
  BY DEF Init, CommandInit, Untouched
<1> QED
  BY <1>1, <1>2
  DEF IInv, Flow, Having, Untouched, Storage, Compiling, Traced, Running, Told

-----------------------------------------------------------------------------

(* A write takes no storage away. *)
LEMMA WriteKeepsStorage ==
  ASSUME NEW b \in BufferRecord, NEW n \in Nat \ {0}, NEW w \in Write(b, n),
         b.alloc # 0
  PROVE  w.buf.alloc # 0
<1>1. b.cap \in Nat \ {0}
      /\ b = [size |-> b.size, cap |-> b.cap, alloc |-> b.alloc]
  BY DEF BufferRecord
<1> DEFINE cap == GrownCap(b.cap, n)
<1>2. cap \in Nat \ {0}
  BY <1>1, GrowthSuffices
<1> HIDE DEF cap
<1>3. \/ w = [buf |-> [b EXCEPT !.size = @ + n], error |-> "SUCCESS"]
      \/ w = [buf |-> [size |-> b.size + n, cap |-> cap, alloc |-> cap],
              error |-> "SUCCESS"]
      \/ w = [buf |-> [b EXCEPT !.cap = cap], error |-> "MALLOC"]
  BY DEF Write, cap
<1> QED
  BY <1>1, <1>2, <1>3

LEMMA InstrSizes ==
  /\ \A op : InstrSize(op) \in Nat \ {0}
  /\ JUMP_SIZE \in Nat \ {0}
  BY WidthAssumption DEF WidthAssumption, InstrSize, JUMP_SIZE

(* What one step of the compiler does to the program, whichever it is.  It *)
(* grows or not; while it compiles no ret is stored, and where it does not *)
(* grow nothing has been passed but a run that wrapped to nothing.         *)
StepFacts ==
  /\ UNCHANGED source
  /\ dst'.alloc # 0
  /\ dst'.size \in Nat /\ dst'.size >= dst.size
  /\ outcome' \in {"READY", "RUNNING"} =>
       /\ outcome' = "RUNNING"
       /\ \A o \in DOMAIN code' : code'[o].op # "ret"
       /\ outcome = "READY" => dst'.size = dst.size /\ pos' = 1
       /\ outcome = "RUNNING" /\ dst'.size = dst.size =>
            \A k \in pos .. pos' - 1 : source[k] \in Adds
  /\ outcome' = "SUCCESS" =>
       /\ outcome = "RUNNING"
       /\ dst'.size # dst.size
       /\ \A o \in DOMAIN code' : code'[o].op = "ret" => o = dst.size
       /\ pos' = pos /\ pos \notin DOMAIN source

(* How a call that has not succeeded, or not at once, ends. *)
LEMMA ReturnsFacts ==
  ASSUME NEW e, NEW p, NEW b, Compiler!Returns(e, p, b)
  PROVE  /\ pos' = p
         /\ UNCHANGED source
         /\ outcome' = IF e = "SUCCESS" THEN "RUNNING" ELSE e
  BY DEF Compiler!Returns

(* A write of one piece at the end of the program. *)
LEMMA EmitFacts ==
  ASSUME dst \in BufferRecord, dst.alloc # 0,
         outcome = "RUNNING", \A o \in DOMAIN code : code[o].op # "ret",
         NEW op, op # "ret", NEW operand, NEW p, NEW q,
         Compiler!Emit(op, operand, p, q)
  PROVE  StepFacts
<1>1. PICK w \in Write(dst, InstrSize(op)) :
        /\ dst' = w.buf
        /\ code' = IF w.error = "SUCCESS"
                   THEN Compiler!Store(dst.size, [op |-> op, operand |-> operand])
                   ELSE code
        /\ Compiler!Returns(Compiler!Result(w), IF w.error = "SUCCESS" THEN p ELSE q, loop_buf)
  BY SameBuffers, SameCode DEF Compiler!Emit
<1>2. /\ w.buf \in BufferRecord /\ w.buf.alloc # 0
      /\ w.error \in {"SUCCESS", "MALLOC"}
      /\ w.buf.size = IF w.error = "SUCCESS" THEN dst.size + InstrSize(op) ELSE dst.size
  BY WriteFacts, WriteKeepsStorage, InstrSizes
<1>3. /\ dst.size \in Nat /\ dst'.size \in Nat /\ dst'.size >= dst.size /\ dst'.alloc # 0
      /\ w.error = "SUCCESS" => dst'.size # dst.size
  BY <1>1, <1>2, InstrSizes DEF BufferRecord
<1>4. \A o \in DOMAIN code' : code'[o].op # "ret"
  BY <1>1 DEF Compiler!Store
<1>5. UNCHANGED source
      /\ outcome' = IF Compiler!Result(w) = "SUCCESS" THEN "RUNNING" ELSE Compiler!Result(w)
  BY <1>1, ReturnsFacts
<1>6. /\ Compiler!Result(w) \in {"SUCCESS", "MALLOC", "UNDEFINED"}
      /\ Compiler!Result(w) = "SUCCESS" => w.error = "SUCCESS"
  BY <1>2 DEF Compiler!Result
<1> QED
  BY <1>3, <1>4, <1>5, <1>6 DEF StepFacts

LEMMA CompilerSteps ==
  ASSUME source \in Sources, pos \in Nat, dst \in BufferRecord, dst.alloc # 0,
         outcome \in {"READY", "RUNNING"} => \A o \in DOMAIN code : code[o].op # "ret",
         Compiler!Next
  PROVE  StepFacts
<1>1. dst.size \in Nat /\ \A k \in DOMAIN source : source[k] # "EOF"
  BY SourcesAssumption
  DEF SourcesAssumption, BufferRecord, Keyword, Moves, Adds, Effects
<1>2. CASE Compiler!CompilerInit
  BY <1>1, <1>2, ReturnsFacts DEF Compiler!CompilerInit, StepFacts
<1>3. CASE Compiler!EmitAdditiveP
  <2>1. PICK n \in 1 .. Len(source) :
          \/ /\ Compiler!Returns("DP_OUT_OF_BOUNDS", pos + UINT16_MAX, loop_buf)
             /\ UNCHANGED <<dst, code>>
          \/ Compiler!Emit(IF Compiler!Token = "darling" THEN "addp" ELSE "subp", n,
                           pos + n, pos + n)
    BY <1>3 DEF Compiler!EmitAdditiveP
  <2>2. CASE Compiler!Returns("DP_OUT_OF_BOUNDS", pos + UINT16_MAX, loop_buf)
             /\ UNCHANGED <<dst, code>>
    BY <1>1, <2>2, ReturnsFacts DEF StepFacts
  <2> QED
    BY <1>3, <2>1, <2>2, EmitFacts DEF Compiler!EmitAdditiveP
<1>4. CASE Compiler!EmitAdditiveV
  <2>1. outcome = "RUNNING" /\ TokenAt(source, pos) \in Adds
    BY <1>4, SameFaults DEF Compiler!EmitAdditiveV, Compiler!Token, Compiler!Adds, Adds
  <2>2. PICK n \in 1 .. Len(source) :
          /\ IsRun(source, pos, n)
          /\ \/ /\ Compiler!Returns("SUCCESS", pos + n, loop_buf)
                /\ UNCHANGED <<dst, code>>
             \/ Compiler!Emit(IF Compiler!Token = "my" THEN "addv" ELSE "subv",
                              Compiler!Wrapped(n), pos + n, pos + n)
    BY <1>4, SameFaults DEF Compiler!EmitAdditiveV
  <2>3. CASE Compiler!Returns("SUCCESS", pos + n, loop_buf) /\ UNCHANGED <<dst, code>>
    <3>1. \A k \in pos .. pos + n - 1 : source[k] \in Adds
      BY <2>1, <2>2 DEF IsRun, TokenAt, Adds
    <3>2. outcome' = "RUNNING" /\ pos' = pos + n /\ UNCHANGED source
      BY <2>3, ReturnsFacts
    <3> QED
      BY <1>1, <2>1, <2>3, <3>1, <3>2 DEF StepFacts
  <2> QED
    BY <2>1, <2>2, <2>3, EmitFacts
<1>5. CASE Compiler!EmitNoOperand
  <2>1. PICK op \in {"write", "read", "debug"} : Compiler!Emit(op, 0, pos + 1, pos)
    BY <1>5, Zenon DEF Compiler!EmitNoOperand
  <2> QED
    BY <1>5, <2>1, EmitFacts DEF Compiler!EmitNoOperand
<1>6. CASE Compiler!BeginLoop
  <2>1. PICK w \in Write(loop_buf, SIZE_T) :
          Compiler!Returns(Compiler!Result(w), IF w.error = "SUCCESS" THEN pos + 1 ELSE pos, w.buf)
    BY <1>6, SameBuffers DEF Compiler!BeginLoop
  <2>2. outcome = "RUNNING" /\ UNCHANGED code /\ dst' = [dst EXCEPT !.size = @ + JUMP_SIZE]
    BY <1>6, SameCode DEF Compiler!BeginLoop, Compiler!Reserve
  <2>3. dst'.alloc # 0 /\ dst'.size = dst.size + JUMP_SIZE
    BY <2>2 DEF BufferRecord
  <2>4. outcome' # "SUCCESS" /\ outcome' # "READY" /\ UNCHANGED source
    <3>1. w.error \in {"SUCCESS", "MALLOC"}
      BY DEF Write
    <3> QED
      BY <2>1, <3>1, ReturnsFacts DEF Compiler!Result
  <2> QED
    BY <1>1, <2>2, <2>3, <2>4, InstrSizes DEF StepFacts
<1>7. CASE Compiler!EndLoop
  <2>1. CASE Compiler!Returns("UNEXPECTED_LOOP_END", pos, loop_buf) /\ UNCHANGED <<dst, code>>
    BY <1>1, <1>7, <2>1, ReturnsFacts DEF Compiler!EndLoop, StepFacts
  <2>2. CASE loop_stack # <<>>
    <3> DEFINE start == Compiler!Top(loop_stack)
               r     == start - JUMP_SIZE
    <3>1. PICK w \in Write(dst, JUMP_SIZE) :
            LET ok    == w.error = "SUCCESS"
                jmpnz == [op |-> "jmpnz", operand |-> start]
                jmpz  == [op |-> "jmpz", operand |-> Compiler!LoopEnd(start, w.buf)]
            IN  /\ dst' = w.buf
                /\ code' = [x \in DOMAIN code \cup {r} \cup (IF ok THEN {dst.size} ELSE {}) |->
                              IF x = r THEN jmpz
                              ELSE IF ok /\ x = dst.size THEN jmpnz
                              ELSE code[x]]
                /\ Compiler!Returns(
                     IF start > w.buf.alloc THEN "UNDEFINED" ELSE Compiler!Result(w),
                     IF ok THEN pos + 1 ELSE pos, Compiler!PopSize(loop_buf))
      BY <1>7, <2>2, SameBuffers, SameCode DEF Compiler!EndLoop
    <3> HIDE DEF start, r
    <3>2. /\ w.buf \in BufferRecord /\ w.buf.alloc # 0
          /\ w.error \in {"SUCCESS", "MALLOC"}
          /\ w.buf.size = IF w.error = "SUCCESS" THEN dst.size + JUMP_SIZE ELSE dst.size
      BY WriteFacts, WriteKeepsStorage, InstrSizes
    <3>3. /\ UNCHANGED source
          /\ \/ outcome' \in {"UNDEFINED", "MALLOC"}
             \/ outcome' = "RUNNING" /\ w.error = "SUCCESS"
      BY <3>1, <3>2, ReturnsFacts DEF Compiler!Result
    <3>4. \A o \in DOMAIN code' : code'[o].op # "ret"
      BY <1>7, <3>1 DEF Compiler!EndLoop
    <3> QED
      BY <1>1, <1>7, <3>1, <3>2, <3>3, <3>4, InstrSizes DEF Compiler!EndLoop, StepFacts
  <2> QED
    BY <1>7, <2>1, <2>2 DEF Compiler!EndLoop
<1>8. CASE Compiler!InvalidToken
  BY <1>1, <1>8, ReturnsFacts DEF Compiler!InvalidToken, StepFacts
<1>9. CASE Compiler!Finish
  <2>1. /\ outcome = "RUNNING" /\ pos' = pos /\ UNCHANGED source /\ pos \notin DOMAIN source
    BY <1>1, <1>9, SameFaults DEF Compiler!Finish, Compiler!Token, TokenAt
  <2>2. CASE outcome' = "UNCLOSED_LOOPS" /\ UNCHANGED <<dst, code>>
    BY <1>1, <2>1, <2>2 DEF StepFacts
  <2>3. CASE \E w \in Write(dst, InstrSize("ret")) :
               /\ dst' = w.buf
               /\ code' = IF w.error = "SUCCESS"
                          THEN Compiler!Store(dst.size, [op |-> "ret", operand |-> 0])
                          ELSE code
               /\ outcome' = Compiler!Result(w)
    <3>1. PICK w \in Write(dst, InstrSize("ret")) :
               /\ dst' = w.buf
               /\ code' = IF w.error = "SUCCESS"
                          THEN Compiler!Store(dst.size, [op |-> "ret", operand |-> 0])
                          ELSE code
               /\ outcome' = Compiler!Result(w)
      BY <2>3
    <3>2. /\ w.buf \in BufferRecord /\ w.buf.alloc # 0
          /\ w.error \in {"SUCCESS", "MALLOC"}
          /\ w.buf.size = IF w.error = "SUCCESS" THEN dst.size + InstrSize("ret") ELSE dst.size
      BY WriteFacts, WriteKeepsStorage, InstrSizes
    <3>3. \/ outcome' \in {"UNDEFINED", "MALLOC"}
          \/ outcome' = "SUCCESS" /\ w.error = "SUCCESS"
      BY <3>1, <3>2 DEF Compiler!Result
    <3>4. w.error = "SUCCESS" => \A o \in DOMAIN code' : code'[o].op = "ret" => o = dst.size
      BY <2>1, <3>1 DEF Compiler!Store
    <3> QED
      BY <1>1, <2>1, <3>1, <3>2, <3>3, <3>4, InstrSizes DEF StepFacts
  <2> QED
    BY <1>9, <2>2, <2>3, SameBuffers, SameCode DEF Compiler!Finish
<1> QED
  BY <1>2, <1>3, <1>4, <1>5, <1>6, <1>7, <1>8, <1>9 DEF Compiler!Next

-----------------------------------------------------------------------------

LEMMA OpenSourceKeepsIInv == IInv /\ OpenSource => IInv'
<1> SUFFICES ASSUME IInv, OpenSource PROVE IInv'
  OBVIOUS
<1>1. /\ Fopen /\ UNCHANGED <<origin, source, pos, dst, code, loop_stack, loop_buf,
                              last_token, outcome, ip, dp, memory, event, status>>
  BY DEF OpenSource, compiling, running
<1> QED
  BY <1>1
  DEF IInv, Flow, Having, Untouched, Storage, Compiling, Traced, Running, Told, Fopen, Exit

LEMMA InitProgramKeepsIInv == IInv /\ InitProgram => IInv'
<1> SUFFICES ASSUME IInv, InitProgram PROVE IInv'
  OBVIOUS
<1>1. /\ stage = "init" /\ exit_status = "none" /\ Untouched /\ dst = Compiler!Freed
      /\ UNCHANGED <<origin, source, pos, code, loop_stack, loop_buf, last_token,
                     outcome, ip, dp, memory, event, status>>
  BY DEF InitProgram, HaveProgram, NoProgram, running, IInv, Flow, Storage, Having
<1>2. CASE HaveProgram /\ dst' = FreshBuffer
  <2>1. CP!Init'
    BY <1>1, <1>2, SameBuffers DEF CP!Init, Untouched
  <2>2. dst' \in BufferRecord /\ dst'.alloc # 0 /\ dst'.size = 0
    BY <1>2, BufferAssumption DEF BufferAssumption, FreshBuffer, BufferRecord
  <2> QED
    BY <1>1, <1>2, <2>1, <2>2, InvariantsStart
    DEF IInv, Flow, Having, Untouched, Storage, Compiling, Traced, Running, Told, HaveProgram
<1>3. CASE NoProgram /\ UNCHANGED dst
  BY <1>1, <1>3
  DEF IInv, Flow, Having, Untouched, Storage, Compiling, Traced, Running, Told, NoProgram, Exit
<1> QED
  BY <1>2, <1>3 DEF InitProgram

LEMMA JoinRanges ==
  ASSUME NEW s, NEW A, NEW b \in Nat, NEW p \in Nat, NEW q \in Nat,
         \A k \in b .. p - 1 : s[k] \in A,
         \A k \in p .. q - 1 : s[k] \in A
  PROVE  \A k \in b .. q - 1 : s[k] \in A
<1> TAKE k \in b .. q - 1
<1>1. k \in b .. p - 1 \/ k \in p .. q - 1
  OBVIOUS
<1> QED
  BY <1>1

LEMMA CompileKeepsIInv == IInv /\ Compile => IInv'
<1> SUFFICES ASSUME IInv, Compile PROVE IInv'
  OBVIOUS
<1>1. /\ stage = "compile" /\ Compiler!Next /\ exit_status = "none"
      /\ UNCHANGED <<stage, file, exit_status, ip, dp, memory, event, status>>
      /\ origin' = IF dst'.size = dst.size THEN origin
                   ELSE [o \in DOMAIN origin \cup {dst'.size} |->
                           IF o = dst'.size THEN pos' ELSE origin[o]]
  BY DEF Compile, command, running, IInv, Flow
<1>2. CP!IInv /\ CP!VInv /\ CP!IInv' /\ CP!VInv'
  BY <1>1, CompilerInvariant DEF IInv, Compiling
<1>3. /\ source \in Sources /\ pos \in Nat /\ pos' \in Nat
      /\ dst \in BufferRecord /\ dst' \in BufferRecord /\ dst.alloc # 0
  BY <1>1, <1>2, SameBuffers DEF CP!IInv, CP!TypeOK, IInv, Storage, Having
<1>4. StepFacts
  BY <1>1, <1>3, CompilerSteps DEF IInv, Traced
<1>5. outcome' = "SUCCESS" =>
        WellFormedCode(code') /\ IsVerdict(source', Len(source') + 1, "SUCCESS")
  <2>1. outcome' = "SUCCESS" => WellFormedCode(code')
    BY <1>2, SameCode DEF CP!IInv, CP!SuccessIsRunnable
  <2>2. outcome' = "SUCCESS" => IsVerdict(source', last_token', "SUCCESS")
    BY <1>2, SameFaults DEF CP!VInv, CP!VerdictIsFirstFault
  <2> QED
    BY <2>1, <2>2 DEF IsVerdict
<1>6. outcome = "RUNNING" => pos \in 1 .. Len(source) + 1
  BY <1>2 DEF CP!VInv, CP!Reading, CP!Scanned
<1>7. outcome' \in {"READY", "RUNNING"} =>
        /\ dst'.size \in DOMAIN origin' /\ origin'[dst'.size] \in Nat
        /\ \A o \in DOMAIN code' : code'[o].op # "ret"
        /\ outcome' = "RUNNING"
        /\ \A k \in origin'[dst'.size] .. pos' - 1 : source'[k] \in Adds
  <2> SUFFICES ASSUME outcome' \in {"READY", "RUNNING"}
               PROVE  /\ dst'.size \in DOMAIN origin' /\ origin'[dst'.size] \in Nat
                      /\ \A k \in origin'[dst'.size] .. pos' - 1 : source[k] \in Adds
    BY <1>4 DEF StepFacts
  <2>1. CASE dst'.size # dst.size
    BY <1>1, <1>3, <2>1
  <2>2. CASE dst'.size = dst.size /\ outcome = "READY"
    BY <1>1, <1>4, <2>2 DEF StepFacts, IInv, Traced
  <2>3. CASE dst'.size = dst.size /\ outcome = "RUNNING"
    <3>1. /\ origin' = origin /\ dst.size \in DOMAIN origin /\ origin[dst.size] \in Nat
          /\ \A k \in origin[dst.size] .. pos - 1 : source[k] \in Adds
          /\ \A k \in pos .. pos' - 1 : source[k] \in Adds
      BY <1>1, <1>4, <2>3 DEF StepFacts, IInv, Traced
    <3>2. \A k \in origin[dst.size] .. pos' - 1 : source[k] \in Adds
      BY <1>3, <3>1, JoinRanges, Zenon
    <3> QED
      BY <2>3, <3>1, <3>2, Zenon
  <2>4. outcome \in {"READY", "RUNNING"}
    BY <1>1 DEF Compiler!Next, Compiler!CompilerInit, Compiler!EmitAdditiveP,
                Compiler!EmitAdditiveV, Compiler!EmitNoOperand, Compiler!BeginLoop,
                Compiler!EndLoop, Compiler!InvalidToken, Compiler!Finish
  <2> QED
    BY <2>1, <2>2, <2>3, <2>4
<1>8. ASSUME outcome' = "SUCCESS", NEW o \in DOMAIN code', code'[o].op = "ret",
             NEW k \in origin'[o] .. Len(source)
      PROVE  source[k] \in Adds
  <2>1. /\ o = dst.size /\ outcome = "RUNNING" /\ dst'.size # dst.size
        /\ pos \notin DOMAIN source
    BY <1>4, <1>8 DEF StepFacts
  <2>2. /\ dst.size \in DOMAIN origin
        /\ \A i \in origin[dst.size] .. pos - 1 : source[i] \in Adds
    BY <1>1, <2>1 DEF IInv, Traced
  <2>3. origin'[o] = origin[dst.size]
    BY <1>1, <2>1, <2>2
  <2>4. source \in Seq(Keyword \cup {"INVALID"})
    BY <1>3, SourcesAssumption DEF SourcesAssumption
  <2>5. pos = Len(source) + 1 /\ Len(source) \in Nat
    BY <1>6, <2>1, <2>4
  <2> QED
    BY <1>3, <1>8, <2>2, <2>3, <2>5
<1>9. Traced'
  BY <1>4, <1>5, <1>7, <1>8 DEF Traced, StepFacts
<1>10. Flow' /\ Storage' /\ Compiling' /\ Running' /\ Told'
  BY <1>1, <1>2, <1>3, <1>4
  DEF IInv, Flow, Having, Storage, Compiling, Running, Told, StepFacts
<1> QED
  BY <1>9, <1>10 DEF IInv

LEMMA CloseSourceKeepsIInv == IInv /\ CloseSource => IInv'
<1> SUFFICES ASSUME IInv, CloseSource PROVE IInv'
  OBVIOUS
<1>1. /\ stage = "compile" /\ Compiled(outcome) /\ outcome # "RUNNING"
      /\ UNCHANGED <<origin, source, pos, dst, code, loop_stack, loop_buf,
                     last_token, outcome, ip, dp, memory, event, status>>
  BY DEF CloseSource, Compiled, compiling, running
<1>2. loop_buf = Compiler!Freed
  BY <1>1, SameBuffers DEF IInv, Compiling, CP!IInv
<1> QED
  BY <1>1, <1>2
  DEF IInv, Flow, Having, Storage, Compiling, Traced, Running, Told, Compiled

LEMMA StartRunKeepsIInv == IInv /\ StartRun => IInv'
<1> SUFFICES ASSUME IInv, StartRun PROVE IInv'
  OBVIOUS
<1>1. /\ Started /\ stage = "context" /\ outcome = "SUCCESS"
      /\ UNCHANGED <<origin, source, pos, dst, code, loop_stack, loop_buf,
                     last_token, outcome>>
  BY DEF StartRun, Started, compiling, IInv, Flow
<1>2. VP!Init'
  BY <1>1, SameCode
  DEF StartRun, IInv, Traced, VP!Init, VP!ContextInit, VM!NoEvent, VP!NoEvent, VP!Cell, Cell
<1>3. Flow' /\ Storage' /\ Compiling' /\ Traced'
  BY <1>1 DEF IInv, Flow, Having, Storage, Compiling, Traced, Started
<1>4. Told'
  BY <1>1 DEF StartRun, Started, Told, VP!StopsAtCulprit
<1> QED
  BY <1>2, <1>3, <1>4, InvariantsStart DEF IInv, Running

LEMMA RunKeepsIInv == IInv /\ Run => IInv'
<1> SUFFICES ASSUME IInv, Run PROVE IInv'
  OBVIOUS
<1>1. /\ stage = "run" /\ VM!Next
      /\ UNCHANGED <<stage, file, exit_status, origin, source, pos, dst, code, loop_stack,
                     loop_buf, last_token, outcome>>
  BY DEF Run, command, compiling
<1>2. VP!IInv'
  BY <1>1, InterpreterInvariant DEF IInv, Running
<1>3. Flow' /\ Storage' /\ Compiling' /\ Traced'
  BY <1>1 DEF IInv, Flow, Having, Storage, Compiling, Traced
<1>4. Told'
  BY <1>1, <1>2 DEF IInv, Flow, VP!IInv, Told
<1> QED
  BY <1>2, <1>3, <1>4 DEF IInv, Running

LEMMA EndRunKeepsIInv == IInv /\ EndRun => IInv'
<1> SUFFICES ASSUME IInv, EndRun PROVE IInv'
  OBVIOUS
<1>1. /\ stage = "run" /\ Ended(status) /\ status # "RUNNING" /\ outcome = "SUCCESS"
      /\ UNCHANGED <<origin, source, pos, dst, code, loop_stack, loop_buf,
                     last_token, outcome, ip, dp, memory, event, status>>
  BY DEF EndRun, Ended, compiling, running, IInv, Flow
<1>2. Told'
  BY <1>1 DEF IInv, Told, Ended, VP!StopsAtCulprit, VP!Explains
<1> QED
  BY <1>1, <1>2
  DEF IInv, Flow, Having, Storage, Compiling, Traced, Running, Ended

LEMMA FiniProgramKeepsIInv == IInv /\ FiniProgram => IInv'
<1> SUFFICES ASSUME IInv, FiniProgram PROVE IInv'
  OBVIOUS
<1>1. /\ Released /\ dst' = Compiler!Freed
      /\ UNCHANGED <<origin, source, pos, code, loop_stack, loop_buf,
                     last_token, outcome, ip, dp, memory, event, status>>
  BY DEF FiniProgram, running
<1>2. Compiler!Freed \in BufferRecord
  BY DEF Compiler!Freed, BufferRecord
<1>3. Told'
  BY <1>1 DEF IInv, Told, VP!StopsAtCulprit, VP!Explains, Released
<1> QED
  BY <1>1, <1>2, <1>3
  DEF IInv, Flow, Having, Storage, Compiling, Traced, Running, Released

LEMMA StutterKeepsIInv == IInv /\ UNCHANGED vars => IInv'
<1> SUFFICES ASSUME IInv, UNCHANGED vars PROVE IInv'
  OBVIOUS
<1>1. UNCHANGED <<stage, file, exit_status, origin, source, pos, dst, code, loop_stack,
                  loop_buf, last_token, outcome, ip, dp, memory, event, status>>
  BY DEF vars, command, compiling, running
<1>2. Compiling' /\ Running'
  BY <1>1, CompilerInvariant, InterpreterInvariant
  DEF IInv, Compiling, Running, compiling, running
<1>3. Told'
  BY <1>1 DEF IInv, Told, VP!StopsAtCulprit, VP!Explains
<1> QED
  BY <1>1, <1>2, <1>3 DEF IInv, Flow, Having, Untouched, Storage, Traced

LEMMA NextIInv == IInv /\ [Next]_vars => IInv'
  BY OpenSourceKeepsIInv, InitProgramKeepsIInv, CompileKeepsIInv, CloseSourceKeepsIInv,
     StartRunKeepsIInv, RunKeepsIInv, EndRunKeepsIInv, FiniProgramKeepsIInv, StutterKeepsIInv
  DEF Next

(* compile_and_run never leaves the states its parts rely on. *)
THEOREM Invariance == Spec => []IInv
  BY InitIInv, NextIInv, PTL DEF Spec

(* Whatever way compile_and_run takes out, the source file is closed and   *)
(* the program and the loop stack are freed, and none of them before.      *)
THEOREM ResourcesAreBalanced == Spec => []ResourcesBalanced
<1>1. IInv => ResourcesBalanced
  <2> SUFFICES ASSUME IInv PROVE ResourcesBalanced
    OBVIOUS
  <2>1. dst # Compiler!Freed <=> Having
    BY DEF IInv, Storage, Compiler!Freed
  <2>2. loop_buf # Compiler!Freed => stage = "compile" /\ outcome = "RUNNING"
    BY SameBuffers DEF IInv, Flow, Compiling, CP!IInv
  <2> QED
    BY <2>1, <2>2 DEF IInv, Flow, Having, ResourcesBalanced
<1> QED
  BY <1>1, Invariance, PTL

-----------------------------------------------------------------------------
(***************************************************************************)
(* What the instructions stand for.  Instruction i stands for the tokens   *)
(* from p to q if, behind some that come to nothing, they are the run or   *)
(* the command it was made of.                                             *)
(***************************************************************************)
IsAll(src, t, k, q) ==
  /\ k \in Nat \ {0} /\ q <= Len(src) + 1
  /\ \A j \in k .. q - 1 : TokenAt(src, j) = t

OfOneToken == {<<"nothing", "write">>, <<"beats", "read">>, <<"holiday", "debug">>,
               <<"a", "jmpz">>, <<"jet2", "jmpnz">>}

StandsFor(src, i, p, q) ==
  \E k \in 1 .. Len(src) + 1 :
    /\ Skips(src, p, k)
    /\ \/ /\ i.op \in {"addp", "subp"}
          /\ i.operand \in Nat \ {0} /\ q = k + i.operand
          /\ IsAll(src, IF i.op = "addp" THEN "darling" ELSE "hold", k, q)
       \/ /\ i.op \in {"addv", "subv"}
          /\ \E n \in Nat \ {0} : i.operand = n % (UINT8_MAX + 1) /\ q = k + n
          /\ IsAll(src, IF i.op = "addv" THEN "my" ELSE "hand", k, q)
       \/ <<TokenAt(src, k), i.op>> \in OfOneToken /\ q = k + 1
       \/ TokenAt(src, k) = "EOF" /\ i.op = "ret"

(* The loop whose start is at offset s is the l-th that is open at token p. *)
OpenSince(src, org, s, l, p) ==
  /\ s \in DOMAIN org /\ s - JUMP_SIZE \in DOMAIN org
  /\ org[s] \in 2 .. p
  /\ src[org[s] - 1] = "a"
  /\ Balance(src, org[s] - 1) = l
  /\ \A j \in org[s] - 1 .. p - 1 : Balance(src, j) >= l
  /\ Skips(src, org[s - JUMP_SIZE], org[s] - 1)

Closes(src, org, o, s) ==
  /\ s \in DOMAIN org
  /\ org[s] - 1 \in DOMAIN src /\ org[o + JUMP_SIZE] - 1 \in DOMAIN src
  /\ Matching(src, org[s] - 1, org[o + JUMP_SIZE] - 1)

Translated ==
  \A o \in DOMAIN code :
    /\ o \in DOMAIN origin /\ o + InstrSize(code[o].op) \in DOMAIN origin
    /\ StandsFor(source, code[o], origin[o], origin[o + InstrSize(code[o].op)])
    /\ code[o].op = "jmpnz" => Closes(source, origin, o, code[o].operand)

Ongoing ==
  /\ dst.size \in DOMAIN origin /\ DOMAIN origin \subseteq 0 .. dst.size
  /\ Skips(source, origin[dst.size], pos)
  /\ \A l \in DOMAIN loop_stack : OpenSince(source, origin, loop_stack[l], l, pos)

Shaped ==
  /\ 0 \in DOMAIN origin /\ origin[0] = 1
  /\ outcome = "READY" =>
       /\ origin = [o \in {0} |-> 1] /\ DOMAIN code = {} /\ dst.size = 0
       /\ loop_stack = <<>>
  /\ outcome \in {"RUNNING", "SUCCESS"} => Translated
  /\ outcome = "RUNNING" => Ongoing

(* Offsets noted once stay noted. *)
Extends(org, org2) == \A o \in DOMAIN org : o \in DOMAIN org2 /\ org2[o] = org[o]

LEMMA OpenLonger ==
  ASSUME NEW src, NEW org, NEW org2, NEW s, NEW l, NEW p \in Nat, NEW q \in Nat,
         OpenSince(src, org, s, l, p), Extends(org, org2), p <= q,
         \A j \in p .. q - 1 : Balance(src, j) >= l
  PROVE  OpenSince(src, org2, s, l, q)
<1>1. /\ s \in DOMAIN org2 /\ org2[s] = org[s]
      /\ s - JUMP_SIZE \in DOMAIN org2 /\ org2[s - JUMP_SIZE] = org[s - JUMP_SIZE]
  BY DEF OpenSince, Extends
<1>2. org[s] \in 2 .. p /\ org[s] \in 2 .. q
  BY DEF OpenSince
<1>3. ASSUME NEW j \in org[s] - 1 .. q - 1 PROVE Balance(src, j) >= l
  <2>1. j \in org[s] - 1 .. p - 1 \/ j \in p .. q - 1
    BY <1>2
  <2> QED
    BY <2>1 DEF OpenSince
<1> QED
  BY <1>1, <1>2, <1>3 DEF OpenSince

(* What was translated stays so. *)
LEMMA TranslatedStays ==
  ASSUME Translated, Extends(origin, origin'), NEW o \in DOMAIN code,
         o \in DOMAIN code', code'[o] = code[o], source' = source
  PROVE  /\ o \in DOMAIN origin' /\ o + InstrSize(code'[o].op) \in DOMAIN origin'
         /\ StandsFor(source', code'[o], origin'[o], origin'[o + InstrSize(code'[o].op)])
         /\ code'[o].op = "jmpnz" => Closes(source', origin', o, code'[o].operand)
<1>1. /\ o \in DOMAIN origin /\ o + InstrSize(code[o].op) \in DOMAIN origin
      /\ StandsFor(source, code[o], origin[o], origin[o + InstrSize(code[o].op)])
      /\ code[o].op = "jmpnz" => Closes(source, origin, o, code[o].operand)
  BY DEF Translated
<1>2. code[o].op = "jmpnz" => o + JUMP_SIZE \in DOMAIN origin
  BY <1>1 DEF InstrSize, Jumps
<1>3. code[o].op = "jmpnz" => Closes(source, origin', o, code[o].operand)
  BY <1>1, <1>2 DEF Closes, Extends
<1> QED
  BY <1>1, <1>3 DEF Extends

-----------------------------------------------------------------------------
(* What is known when a step is taken, and of `origin' after it. *)
OriginKept ==
  origin' = IF dst'.size = dst.size THEN origin
            ELSE [o \in DOMAIN origin \cup {dst'.size} |->
                    IF o = dst'.size THEN pos' ELSE origin[o]]

LEMMA OriginGrows ==
  ASSUME Ongoing, OriginKept, dst.size \in Nat, dst'.size \in Nat, dst'.size > dst.size
  PROVE  /\ Extends(origin, origin')
         /\ dst'.size \in DOMAIN origin' /\ origin'[dst'.size] = pos'
         /\ DOMAIN origin' \subseteq 0 .. dst'.size
<1>1. dst'.size \notin DOMAIN origin
  BY DEF Ongoing
<1>2. DOMAIN origin' = DOMAIN origin \cup {dst'.size}
      /\ origin'[dst'.size] = pos'
      /\ \A o \in DOMAIN origin : o # dst'.size => origin'[o] = origin[o]
  BY DEF OriginKept
<1> QED
  BY <1>1, <1>2 DEF Extends, Ongoing

(* The first offset keeps its token. *)
LEMMA OriginStarts ==
  ASSUME OriginKept, dst.size \in Nat, dst'.size \in Nat, dst'.size >= dst.size,
         0 \in DOMAIN origin, origin[0] = 1
  PROVE  0 \in DOMAIN origin' /\ origin'[0] = 1
BY DEF OriginKept

Context ==
  /\ IsSource(source)
  /\ dst \in BufferRecord /\ dst.alloc # 0 /\ dst.size \in Nat
  /\ pos \in 1 .. Len(source) + 1
  /\ loop_stack \in Seq(Nat)
  /\ Balance(source, pos - 1) = Len(loop_stack)
  /\ outcome = "RUNNING"

(* An instruction of no loop, stored behind the others. *)
LEMMA StoreShapes ==
  ASSUME Shaped, Context, OriginKept, UNCHANGED <<source, loop_stack>>,
         NEW i, i.op # "jmpnz", dst'.size = dst.size + InstrSize(i.op),
         code' = Compiler!Store(dst.size, i),
         outcome' \in {"RUNNING", "SUCCESS"},
         StandsFor(source, i, origin[dst.size], pos'),
         outcome' = "RUNNING" =>
           /\ pos' \in pos .. Len(source) + 1
           /\ \A j \in pos .. pos' - 1 : Balance(source, j) = Len(loop_stack)
  PROVE  Shaped'
<1>1. dst'.size \in Nat /\ dst'.size > dst.size /\ Ongoing /\ Translated
  BY InstrSizes DEF Context, Shaped
<1>2. /\ Extends(origin, origin')
      /\ dst'.size \in DOMAIN origin' /\ origin'[dst'.size] = pos'
      /\ DOMAIN origin' \subseteq 0 .. dst'.size
  BY <1>1, OriginGrows DEF Context
<1>3. /\ DOMAIN code' = DOMAIN code \cup {dst.size} /\ code'[dst.size] = i
      /\ \A o \in DOMAIN code : o # dst.size => code'[o] = code[o]
  BY DEF Compiler!Store
<1>4. dst.size \in DOMAIN origin' /\ origin'[dst.size] = origin[dst.size]
  BY <1>1, <1>2 DEF Extends, Ongoing
<1>5. Translated'
  <2>1. ASSUME NEW o \in DOMAIN code'
        PROVE  /\ o \in DOMAIN origin' /\ o + InstrSize(code'[o].op) \in DOMAIN origin'
               /\ StandsFor(source', code'[o], origin'[o], origin'[o + InstrSize(code'[o].op)])
               /\ code'[o].op = "jmpnz" => Closes(source', origin', o, code'[o].operand)
    <3>1. CASE o = dst.size
      BY <1>2, <1>3, <1>4, <3>1
    <3>2. CASE o # dst.size
      BY <1>1, <1>2, <1>3, <2>1, <3>2, TranslatedStays
    <3> QED
      BY <3>1, <3>2
  <2> QED
    BY <2>1 DEF Translated
<1>6. ASSUME outcome' = "RUNNING" PROVE Ongoing'
  <2>1. pos' \in 1 .. Len(source') + 1 /\ pos \in Nat /\ pos' \in Nat /\ pos <= pos'
        /\ IsSource(source')
    BY <1>6 DEF Context
  <2>2. Skips(source', pos', pos')
    BY <2>1, SkipsNone
  <2>3. ASSUME NEW l \in DOMAIN loop_stack'
        PROVE  OpenSince(source', origin', loop_stack'[l], l, pos')
    <3>1. OpenSince(source, origin, loop_stack[l], l, pos) /\ l \in DOMAIN loop_stack
      BY <1>1, <2>3 DEF Ongoing
    <3>2. l \in 1 .. Len(loop_stack) /\ Len(loop_stack) \in Nat
      BY <3>1, LenProperties DEF Context
    <3>3. \A j \in pos .. pos' - 1 : Balance(source, j) >= l
      BY <1>6, <3>2
    <3> QED
      BY <1>2, <2>1, <3>1, <3>3, OpenLonger
  <2> QED
    BY <1>2, <2>2, <2>3 DEF Ongoing
<1>7. 0 \in DOMAIN origin' /\ origin'[0] = 1
  BY <1>2 DEF Shaped, Extends
<1> QED
  BY <1>5, <1>6, <1>7 DEF Shaped

(* A step that ends the compilation without success. *)
LEMMA FailureShapes ==
  ASSUME Shaped, OriginKept, dst.size \in Nat, dst'.size \in Nat, dst'.size >= dst.size,
         outcome' \notin {"READY", "RUNNING", "SUCCESS"}
  PROVE  Shaped'
BY OriginStarts DEF Shaped

LEMMA EmitShapes ==
  ASSUME Shaped, Context, OriginKept,
         NEW op, op # "jmpnz", NEW operand, NEW p, NEW q,
         Compiler!Emit(op, operand, p, q),
         StandsFor(source, [op |-> op, operand |-> operand], origin[dst.size], p),
         p \in pos .. Len(source) + 1,
         \A j \in pos .. p - 1 : Balance(source, j) = Len(loop_stack)
  PROVE  Shaped'
<1>1. PICK w \in Write(dst, InstrSize(op)) :
        /\ dst' = w.buf
        /\ code' = IF w.error = "SUCCESS"
                   THEN Compiler!Store(dst.size, [op |-> op, operand |-> operand])
                   ELSE code
        /\ Compiler!Returns(Compiler!Result(w), IF w.error = "SUCCESS" THEN p ELSE q, loop_buf)
        /\ UNCHANGED loop_stack
  BY SameBuffers, SameCode DEF Compiler!Emit
<1>2. /\ w.buf \in BufferRecord
      /\ w.error \in {"SUCCESS", "MALLOC"}
      /\ w.buf.size = IF w.error = "SUCCESS" THEN dst.size + InstrSize(op) ELSE dst.size
  BY WriteFacts, InstrSizes DEF Context
<1>3. /\ pos' = IF w.error = "SUCCESS" THEN p ELSE q
      /\ UNCHANGED source
      /\ outcome' = IF Compiler!Result(w) = "SUCCESS" THEN "RUNNING" ELSE Compiler!Result(w)
  BY <1>1, ReturnsFacts
<1>4. /\ dst.size \in Nat /\ dst'.size \in Nat /\ dst'.size >= dst.size
      /\ dst'.size = IF w.error = "SUCCESS" THEN dst.size + InstrSize(op) ELSE dst.size
  BY <1>1, <1>2, InstrSizes DEF BufferRecord, Context
<1>5. \/ outcome' \in {"MALLOC", "UNDEFINED"}
      \/ outcome' = "RUNNING" /\ w.error = "SUCCESS"
  BY <1>2, <1>3 DEF Compiler!Result
<1>6. CASE outcome' \in {"MALLOC", "UNDEFINED"}
  BY <1>4, <1>6, FailureShapes
<1>7. CASE outcome' = "RUNNING" /\ w.error = "SUCCESS"
  <2> DEFINE i == [op |-> op, operand |-> operand]
  <2>1. i.op = op /\ code' = Compiler!Store(dst.size, i) /\ pos' = p
        /\ StandsFor(source, i, origin[dst.size], pos')
    BY <1>1, <1>3, <1>7
  <2> HIDE DEF i
  <2> QED
    BY <1>1, <1>3, <1>4, <1>7, <2>1, StoreShapes
<1> QED
  BY <1>5, <1>6, <1>7

(* How far a run of one kind reaches, and that no loop changes in it. *)
LEMMA RunTranslates ==
  ASSUME Context, NEW n \in 1 .. Len(source), IsRun(source, pos, n),
         NEW t, TokenAt(source, pos) = t, t \in Moves \cup Adds
  PROVE  /\ IsAll(source, t, pos, pos + n)
         /\ pos + n \in pos .. Len(source) + 1
         /\ \A j \in pos .. pos + n - 1 :
              /\ Balance(source, j) = Len(loop_stack)
              /\ j \in 1 .. Len(source) /\ TokenAt(source, j) = t
<1>1. pos \in 1 .. Len(source) /\ Len(source) \in Nat /\ source[pos] = t
  BY SourceFacts DEF Context, Keyword
<1>2. /\ pos + n \in 1 .. Len(source) + 1
      /\ \A k \in pos .. pos + n - 1 :
           k \in 1 .. Len(source) /\ source[k] = t /\ TokenAt(source, k) = t
  BY <1>1, RunFacts DEF Context
<1>3. ASSUME NEW j \in pos .. pos + n - 1 PROVE Balance(source, j) = Len(loop_stack)
  <2>1. pos - 1 \in Nat /\ j \in Nat /\ pos - 1 <= j /\ (pos - 1) + 1 = pos
        /\ pos .. j \subseteq pos .. pos + n - 1
    BY <1>1, <1>3
  <2>2. \A k \in (pos - 1) + 1 .. j : source[k] \notin {"a", "jet2"}
    BY <1>2, <2>1 DEF Moves, Adds
  <2> QED
    BY <2>1, <2>2, BalanceRun DEF Context
<1> QED
  BY <1>1, <1>2, <1>3 DEF IsAll

LEMMA EmitAdditivePShapes ==
  Shaped /\ Context /\ OriginKept /\ Compiler!EmitAdditiveP => Shaped'
<1> SUFFICES ASSUME Shaped, Context, OriginKept, Compiler!EmitAdditiveP PROVE Shaped'
  OBVIOUS
<1> DEFINE t  == TokenAt(source, pos)
           op == IF t = "darling" THEN "addp" ELSE "subp"
<1>1. PICK n \in 1 .. Len(source) :
        /\ t \in Moves
        /\ IsRun(source, pos, n)
        /\ \/ /\ Compiler!Returns("DP_OUT_OF_BOUNDS", pos + UINT16_MAX, loop_buf)
              /\ UNCHANGED <<dst, code, loop_stack>>
           \/ Compiler!Emit(op, n, pos + n, pos + n)
  BY SameFaults DEF Compiler!EmitAdditiveP, Compiler!Token, Compiler!Moves, Moves
<1>2. CASE /\ Compiler!Returns("DP_OUT_OF_BOUNDS", pos + UINT16_MAX, loop_buf)
           /\ UNCHANGED <<dst, code, loop_stack>>
  <2>1. outcome' = "DP_OUT_OF_BOUNDS" /\ dst' = dst /\ dst.size \in Nat
    BY <1>2, ReturnsFacts DEF Context
  <2> QED
    BY <2>1, FailureShapes
<1>3. op \in {"addp", "subp"} /\ t = IF op = "addp" THEN "darling" ELSE "hold"
  BY <1>1 DEF Moves
<1> HIDE DEF op
<1>4. CASE Compiler!Emit(op, n, pos + n, pos + n)
  <2>1. IsAll(source, t, pos, pos + n)
        /\ pos + n \in pos .. Len(source) + 1
        /\ \A j \in pos .. pos + n - 1 : Balance(source, j) = Len(loop_stack)
    BY <1>1, RunTranslates
  <2>2. Skips(source, origin[dst.size], pos) /\ pos \in 1 .. Len(source) + 1
    BY DEF Shaped, Ongoing, Context
  <2> HIDE DEF t
  <2>3. StandsFor(source, [op |-> op, operand |-> n], origin[dst.size], pos + n)
    BY <1>3, <2>1, <2>2 DEF StandsFor
  <2>4. \A j \in pos .. (pos + n) - 1 : Balance(source, j) = Len(loop_stack)
    BY <2>1, <2>2
  <2> QED
    BY <1>3, <1>4, <2>1, <2>3, <2>4, EmitShapes
<1> QED
  BY <1>1, <1>2, <1>4

LEMMA EmitAdditiveVShapes ==
  Shaped /\ Context /\ OriginKept /\ Compiler!EmitAdditiveV => Shaped'
<1> SUFFICES ASSUME Shaped, Context, OriginKept, Compiler!EmitAdditiveV PROVE Shaped'
  OBVIOUS
<1> DEFINE t  == TokenAt(source, pos)
           op == IF t = "my" THEN "addv" ELSE "subv"
<1>1. PICK n \in 1 .. Len(source) :
        /\ t \in Adds
        /\ IsRun(source, pos, n)
        /\ \/ /\ n % (UINT8_MAX + 1) = 0
              /\ Compiler!Returns("SUCCESS", pos + n, loop_buf)
              /\ UNCHANGED <<dst, code, loop_stack>>
           \/ Compiler!Emit(op, n % (UINT8_MAX + 1), pos + n, pos + n)
  BY SameFaults
  DEF Compiler!EmitAdditiveV, Compiler!Token, Compiler!Adds, Adds, Compiler!Wrapped
<1>2. /\ IsAll(source, t, pos, pos + n)
      /\ pos + n \in pos .. Len(source) + 1
      /\ \A j \in pos .. pos + n - 1 :
           /\ Balance(source, j) = Len(loop_stack)
           /\ j \in 1 .. Len(source) /\ TokenAt(source, j) = t
  BY <1>1, RunTranslates
<1>3. Skips(source, origin[dst.size], pos) /\ pos \in 1 .. Len(source) + 1
      /\ n \in Nat \ {0}
  BY DEF Shaped, Ongoing, Context
<1>4. op \in {"addv", "subv"} /\ t = IF op = "addv" THEN "my" ELSE "hand"
  BY <1>1 DEF Adds
<1> HIDE DEF t, op
<1>5. CASE /\ n % (UINT8_MAX + 1) = 0
           /\ Compiler!Returns("SUCCESS", pos + n, loop_buf)
           /\ UNCHANGED <<dst, code, loop_stack>>
  <2>1. /\ outcome' = "RUNNING" /\ pos' = pos + n /\ dst' = dst /\ code' = code
        /\ loop_stack' = loop_stack /\ source' = source /\ origin' = origin
    BY <1>5, ReturnsFacts DEF OriginKept
  <2>2. Skips(source, origin[dst.size], pos + n)
    BY <1>1, <1>2, <1>3, <1>5, SkipsRun DEF Context
  <2>3. ASSUME NEW l \in DOMAIN loop_stack
        PROVE  OpenSince(source, origin, loop_stack[l], l, pos + n)
    <3>1. OpenSince(source, origin, loop_stack[l], l, pos)
      BY DEF Shaped, Ongoing, Context
    <3>2. l \in 1 .. Len(loop_stack) /\ Len(loop_stack) \in Nat
      BY <2>3, LenProperties DEF Context
    <3>3. \A j \in pos .. pos + n - 1 : Balance(source, j) >= l
      BY <1>2, <3>2
    <3>4. pos \in Nat /\ pos + n \in Nat /\ pos <= pos + n /\ Extends(origin, origin)
      BY <1>3 DEF Extends
    <3> QED
      BY <3>1, <3>3, <3>4, OpenLonger
  <2>4. Ongoing'
    BY <2>1, <2>2, <2>3 DEF Shaped, Ongoing, Context
  <2>5. Translated'
    BY <2>1 DEF Shaped, Translated, Context
  <2> QED
    BY <2>1, <2>4, <2>5 DEF Shaped
<1>6. CASE Compiler!Emit(op, n % (UINT8_MAX + 1), pos + n, pos + n)
  <2> DEFINE m == n % (UINT8_MAX + 1)
  <2>1. StandsFor(source, [op |-> op, operand |-> m], origin[dst.size], pos + n)
    BY <1>2, <1>3, <1>4 DEF StandsFor
  <2> HIDE DEF m
  <2>2. Compiler!Emit(op, m, pos + n, pos + n)
    BY <1>6 DEF m
  <2>3. \A j \in pos .. (pos + n) - 1 : Balance(source, j) = Len(loop_stack)
    BY <1>2, <1>3
  <2> QED
    BY <1>2, <1>4, <2>1, <2>2, <2>3, EmitShapes
<1> QED
  BY <1>1, <1>5, <1>6

LEMMA EmitNoOperandShapes ==
  Shaped /\ Context /\ OriginKept /\ Compiler!EmitNoOperand => Shaped'
<1> SUFFICES ASSUME Shaped, Context, OriginKept, Compiler!EmitNoOperand PROVE Shaped'
  OBVIOUS
<1> DEFINE t  == TokenAt(source, pos)
           op == CASE t = "nothing" -> "write" [] t = "beats" -> "read" [] OTHER -> "debug"
           i  == [op |-> op, operand |-> 0]
<1>1. t \in Effects /\ Compiler!Emit(op, 0, pos + 1, pos)
  BY SameFaults DEF Compiler!EmitNoOperand, Compiler!Token, Compiler!Effects, Effects
<1>2. <<t, i.op>> \in OfOneToken /\ op # "jmpnz"
  BY <1>1 DEF OfOneToken, Effects
<1>3. pos \in 1 .. Len(source) /\ source[pos] = t /\ Len(source) \in Nat
  BY <1>1, SourceFacts DEF Context, Keyword
<1>4. pos + 1 \in pos .. Len(source) + 1
      /\ \A j \in pos .. (pos + 1) - 1 : Balance(source, j) = Len(loop_stack)
  <2>1. Balance(source, pos) = Balance(source, pos - 1)
    BY <1>1, <1>3, BalanceStep DEF Effects
  <2>2. \A j \in pos .. (pos + 1) - 1 : j = pos
    BY <1>3
  <2> QED
    BY <1>3, <2>1, <2>2 DEF Context
<1>5. Skips(source, origin[dst.size], pos) /\ pos \in 1 .. Len(source) + 1
  BY DEF Shaped, Ongoing, Context
<1> HIDE DEF i, t
<1>6. StandsFor(source, i, origin[dst.size], pos + 1)
  BY <1>2, <1>5 DEF StandsFor, t
<1>7. i = [op |-> op, operand |-> 0]
  BY DEF i
<1> HIDE DEF op
<1> QED
  BY <1>1, <1>2, <1>4, <1>6, <1>7, EmitShapes

LEMMA BeginLoopShapes ==
  Shaped /\ Context /\ OriginKept /\ Compiler!BeginLoop => Shaped'
<1> SUFFICES ASSUME Shaped, Context, OriginKept, Compiler!BeginLoop PROVE Shaped'
  OBVIOUS
<1>1. PICK w \in Write(loop_buf, SIZE_T) :
        /\ loop_stack' = IF w.error = "SUCCESS"
                         THEN Append(loop_stack, dst'.size) ELSE loop_stack
        /\ Compiler!Returns(Compiler!Result(w), IF w.error = "SUCCESS" THEN pos + 1 ELSE pos, w.buf)
  BY SameBuffers DEF Compiler!BeginLoop
<1>2. UNCHANGED code /\ dst' = [dst EXCEPT !.size = @ + JUMP_SIZE]
      /\ TokenAt(source, pos) = "a"
  BY SameCode, SameFaults DEF Compiler!BeginLoop, Compiler!Reserve, Compiler!Token
<1>3. dst'.size = dst.size + JUMP_SIZE /\ dst.size \in Nat /\ dst'.size \in Nat
      /\ dst'.size > dst.size /\ dst'.size - JUMP_SIZE = dst.size
  BY <1>2, InstrSizes DEF BufferRecord, Context
<1>4. w.error \in {"SUCCESS", "MALLOC"}
  BY DEF Write
<1>5. /\ UNCHANGED source
      /\ pos' = IF w.error = "SUCCESS" THEN pos + 1 ELSE pos
      /\ outcome' = IF Compiler!Result(w) = "SUCCESS" THEN "RUNNING" ELSE Compiler!Result(w)
  BY <1>1, ReturnsFacts
<1>6. \/ outcome' \in {"MALLOC", "UNDEFINED"}
      \/ outcome' = "RUNNING" /\ w.error = "SUCCESS"
  BY <1>4, <1>5 DEF Compiler!Result
<1>7. CASE outcome' \in {"MALLOC", "UNDEFINED"}
  BY <1>3, <1>7, FailureShapes
<1>8. CASE outcome' = "RUNNING" /\ w.error = "SUCCESS"
  <2>1. pos' = pos + 1 /\ source' = source /\ code' = code
        /\ loop_stack' = Append(loop_stack, dst'.size)
    BY <1>1, <1>2, <1>5, <1>8
  <2>2. Ongoing /\ Translated
    BY DEF Shaped, Context
  <2>3. /\ Extends(origin, origin')
        /\ dst'.size \in DOMAIN origin' /\ origin'[dst'.size] = pos + 1
        /\ DOMAIN origin' \subseteq 0 .. dst'.size
    BY <1>3, <2>1, <2>2, OriginGrows
  <2>4. Translated'
    BY <2>1, <2>2, <2>3, TranslatedStays DEF Translated
  <2>5. pos \in 1 .. Len(source) /\ Len(source) \in Nat /\ source[pos] = "a"
    BY <1>2, SourceFacts DEF Context, Keyword
  <2>6. Skips(source, pos + 1, pos + 1)
    <3>1. pos + 1 \in 1 .. Len(source) + 1
      BY <2>5
    <3> QED
      BY <3>1, SkipsNone DEF Context
  <2>7. Balance(source, pos) = Len(loop_stack) + 1 /\ Len(loop_stack) \in Nat
        /\ \A j \in pos .. (pos + 1) - 1 : j = pos
    BY <2>5, BalanceStep, LenProperties DEF Context
  <2>8. ASSUME NEW l \in DOMAIN loop_stack'
        PROVE  OpenSince(source, origin', loop_stack'[l], l, pos + 1)
    <3>1. /\ DOMAIN loop_stack = 1 .. Len(loop_stack)
          /\ DOMAIN loop_stack' = 1 .. Len(loop_stack) + 1
          /\ loop_stack'[Len(loop_stack) + 1] = dst'.size
          /\ \A k \in 1 .. Len(loop_stack) : loop_stack'[k] = loop_stack[k]
      BY <1>3, <2>1, AppendProperties, LenProperties DEF Context
    <3>2. CASE l \in 1 .. Len(loop_stack)
      <4>1. OpenSince(source, origin, loop_stack[l], l, pos)
        BY <2>2, <3>1, <3>2 DEF Ongoing
      <4>2. \A j \in pos .. (pos + 1) - 1 : Balance(source, j) >= l
        BY <2>7, <3>2
      <4>3. pos \in Nat /\ pos + 1 \in Nat /\ pos <= pos + 1
        BY <2>5
      <4> QED
        BY <2>3, <3>1, <3>2, <4>1, <4>2, <4>3, OpenLonger
    <3>3. CASE l = Len(loop_stack) + 1
      <4>1. dst.size \in DOMAIN origin' /\ origin'[dst.size] = origin[dst.size]
        BY <2>2, <2>3 DEF Ongoing, Extends
      <4>2. loop_stack'[l] = dst'.size /\ (pos + 1) - 1 = pos /\ pos + 1 \in 2 .. pos + 1
        BY <2>5, <3>1, <3>3
      <4>3. Skips(source, origin[dst.size], pos)
        BY <2>2 DEF Ongoing
      <4>4. \A j \in pos .. (pos + 1) - 1 : Balance(source, j) >= l
        BY <2>7, <3>3
      <4> QED
        BY <1>3, <2>3, <2>5, <2>7, <3>3, <4>1, <4>2, <4>3, <4>4 DEF OpenSince
    <3> QED
      BY <2>7, <2>8, <3>1, <3>2, <3>3
  <2>9. Ongoing'
    BY <2>1, <2>3, <2>6, <2>8 DEF Ongoing
  <2> QED
    BY <1>8, <2>3, <2>4, <2>9 DEF Shaped, Extends
<1> QED
  BY <1>6, <1>7, <1>8

(* A loop is closed: its room gets the jmpz, and the jmpnz comes last. *)
LEMMA CloseShapes ==
  ASSUME Shaped, Context, OriginKept, UNCHANGED source,
         TokenAt(source, pos) = "jet2", loop_stack # <<>>,
         NEW start, start = loop_stack[Len(loop_stack)],
         NEW jmpz, jmpz.op = "jmpz",
         NEW jmpnz, jmpnz.op = "jmpnz", jmpnz.operand = start,
         code' = [x \in DOMAIN code \cup {start - JUMP_SIZE} \cup {dst.size} |->
                    IF x = start - JUMP_SIZE THEN jmpz
                    ELSE IF x = dst.size THEN jmpnz
                    ELSE code[x]],
         loop_stack' = SubSeq(loop_stack, 1, Len(loop_stack) - 1),
         dst'.size = dst.size + JUMP_SIZE, pos' = pos + 1, outcome' = "RUNNING"
  PROVE  Shaped'
<1> DEFINE n == Len(loop_stack)
           r == start - JUMP_SIZE
<1>1. dst'.size \in Nat /\ dst'.size > dst.size /\ Ongoing /\ Translated /\ dst.size \in Nat
  BY InstrSizes DEF Context, Shaped
<1>2. /\ Extends(origin, origin')
      /\ dst'.size \in DOMAIN origin' /\ origin'[dst'.size] = pos + 1
      /\ DOMAIN origin' \subseteq 0 .. dst'.size
  BY <1>1, OriginGrows
<1>3. /\ n \in Nat \ {0} /\ DOMAIN loop_stack = 1 .. n
      /\ DOMAIN loop_stack' = 1 .. n - 1
      /\ \A k \in 1 .. n - 1 : loop_stack'[k] = loop_stack[k]
  <2>1. /\ SubSeq(loop_stack, 1, n - 1) \in Seq(Nat) /\ n \in Nat \ {0}
        /\ Len(SubSeq(loop_stack, 1, n - 1)) = n - 1
        /\ \A k \in 1 .. n - 1 : SubSeq(loop_stack, 1, n - 1)[k] = loop_stack[k]
    BY PopFacts DEF Context
  <2> QED
    BY <2>1, LenProperties DEF Context
<1>4. OpenSince(source, origin, start, n, pos)
  BY <1>1, <1>3 DEF Ongoing
<1> HIDE DEF n
<1>5. /\ start \in DOMAIN origin /\ r \in DOMAIN origin
      /\ origin[start] \in 2 .. pos /\ source[origin[start] - 1] = "a"
      /\ Balance(source, origin[start] - 1) = n
      /\ \A j \in origin[start] - 1 .. pos - 1 : Balance(source, j) >= n
      /\ Skips(source, origin[r], origin[start] - 1)
  BY <1>4 DEF OpenSince
<1>6. r # dst.size /\ r + JUMP_SIZE = start
  <2>1. start \in 0 .. dst.size /\ start \in Nat
    BY <1>1, <1>5 DEF Ongoing
  <2> QED
    BY <1>1, <2>1, InstrSizes
<1>7. /\ DOMAIN code' = DOMAIN code \cup {r, dst.size}
      /\ code'[r] = jmpz /\ code'[dst.size] = jmpnz
      /\ \A o \in DOMAIN code' : o # r /\ o # dst.size => o \in DOMAIN code /\ code'[o] = code[o]
  BY <1>6
<1> HIDE DEF r
<1>8. pos \in 1 .. Len(source) /\ Len(source) \in Nat /\ source[pos] = "jet2"
      /\ DOMAIN source = 1 .. Len(source)
  BY SourceFacts DEF Context, Keyword
<1>9. /\ Balance(source, pos - 1) = n /\ Balance(source, pos) = n - 1
      /\ \A j \in pos .. (pos + 1) - 1 : j = pos
  <2>1. pos \in Nat \ {0} /\ \A j \in pos .. (pos + 1) - 1 : j = pos
    BY <1>8
  <2>2. Balance(source, pos - 1) = n
    BY DEF Context, n
  <2>3. Balance(source, pos) = Balance(source, pos - 1) - 1
    BY <1>8, <2>1, BalanceStep
  <2> QED
    BY <2>1, <2>2, <2>3
<1>10. InstrSize("jmpz") = JUMP_SIZE /\ InstrSize("jmpnz") = JUMP_SIZE
  BY DEF InstrSize, Jumps
<1>11. /\ origin'[start] = origin[start] /\ start \in DOMAIN origin'
       /\ origin'[r] = origin[r] /\ r \in DOMAIN origin'
       /\ origin'[dst.size] = origin[dst.size] /\ dst.size \in DOMAIN origin'
  BY <1>1, <1>2, <1>5 DEF Extends, Ongoing
<1>12. StandsFor(source, jmpz, origin[r], origin[start])
  <2> DEFINE k == origin[start] - 1
  <2>1. k \in 1 .. Len(source) /\ source[k] = "a" /\ origin[start] = k + 1
    BY <1>5, <1>8
  <2>2. TokenAt(source, k) = "a"
    BY <2>1, SourceFacts DEF Context
  <2>3. Skips(source, origin[r], k) /\ k \in 1 .. Len(source) + 1
    BY <1>5, <1>8, <2>1
  <2> HIDE DEF k
  <2> QED
    BY <2>1, <2>2, <2>3 DEF StandsFor, OfOneToken
<1>13. StandsFor(source, jmpnz, origin[dst.size], pos + 1)
  <2>1. Skips(source, origin[dst.size], pos) /\ pos \in 1 .. Len(source) + 1
    BY <1>1 DEF Ongoing, Context
  <2> QED
    BY <2>1 DEF StandsFor, OfOneToken
<1>14. Closes(source, origin', dst.size, start)
  <2>1. origin'[dst.size + JUMP_SIZE] - 1 = pos /\ origin[start] - 1 \in 1 .. Len(source)
    BY <1>2, <1>5, <1>8
  <2>2. origin[start] - 1 # pos /\ origin[start] \in Nat
    BY <1>5, <1>8
  <2>3. Matching(source, origin[start] - 1, pos)
    BY <1>3, <1>5, <1>8, <1>9, <2>2 DEF Matching
  <2> QED
    BY <1>8, <1>11, <2>1, <2>3 DEF Closes
<1>15. Translated'
  <2>1. ASSUME NEW o \in DOMAIN code'
        PROVE  /\ o \in DOMAIN origin' /\ o + InstrSize(code'[o].op) \in DOMAIN origin'
               /\ StandsFor(source', code'[o], origin'[o], origin'[o + InstrSize(code'[o].op)])
               /\ code'[o].op = "jmpnz" => Closes(source', origin', o, code'[o].operand)
    <3>1. CASE o = r
      BY <1>6, <1>7, <1>10, <1>11, <1>12, <3>1
    <3>2. CASE o = dst.size
      BY <1>2, <1>6, <1>7, <1>10, <1>11, <1>13, <1>14, <3>2
    <3>3. CASE o # r /\ o # dst.size
      BY <1>1, <1>2, <1>7, <2>1, <3>3, TranslatedStays
    <3> QED
      BY <3>1, <3>2, <3>3
  <2> QED
    BY <2>1 DEF Translated
<1>16. Ongoing'
  <2>1. pos + 1 \in 1 .. Len(source) + 1
    BY <1>8
  <2>2. Skips(source, pos + 1, pos + 1)
    BY <2>1, SkipsNone DEF Context
  <2>3. ASSUME NEW l \in DOMAIN loop_stack'
        PROVE  OpenSince(source', origin', loop_stack'[l], l, pos')
    <3>1. l \in 1 .. n - 1 /\ l \in DOMAIN loop_stack /\ loop_stack'[l] = loop_stack[l]
      BY <1>3, <2>3
    <3>2. OpenSince(source, origin, loop_stack[l], l, pos)
      BY <1>1, <3>1 DEF Ongoing
    <3>3. \A j \in pos .. (pos + 1) - 1 : Balance(source, j) >= l
      BY <1>3, <1>9, <3>1
    <3>4. pos \in Nat /\ pos + 1 \in Nat /\ pos <= pos + 1
      BY <1>8
    <3> QED
      BY <1>2, <3>1, <3>2, <3>3, <3>4, OpenLonger
  <2> QED
    BY <1>2, <2>2, <2>3 DEF Ongoing
<1>17. 0 \in DOMAIN origin' /\ origin'[0] = 1
  BY <1>2 DEF Shaped, Extends
<1> QED
  BY <1>15, <1>16, <1>17 DEF Shaped

LEMMA EndLoopShapes ==
  Shaped /\ Context /\ OriginKept /\ Compiler!EndLoop => Shaped'
<1> SUFFICES ASSUME Shaped, Context, OriginKept, Compiler!EndLoop PROVE Shaped'
  OBVIOUS
<1>1. dst.size \in Nat /\ TokenAt(source, pos) = "jet2"
  BY SameFaults DEF Context, Compiler!EndLoop, Compiler!Token
<1>2. CASE Compiler!Returns("UNEXPECTED_LOOP_END", pos, loop_buf) /\ UNCHANGED <<dst, code>>
  <2>1. outcome' = "UNEXPECTED_LOOP_END" /\ dst' = dst
    BY <1>2, ReturnsFacts
  <2> QED
    BY <1>1, <2>1, FailureShapes
<1>3. CASE loop_stack # <<>>
  <2> DEFINE start == loop_stack[Len(loop_stack)]
  <2>1. PICK w \in Write(dst, JUMP_SIZE) :
          LET ok    == w.error = "SUCCESS"
              jmpnz == [op |-> "jmpnz", operand |-> start]
              jmpz  == [op |-> "jmpz", operand |-> Compiler!LoopEnd(start, w.buf)]
          IN  /\ dst' = w.buf
              /\ code' = [x \in DOMAIN code \cup {start - JUMP_SIZE}
                                  \cup (IF ok THEN {dst.size} ELSE {}) |->
                            IF x = start - JUMP_SIZE THEN jmpz
                            ELSE IF ok /\ x = dst.size THEN jmpnz
                            ELSE code[x]]
              /\ loop_stack' = SubSeq(loop_stack, 1, Len(loop_stack) - 1)
              /\ Compiler!Returns(
                   IF start > w.buf.alloc THEN "UNDEFINED" ELSE Compiler!Result(w),
                   IF ok THEN pos + 1 ELSE pos, Compiler!PopSize(loop_buf))
    BY <1>3, SameBuffers, SameCode DEF Compiler!EndLoop, Compiler!Top
  <2> HIDE DEF start
  <2>2. /\ w.buf \in BufferRecord
        /\ w.error \in {"SUCCESS", "MALLOC"}
        /\ w.buf.size = IF w.error = "SUCCESS" THEN dst.size + JUMP_SIZE ELSE dst.size
    BY WriteFacts, InstrSizes DEF Context
  <2>3. /\ UNCHANGED source
        /\ pos' = IF w.error = "SUCCESS" THEN pos + 1 ELSE pos
        /\ \/ outcome' \in {"UNDEFINED", "MALLOC"}
           \/ outcome' = "RUNNING" /\ w.error = "SUCCESS"
    BY <2>1, <2>2, ReturnsFacts DEF Compiler!Result
  <2>4. dst'.size \in Nat /\ dst'.size >= dst.size
    BY <1>1, <2>1, <2>2, InstrSizes DEF BufferRecord
  <2>5. CASE outcome' \in {"UNDEFINED", "MALLOC"}
    BY <1>1, <2>4, <2>5, FailureShapes
  <2>6. CASE outcome' = "RUNNING" /\ w.error = "SUCCESS"
    <3> DEFINE jmpnz == [op |-> "jmpnz", operand |-> start]
               jmpz  == [op |-> "jmpz", operand |-> Compiler!LoopEnd(start, w.buf)]
    <3>1. jmpz.op = "jmpz" /\ jmpnz.op = "jmpnz" /\ jmpnz.operand = start
      OBVIOUS
    <3>2. code' = [x \in DOMAIN code \cup {start - JUMP_SIZE} \cup {dst.size} |->
                     IF x = start - JUMP_SIZE THEN jmpz
                     ELSE IF x = dst.size THEN jmpnz
                     ELSE code[x]]
      BY <2>1, <2>6
    <3>3. /\ loop_stack' = SubSeq(loop_stack, 1, Len(loop_stack) - 1)
          /\ dst'.size = dst.size + JUMP_SIZE /\ pos' = pos + 1
      BY <2>1, <2>2, <2>3, <2>6
    <3> HIDE DEF jmpz, jmpnz
    <3> QED
      BY <1>1, <1>3, <2>3, <2>6, <3>1, <3>2, <3>3, CloseShapes DEF start
  <2> QED
    BY <2>3, <2>5, <2>6
<1> QED
  BY <1>2, <1>3 DEF Compiler!EndLoop

LEMMA FinishShapes ==
  Shaped /\ Context /\ OriginKept /\ Compiler!Finish => Shaped'
<1> SUFFICES ASSUME Shaped, Context, OriginKept, Compiler!Finish PROVE Shaped'
  OBVIOUS
<1>1. /\ TokenAt(source, pos) = "EOF" /\ UNCHANGED <<source, pos, loop_stack>>
      /\ dst.size \in Nat
  BY SameFaults DEF Context, Compiler!Finish, Compiler!Token
<1>2. CASE outcome' = "UNCLOSED_LOOPS" /\ UNCHANGED <<dst, code>>
  BY <1>1, <1>2, FailureShapes
<1>3. CASE \E w \in Write(dst, InstrSize("ret")) :
             /\ dst' = w.buf
             /\ code' = IF w.error = "SUCCESS"
                        THEN Compiler!Store(dst.size, [op |-> "ret", operand |-> 0])
                        ELSE code
             /\ outcome' = Compiler!Result(w)
  <2>1. PICK w \in Write(dst, InstrSize("ret")) :
             /\ dst' = w.buf
             /\ code' = IF w.error = "SUCCESS"
                        THEN Compiler!Store(dst.size, [op |-> "ret", operand |-> 0])
                        ELSE code
             /\ outcome' = Compiler!Result(w)
    BY <1>3
  <2>2. /\ w.buf \in BufferRecord
        /\ w.error \in {"SUCCESS", "MALLOC"}
        /\ w.buf.size = IF w.error = "SUCCESS" THEN dst.size + InstrSize("ret") ELSE dst.size
    BY WriteFacts, InstrSizes DEF Context
  <2>3. \/ outcome' \in {"UNDEFINED", "MALLOC"}
        \/ outcome' = "SUCCESS" /\ w.error = "SUCCESS"
    BY <2>1, <2>2 DEF Compiler!Result
  <2>4. dst'.size \in Nat /\ dst'.size >= dst.size
    BY <1>1, <2>1, <2>2, InstrSizes DEF BufferRecord
  <2>5. CASE outcome' \in {"UNDEFINED", "MALLOC"}
    BY <1>1, <2>4, <2>5, FailureShapes
  <2>6. CASE outcome' = "SUCCESS" /\ w.error = "SUCCESS"
    <3> DEFINE i == [op |-> "ret", operand |-> 0]
    <3>1. i.op = "ret" /\ code' = Compiler!Store(dst.size, i)
          /\ dst'.size = dst.size + InstrSize(i.op)
      BY <2>1, <2>2, <2>6
    <3> HIDE DEF i
    <3>2. Skips(source, origin[dst.size], pos) /\ pos \in 1 .. Len(source) + 1
      BY DEF Shaped, Ongoing, Context
    <3>3. StandsFor(source, i, origin[dst.size], pos')
      BY <1>1, <3>1, <3>2 DEF StandsFor
    <3> QED
      BY <1>1, <2>6, <3>1, <3>3, StoreShapes
  <2> QED
    BY <2>3, <2>5, <2>6
<1> QED
  BY <1>2, <1>3, SameBuffers, SameCode DEF Compiler!Finish

(* Whatever the compiler does next, what it has stored stands for what it  *)
(* has read.                                                               *)
LEMMA CompilerShapes ==
  ASSUME Shaped, OriginKept, Compiler!Next,
         IsSource(source), dst \in BufferRecord, dst.alloc # 0,
         outcome = "RUNNING" => Context
  PROVE  Shaped'
<1>1. dst.size \in Nat
  BY DEF BufferRecord
<1>2. CASE Compiler!CompilerInit
  <2>1. /\ outcome = "READY" /\ UNCHANGED <<dst, code, loop_stack>> /\ origin' = origin
        /\ pos' = 1 /\ UNCHANGED source /\ outcome' \in {"RUNNING", "MALLOC"}
    BY <1>2, ReturnsFacts DEF Compiler!CompilerInit, OriginKept
  <2>2. Skips(source, 1, 1)
    <3>1. 1 \in 1 .. Len(source) + 1
      BY SourceFacts
    <3> QED
      BY <3>1, SkipsNone
  <2>3. DOMAIN origin = {0} /\ origin[0] = 1 /\ DOMAIN code = {} /\ dst.size = 0
        /\ loop_stack = <<>>
    BY <2>1 DEF Shaped
  <2>4. Ongoing' /\ Translated'
    BY <2>1, <2>2, <2>3 DEF Ongoing, Translated
  <2> QED
    BY <2>1, <2>3, <2>4 DEF Shaped
<1>3. CASE Compiler!EmitAdditiveP
  BY <1>3, EmitAdditivePShapes DEF Compiler!EmitAdditiveP
<1>4. CASE Compiler!EmitAdditiveV
  BY <1>4, EmitAdditiveVShapes DEF Compiler!EmitAdditiveV
<1>5. CASE Compiler!EmitNoOperand
  BY <1>5, EmitNoOperandShapes DEF Compiler!EmitNoOperand
<1>6. CASE Compiler!BeginLoop
  BY <1>6, BeginLoopShapes DEF Compiler!BeginLoop
<1>7. CASE Compiler!EndLoop
  BY <1>7, EndLoopShapes DEF Compiler!EndLoop
<1>8. CASE Compiler!InvalidToken
  <2>1. outcome' = "INVALID_TOKEN" /\ dst' = dst
    BY <1>8, ReturnsFacts DEF Compiler!InvalidToken
  <2> QED
    BY <1>1, <2>1, FailureShapes
<1>9. CASE Compiler!Finish
  BY <1>9, FinishShapes DEF Compiler!Finish
<1> QED
  BY <1>2, <1>3, <1>4, <1>5, <1>6, <1>7, <1>8, <1>9 DEF Compiler!Next

LEMMA SameCommands ==
  /\ \A s, c : Lang!Ahead(s, c) = Ahead(s, c)
  /\ \A s, c, e : Lang!Ends(s, c, e) = Ends(s, c, e)
  /\ \A s, c : Lang!Here(s, c) = Here(s, c)
  /\ \A c : Lang!Onward(c) = Onward(c)
  /\ \A s, i, e : Lang!IsVerdict(s, i, e) <=> IsVerdict(s, i, e)
<1>1. \A s, c : Lang!Here(s, c) = Here(s, c)
  BY DEF Lang!Here, Here, Lang!TokenAt, TokenAt
<1>2. \A c : Lang!Onward(c) = Onward(c)
  BY DEF Lang!Onward, Onward
<1>3. \A s, i, e : Lang!IsVerdict(s, i, e) <=> IsVerdict(s, i, e)
  BY DEF Lang!IsVerdict, IsVerdict, Lang!FaultAt, FaultAt, Lang!TokenAt, TokenAt,
         Lang!Balance, Balance, Lang!Moves, Moves, Lang!Faultless, Faultless
<1>4. \A s, c, e : Lang!Ends(s, c, e) = Ends(s, c, e)
  BY DEF Lang!Ends, Ends, Lang!LeavesMemory, LeavesMemory, Lang!Here, Here, Lang!TokenAt,
         TokenAt, Lang!Moves, Moves, Lang!Cell, Cell
<1>5. \A s, i : Lang!Balance(s, i) = Balance(s, i)
  BY DEF Lang!Balance, Balance, Lang!Cardinality, Cardinality, Lang!IsFiniteSet, IsFiniteSet
<1>6. \A s, i, j : Lang!Matching(s, i, j) <=> Matching(s, i, j)
  BY <1>5 DEF Lang!Matching, Matching
<1>7. \A s, i : Lang!ClosedAt(s, i) = ClosedAt(s, i) /\ Lang!OpenedAt(s, i) = OpenedAt(s, i)
  BY <1>6 DEF Lang!ClosedAt, ClosedAt, Lang!OpenedAt, OpenedAt
<1>8. \A s, c : Lang!IsSilent(s, c) = IsSilent(s, c)
  BY DEF Lang!IsSilent, IsSilent, Lang!Here, Here, Lang!TokenAt, TokenAt, Lang!Moves, Moves,
         Lang!Adds, Adds, Lang!Cell, Cell, Lang!MovedTo, MovedTo
<1>9. \A s, c : Lang!Silent(s, c) = Silent(s, c)
  BY <1>7 DEF Lang!Silent, Silent, Lang!Here, Here, Lang!TokenAt, TokenAt, Lang!Moves, Moves,
         Lang!MovedTo, MovedTo, Lang!Onward, Onward
<1>10. \A s, c : Lang!Ahead(s, c) = Ahead(s, c)
  BY <1>8, <1>9 DEF Lang!Ahead, Ahead
<1> QED
  BY <1>1, <1>2, <1>3, <1>4, <1>10

-----------------------------------------------------------------------------
(* The token and the status that the source is at, in the terms of the run. *)
pcBar == CASE status = "READY"   -> 1
           [] status = "RUNNING" -> origin[ip]
           [] OTHER              -> origin[ip - 1]

statusBar == IF Rejected THEN outcome ELSE status

LEMMA AbstractStart ==
  ASSUME pcBar' = pcBar, statusBar = "READY", statusBar' = "RUNNING",
         IsVerdict(source, Len(source) + 1, "SUCCESS"),
         UNCHANGED <<source, dp, memory, event>>
  PROVE  Lang!Next
BY SameCommands DEF pcBar, statusBar, Lang!Next, Lang!Start

LEMMA AbstractReject ==
  ASSUME pcBar' = pcBar, statusBar = "READY", statusBar' \in CompilerErrors,
         \/ statusBar' = "MALLOC"
         \/ \E i \in 1 .. Len(source) + 1 : IsVerdict(source, i, statusBar'),
         UNCHANGED <<source, dp, memory, event>>
  PROVE  Lang!Next
<1>1. statusBar' # "SUCCESS" /\ statusBar' \in Lang!CompilerErrors
  BY DEF CompilerErrors, Lang!CompilerErrors
<1>2. Lang!Reject(statusBar')
  BY <1>1, SameCommands DEF pcBar, statusBar, Lang!Reject
<1> QED
  BY <1>1, <1>2 DEF Lang!Next

LEMMA AbstractRun ==
  ASSUME statusBar = "RUNNING", statusBar' = "RUNNING", UNCHANGED source,
         NEW c \in Ahead(source, At(pcBar, dp, memory)),
         Lang!Think(c) \/ Lang!Nothing(c) \/ Lang!Beats(c) \/ Lang!Holiday(c)
  PROVE  Lang!Next
<1>1. Lang!Config = At(pcBar, dp, memory)
  BY DEF Lang!Config, At, pcBar
<1>2. c \in Lang!Ahead(source, Lang!Config)
  BY <1>1, SameCommands
<1> QED
  BY <1>2 DEF Lang!Next, Lang!Run, statusBar

LEMMA AbstractThink ==
  ASSUME statusBar = "RUNNING", statusBar' = "RUNNING", UNCHANGED <<source, event>>,
         At(pcBar', dp', memory') \in Ahead(source, At(pcBar, dp, memory))
  PROVE  Lang!Next
<1> DEFINE c == At(pcBar', dp', memory')
<1>1. Lang!Think(c)
  BY DEF Lang!Think, Lang!Become, At, pcBar
<1> HIDE DEF c
<1> QED
  BY <1>1, AbstractRun DEF c

LEMMA AbstractStop ==
  ASSUME statusBar = "RUNNING", pcBar' = pcBar,
         statusBar' \in {"SUCCESS", "DP_OUT_OF_BOUNDS", "IO", "END_OF_INPUT_FILE"},
         UNCHANGED <<source, dp, memory, event>>,
         NEW k, At(k, dp, memory) \in Ahead(source, At(pcBar, dp, memory)),
         Ends(source, At(k, dp, memory), statusBar')
  PROVE  Lang!Next
<1>1. Lang!Config = At(pcBar, dp, memory)
  BY DEF Lang!Config, At, pcBar
<1>2. At(k, dp, memory) \in Lang!Ahead(source, Lang!Config)
  BY <1>1, SameCommands
<1>3. Lang!Ends(source, At(k, dp, memory), statusBar')
  BY SameCommands
<1>4. Lang!Stop(statusBar')
  BY <1>2, <1>3 DEF Lang!Stop, At, pcBar, statusBar
<1> QED
  BY <1>4 DEF Lang!Next

LEMMA AbstractStutter ==
  ASSUME pcBar' = pcBar, statusBar' = statusBar, UNCHANGED <<source, dp, memory, event>>
  PROVE  UNCHANGED Lang!vars
BY DEF Lang!vars, pcBar, statusBar

-----------------------------------------------------------------------------
(***************************************************************************)
(* The part of the invariant that the comparison with the source needs:    *)
(* what has been translated, that nothing has run before nbajh_context_init*)
(* and that the jumps of a finished program are paired.                    *)
(***************************************************************************)
Fresh == dp = 0 /\ memory = [c \in Cell |-> 0] /\ event = VM!NoEvent

Waiting ==
  /\ stage \in {"fopen", "init", "compile", "context"} => status = "READY"
  /\ status = "READY" => Fresh

MInv ==
  /\ source \in Sources
  /\ Shaped
  /\ Waiting
  /\ outcome = "SUCCESS" => CP!JumpsPaired

LEMMA InitMInv == Init => MInv /\ Lang!Init
<1> SUFFICES ASSUME Init PROVE MInv /\ Lang!Init
  OBVIOUS
<1>1. Shaped
  BY DEF Init, Shaped, Compiler!Freed
<1>2. MInv
  BY <1>1 DEF Init, CommandInit, MInv, Waiting, Fresh
<1>3. ~Rejected
  BY DEF Init, Rejected, CompilerErrors
<1>4. Lang!Init
  BY <1>3 DEF Init, Lang!Init, VM!NoEvent, Lang!Cell, Cell
<1> QED
  BY <1>2, <1>4

(* Steps that leave alone what the comparison is about. *)
LEMMA AsideKeepsMInv ==
  ASSUME MInv,
         UNCHANGED <<origin, source, pos, code, loop_stack, outcome,
                     ip, dp, memory, event, status>>,
         outcome = "RUNNING" \/ outcome = "READY" => dst'.size = dst.size,
         stage' \in {"fopen", "init", "compile", "context"} =>
           stage \in {"fopen", "init", "compile", "context"}
  PROVE  MInv' /\ UNCHANGED Lang!vars
<1>1. pcBar' = pcBar /\ statusBar' = statusBar
  BY DEF pcBar, statusBar, Rejected
<1>2. UNCHANGED Lang!vars
  BY <1>1, AbstractStutter
<1>3. Shaped'
  BY DEF MInv, Shaped, Translated, Ongoing
<1>4. CP!JumpsPaired => CP!JumpsPaired'
  BY DEF CP!JumpsPaired
<1> QED
  BY <1>2, <1>3, <1>4 DEF MInv, Waiting, Fresh

LEMMA OpenSourceRefines == IInv /\ MInv /\ OpenSource => MInv' /\ UNCHANGED Lang!vars
<1> SUFFICES ASSUME IInv, MInv, OpenSource PROVE MInv' /\ UNCHANGED Lang!vars
  OBVIOUS
<1> QED
  BY AsideKeepsMInv DEF OpenSource, Fopen, compiling, running

LEMMA InitProgramRefines == IInv /\ MInv /\ InitProgram => MInv' /\ UNCHANGED Lang!vars
<1> SUFFICES ASSUME IInv, MInv, InitProgram PROVE MInv' /\ UNCHANGED Lang!vars
  OBVIOUS
<1>1. stage = "init" /\ outcome = "READY" /\ dst = Compiler!Freed
  BY DEF InitProgram, HaveProgram, NoProgram, IInv, Flow, Storage, Having, Untouched
<1>2. dst'.size = dst.size
  BY <1>1 DEF InitProgram, FreshBuffer, Compiler!Freed
<1> QED
  BY <1>1, <1>2, AsideKeepsMInv
  DEF InitProgram, HaveProgram, NoProgram, Exit, running

LEMMA CloseSourceRefines == IInv /\ MInv /\ CloseSource => MInv' /\ UNCHANGED Lang!vars
<1> SUFFICES ASSUME IInv, MInv, CloseSource PROVE MInv' /\ UNCHANGED Lang!vars
  OBVIOUS
<1> QED
  BY AsideKeepsMInv DEF CloseSource, Compiled, compiling, running

LEMMA EndRunRefines == IInv /\ MInv /\ EndRun => MInv' /\ UNCHANGED Lang!vars
<1> SUFFICES ASSUME IInv, MInv, EndRun PROVE MInv' /\ UNCHANGED Lang!vars
  OBVIOUS
<1> QED
  BY AsideKeepsMInv DEF EndRun, Ended, compiling, running

LEMMA FiniProgramRefines == IInv /\ MInv /\ FiniProgram => MInv' /\ UNCHANGED Lang!vars
<1> SUFFICES ASSUME IInv, MInv, FiniProgram PROVE MInv' /\ UNCHANGED Lang!vars
  OBVIOUS
<1>1. outcome # "RUNNING" /\ stage = "fini" /\ dst' = Compiler!Freed
  BY DEF FiniProgram, Released, IInv, Flow
<1>2. outcome = "READY" => dst'.size = dst.size
  BY <1>1 DEF MInv, Shaped, Compiler!Freed
<1> QED
  BY <1>1, <1>2, AsideKeepsMInv DEF FiniProgram, Released, running

LEMMA StutterRefines == IInv /\ MInv /\ UNCHANGED vars => MInv' /\ UNCHANGED Lang!vars
<1> SUFFICES ASSUME IInv, MInv, UNCHANGED vars PROVE MInv' /\ UNCHANGED Lang!vars
  OBVIOUS
<1> QED
  BY AsideKeepsMInv DEF vars, command, compiling, running

(* nbajh_context_init starts a source without a fault. *)
LEMMA StartRunRefines == IInv /\ MInv /\ StartRun => MInv' /\ Lang!Next
<1> SUFFICES ASSUME IInv, MInv, StartRun PROVE MInv' /\ Lang!Next
  OBVIOUS
<1>1. /\ stage = "context" /\ stage' = "run" /\ outcome = "SUCCESS"
      /\ ip' = 0 /\ Fresh' /\ status' = "RUNNING"
      /\ UNCHANGED <<origin, source, pos, dst, code, loop_stack, outcome>>
  BY DEF StartRun, Started, compiling, IInv, Flow, Fresh, VM!NoEvent
<1>2. status = "READY" /\ Fresh /\ origin[0] = 1 /\ Shaped
  BY <1>1 DEF MInv, Waiting, Shaped
<1>3. ~Rejected /\ ~Rejected'
  BY <1>1 DEF Rejected, CompilerErrors
<1>4. pcBar' = pcBar /\ statusBar = "READY" /\ statusBar' = "RUNNING"
  BY <1>1, <1>2, <1>3 DEF pcBar, statusBar
<1>5. UNCHANGED <<dp, memory, event>>
  BY <1>1, <1>2 DEF Fresh, VM!NoEvent
<1>6. IsVerdict(source, Len(source) + 1, "SUCCESS")
  BY <1>1 DEF IInv, Traced
<1>7. Lang!Next
  BY <1>1, <1>4, <1>5, <1>6, AbstractStart
<1>8. Shaped'
  BY <1>1, <1>2 DEF Shaped, Translated
<1>9. CP!JumpsPaired'
  BY <1>1 DEF MInv, CP!JumpsPaired
<1> QED
  BY <1>1, <1>7, <1>8, <1>9 DEF MInv, Waiting

-----------------------------------------------------------------------------
LEMMA WriteErrors ==
  ASSUME NEW b, NEW n, NEW w \in Write(b, n)
  PROVE  Compiler!Result(w) \in {"SUCCESS", "MALLOC", "UNDEFINED"}
BY DEF Write, Compiler!Result

(* Loops are found unclosed where the source ends. *)
LEMMA UnclosedAtEnd ==
  ASSUME Compiler!Next, outcome' = "UNCLOSED_LOOPS"
  PROVE  outcome = "RUNNING" /\ last_token' = pos
<1>1. \A e, p, b : Compiler!Returns(e, p, b) => e = "UNCLOSED_LOOPS"
  BY ReturnsFacts
<1>2. \A b, n, w : w \in Write(b, n) => Compiler!Result(w) # "UNCLOSED_LOOPS"
  BY WriteErrors
<1>3. \A op, x, p, q : ~Compiler!Emit(op, x, p, q)
  BY <1>1, <1>2, SameBuffers DEF Compiler!Emit
<1>4. ~Compiler!CompilerInit /\ ~Compiler!InvalidToken
  BY <1>1 DEF Compiler!CompilerInit, Compiler!InvalidToken
<1>5. ~Compiler!EmitAdditiveP /\ ~Compiler!EmitAdditiveV /\ ~Compiler!EmitNoOperand
  BY <1>1, <1>3 DEF Compiler!EmitAdditiveP, Compiler!EmitAdditiveV, Compiler!EmitNoOperand
<1>6. ~Compiler!BeginLoop
  BY <1>1, <1>2, SameBuffers DEF Compiler!BeginLoop
<1>7. ~Compiler!EndLoop
  <2>1. ASSUME NEW n, NEW w \in Compiler!Write(dst, n), NEW p, NEW b, NEW s,
               Compiler!Returns(IF s > w.buf.alloc THEN "UNDEFINED" ELSE Compiler!Result(w),
                                p, b)
        PROVE  FALSE
    <3>1. Compiler!Result(w) # "UNCLOSED_LOOPS"
      BY <1>2, <2>1, SameBuffers
    <3> QED
      BY <1>1, <2>1, <3>1
  <2>2. ~Compiler!Returns("UNEXPECTED_LOOP_END", pos, loop_buf)
    BY <1>1
  <2> QED
    BY <2>1, <2>2, Zenon DEF Compiler!EndLoop
<1> QED
  BY <1>4, <1>5, <1>6, <1>7 DEF Compiler!Next, Compiler!Finish

(* A compilation that ends without success tells the fault of a token of   *)
(* the source, or that memory ran out.                                     *)
LEMMA VerdictInSource ==
  ASSUME IsSource(source), IsVerdict(source, last_token', outcome'),
         outcome' \in CompilerErrors \ {"MALLOC"},
         outcome' = "UNCLOSED_LOOPS" => last_token' \in 1 .. Len(source) + 1
  PROVE  last_token' \in 1 .. Len(source) + 1
<1>1. \/ outcome' = "UNCLOSED_LOOPS"
      \/ TokenAt(source, last_token') \in {"INVALID", "jet2"} \cup Moves
  BY Zenon DEF IsVerdict, FaultAt, CompilerErrors
<1>2. TokenAt(source, last_token') \in {"INVALID", "jet2"} \cup Moves =>
        last_token' \in 1 .. Len(source)
  BY SourceFacts DEF Keyword
<1> QED
  BY <1>1, <1>2, SourceFacts

LEMMA CompileRefines ==
  IInv /\ MInv /\ Compile => MInv' /\ (Lang!Next \/ UNCHANGED Lang!vars)
<1> SUFFICES ASSUME IInv, MInv, Compile
             PROVE  MInv' /\ (Lang!Next \/ UNCHANGED Lang!vars)
  OBVIOUS
<1>1. /\ stage = "compile" /\ Compiler!Next /\ OriginKept
      /\ UNCHANGED <<stage, ip, dp, memory, event, status>>
  BY DEF Compile, command, running, OriginKept
<1>2. CP!IInv /\ CP!VInv /\ CP!IInv' /\ CP!VInv'
  BY <1>1, CompilerInvariant DEF IInv, Compiling
<1>3. /\ IsSource(source) /\ source \in Sources
      /\ dst \in BufferRecord /\ dst.alloc # 0 /\ dst.size \in Nat
  BY <1>1, SourcesAssumption
  DEF SourcesAssumption, IsSource, MInv, IInv, Storage, Having, BufferRecord
<1>4. outcome = "RUNNING" => Context
  <2>1. ASSUME outcome = "RUNNING"
        PROVE  /\ pos \in 1 .. Len(source) + 1
               /\ Balance(source, pos - 1) = Len(loop_stack)
    BY <1>2, <2>1, SameFaults DEF CP!VInv, CP!Reading, CP!Scanned
  <2>2. loop_stack \in Seq(Nat)
    BY <1>2 DEF CP!IInv, CP!TypeOK
  <2> QED
    BY <1>3, <2>1, <2>2 DEF Context
<1>5. Shaped'
  BY <1>1, <1>3, <1>4, CompilerShapes DEF MInv
<1>6. source' = source /\ status = "READY" /\ Fresh
  <2>1. source' = source
    BY <1>1 DEF Compiler!Next, Compiler!CompilerInit, Compiler!EmitAdditiveP,
                Compiler!EmitAdditiveV, Compiler!EmitNoOperand, Compiler!BeginLoop,
                Compiler!EndLoop, Compiler!InvalidToken, Compiler!Finish, Compiler!Emit,
                Compiler!Returns
  <2> QED
    BY <1>1, <2>1 DEF MInv, Waiting
<1>7. MInv'
  BY <1>1, <1>2, <1>3, <1>5, <1>6 DEF MInv, Waiting, Fresh, CP!IInv
<1>8. outcome \in {"READY", "RUNNING"}
  BY <1>1 DEF Compiler!Next, Compiler!CompilerInit, Compiler!EmitAdditiveP,
              Compiler!EmitAdditiveV, Compiler!EmitNoOperand, Compiler!BeginLoop,
              Compiler!EndLoop, Compiler!InvalidToken, Compiler!Finish
<1>9. pcBar' = pcBar /\ statusBar = "READY" /\ UNCHANGED <<source, dp, memory, event>>
  BY <1>1, <1>6, <1>8 DEF pcBar, statusBar, Rejected, CompilerErrors
<1>10. CASE outcome' \notin CompilerErrors
  <2>1. statusBar' = statusBar
    BY <1>1, <1>6, <1>8, <1>10 DEF statusBar, Rejected, CompilerErrors
  <2> QED
    BY <1>7, <1>9, <2>1, AbstractStutter
<1>11. CASE outcome' \in CompilerErrors
  <2>1. statusBar' = outcome'
    BY <1>11 DEF statusBar, Rejected
  <2>2. ASSUME outcome' # "MALLOC"
        PROVE  \E i \in 1 .. Len(source) + 1 : IsVerdict(source, i, outcome')
    <3>1. CP!VerdictIsFirstFault'
      BY <1>2 DEF CP!VInv
    <3>2. IsVerdict(source, last_token', outcome')
      BY <1>6, <1>11, <2>2, <3>1, SameFaults DEF CP!VerdictIsFirstFault, CompilerErrors
    <3>3. outcome' = "UNCLOSED_LOOPS" => last_token' \in 1 .. Len(source) + 1
      BY <1>1, <1>4, UnclosedAtEnd DEF Context
    <3> QED
      BY <1>3, <1>11, <2>2, <3>2, <3>3, VerdictInSource
  <2>3. Lang!Next
    BY <1>9, <1>11, <2>1, <2>2, AbstractReject
  <2> QED
    BY <1>7, <2>3
<1> QED
  BY <1>10, <1>11

-----------------------------------------------------------------------------
(***************************************************************************)
(* The steps of the interpreter.  Fetching is what is known at each.       *)
(***************************************************************************)
Fetching ==
  /\ status = "RUNNING" /\ outcome = "SUCCESS"
  /\ IsSource(source)
  /\ ip \in DOMAIN code /\ ip \in Nat
  /\ dp \in Cell /\ memory \in [Cell -> Byte]
  /\ OperandOK(code[ip])
  /\ Translated
  /\ CP!JumpsPaired
  /\ UNCHANGED <<source, origin, code, outcome>>

Behind == origin[ip + InstrSize(code[ip].op)]

LEMMA FetchedStands ==
  ASSUME Fetching
  PROVE  /\ pcBar = origin[ip] /\ statusBar = "RUNNING"
         /\ StandsFor(source, code[ip], pcBar, Behind)
BY DEF Fetching, pcBar, statusBar, Rejected, CompilerErrors, Translated, Behind

(* Where a step leads that goes on. *)
LEMMA Advanced ==
  ASSUME Fetching, VM!Advance
  PROVE  pcBar' = Behind /\ statusBar' = "RUNNING" /\ UNCHANGED source
BY SameCode
  DEF Fetching, pcBar, statusBar, Rejected, CompilerErrors, Behind, VM!Advance, VM!instr

LEMMA Returned ==
  ASSUME Fetching, NEW s, s \notin {"READY", "RUNNING"}, VM!Return(s)
  PROVE  /\ pcBar' = pcBar /\ statusBar' = s
         /\ UNCHANGED <<source, dp, memory, event>>
<1>1. ip' - 1 = ip /\ status' = s /\ UNCHANGED <<dp, memory, event>>
  BY DEF Fetching, VM!Return
<1> QED
  BY <1>1 DEF Fetching, pcBar, statusBar, Rejected, CompilerErrors

LEMMA RetRefines == Fetching /\ VM!RunRet => Lang!Next
<1> SUFFICES ASSUME Fetching, VM!RunRet PROVE Lang!Next
  OBVIOUS
<1>1. code[ip].op = "ret" /\ VM!Return("SUCCESS")
  BY DEF VM!RunRet, VM!Fetch, VM!instr
<1>2. PICK k \in 1 .. Len(source) + 1 : Skips(source, pcBar, k) /\ TokenAt(source, k) = "EOF"
  BY <1>1, FetchedStands DEF StandsFor, OfOneToken
<1>3. At(k, dp, memory) \in Ahead(source, At(pcBar, dp, memory))
  BY <1>2, HereAhead DEF Fetching
<1>4. Ends(source, At(k, dp, memory), "SUCCESS")
  BY <1>2 DEF Ends, Here, At
<1> QED
  BY <1>1, <1>3, <1>4, FetchedStands, Returned, AbstractStop

(* An instruction that moves the pointer stands for as many tokens as its  *)
(* operand says.                                                           *)
LEMMA MoveStands ==
  ASSUME Fetching, code[ip].op \in {"addp", "subp"},
         NEW t, t = IF code[ip].op = "addp" THEN "darling" ELSE "hold"
  PROVE  \E k \in 1 .. Len(source) + 1 :
           LET n == code[ip].operand
           IN  /\ Skips(source, pcBar, k)
               /\ n \in 1 .. UINT16_MAX
               /\ Behind = k + n /\ k + n <= Len(source) + 1
               /\ \A j \in k .. k + n - 1 : TokenAt(source, j) = t
<1>1. PICK k \in 1 .. Len(source) + 1 :
        /\ Skips(source, pcBar, k)
        /\ Behind = k + code[ip].operand
        /\ IsAll(source, t, k, Behind)
  BY FetchedStands DEF StandsFor, OfOneToken
<1>2. code[ip].operand \in 1 .. UINT16_MAX
  BY DEF Fetching, OperandOK
<1> QED
  BY <1>1, <1>2 DEF IsAll

LEMMA MoveRefines ==
  ASSUME Fetching, code[ip].op \in {"addp", "subp"},
         NEW e \in Cell, UNCHANGED <<memory, event>>, VM!Advance, dp' = e,
         e = IF code[ip].op = "addp" THEN dp + code[ip].operand ELSE dp - code[ip].operand
  PROVE  Lang!Next
<1> DEFINE t == IF code[ip].op = "addp" THEN "darling" ELSE "hold"
           n == code[ip].operand
<1>1. PICK k \in 1 .. Len(source) + 1 :
        /\ Skips(source, pcBar, k)
        /\ n \in 1 .. UINT16_MAX
        /\ Behind = k + n /\ k + n <= Len(source) + 1
        /\ \A j \in k .. k + n - 1 : TokenAt(source, j) = t
  BY MoveStands
<1>2. t \in Moves /\ e = (IF t = "darling" THEN dp + n ELSE dp - n)
  BY DEF Moves
<1> HIDE DEF t
<1>3. n \in Nat \ {0}
  BY <1>1, WidthAssumption DEF WidthAssumption
<1>4. At(k + n, e, memory) \in Ahead(source, At(pcBar, dp, memory))
  BY <1>1, <1>2, <1>3, MoveAhead DEF Fetching
<1> QED
  BY <1>1, <1>4, FetchedStands, Advanced, AbstractThink

LEMMA LeaveRefines ==
  ASSUME Fetching, code[ip].op \in {"addp", "subp"}, VM!Return("DP_OUT_OF_BOUNDS"),
         (IF code[ip].op = "addp" THEN dp + code[ip].operand ELSE dp - code[ip].operand)
           \notin Cell
  PROVE  Lang!Next
<1> DEFINE t == IF code[ip].op = "addp" THEN "darling" ELSE "hold"
           n == code[ip].operand
<1>1. PICK k \in 1 .. Len(source) + 1 :
        /\ Skips(source, pcBar, k)
        /\ n \in 1 .. UINT16_MAX
        /\ \A j \in k .. k + n - 1 : TokenAt(source, j) = t
  BY MoveStands
<1>2. n \in 1 .. MEMORY_SIZE /\ k \in Nat
  BY <1>1, WidthAssumption DEF WidthAssumption
<1>3. t \in Moves /\ (IF t = "darling" THEN dp + n ELSE dp - n) \notin Cell
  BY DEF Moves
<1>4. TokenAt(source, k) = t
  BY <1>1, <1>2
<1> HIDE DEF t, n
<1>5. Ends(source, At(k, dp, memory), "DP_OUT_OF_BOUNDS")
  BY <1>1, <1>2, <1>3, <1>4 DEF Ends, LeavesMemory, Here, At
<1>6. At(k, dp, memory) \in Ahead(source, At(pcBar, dp, memory))
  BY <1>1, HereAhead DEF Fetching
<1> QED
  BY <1>5, <1>6, FetchedStands, Returned, AbstractStop

LEMMA AddpRefines == Fetching /\ VM!RunAddp => Lang!Next
<1> SUFFICES ASSUME Fetching, VM!RunAddp PROVE Lang!Next
  OBVIOUS
<1>1. code[ip].op = "addp" /\ code[ip].operand \in Nat \ {0}
  BY WidthAssumption DEF WidthAssumption, VM!RunAddp, VM!Fetch, VM!instr, Fetching, OperandOK
<1>2. MEMORY_SIZE \in Nat /\ Cell = 0 .. MEMORY_SIZE - 1 /\ dp \in Cell
  BY WidthAssumption DEF WidthAssumption, Cell, Fetching
<1>3. CASE VM!BeyondEnd(code[ip].operand)
  <2>1. dp + code[ip].operand \notin Cell
    BY <1>1, <1>2, <1>3 DEF VM!BeyondEnd
  <2>2. VM!Return("DP_OUT_OF_BOUNDS")
    BY <1>3 DEF VM!RunAddp, VM!instr
  <2> QED
    BY <1>1, <2>1, <2>2, LeaveRefines
<1>4. CASE ~VM!BeyondEnd(code[ip].operand)
  <2>1. dp + code[ip].operand \in Cell
    BY <1>1, <1>2, <1>4 DEF VM!BeyondEnd
  <2>2. VM!Advance /\ dp' = dp + code[ip].operand /\ UNCHANGED <<memory, event>>
    BY <1>4 DEF VM!RunAddp, VM!instr
  <2> QED
    BY <1>1, <2>1, <2>2, MoveRefines
<1> QED
  BY <1>3, <1>4

LEMMA SubpRefines == Fetching /\ VM!RunSubp => Lang!Next
<1> SUFFICES ASSUME Fetching, VM!RunSubp PROVE Lang!Next
  OBVIOUS
<1>1. code[ip].op = "subp" /\ code[ip].operand \in Nat \ {0}
  BY WidthAssumption DEF WidthAssumption, VM!RunSubp, VM!Fetch, VM!instr, Fetching, OperandOK
<1>2. MEMORY_SIZE \in Nat /\ Cell = 0 .. MEMORY_SIZE - 1 /\ dp \in Cell
  BY WidthAssumption DEF WidthAssumption, Cell, Fetching
<1>3. CASE dp < code[ip].operand
  <2>1. dp - code[ip].operand \notin Cell
    BY <1>1, <1>2, <1>3
  <2>2. VM!Return("DP_OUT_OF_BOUNDS")
    BY <1>3 DEF VM!RunSubp, VM!instr
  <2> QED
    BY <1>1, <2>1, <2>2, LeaveRefines
<1>4. CASE ~(dp < code[ip].operand)
  <2>1. dp - code[ip].operand \in Cell
    BY <1>1, <1>2, <1>4
  <2>2. VM!Advance /\ dp' = dp - code[ip].operand /\ UNCHANGED <<memory, event>>
    BY <1>4 DEF VM!RunSubp, VM!instr
  <2> QED
    BY <1>1, <2>1, <2>2, MoveRefines
<1> QED
  BY <1>3, <1>4

(* The cell is changed by as many as the operand says, and by whole turns  *)
(* more or less.                                                           *)
LEMMA AddStands ==
  ASSUME Fetching, code[ip].op \in {"addv", "subv"},
         NEW t, t = IF code[ip].op = "addv" THEN "my" ELSE "hand"
  PROVE  \E k \in 1 .. Len(source) + 1, n \in Nat \ {0} :
           /\ Skips(source, pcBar, k)
           /\ code[ip].operand = n % (UINT8_MAX + 1)
           /\ Behind = k + n /\ k + n <= Len(source) + 1
           /\ \A j \in k .. k + n - 1 : TokenAt(source, j) = t
<1>1. PICK k \in 1 .. Len(source) + 1 :
        /\ Skips(source, pcBar, k)
        /\ \E n \in Nat \ {0} : code[ip].operand = n % (UINT8_MAX + 1) /\ Behind = k + n
        /\ IsAll(source, t, k, Behind)
  BY FetchedStands DEF StandsFor, OfOneToken
<1>2. PICK n \in Nat \ {0} : code[ip].operand = n % (UINT8_MAX + 1) /\ Behind = k + n
  BY <1>1
<1> QED
  BY <1>1, <1>2 DEF IsAll

LEMMA AddRefines ==
  ASSUME Fetching, code[ip].op \in {"addv", "subv"}, UNCHANGED <<dp, event>>, VM!Advance,
         memory' = [memory EXCEPT ![dp] =
                      IF code[ip].op = "addv"
                      THEN (@ + code[ip].operand) % (UINT8_MAX + 1)
                      ELSE (@ + (UINT8_MAX + 1) - code[ip].operand) % (UINT8_MAX + 1)]
  PROVE  Lang!Next
<1> DEFINE t == IF code[ip].op = "addv" THEN "my" ELSE "hand"
           m == UINT8_MAX + 1
           x == memory[dp]
<1>1. PICK k \in 1 .. Len(source) + 1, n \in Nat \ {0} :
        /\ Skips(source, pcBar, k)
        /\ code[ip].operand = n % (UINT8_MAX + 1)
        /\ Behind = k + n /\ k + n <= Len(source) + 1
        /\ \A j \in k .. k + n - 1 : TokenAt(source, j) = t
  BY AddStands
<1>2. m \in Nat \ {0} /\ x \in Int /\ n \in Int
  BY WidthAssumption DEF WidthAssumption, Fetching, Byte
<1>3. (x + (n % m)) % m = (x + n) % m /\ (x + m - (n % m)) % m = (x - n) % m
  <2> HIDE DEF m, x
  <2> QED
    BY <1>2, RemainderAdd, RemainderSub
<1>4. x - n = x + (0 - n)
  BY <1>2
<1>5. memory' = Added(memory, dp, IF t = "my" THEN n ELSE 0 - n)
  <2>1. CASE code[ip].op = "addv"
    <3>1. memory' = [memory EXCEPT ![dp] = (x + (n % m)) % m]
      BY <1>1, <2>1
    <3>2. Added(memory, dp, IF t = "my" THEN n ELSE 0 - n)
            = [memory EXCEPT ![dp] = (x + n) % m]
      BY <2>1 DEF Added
    <3> QED
      BY <1>3, <3>1, <3>2
  <2>2. CASE code[ip].op = "subv"
    <3>1. memory' = [memory EXCEPT ![dp] = (x + m - (n % m)) % m]
      BY <1>1, <2>2
    <3>2. Added(memory, dp, IF t = "my" THEN n ELSE 0 - n)
            = [memory EXCEPT ![dp] = (x + (0 - n)) % m]
      BY <2>2 DEF Added
    <3> QED
      BY <1>3, <1>4, <3>1, <3>2
  <2> QED
    BY <2>1, <2>2
<1>6. t \in Adds
  BY DEF Adds
<1> HIDE DEF t
<1>7. At(k + n, dp, memory') \in Ahead(source, At(pcBar, dp, memory))
  BY <1>1, <1>5, <1>6, AddAhead DEF Fetching
<1> QED
  BY <1>1, <1>7, FetchedStands, Advanced, AbstractThink

LEMMA AddvRefines == Fetching /\ VM!RunAddv => Lang!Next
<1> SUFFICES ASSUME Fetching, VM!RunAddv PROVE Lang!Next
  OBVIOUS
<1>1. /\ code[ip].op = "addv" /\ VM!Advance /\ UNCHANGED <<dp, event>>
      /\ memory' = [memory EXCEPT ![dp] = (@ + code[ip].operand) % (UINT8_MAX + 1)]
  BY DEF VM!RunAddv, VM!Fetch, VM!instr
<1> QED
  BY <1>1, AddRefines

LEMMA SubvRefines == Fetching /\ VM!RunSubv => Lang!Next
<1> SUFFICES ASSUME Fetching, VM!RunSubv PROVE Lang!Next
  OBVIOUS
<1>1. /\ code[ip].op = "subv" /\ VM!Advance /\ UNCHANGED <<dp, event>>
      /\ memory' = [memory EXCEPT ![dp] =
                      (@ + (UINT8_MAX + 1) - code[ip].operand) % (UINT8_MAX + 1)]
  BY DEF VM!RunSubv, VM!Fetch, VM!instr
<1> QED
  BY <1>1, AddRefines

-----------------------------------------------------------------------------
(* An instruction that the outside can see, or a jump, is one token.       *)
LEMMA CommandStands ==
  ASSUME Fetching, NEW t, <<t, code[ip].op>> \in OfOneToken
  PROVE  \E k \in 1 .. Len(source) + 1 :
           /\ Skips(source, pcBar, k)
           /\ TokenAt(source, k) = t
           /\ Behind = k + 1
           /\ At(k, dp, memory) \in Ahead(source, At(pcBar, dp, memory))
<1>1. PICK k \in 1 .. Len(source) + 1 :
        /\ Skips(source, pcBar, k)
        /\ <<TokenAt(source, k), code[ip].op>> \in OfOneToken
        /\ Behind = k + 1
  BY FetchedStands DEF StandsFor, OfOneToken
<1>2. TokenAt(source, k) = t
  BY <1>1 DEF OfOneToken
<1>3. At(k, dp, memory) \in Ahead(source, At(pcBar, dp, memory))
  BY <1>1, HereAhead DEF Fetching
<1> QED
  BY <1>1, <1>2, <1>3

LEMMA WriteRefines == Fetching /\ VM!RunWrite => Lang!Next
<1> SUFFICES ASSUME Fetching, VM!RunWrite PROVE Lang!Next
  OBVIOUS
<1>1. <<"nothing", code[ip].op>> \in OfOneToken
  BY DEF VM!RunWrite, VM!Fetch, VM!instr, OfOneToken
<1>2. PICK k \in 1 .. Len(source) + 1 :
        /\ TokenAt(source, k) = "nothing" /\ Behind = k + 1
        /\ At(k, dp, memory) \in Ahead(source, At(pcBar, dp, memory))
  BY <1>1, CommandStands
<1> DEFINE c == At(k, dp, memory)
<1>3. CASE /\ VM!Advance /\ UNCHANGED <<dp, memory>>
           /\ event' = [kind |-> "write", dp |-> 0, value |-> memory[dp]]
  <2>1. pcBar' = k + 1
    BY <1>2, <1>3, Advanced
  <2>2. Lang!Nothing(c)
    BY <1>2, <1>3, <2>1, SameCommands
    DEF Lang!Nothing, Lang!Become, Onward, Here, At, pcBar
  <2> HIDE DEF c
  <2> QED
    BY <1>2, <1>3, <2>2, FetchedStands, Advanced, AbstractRun DEF c
<1>4. CASE VM!Return("IO")
  <2>1. Ends(source, At(k, dp, memory), "IO")
    BY <1>2 DEF Ends, Here, At
  <2> QED
    BY <1>2, <1>4, <2>1, FetchedStands, Returned, AbstractStop
<1> QED
  BY <1>3, <1>4 DEF VM!RunWrite, VM!Value

LEMMA ReadRefines == Fetching /\ VM!RunRead => Lang!Next
<1> SUFFICES ASSUME Fetching, VM!RunRead PROVE Lang!Next
  OBVIOUS
<1>1. <<"beats", code[ip].op>> \in OfOneToken
  BY DEF VM!RunRead, VM!Fetch, VM!instr, OfOneToken
<1>2. PICK k \in 1 .. Len(source) + 1 :
        /\ TokenAt(source, k) = "beats" /\ Behind = k + 1
        /\ At(k, dp, memory) \in Ahead(source, At(pcBar, dp, memory))
  BY <1>1, CommandStands
<1> DEFINE c == At(k, dp, memory)
<1>3. ASSUME NEW v \in Byte, VM!Advance, dp' = dp, memory' = [memory EXCEPT ![dp] = v],
             event' = [kind |-> "read", dp |-> 0, value |-> v]
      PROVE  Lang!Next
  <2>1. pcBar' = k + 1
    BY <1>2, <1>3, Advanced
  <2>2. v \in Lang!Byte
    BY <1>3 DEF Lang!Byte, Byte
  <2>3. Lang!Beats(c)
    BY <1>2, <1>3, <2>1, <2>2, SameCommands
    DEF Lang!Beats, Lang!Become, Onward, Here, At, pcBar
  <2> HIDE DEF c
  <2> QED
    BY <1>2, <1>3, <2>3, FetchedStands, Advanced, AbstractRun DEF c
<1>4. ASSUME NEW s \in {"IO", "END_OF_INPUT_FILE"}, VM!Return(s) PROVE Lang!Next
  <2>1. Ends(source, At(k, dp, memory), s)
    BY <1>2, <1>4 DEF Ends, Here, At
  <2> QED
    BY <1>2, <1>4, <2>1, FetchedStands, Returned, AbstractStop
<1> QED
  BY <1>3, <1>4 DEF VM!RunRead, VM!Byte, Byte

LEMMA DebugRefines == Fetching /\ VM!RunDebug => Lang!Next
<1> SUFFICES ASSUME Fetching, VM!RunDebug PROVE Lang!Next
  OBVIOUS
<1>1. <<"holiday", code[ip].op>> \in OfOneToken
      /\ VM!Advance /\ UNCHANGED <<dp, memory>>
      /\ event' = [kind |-> "debug", dp |-> dp, value |-> memory[dp]]
  BY DEF VM!RunDebug, VM!Fetch, VM!instr, VM!Value, OfOneToken
<1>2. PICK k \in 1 .. Len(source) + 1 :
        /\ TokenAt(source, k) = "holiday" /\ Behind = k + 1
        /\ At(k, dp, memory) \in Ahead(source, At(pcBar, dp, memory))
  BY <1>1, CommandStands
<1> DEFINE c == At(k, dp, memory)
<1>3. pcBar' = k + 1
  BY <1>1, <1>2, Advanced
<1>4. Lang!Holiday(c)
  BY <1>1, <1>2, <1>3, SameCommands
  DEF Lang!Holiday, Lang!Become, Onward, Here, At, pcBar
<1> HIDE DEF c
<1> QED
  BY <1>1, <1>2, <1>4, FetchedStands, Advanced, AbstractRun DEF c

(***************************************************************************)
(* A jump over or back to the start of a loop goes behind the token that   *)
(* belongs to its own: the compiler paired the two instructions, and the   *)
(* tokens they come from match.                                            *)
(***************************************************************************)
Partner == code[ip].operand - JUMP_SIZE

LEMMA JumpStands ==
  ASSUME Fetching, code[ip].op \in Jumps,
         NEW t, t = IF code[ip].op = "jmpz" THEN "a" ELSE "jet2"
  PROVE  \E k \in 1 .. Len(source) + 1 :
           /\ Skips(source, pcBar, k)
           /\ TokenAt(source, k) = t
           /\ Behind = k + 1
           /\ origin[code[ip].operand] =
                (IF t = "a" THEN ClosedAt(source, k) ELSE OpenedAt(source, k)) + 1
<1>1. PICK k \in 1 .. Len(source) + 1 :
        Skips(source, pcBar, k) /\ TokenAt(source, k) = t /\ Behind = k + 1
  <2>1. <<t, code[ip].op>> \in OfOneToken
    BY DEF OfOneToken, Jumps
  <2> QED
    BY <2>1, CommandStands
<1>2. /\ Partner \in DOMAIN code
      /\ code[Partner] = [op |-> IF code[ip].op = "jmpz" THEN "jmpnz" ELSE "jmpz",
                          operand |-> ip + JUMP_SIZE]
  BY SameCode DEF Fetching, CP!JumpsPaired, Partner
<1>3. code[ip].operand \in Nat /\ JUMP_SIZE \in Nat
      /\ Partner + JUMP_SIZE = code[ip].operand
  BY InstrSizes DEF Fetching, OperandOK, Jumps, Partner
<1>4. Behind = origin[ip + JUMP_SIZE]
  BY DEF Behind, InstrSize, Jumps
<1>5. InstrSize(code[Partner].op) = JUMP_SIZE
  BY <1>2 DEF InstrSize, Jumps
<1>6. PICK i \in 1 .. Len(source) + 1 :
        origin[code[ip].operand] = i + 1
        /\ TokenAt(source, i) = IF t = "a" THEN "jet2" ELSE "a"
  <2>1. StandsFor(source, code[Partner], origin[Partner], origin[code[ip].operand])
    BY <1>2, <1>3, <1>5 DEF Fetching, Translated
  <2> QED
    BY <1>2, <2>1 DEF StandsFor, OfOneToken, Jumps
<1>7. /\ DOMAIN source = 1 .. Len(source) /\ Len(source) \in Nat
      /\ DOMAIN source \subseteq Nat \ {0}
  BY SourceFacts DEF Fetching
<1>8. (i + 1) - 1 = i /\ (k + 1) - 1 = k
  BY <1>7
<1>9. CASE t = "a"
  <2>1. Closes(source, origin, Partner, ip + JUMP_SIZE)
    <3>1. code[ip].op = "jmpz"
      BY <1>9 DEF Jumps
    <3>2. code[Partner].op = "jmpnz" /\ code[Partner].operand = ip + JUMP_SIZE
      BY <1>2, <3>1
    <3>3. Closes(source, origin, Partner, code[Partner].operand)
      BY <1>2, <3>2 DEF Fetching, Translated
    <3> QED
      BY <3>2, <3>3
  <2>2. k \in DOMAIN source /\ i \in DOMAIN source /\ Matching(source, k, i)
    BY <1>1, <1>3, <1>4, <1>6, <1>8, <2>1 DEF Closes
  <2> QED
    BY <1>1, <1>6, <1>7, <1>9, <2>2, MatchingIsUnique
<1>10. CASE t # "a"
  <2>1. Closes(source, origin, ip, code[ip].operand)
    BY <1>10 DEF Fetching, Translated, Jumps
  <2>2. k \in DOMAIN source /\ i \in DOMAIN source /\ Matching(source, i, k)
    BY <1>1, <1>3, <1>4, <1>6, <1>8, <2>1 DEF Closes
  <2> QED
    BY <1>1, <1>6, <1>7, <1>10, <2>2, MatchingIsUnique
<1> QED
  BY <1>9, <1>10

LEMMA JumpRefines == Fetching /\ VM!RunJump => Lang!Next
<1> SUFFICES ASSUME Fetching, VM!RunJump PROVE Lang!Next
  OBVIOUS
<1> DEFINE t == IF code[ip].op = "jmpz" THEN "a" ELSE "jet2"
           taken == (code[ip].op = "jmpz") = (memory[dp] = 0)
<1>1. /\ code[ip].op \in Jumps
      /\ ip' = IF taken THEN code[ip].operand ELSE ip + InstrSize(code[ip].op)
      /\ UNCHANGED <<dp, memory, event, status>>
  BY SameCode DEF VM!RunJump, VM!Fetch, VM!instr, VM!Taken, VM!Value
<1>2. PICK k \in 1 .. Len(source) + 1 :
        /\ Skips(source, pcBar, k)
        /\ TokenAt(source, k) = t
        /\ Behind = k + 1
        /\ origin[code[ip].operand] =
             (IF t = "a" THEN ClosedAt(source, k) ELSE OpenedAt(source, k)) + 1
  BY <1>1, JumpStands
<1>3. pcBar' = (IF taken THEN origin[code[ip].operand] ELSE Behind)
      /\ statusBar' = "RUNNING" /\ UNCHANGED source
  BY <1>1 DEF Fetching, pcBar, statusBar, Rejected, CompilerErrors, Behind
<1>4. t \in {"a", "jet2"} /\ (t = "a") = (code[ip].op = "jmpz")
  BY <1>1 DEF Jumps
<1> HIDE DEF t
<1>5. At(pcBar', dp', memory') \in Ahead(source, At(pcBar, dp, memory))
  <2>1. At(IF (t = "a") = (memory[dp] = 0)
            THEN (IF t = "a" THEN ClosedAt(source, k) + 1 ELSE OpenedAt(source, k) + 1)
            ELSE k + 1, dp, memory)
           \in Ahead(source, At(pcBar, dp, memory))
    BY <1>2, <1>4, LoopAhead DEF Fetching
  <2>2. pcBar' = IF (t = "a") = (memory[dp] = 0)
                 THEN (IF t = "a" THEN ClosedAt(source, k) + 1 ELSE OpenedAt(source, k) + 1)
                 ELSE k + 1
    BY <1>2, <1>3, <1>4
  <2> QED
    BY <1>1, <2>1, <2>2
<1> QED
  BY <1>1, <1>3, <1>5, FetchedStands, AbstractThink

(* The compiler makes no other instructions. *)
LEMMA NoInvalidOp == Fetching => ~VM!RunInvalidOp
<1> SUFFICES ASSUME Fetching, VM!RunInvalidOp PROVE FALSE
  OBVIOUS
<1>1. code[ip].op \notin VM!Opcode
  BY DEF VM!RunInvalidOp, VM!instr
<1> QED
  BY <1>1, FetchedStands DEF StandsFor, OfOneToken, VM!Opcode, VM!Jumps

LEMMA RunRefines == IInv /\ MInv /\ Run => MInv' /\ Lang!Next
<1> SUFFICES ASSUME IInv, MInv, Run PROVE MInv' /\ Lang!Next
  OBVIOUS
<1>1. /\ stage = "run" /\ VM!Next /\ outcome = "SUCCESS" /\ VP!IInv
      /\ UNCHANGED <<stage, origin, source, pos, dst, code, loop_stack, outcome>>
  BY DEF Run, command, compiling, IInv, Flow, Running
<1>2. VP!IInv'
  BY <1>1, InterpreterInvariant
<1>3. status' # "READY"
  BY <1>2 DEF VP!IInv, VP!TypeOK, VP!Status
<1>4. Shaped'
  BY <1>1 DEF MInv, Shaped, Translated
<1>5. MInv'
  BY <1>1, <1>3, <1>4 DEF MInv, Waiting, CP!JumpsPaired
<1>6. Fetching
  <2>1. status = "RUNNING" /\ ip \in DOMAIN code
    BY <1>1 DEF VM!Next, VM!RunRet, VM!RunAddp, VM!RunSubp, VM!RunAddv, VM!RunSubv,
                VM!RunWrite, VM!RunRead, VM!RunJump, VM!RunDebug, VM!RunInvalidOp, VM!Fetch
  <2>2. ip \in Nat /\ dp \in Cell /\ memory \in [Cell -> Byte]
    BY <1>1 DEF VP!IInv, VP!TypeOK, VP!Cell, Cell, VP!Byte, Byte
  <2>3. OperandOK(code[ip])
    BY <1>1, <2>1 DEF IInv, Traced, WellFormedCode
  <2>4. IsSource(source)
    BY SourcesAssumption DEF SourcesAssumption, IsSource, MInv
  <2> QED
    BY <1>1, <2>1, <2>2, <2>3, <2>4 DEF Fetching, MInv, Shaped
<1> QED
  BY <1>1, <1>5, <1>6, RetRefines, AddpRefines, SubpRefines, AddvRefines, SubvRefines,
     WriteRefines, ReadRefines, JumpRefines, DebugRefines, NoInvalidOp DEF VM!Next

LEMMA NextRefines ==
  IInv /\ MInv /\ [Next]_vars => MInv' /\ [Lang!Next]_(Lang!vars)
  BY OpenSourceRefines, InitProgramRefines, CompileRefines, CloseSourceRefines,
     StartRunRefines, RunRefines, EndRunRefines, FiniProgramRefines, StutterRefines
  DEF Next

(* What the process does to memory, pointer and the outside is what the    *)
(* tokens of the source say.                                               *)
THEOREM ImplementsTheLanguage == Spec => ImplementsLanguage
  BY InitIInv, NextIInv, InitMInv, NextRefines, PTL
  DEF Spec, ImplementsLanguage, Lang!Spec

-----------------------------------------------------------------------------
(* What the run returned is a success if and only if no command that comes *)
(* to anything is left from the instruction that ended it: a ret has only  *)
(* runs behind it that wrap to nothing, and what fails comes from a token. *)
LEMMA SuccessIsTheEnd ==
  ASSUME IInv, MInv, status \notin {"READY", "RUNNING"}
  PROVE  status = "SUCCESS" <=> RanToTheEnd
<1>1. /\ outcome = "SUCCESS"
      /\ ip - 1 \in DOMAIN code /\ VP!Explains(code[ip - 1], status)
  BY DEF IInv, Told, VP!StopsAtCulprit
<1> DEFINE i == code[ip - 1]
           p == origin[ip - 1]
<1>2. CASE status = "SUCCESS"
  <2>1. i.op = "ret"
    BY <1>1, <1>2 DEF VP!Explains
  <2> QED
    BY <1>1, <1>2, <2>1 DEF IInv, Traced, RanToTheEnd
<1>3. CASE status # "SUCCESS"
  <2>1. PICK q : StandsFor(source, i, p, q)
    BY <1>1 DEF MInv, Shaped, Translated
  <2>2. i.op \in {"addp", "subp", "read", "write"}
    <3>1. i.op \in VP!Opcode
      BY <2>1 DEF StandsFor, OfOneToken, VP!Opcode, VP!Jumps
    <3> QED
      BY <1>1, <1>3, <3>1 DEF VP!Explains
  <2>3. PICK k \in 1 .. Len(source) + 1 :
          Skips(source, p, k) /\ TokenAt(source, k) \in {"darling", "hold", "nothing", "beats"}
    <3> QED
      BY <2>1, <2>2 DEF StandsFor, OfOneToken, IsAll
  <2>4. k \in p .. Len(source) /\ source[k] \notin Adds
    BY <2>3 DEF Skips, TokenAt, Adds
  <2> QED
    BY <1>3, <2>4 DEF RanToTheEnd
<1> QED
  BY <1>2, <1>3

(* The process says that all went well if and only if the program was run  *)
(* and the run got to the end of the source; then the source has no fault. *)
(* The interpreter is never given a program of which it could fall off.    *)
THEOREM ExitStatusIsTruthful == Spec => []ExitStatusTruthful
<1>1. IInv /\ MInv => ExitStatusTruthful
  <2> SUFFICES ASSUME IInv, MInv PROVE ExitStatusTruthful
    OBVIOUS
  <2>1. ASSUME stage \in {"fini", "exited"}
        PROVE  exit_status = "SUCCESS" <=> RanToTheEnd
    <3>1. status # "RUNNING" /\ (exit_status = "SUCCESS" <=> status = "SUCCESS")
      BY <2>1 DEF IInv, Told
    <3> QED
      BY <3>1, SuccessIsTheEnd DEF RanToTheEnd
  <2>2. exit_status = "SUCCESS" => outcome = "SUCCESS"
    BY DEF IInv, Flow, Told
  <2>3. outcome = "SUCCESS" =>
          IsVerdict(source, Len(source) + 1, "SUCCESS") /\ WellFormedCode(code)
    BY DEF IInv, Traced
  <2> QED
    BY <2>1, <2>2, <2>3 DEF IInv, Flow, ExitStatusTruthful
<1> QED
  BY <1>1, InitIInv, NextIInv, InitMInv, NextRefines, PTL DEF Spec

=============================================================================
