----------------------- MODULE BytecodeCompiler_proofs -----------------------
(***************************************************************************)
(* For any set of sources and any widths: the code buffer is tiled by      *)
(* instructions and reserved rooms at every step, so what a successful     *)
(* compilation hands out can be run.                                       *)
(***************************************************************************)
EXTENDS BytecodeCompiler, Compilers_proofs

-----------------------------------------------------------------------------

Sizes == [o \in Pieces |-> PieceSize(o)]

(* The stored code and the reserved rooms together tile the buffer, and no *)
(* room has been filled or reserved twice.                                 *)
Tiled ==
  /\ DOMAIN code \cap Reserved = {}
  /\ Tiles(Sizes, dst.size)
  /\ \A k \in DOMAIN loop_stack :
       /\ loop_stack[k] >= JUMP_SIZE
       /\ \A j \in DOMAIN loop_stack : j < k => loop_stack[j] < loop_stack[k]

(* The loop stack has storage for what it holds. *)
LoopStackHonest ==
  /\ outcome = "READY" => loop_stack = <<>>
  /\ outcome = "RUNNING" =>
       Honest(loop_buf) /\ loop_buf.size = SIZE_T * Len(loop_stack)

IInv ==
  /\ TypeOK
  /\ InProgress => Tiled
  /\ JumpsPaired
  /\ SuccessIsRunnable
  /\ LoopStackHonest
  /\ outcome # "RUNNING" => loop_buf = Freed

-----------------------------------------------------------------------------

LEMMA SizesPositive ==
  /\ JUMP_SIZE \in Nat \ {0}
  /\ \A op : InstrSize(op) \in Nat \ {0}
  /\ \A op \in Jumps : InstrSize(op) = JUMP_SIZE
<1>1. JUMP_SIZE \in Nat \ {0}
  BY WidthAssumption DEF WidthAssumption, JUMP_SIZE
<1> QED
  BY <1>1 DEF InstrSize, Jumps

LEMMA InitIInv == Init => IInv
<1> SUFFICES ASSUME Init PROVE IInv
  OBVIOUS
<1>1. /\ DOMAIN code = {} /\ code \in [DOMAIN code -> Instruction]
      /\ DOMAIN loop_stack = {} /\ loop_stack \in Seq(Nat)
      /\ dst.size = 0 /\ dst \in BufferRecord /\ Freed \in BufferRecord
  BY BufferAssumption DEF Init, FreshBuffer, Freed, BufferRecord, BufferAssumption
<1>2. TypeOK
  BY <1>1 DEF Init, TypeOK, Outcome
<1>3. Tiled
  <2>1. Pieces = {} /\ Reserved = {}
    BY <1>1 DEF Pieces, Reserved
  <2> QED
    BY <1>1, <2>1 DEF Tiled, Sizes, Tiles
<1> QED
  BY <1>1, <1>2, <1>3
  DEF Init, IInv, InProgress, JumpsPaired, SuccessIsRunnable, LoopStackHonest

-----------------------------------------------------------------------------

(***************************************************************************)
(* The three ways in which the program grows keep it tiled.                *)
(***************************************************************************)

(* What is known at the start of each step. *)
LEMMA TiledFacts ==
  ASSUME TypeOK, Tiled
  PROVE  /\ dst.size \in Nat
         /\ DOMAIN code \subseteq Nat
         /\ DOMAIN Sizes = DOMAIN code \cup Reserved
         /\ \A o \in DOMAIN code : Sizes[o] = InstrSize(code[o].op)
         /\ \A o \in Reserved : Sizes[o] = JUMP_SIZE
         /\ dst.size \notin DOMAIN code
         /\ dst.size \notin Reserved
<1>1. dst.size \in Nat /\ DOMAIN code \subseteq Nat
  BY DEF TypeOK, BufferRecord
<1>2. DOMAIN Sizes = DOMAIN code \cup Reserved
  BY DEF Sizes, Pieces
<1>3. dst.size \notin DOMAIN Sizes
  <2>1. \A o \in DOMAIN Sizes : o < dst.size
    <3> TAKE o \in DOMAIN Sizes
    <3>1. o \in Nat /\ Sizes[o] \in Nat \ {0} /\ o + Sizes[o] <= dst.size
      BY DEF Tiled, Tiles
    <3> QED
      BY <1>1, <3>1
  <2> QED
    BY <1>1, <2>1
<1>4. \A o \in DOMAIN code : Sizes[o] = InstrSize(code[o].op)
  BY DEF Sizes, Pieces, PieceSize
<1>5. \A o \in Reserved : Sizes[o] = JUMP_SIZE
  BY DEF Sizes, Pieces, PieceSize, Tiled
<1> QED
  BY <1>1, <1>2, <1>3, <1>4, <1>5

(* An instruction stored at the end. *)
LEMMA StoreTiles ==
  ASSUME TypeOK, Tiled, NEW op \in Opcode, NEW operand,
         dst'.size = dst.size + InstrSize(op),
         code' = Store(dst.size, [op |-> op, operand |-> operand]),
         UNCHANGED loop_stack
  PROVE  Tiled'
<1>1. Reserved' = Reserved
  BY DEF Reserved
<1>2. DOMAIN code' = DOMAIN code \cup {dst.size} /\ code'[dst.size].op = op
      /\ \A o \in DOMAIN code : code'[o] = code[o]
  BY TiledFacts DEF Store
<1>3. Sizes' = Laid(Sizes, dst.size, InstrSize(op))
  <2>1. DOMAIN Laid(Sizes, dst.size, InstrSize(op)) = DOMAIN Sizes'
    BY <1>1, <1>2, TiledFacts DEF Laid, Sizes, Pieces
  <2>2. ASSUME NEW o \in Pieces'
        PROVE  Sizes'[o] = Laid(Sizes, dst.size, InstrSize(op))[o]
    <3>1. Sizes'[o] = IF o \in DOMAIN code' THEN InstrSize(code'[o].op) ELSE JUMP_SIZE
      BY <2>2 DEF Sizes, PieceSize
    <3>2. o \in DOMAIN Sizes \cup {dst.size}
      BY <1>1, <1>2, <2>2, TiledFacts DEF Pieces
    <3> QED
      BY <1>1, <1>2, <3>1, <3>2, TiledFacts DEF Laid
  <2> QED
    BY <2>1, <2>2 DEF Sizes, Laid
<1>4. Tiles(Sizes', dst'.size)
  BY <1>3, TilesGrow, TiledFacts, SizesPositive DEF Tiled
<1> QED
  BY <1>1, <1>2, <1>4, TiledFacts DEF Tiled

(* A room reserved at the end: BeginLoop. *)
LEMMA ReserveTiles ==
  ASSUME TypeOK, Tiled,
         dst'.size = dst.size + JUMP_SIZE,
         loop_stack' = Append(loop_stack, dst'.size),
         UNCHANGED code
  PROVE  Tiled'
<1> DEFINE n == Len(loop_stack)
<1>1. /\ n \in Nat
      /\ loop_stack \in Seq(Nat)
      /\ DOMAIN loop_stack = 1 .. n
      /\ DOMAIN loop_stack' = 1 .. n + 1
      /\ loop_stack'[n + 1] = dst.size + JUMP_SIZE
      /\ \A k \in 1 .. n : loop_stack'[k] = loop_stack[k] /\ loop_stack[k] \in Nat
  BY TiledFacts, SizesPositive DEF TypeOK
<1> HIDE DEF n
<1>2. Reserved' = Reserved \cup {dst.size}
  <2>1. Reserved' = {loop_stack'[k] - JUMP_SIZE : k \in 1 .. n + 1}
    BY <1>1 DEF Reserved
  <2>2. Reserved = {loop_stack[k] - JUMP_SIZE : k \in 1 .. n}
    BY <1>1 DEF Reserved
  <2>3. loop_stack'[n + 1] - JUMP_SIZE = dst.size
    BY <1>1, TiledFacts, SizesPositive
  <2> QED
    BY <1>1, <2>1, <2>2, <2>3
<1>3. Sizes' = Laid(Sizes, dst.size, JUMP_SIZE)
  <2>1. DOMAIN Laid(Sizes, dst.size, JUMP_SIZE) = DOMAIN Sizes'
    BY <1>2, TiledFacts DEF Laid, Sizes, Pieces
  <2>2. ASSUME NEW o \in Pieces'
        PROVE  Sizes'[o] = Laid(Sizes, dst.size, JUMP_SIZE)[o]
    <3>1. Sizes'[o] = IF o \in DOMAIN code THEN InstrSize(code[o].op) ELSE JUMP_SIZE
      BY <2>2 DEF Sizes, PieceSize
    <3>2. o \in DOMAIN Sizes \cup {dst.size}
      BY <1>2, <2>2, TiledFacts DEF Pieces
    <3> QED
      BY <3>1, <3>2, TiledFacts DEF Laid
  <2> QED
    BY <2>1, <2>2 DEF Sizes, Laid
<1>4. Tiles(Sizes', dst'.size)
  BY <1>3, TilesGrow, TiledFacts, SizesPositive DEF Tiled
<1>5. \A k \in 1 .. n : loop_stack[k] <= dst.size
  <2> TAKE k \in 1 .. n
  <2>1. loop_stack[k] - JUMP_SIZE \in Reserved
    BY <1>1 DEF Reserved
  <2>2. (loop_stack[k] - JUMP_SIZE) + JUMP_SIZE <= dst.size
    BY <2>1, TiledFacts DEF Tiled, Tiles
  <2> QED
    BY <1>1, <2>2, TiledFacts, SizesPositive
<1>6. \A k \in 1 .. n + 1 :
        /\ loop_stack'[k] >= JUMP_SIZE
        /\ \A j \in 1 .. n + 1 : j < k => loop_stack'[j] < loop_stack'[k]
  <2> TAKE k \in 1 .. n + 1
  <2>1. CASE k = n + 1
    BY <1>1, <1>5, <2>1, TiledFacts, SizesPositive
  <2>2. CASE k \in 1 .. n
    BY <1>1, <2>2 DEF Tiled
  <2> QED
    BY <1>1, <2>1, <2>2
<1> QED
  BY <1>1, <1>2, <1>4, <1>6, TiledFacts DEF Tiled

(* The top room filled by jump z and jump nz stored at offset e: EndLoop. *)
Patched(c, r, e, z, nz) ==
  [x \in DOMAIN c \cup {r, e} |-> IF x = r THEN z ELSE IF x = e THEN nz ELSE c[x]]

LEMMA PatchTiles ==
  ASSUME TypeOK, Tiled, loop_stack # <<>>,
         NEW z, z.op \in Jumps, NEW nz, nz.op \in Jumps,
         dst'.size = dst.size + JUMP_SIZE,
         loop_stack' = SubSeq(loop_stack, 1, Len(loop_stack) - 1),
         code' = Patched(code, loop_stack[Len(loop_stack)] - JUMP_SIZE, dst.size, z, nz)
  PROVE  Tiled'
<1> DEFINE n == Len(loop_stack)
           r == loop_stack[n] - JUMP_SIZE
           e == dst.size
<1>1. /\ n \in Nat \ {0}
      /\ DOMAIN loop_stack = 1 .. n
      /\ DOMAIN loop_stack' = 1 .. n - 1
      /\ \A k \in 1 .. n : loop_stack[k] \in Nat
      /\ \A k \in 1 .. n - 1 : loop_stack'[k] = loop_stack[k]
  BY DEF TypeOK
<1> HIDE DEF n
<1>2. r \in Reserved /\ r \notin DOMAIN code /\ r # e
  BY <1>1, TiledFacts DEF Reserved, Tiled
<1>3. Reserved' = Reserved \ {r}
  <2>1. Reserved' = {loop_stack[k] - JUMP_SIZE : k \in 1 .. n - 1}
    BY <1>1 DEF Reserved
  <2>2. Reserved = {loop_stack[k] - JUMP_SIZE : k \in 1 .. n}
    BY <1>1 DEF Reserved
  <2>3. \A k \in 1 .. n - 1 : loop_stack[k] - JUMP_SIZE # r
    <3> TAKE k \in 1 .. n - 1
    <3>1. k \in DOMAIN loop_stack /\ n \in DOMAIN loop_stack /\ k < n
      BY <1>1
    <3>2. loop_stack[k] < loop_stack[n]
      BY <3>1 DEF Tiled
    <3> QED
      BY <1>1, <3>1, <3>2, SizesPositive
  <2> QED
    BY <1>1, <2>1, <2>2, <2>3
<1>4. /\ DOMAIN code' = DOMAIN code \cup {r, e}
      /\ code'[r].op \in Jumps /\ code'[e].op \in Jumps
      /\ \A o \in DOMAIN code : code'[o] = code[o]
  BY <1>2, TiledFacts DEF Patched, n
<1> HIDE DEF r
<1>5. Sizes' = Laid(Sizes, e, JUMP_SIZE)
  <2>1. Pieces' = DOMAIN Sizes \cup {e}
    BY <1>2, <1>3, <1>4, TiledFacts DEF Pieces
  <2>2. ASSUME NEW o \in Pieces'
        PROVE  Sizes'[o] = Laid(Sizes, e, JUMP_SIZE)[o]
    <3>1. Sizes'[o] = IF o \in DOMAIN code' THEN InstrSize(code'[o].op) ELSE JUMP_SIZE
      BY <2>2 DEF Sizes, PieceSize
    <3> QED
      BY <1>2, <1>3, <1>4, <2>1, <3>1, TiledFacts, SizesPositive DEF Laid
  <2> QED
    BY <2>1, <2>2 DEF Sizes, Laid
<1>6. Tiles(Sizes', dst'.size)
  BY <1>5, TilesGrow, TiledFacts, SizesPositive DEF Tiled
<1>7. DOMAIN code' \cap Reserved' = {}
  BY <1>3, <1>4, TiledFacts DEF Tiled
<1>8. \A k \in 1 .. n - 1 :
        /\ loop_stack'[k] >= JUMP_SIZE
        /\ \A j \in 1 .. n - 1 : j < k => loop_stack'[j] < loop_stack'[k]
  BY <1>1 DEF Tiled
<1> QED
  BY <1>1, <1>6, <1>7, <1>8 DEF Tiled

-----------------------------------------------------------------------------

(***************************************************************************)
(* Pairing of the jumps, as a property of stored code.                     *)
(***************************************************************************)
Paired(c) ==
  \A o \in DOMAIN c : c[o].op \in Jumps =>
    LET other == c[o].operand - JUMP_SIZE
    IN  /\ other \in DOMAIN c
        /\ c[other] = [op |-> IF c[o].op = "jmpz" THEN "jmpnz" ELSE "jmpz",
                       operand |-> o + JUMP_SIZE]
        /\ c[o].op = "jmpz" <=> o < other

LEMMA StorePaired ==
  ASSUME NEW e, e \notin DOMAIN code, NEW i, i.op \notin Jumps, Paired(code)
  PROVE  Paired(Store(e, i))
BY DEF Paired, Store

LEMMA PatchPaired ==
  ASSUME NEW c, DOMAIN c \subseteq Nat, Paired(c),
         NEW r \in Nat, NEW e \in Nat, r < e, r \notin DOMAIN c, e \notin DOMAIN c
  PROVE  Paired(Patched(c, r, e, [op |-> "jmpz", operand |-> e + JUMP_SIZE],
                                 [op |-> "jmpnz", operand |-> r + JUMP_SIZE]))
<1> DEFINE z  == [op |-> "jmpz", operand |-> e + JUMP_SIZE]
           nz == [op |-> "jmpnz", operand |-> r + JUMP_SIZE]
           d  == Patched(c, r, e, z, nz)
<1>1. /\ DOMAIN d = DOMAIN c \cup {r, e}
      /\ d[r] = z /\ d[e] = nz
      /\ \A o \in DOMAIN c : d[o] = c[o]
  BY DEF Patched
<1>2. z.operand - JUMP_SIZE = e /\ nz.operand - JUMP_SIZE = r
  BY SizesPositive
<1>3. ASSUME NEW o \in DOMAIN d, d[o].op \in Jumps
      PROVE  LET other == d[o].operand - JUMP_SIZE
             IN  /\ other \in DOMAIN d
                 /\ d[other] = [op |-> IF d[o].op = "jmpz" THEN "jmpnz" ELSE "jmpz",
                                operand |-> o + JUMP_SIZE]
                 /\ d[o].op = "jmpz" <=> o < other
  <2> HIDE DEF d
  <2>1. CASE o \in {r, e}
    BY <1>1, <1>2, <2>1
  <2>2. CASE o \in DOMAIN c
    BY <1>1, <1>3, <2>2 DEF Paired
  <2> QED
    BY <1>1, <2>1, <2>2
<1> HIDE DEF d
<1>4. Paired(d)
  BY <1>3 DEF Paired
<1> QED
  BY <1>4 DEF d

-----------------------------------------------------------------------------

(* How a step may end: in the middle of the source, or with an error. *)
LEMMA GoesOn ==
  ASSUME TypeOK', Tiled', Paired(code'), outcome' = "RUNNING",
         Honest(loop_buf'), loop_buf'.size = SIZE_T * Len(loop_stack')
  PROVE  IInv'
BY DEF IInv, InProgress, JumpsPaired, Paired, SuccessIsRunnable, LoopStackHonest

LEMMA Fails ==
  ASSUME TypeOK', outcome' \notin {"READY", "RUNNING", "SUCCESS"}, loop_buf' = Freed,
         outcome' \in {"MALLOC", "UNDEFINED"} \/ Paired(code')
  PROVE  IInv'
BY DEF IInv, InProgress, JumpsPaired, Paired, SuccessIsRunnable, LoopStackHonest

LEMMA RunningFacts ==
  ASSUME IInv, outcome = "RUNNING"
  PROVE  /\ TypeOK /\ Tiled /\ Paired(code)
         /\ Honest(loop_buf) /\ loop_buf.size = SIZE_T * Len(loop_stack)
BY DEF IInv, InProgress, JumpsPaired, Paired, LoopStackHonest

(* Returning keeps types, given the types of what the action itself set. *)
LEMMA ReturnsTypes ==
  ASSUME TypeOK, NEW e \in Outcome, NEW p \in Nat, NEW b \in BufferRecord, Returns(e, p, b),
         dst' \in BufferRecord, loop_stack' \in Seq(Nat),
         DOMAIN code' \subseteq Nat, code' \in [DOMAIN code' -> Instruction]
  PROVE  TypeOK'
<1>1. Freed \in BufferRecord
  BY DEF Freed, BufferRecord
<1>2. "RUNNING" \in Outcome
  BY DEF Outcome
<1> QED
  BY <1>1, <1>2 DEF TypeOK, Returns

(* A call that fails having written nothing. *)
LEMMA FailingReturn ==
  ASSUME IInv, outcome = "RUNNING", NEW e \in CompilerErrors, NEW p \in Nat,
         Returns(e, p, loop_buf), UNCHANGED <<dst, code, loop_stack>>
  PROVE  IInv'
<1>1. e \in Outcome /\ e \notin {"READY", "RUNNING", "SUCCESS"}
  BY DEF CompilerErrors, Outcome, NbajhError
<1>2. TypeOK'
  BY <1>1, RunningFacts, ReturnsTypes DEF TypeOK
<1>3. loop_buf' = Freed /\ outcome' = e /\ Paired(code')
  BY <1>1, RunningFacts DEF Returns
<1> QED
  BY <1>1, <1>2, <1>3, Fails

LEMMA EmitKeepsIInv ==
  ASSUME IInv, outcome = "RUNNING",
         NEW op \in Opcode \ Jumps, NEW operand \in Nat,
         OperandOK([op |-> op, operand |-> operand]),
         NEW p \in Nat, NEW q \in Nat, Emit(op, operand, p, q)
  PROVE  IInv'
<1> DEFINE i == [op |-> op, operand |-> operand]
<1>1. PICK w \in Write(dst, InstrSize(op)) :
        /\ dst' = w.buf
        /\ code' = IF w.error = "SUCCESS" THEN Store(dst.size, i) ELSE code
        /\ Returns(Result(w), IF w.error = "SUCCESS" THEN p ELSE q, loop_buf)
        /\ UNCHANGED loop_stack
  BY DEF Emit
<1>2. /\ TypeOK /\ Tiled /\ Paired(code) /\ Honest(loop_buf)
      /\ loop_buf.size = SIZE_T * Len(loop_stack)
  BY RunningFacts
<1>3. /\ w.buf \in BufferRecord
      /\ w.error \in {"SUCCESS", "MALLOC"}
      /\ w.error = "SUCCESS" => w.buf.size = dst.size + InstrSize(op)
  BY <1>2, WriteFacts, SizesPositive DEF TypeOK
<1>4. dst.size \in Nat /\ dst.size \notin DOMAIN code
  BY <1>2, TiledFacts
<1>5. TypeOK'
  <2>1. Result(w) \in Outcome
    BY <1>3 DEF Result, Outcome, NbajhError, CompilerErrors
  <2>2. DOMAIN code' \subseteq Nat /\ code' \in [DOMAIN code' -> Instruction]
    <3>1. i \in Instruction
      BY DEF Instruction
    <3> HIDE DEF i
    <3> QED
      BY <1>1, <1>2, <1>4, <3>1 DEF Store, TypeOK
  <2> QED
    BY <1>1, <1>2, <1>3, <2>1, <2>2, ReturnsTypes DEF TypeOK
<1>6. CASE Result(w) = "SUCCESS"
  <2>1. w.error = "SUCCESS"
    BY <1>3, <1>6 DEF Result
  <2>2. Tiled'
    BY <1>1, <1>2, <1>3, <2>1, StoreTiles
  <2>3. Paired(code')
    BY <1>1, <1>2, <1>4, <2>1, StorePaired
  <2>4. loop_buf' = loop_buf /\ outcome' = "RUNNING"
    BY <1>1, <1>6 DEF Returns
  <2> QED
    BY <1>1, <1>2, <1>5, <2>2, <2>3, <2>4, GoesOn
<1>7. CASE Result(w) # "SUCCESS"
  <2>1. Result(w) \in {"MALLOC", "UNDEFINED"}
    BY <1>3, <1>7 DEF Result
  <2>2. outcome' = Result(w) /\ loop_buf' = Freed
    BY <1>1, <1>7 DEF Returns
  <2> QED
    BY <1>5, <2>1, <2>2, Fails
<1> QED
  BY <1>6, <1>7

-----------------------------------------------------------------------------

(* One lemma per action that does more than call Emit. *)

LEMMA CompilerInitKeepsIInv == IInv /\ CompilerInit => IInv'
<1> SUFFICES ASSUME IInv, CompilerInit PROVE IInv'
  OBVIOUS
<1>1. /\ TypeOK /\ Tiled /\ Paired(code) /\ outcome = "READY"
      /\ UNCHANGED <<dst, code, loop_stack>>
      /\ Returns("SUCCESS", 1, FreshBuffer) \/ Returns("MALLOC", 1, Freed)
  BY DEF IInv, InProgress, JumpsPaired, Paired, CompilerInit
<1>2. FreshBuffer \in BufferRecord /\ Freed \in BufferRecord /\ Honest(FreshBuffer)
      /\ {"SUCCESS", "MALLOC"} \subseteq Outcome
  BY BufferAssumption
  DEF FreshBuffer, Freed, BufferRecord, Honest, BufferAssumption, Outcome, NbajhError,
      CompilerErrors
<1>3. TypeOK'
  BY <1>1, <1>2, ReturnsTypes DEF TypeOK
<1>4. CASE Returns("MALLOC", 1, Freed)
  BY <1>3, <1>4, Fails DEF Returns
<1>5. CASE Returns("SUCCESS", 1, FreshBuffer)
  <2>1. outcome' = "RUNNING" /\ loop_buf' = FreshBuffer /\ Tiled'
    BY <1>1, <1>5 DEF Returns, Tiled, Sizes, Pieces, PieceSize, Reserved
  <2>2. loop_stack' = <<>>
    BY <1>1 DEF IInv, LoopStackHonest
  <2> QED
    BY <1>1, <1>2, <1>3, <2>1, <2>2, GoesOn, WidthAssumption DEF WidthAssumption, FreshBuffer
<1> QED
  BY <1>1, <1>4, <1>5

LEMMA EmitAdditivePKeepsIInv == IInv /\ EmitAdditiveP => IInv'
<1> SUFFICES ASSUME IInv, EmitAdditiveP PROVE IInv'
  OBVIOUS
<1>1. PICK n \in 1 .. Len(source) :
        \/ /\ TooLong(n)
           /\ Returns("DP_OUT_OF_BOUNDS", pos + UINT16_MAX, loop_buf)
           /\ UNCHANGED <<dst, code, loop_stack>>
        \/ /\ ~TooLong(n)
           /\ Emit(IF Token = "darling" THEN "addp" ELSE "subp", n, pos + n, pos + n)
  BY DEF EmitAdditiveP
<1>2. outcome = "RUNNING" /\ pos \in Nat /\ UINT16_MAX \in Nat
  BY WidthAssumption DEF EmitAdditiveP, IInv, TypeOK, WidthAssumption
<1>3. n \in Nat \ {0}
  OBVIOUS
<1>4. CASE /\ Returns("DP_OUT_OF_BOUNDS", pos + UINT16_MAX, loop_buf)
           /\ UNCHANGED <<dst, code, loop_stack>>
  <2>1. pos + UINT16_MAX \in Nat /\ "DP_OUT_OF_BOUNDS" \in CompilerErrors
    BY <1>2 DEF CompilerErrors
  <2> QED
    BY <1>2, <1>4, <2>1, FailingReturn
<1>5. CASE /\ ~TooLong(n)
           /\ Emit(IF Token = "darling" THEN "addp" ELSE "subp", n, pos + n, pos + n)
  <2> DEFINE op == IF Token = "darling" THEN "addp" ELSE "subp"
  <2>1. op \in Opcode \ Jumps /\ OperandOK([op |-> op, operand |-> n]) /\ pos + n \in Nat
    BY <1>2, <1>3, <1>5 DEF Opcode, Jumps, OperandOK, TooLong
  <2> HIDE DEF op
  <2>2. Emit(op, n, pos + n, pos + n)
    BY <1>5 DEF op
  <2> QED
    BY <1>2, <1>3, <2>1, <2>2, EmitKeepsIInv
<1> QED
  BY <1>1, <1>4, <1>5

LEMMA EmitAdditiveVKeepsIInv == IInv /\ EmitAdditiveV => IInv'
<1> SUFFICES ASSUME IInv, EmitAdditiveV PROVE IInv'
  OBVIOUS
<1>1. PICK n \in 1 .. Len(source) :
        LET operand == n % (UINT8_MAX + 1)
        IN  \/ /\ Returns("SUCCESS", pos + n, loop_buf)
               /\ UNCHANGED <<dst, code, loop_stack>>
            \/ Emit(IF Token = "my" THEN "addv" ELSE "subv", operand, pos + n, pos + n)
  BY DEF EmitAdditiveV, Wrapped
<1> DEFINE operand == n % (UINT8_MAX + 1)
<1>2. outcome = "RUNNING" /\ pos \in Nat /\ pos + n \in Nat
  BY DEF EmitAdditiveV, IInv, TypeOK
<1>3. operand \in Byte /\ operand \in Nat
  <2> DEFINE m == UINT8_MAX + 1
  <2>1. m \in Nat \ {0} /\ Byte = 0 .. m - 1
    BY WidthAssumption DEF WidthAssumption, Byte
  <2> HIDE DEF m
  <2>2. n % m \in 0 .. m - 1
    BY <2>1
  <2> QED
    BY <2>1, <2>2 DEF m
<1>4. CASE Returns("SUCCESS", pos + n, loop_buf) /\ UNCHANGED <<dst, code, loop_stack>>
  <2>1. TypeOK'
    BY <1>2, <1>4, RunningFacts, ReturnsTypes DEF TypeOK, Outcome, NbajhError
  <2>2. Tiled' /\ outcome' = "RUNNING" /\ loop_buf' = loop_buf
    BY <1>2, <1>4, RunningFacts DEF Returns, Tiled, Sizes, Pieces, PieceSize, Reserved
  <2> QED
    BY <1>2, <1>4, <2>1, <2>2, RunningFacts, GoesOn
<1>5. CASE Emit(IF Token = "my" THEN "addv" ELSE "subv", operand, pos + n, pos + n)
  <2> DEFINE op == IF Token = "my" THEN "addv" ELSE "subv"
  <2> HIDE DEF operand
  <2>1. op \in Opcode \ Jumps /\ OperandOK([op |-> op, operand |-> operand])
    BY <1>3 DEF Opcode, Jumps, OperandOK
  <2> HIDE DEF op
  <2>2. Emit(op, operand, pos + n, pos + n)
    BY <1>5 DEF op, operand
  <2> QED
    BY <1>2, <1>3, <2>1, <2>2, EmitKeepsIInv
<1> QED
  BY <1>1, <1>4, <1>5

LEMMA EmitNoOperandKeepsIInv == IInv /\ EmitNoOperand => IInv'
<1> SUFFICES ASSUME IInv, EmitNoOperand PROVE IInv'
  OBVIOUS
<1> DEFINE op == CASE Token = "nothing" -> "write"
                   [] Token = "beats"   -> "read"
                   [] OTHER             -> "debug"
<1>1. op \in Opcode \ Jumps /\ OperandOK([op |-> op, operand |-> 0])
  BY DEF Opcode, Jumps, OperandOK
<1>2. outcome = "RUNNING" /\ pos \in Nat /\ pos + 1 \in Nat /\ Emit(op, 0, pos + 1, pos)
  BY DEF EmitNoOperand, IInv, TypeOK
<1> HIDE DEF op
<1> QED
  BY <1>1, <1>2, EmitKeepsIInv

LEMMA InvalidTokenKeepsIInv == IInv /\ InvalidToken => IInv'
<1> SUFFICES ASSUME IInv, InvalidToken PROVE IInv'
  OBVIOUS
<1>1. pos \in Nat /\ "INVALID_TOKEN" \in CompilerErrors
  BY DEF IInv, TypeOK, CompilerErrors
<1> QED
  BY <1>1, FailingReturn DEF InvalidToken

(* The loop stack grows in storage it has: its write is never undefined. *)
LEMMA BeginLoopKeepsIInv == IInv /\ BeginLoop => IInv'
<1> SUFFICES ASSUME IInv, BeginLoop PROVE IInv'
  OBVIOUS
<1>1. PICK w \in Write(loop_buf, SIZE_T) :
        /\ loop_stack' = IF w.error = "SUCCESS"
                         THEN Append(loop_stack, dst'.size) ELSE loop_stack
        /\ Returns(Result(w), IF w.error = "SUCCESS" THEN pos + 1 ELSE pos, w.buf)
  BY DEF BeginLoop
<1>2. /\ outcome = "RUNNING" /\ UNCHANGED code
      /\ dst' = [dst EXCEPT !.size = @ + JUMP_SIZE]
  BY DEF BeginLoop, Reserve
<1>3. /\ TypeOK /\ Tiled /\ Paired(code) /\ Honest(loop_buf)
      /\ loop_buf.size = SIZE_T * Len(loop_stack) /\ loop_buf \in BufferRecord
      /\ loop_stack \in Seq(Nat) /\ pos \in Nat /\ dst \in BufferRecord
  BY <1>2, RunningFacts DEF TypeOK
<1>4. SIZE_T \in Nat \ {0} /\ JUMP_SIZE \in Nat \ {0}
  BY WidthAssumption, SizesPositive DEF WidthAssumption
<1>5. /\ w.buf \in BufferRecord
      /\ w.error \in {"SUCCESS", "MALLOC"}
      /\ w.error = "SUCCESS" => w.buf.size = loop_buf.size + SIZE_T /\ Honest(w.buf)
  BY <1>3, <1>4, WriteFacts
<1>6. Result(w) = w.error
  BY <1>5 DEF Result, InStorage, Honest
<1>7. dst' \in BufferRecord /\ dst'.size = dst.size + JUMP_SIZE
  BY <1>2, <1>3, <1>4 DEF BufferRecord
<1>8. TypeOK'
  <2>1. loop_stack' \in Seq(Nat)
    BY <1>1, <1>3, <1>7 DEF BufferRecord
  <2>2. Result(w) \in Outcome
    BY <1>5, <1>6 DEF Outcome, NbajhError, CompilerErrors
  <2>3. DOMAIN code' \subseteq Nat /\ code' \in [DOMAIN code' -> Instruction]
    BY <1>2, <1>3 DEF TypeOK
  <2>4. (IF w.error = "SUCCESS" THEN pos + 1 ELSE pos) \in Nat
    BY <1>3
  <2> QED
    BY <1>1, <1>3, <1>5, <1>7, <2>1, <2>2, <2>3, <2>4, ReturnsTypes
<1>9. CASE w.error = "SUCCESS"
  <2>1. loop_stack' = Append(loop_stack, dst'.size) /\ outcome' = "RUNNING" /\ loop_buf' = w.buf
    BY <1>1, <1>6, <1>9 DEF Returns
  <2>2. Tiled'
    BY <1>2, <1>3, <1>7, <2>1, ReserveTiles
  <2>3. Len(loop_stack') = Len(loop_stack) + 1 /\ Len(loop_stack) \in Nat
    BY <1>3, <2>1
  <2>4. loop_buf'.size = SIZE_T * Len(loop_stack')
    BY <1>3, <1>4, <1>5, <1>9, <2>1, <2>3
  <2> QED
    BY <1>2, <1>3, <1>5, <1>8, <1>9, <2>1, <2>2, <2>4, GoesOn
<1>10. CASE w.error = "MALLOC"
  BY <1>1, <1>6, <1>8, <1>10, Fails DEF Returns
<1> QED
  BY <1>5, <1>9, <1>10

LEMMA EndLoopKeepsIInv == IInv /\ EndLoop => IInv'
<1> SUFFICES ASSUME IInv, EndLoop PROVE IInv'
  OBVIOUS
<1>1. outcome = "RUNNING" /\ TypeOK /\ Tiled /\ Paired(code) /\ Honest(loop_buf)
      /\ loop_buf.size = SIZE_T * Len(loop_stack) /\ loop_buf \in BufferRecord
      /\ loop_stack \in Seq(Nat) /\ pos \in Nat /\ dst \in BufferRecord
  BY RunningFacts DEF EndLoop, TypeOK
<1>2. SIZE_T \in Nat \ {0} /\ JUMP_SIZE \in Nat \ {0}
  BY WidthAssumption, SizesPositive DEF WidthAssumption
<1>3. CASE Returns("UNEXPECTED_LOOP_END", pos, loop_buf) /\ UNCHANGED <<dst, code, loop_stack>>
  <2>1. "UNEXPECTED_LOOP_END" \in CompilerErrors
    BY DEF CompilerErrors
  <2> QED
    BY <1>1, <1>3, <2>1, FailingReturn
<1>4. CASE loop_stack # <<>>
  <2> DEFINE n     == Len(loop_stack)
             start == loop_stack[n]
             r     == start - JUMP_SIZE
  <2>1. PICK w \in Write(dst, JUMP_SIZE) :
          LET ok    == w.error = "SUCCESS"
              jmpnz == [op |-> "jmpnz", operand |-> start]
              jmpz  == [op |-> "jmpz", operand |-> w.buf.size]
          IN  /\ dst' = w.buf
              /\ code' = [x \in DOMAIN code \cup {r} \cup (IF ok THEN {dst.size} ELSE {}) |->
                            IF x = r THEN jmpz
                            ELSE IF ok /\ x = dst.size THEN jmpnz
                            ELSE code[x]]
              /\ loop_stack' = SubSeq(loop_stack, 1, n - 1)
              /\ Returns(IF start > w.buf.alloc THEN "UNDEFINED" ELSE Result(w),
                         IF ok THEN pos + 1 ELSE pos, PopSize(loop_buf))
    BY <1>4 DEF EndLoop, Top, LoopEnd
  <2>2. /\ w.buf \in BufferRecord /\ w.buf.size \in Nat
        /\ w.error \in {"SUCCESS", "MALLOC"}
        /\ w.error = "SUCCESS" => w.buf.size = dst.size + JUMP_SIZE
    BY <1>1, <1>2, WriteFacts DEF BufferRecord
  <2>3. n \in Nat \ {0} /\ n \in DOMAIN loop_stack /\ start \in Nat /\ r \in Nat
        /\ r \in Reserved
    <3>1. n \in Nat \ {0} /\ n \in DOMAIN loop_stack /\ start \in Nat
      BY <1>1, <1>4
    <3>2. start >= JUMP_SIZE
      BY <1>1, <3>1 DEF Tiled
    <3>3. r \in Reserved
      BY <3>1 DEF Reserved
    <3> QED
      BY <1>2, <3>1, <3>2, <3>3
  <2>4. /\ r \notin DOMAIN code /\ dst.size \notin DOMAIN code
        /\ dst.size \in Nat /\ DOMAIN code \subseteq Nat /\ r < dst.size
    <3>1. r \notin DOMAIN code /\ dst.size \notin DOMAIN code
          /\ dst.size \in Nat /\ DOMAIN code \subseteq Nat
      BY <1>1, <2>3, TiledFacts DEF Tiled
    <3>2. r + JUMP_SIZE <= dst.size
      BY <1>1, <2>3, TiledFacts DEF Tiled, Tiles
    <3> QED
      BY <1>2, <2>3, <3>1, <3>2
  <2>5. loop_stack' \in Seq(Nat) /\ Len(loop_stack') = n - 1
    <3>1. loop_stack' = SubSeq(loop_stack, 1, n - 1)
      BY <2>1
    <3>2. n - 1 \in 0 .. Len(loop_stack)
      BY <2>3
    <3> HIDE DEF n
    <3> QED
      BY <1>1, <2>3, <3>1, <3>2, SubSeqProperties
  <2>6. PopSize(loop_buf).size = SIZE_T * (n - 1) /\ Honest(PopSize(loop_buf))
        /\ PopSize(loop_buf) \in BufferRecord
    <3> HIDE DEF n
    <3>1. SIZE_T * n - SIZE_T = SIZE_T * (n - 1) /\ SIZE_T * (n - 1) \in Nat
          /\ SIZE_T * n \in Nat
      BY <1>2, <2>3
    <3>2. PopSize(loop_buf) = [loop_buf EXCEPT !.size = SIZE_T * (n - 1)]
      BY <1>1, <3>1 DEF PopSize, n
    <3>3. loop_buf.size = SIZE_T * n
      BY <1>1 DEF n
    <3> HIDE DEF PopSize
    <3> QED
      BY <1>1, <1>2, <3>1, <3>2, <3>3 DEF Honest, BufferRecord
  <2>7. DOMAIN code' \subseteq Nat /\ code' \in [DOMAIN code' -> Instruction]
    <3>1. [op |-> "jmpnz", operand |-> start] \in Instruction
          /\ [op |-> "jmpz", operand |-> w.buf.size] \in Instruction
      BY <2>2, <2>3 DEF Instruction, Opcode, Jumps, OperandOK
    <3>2. code \in [DOMAIN code -> Instruction]
      BY <1>1 DEF TypeOK
    <3> HIDE DEF start, r
    <3> QED
      BY <2>1, <2>3, <2>4, <3>1, <3>2
  <2> DEFINE result == IF start > w.buf.alloc THEN "UNDEFINED" ELSE Result(w)
  <2>8. result \in {"SUCCESS", "MALLOC", "UNDEFINED"}
        /\ (result = "SUCCESS" => w.error = "SUCCESS")
    BY <2>2 DEF Result
  <2>9. TypeOK'
    <3>1. result \in Outcome
      BY <2>8 DEF Outcome, NbajhError, CompilerErrors
    <3> HIDE DEF result
    <3>2. Returns(result, IF w.error = "SUCCESS" THEN pos + 1 ELSE pos, PopSize(loop_buf))
      BY <2>1 DEF result
    <3>3. (IF w.error = "SUCCESS" THEN pos + 1 ELSE pos) \in Nat
      BY <1>1
    <3> QED
      BY <1>1, <2>1, <2>2, <2>5, <2>6, <2>7, <3>1, <3>2, <3>3, ReturnsTypes
  <2>10. CASE result = "SUCCESS"
    <3>1. w.error = "SUCCESS" /\ w.buf.size = dst.size + JUMP_SIZE
      BY <2>2, <2>8, <2>10
    <3> DEFINE z  == [op |-> "jmpz", operand |-> dst.size + JUMP_SIZE]
               nz == [op |-> "jmpnz", operand |-> r + JUMP_SIZE]
    <3>2. code' = Patched(code, r, dst.size, z, nz)
      <4>1. r + JUMP_SIZE = start
        BY <1>2, <2>3
      <4> HIDE DEF r, start
      <4> QED
        BY <2>1, <3>1, <4>1 DEF Patched
    <3>3. Paired(code')
      <4> HIDE DEF r
      <4> QED
        BY <1>1, <2>3, <2>4, <3>2, PatchPaired
    <3>4. Tiled'
      <4>1. z.op \in Jumps /\ nz.op \in Jumps
        BY DEF Jumps
      <4>2. dst'.size = dst.size + JUMP_SIZE /\ loop_stack' = SubSeq(loop_stack, 1, n - 1)
        BY <2>1, <3>1
      <4> HIDE DEF z, nz
      <4> QED
        BY <1>1, <1>4, <3>2, <4>1, <4>2, PatchTiles
    <3>5. outcome' = "RUNNING" /\ loop_buf' = PopSize(loop_buf)
      BY <2>1, <2>10 DEF Returns
    <3> QED
      BY <2>5, <2>6, <2>9, <3>3, <3>4, <3>5, GoesOn
  <2>11. CASE result # "SUCCESS"
    <3>1. outcome' = result /\ loop_buf' = Freed
      BY <2>1, <2>11 DEF Returns
    <3> HIDE DEF result
    <3> QED
      BY <2>8, <2>9, <2>11, <3>1, Fails
  <2> QED
    BY <2>10, <2>11
<1> QED
  BY <1>3, <1>4 DEF EndLoop

(* The tiling of finished code has no reserved room left: every piece is an *)
(* instruction, so control that falls through or jumps lands on one.        *)
LEMMA FinishKeepsIInv == IInv /\ Finish => IInv'
<1> SUFFICES ASSUME IInv, Finish PROVE IInv'
  OBVIOUS
<1>1. outcome = "RUNNING" /\ TypeOK /\ Tiled /\ Paired(code) /\ loop_buf' = Freed
      /\ dst \in BufferRecord /\ last_token' = pos /\ UNCHANGED <<source, pos, loop_stack>>
  BY RunningFacts DEF TypeOK, Finish
<1>2. Freed \in BufferRecord
  BY DEF Freed, BufferRecord
<1>3. CASE outcome' = "UNCLOSED_LOOPS" /\ UNCHANGED <<dst, code>>
  <2>1. TypeOK'
    BY <1>1, <1>2, <1>3 DEF TypeOK, Outcome, NbajhError, CompilerErrors
  <2> QED
    BY <1>1, <1>3, <2>1, Fails
<1>4. CASE loop_stack = <<>>
  <2> DEFINE ret == [op |-> "ret", operand |-> 0]
  <2>1. PICK w \in Write(dst, InstrSize("ret")) :
          /\ dst' = w.buf
          /\ code' = IF w.error = "SUCCESS" THEN Store(dst.size, ret) ELSE code
          /\ outcome' = Result(w)
    BY <1>4 DEF Finish, Unclosed
  <2>2. w.buf \in BufferRecord /\ w.error \in {"SUCCESS", "MALLOC"}
        /\ Result(w) \in {"SUCCESS", "MALLOC", "UNDEFINED"}
        /\ (Result(w) = "SUCCESS" => w.error = "SUCCESS")
    BY <1>1, WriteFacts, SizesPositive DEF Result
  <2>3. dst.size \in Nat /\ DOMAIN code \subseteq Nat /\ dst.size \notin DOMAIN code
        /\ code \in [DOMAIN code -> Instruction]
    BY <1>1, TiledFacts DEF TypeOK
  <2>4. ret \in Instruction
    BY DEF Instruction, Opcode, Jumps, OperandOK
  <2>5. TypeOK'
    <3>1. DOMAIN code' \subseteq Nat /\ code' \in [DOMAIN code' -> Instruction]
      <4> HIDE DEF ret
      <4> QED
        BY <2>1, <2>3, <2>4 DEF Store
    <3> QED
      BY <1>1, <1>2, <2>1, <2>2, <3>1 DEF TypeOK, Outcome, NbajhError, CompilerErrors
  <2>6. CASE Result(w) # "SUCCESS"
    BY <1>1, <2>1, <2>2, <2>5, <2>6, Fails
  <2>7. CASE Result(w) = "SUCCESS"
    <3>1. code' = Store(dst.size, ret) /\ outcome' = "SUCCESS"
      BY <2>1, <2>2, <2>7
    <3>2. /\ DOMAIN code' = DOMAIN code \cup {dst.size}
          /\ code'[dst.size] = ret
          /\ \A o \in DOMAIN code : code'[o] = code[o]
      BY <2>3, <3>1 DEF Store
    <3>3. Paired(code')
      <4>1. ret.op \notin Jumps
        BY DEF Jumps
      <4> HIDE DEF ret
      <4> QED
        BY <1>1, <2>3, <3>1, <4>1, StorePaired
    <3>4. DOMAIN Sizes = DOMAIN code
          /\ \A o \in DOMAIN code : Sizes[o] = InstrSize(code[o].op)
      <4>1. Reserved = {}
        BY <1>4 DEF Reserved
      <4> QED
        BY <1>1, <4>1, TiledFacts
    <3>5. WellFormedCode(code')
      <4>1. DOMAIN code' \subseteq Nat /\ 0 \in DOMAIN code'
        BY <1>1, <2>3, <3>2, <3>4 DEF Tiled, Tiles
      <4>2. ASSUME NEW o \in DOMAIN code'
            PROVE  OperandOK(code'[o])
        BY <2>5 DEF TypeOK, Instruction
      <4>3. ASSUME NEW o \in DOMAIN code', code'[o].op \in Opcode \ {"ret"}
            PROVE  o + InstrSize(code'[o].op) \in DOMAIN code'
        <5>1. o \in DOMAIN code
          BY <3>2, <4>3
        <5>2. o + Sizes[o] \in DOMAIN code \cup {dst.size}
          BY <1>1, <3>4, <5>1 DEF Tiled, Tiles
        <5> QED
          BY <3>2, <3>4, <5>1, <5>2
      <4>4. ASSUME NEW o \in DOMAIN code', code'[o].op \in Jumps
            PROVE  code'[o].operand \in DOMAIN code'
        <5>1. o \in DOMAIN code /\ code[o].op \in Jumps /\ code[o].operand \in Nat
              /\ code'[o].operand = code[o].operand
          BY <2>3, <3>2, <4>4 DEF Jumps, Instruction
        <5> DEFINE other == code[o].operand - JUMP_SIZE
        <5>2. other \in DOMAIN code /\ code[other].op \in Jumps
          <6>1. /\ other \in DOMAIN code
                /\ code[other] = [op |-> IF code[o].op = "jmpz" THEN "jmpnz" ELSE "jmpz",
                                  operand |-> o + JUMP_SIZE]
            BY <1>1, <5>1 DEF Paired
          <6> HIDE DEF other
          <6> QED
            BY <6>1 DEF Jumps
        <5>3. Sizes[other] = JUMP_SIZE
          BY <3>4, <5>2, SizesPositive
        <5>4. other + Sizes[other] \in DOMAIN code \cup {dst.size}
          BY <1>1, <3>4, <5>2 DEF Tiled, Tiles
        <5>5. other + JUMP_SIZE = code[o].operand
          BY <5>1, SizesPositive
        <5> QED
          BY <3>2, <5>1, <5>3, <5>4, <5>5
      <4> QED
        BY <4>1, <4>2, <4>3, <4>4 DEF WellFormedCode
    <3> QED
      BY <1>1, <2>5, <3>1, <3>3, <3>5
      DEF IInv, InProgress, JumpsPaired, Paired, SuccessIsRunnable, LoopStackHonest
  <2> QED
    BY <2>6, <2>7
<1> QED
  BY <1>3, <1>4 DEF Finish, Unclosed

LEMMA NextIInv == IInv /\ [Next]_vars => IInv'
<1> SUFFICES ASSUME IInv, [Next]_vars PROVE IInv'
  OBVIOUS
<1>1. CASE UNCHANGED vars
  BY <1>1
  DEF vars, IInv, TypeOK, InProgress, Tiled, Sizes, Pieces, PieceSize, Reserved, JumpsPaired,
      SuccessIsRunnable, LoopStackHonest
<1> QED
  BY <1>1, CompilerInitKeepsIInv, EmitAdditivePKeepsIInv, EmitAdditiveVKeepsIInv,
     EmitNoOperandKeepsIInv, BeginLoopKeepsIInv, EndLoopKeepsIInv, InvalidTokenKeepsIInv,
     FinishKeepsIInv
  DEF Next

-----------------------------------------------------------------------------

(* No step of the compiler leaves the states in which the program is tiled, its
   loops are paired and the loop stack is in its storage. *)
THEOREM Invariance == Spec => []IInv
BY InitIInv, NextIInv, PTL DEF Spec

(* Types: buffers stay buffers, operands fit their instructions. *)
THEOREM TypeCorrect == Spec => []TypeOK
<1>1. IInv => TypeOK
  BY DEF IInv
<1> QED
  BY <1>1, Invariance, PTL

(* Back-patching never damages the program. *)
THEOREM CodeIsTiled == Spec => []CodeTiles
<1>1. IInv => CodeTiles
  <2> SUFFICES ASSUME IInv, InProgress
               PROVE  /\ DOMAIN code \cap Reserved = {}
                      /\ 0 \in Boundaries
                      /\ \A o \in Pieces :
                           /\ o + PieceSize(o) \in Boundaries
                           /\ o + PieceSize(o) <= dst.size
                           /\ \A q \in Pieces : o < q => o + PieceSize(o) <= q
    BY DEF CodeTiles
  <2>1. Tiled
    BY DEF IInv
  <2>2. DOMAIN Sizes = Pieces /\ \A o \in Pieces : Sizes[o] = PieceSize(o)
    BY DEF Sizes
  <2> QED
    BY <2>1, <2>2 DEF Tiled, Tiles, Boundaries
<1> QED
  BY <1>1, Invariance, PTL

(* Loops are closed both ways, however they are nested. *)
THEOREM LoopsArePaired == Spec => []JumpsPaired
<1>1. IInv => JumpsPaired
  BY DEF IInv
<1> QED
  BY <1>1, Invariance, PTL

(* What is handed out with success is a program the interpreter's theorems *)
(* are about.                                                              *)
THEOREM SuccessfulCodeRuns == Spec => []SuccessIsRunnable
<1>1. IInv => SuccessIsRunnable
  BY DEF IInv
<1> QED
  BY <1>1, Invariance, PTL

(* The loop stack stays in its storage and is freed on every way out. *)
THEOREM LoopStackIsSound == Spec => []LoopStackSound
<1>1. IInv => LoopStackSound
  <2> SUFFICES ASSUME IInv PROVE LoopStackSound
    OBVIOUS
  <2>1. CASE outcome = "RUNNING"
    BY <2>1 DEF IInv, LoopStackSound, LoopStackHonest, Honest, InStorage, InProgress
  <2>2. CASE outcome # "RUNNING"
    BY <2>2 DEF IInv, LoopStackSound, InStorage, Freed
  <2> QED
    BY <2>1, <2>2
<1> QED
  BY <1>1, Invariance, PTL

-----------------------------------------------------------------------------

(***************************************************************************)
(* The verdict.  While it runs, the compiler has found nothing wrong with  *)
(* the tokens it has taken, and its loop stack is as deep as the loops it  *)
(* has opened and not closed; the facts about sources are those of module  *)
(* Compilers_proofs.                                                       *)
(***************************************************************************)
Reading == outcome = "RUNNING" => Scanned(source, pos, Len(loop_stack))

VInv == Reading /\ VerdictIsFirstFault

LEMMA ReturnsVInv ==
  ASSUME NEW e, NEW p, NEW b, Returns(e, p, b), e # "RUNNING",
         e = "SUCCESS" => Scanned(source, p, Len(loop_stack')),
         e # "SUCCESS" => e \in {"MALLOC", "UNDEFINED"} \/ IsVerdict(source, p, e)
  PROVE  VInv'
<1>1. CASE e = "SUCCESS"
  BY <1>1 DEF Returns, VInv, Reading, VerdictIsFirstFault
<1>2. CASE e # "SUCCESS"
  BY <1>2 DEF Returns, VInv, Reading, VerdictIsFirstFault
<1> QED
  BY <1>1, <1>2

LEMMA EmitVInv ==
  ASSUME TypeOK, NEW op, NEW operand, NEW p, NEW q, Emit(op, operand, p, q),
         Scanned(source, p, Len(loop_stack))
  PROVE  VInv'
<1>1. PICK w \in Write(dst, InstrSize(op)) :
        /\ Returns(Result(w), IF w.error = "SUCCESS" THEN p ELSE q, loop_buf)
        /\ UNCHANGED loop_stack
  BY DEF Emit
<1>2. w.error \in {"SUCCESS", "MALLOC"}
  BY WriteFacts, SizesPositive DEF TypeOK
<1>3. Result(w) \in {"SUCCESS", "MALLOC", "UNDEFINED"}
      /\ (Result(w) = "SUCCESS" => w.error = "SUCCESS")
  BY <1>2 DEF Result
<1> QED
  BY <1>1, <1>3, ReturnsVInv

LEMMA NextVInv == IInv /\ VInv /\ [Next]_vars => VInv'
<1> SUFFICES ASSUME IInv, VInv, [Next]_vars PROVE VInv'
  OBVIOUS
<1>1. TypeOK /\ IsSource(source) /\ pos \in Nat
      /\ loop_stack \in Seq(Nat) /\ Len(loop_stack) \in Nat
  BY SourcesAssumption DEF IInv, TypeOK, SourcesAssumption, IsSource
<1>2. outcome = "RUNNING" => Scanned(source, pos, Len(loop_stack))
  BY DEF VInv, Reading
<1>3. CASE CompilerInit
  <2>1. Scanned(source, 1, 0)
    BY <1>1, ScanStart
  <2>2. loop_stack = <<>> /\ UNCHANGED loop_stack /\ Len(<<>>) = 0
    BY <1>3 DEF CompilerInit, IInv, LoopStackHonest
  <2> QED
    BY <1>3, <2>1, <2>2, ReturnsVInv DEF CompilerInit
<1>4. CASE EmitAdditiveP
  <2>1. PICK n \in 1 .. Len(source) :
          /\ IsRun(source, pos, n)
          /\ \/ /\ n > UINT16_MAX
                /\ Returns("DP_OUT_OF_BOUNDS", pos + UINT16_MAX, loop_buf)
             \/ /\ ~(n > UINT16_MAX)
                /\ Emit(IF Token = "darling" THEN "addp" ELSE "subp", n, pos + n, pos + n)
    BY <1>4 DEF EmitAdditiveP, TooLong
  <2>2. n \in Nat \ {0} /\ UINT16_MAX \in Nat /\ TokenAt(source, pos) \in Moves
        /\ Scanned(source, pos, Len(loop_stack))
    BY <1>2, <1>4, WidthAssumption DEF EmitAdditiveP, WidthAssumption, Token
  <2>3. CASE n > UINT16_MAX
    <3>1. IsVerdict(source, pos + UINT16_MAX, "DP_OUT_OF_BOUNDS")
      BY <1>1, <2>1, <2>2, <2>3, ScanOverrun
    <3> QED
      BY <2>1, <2>3, <3>1, ReturnsVInv
  <2>4. CASE ~(n > UINT16_MAX)
    <3>1. Scanned(source, pos + n, Len(loop_stack))
      BY <1>1, <2>1, <2>2, <2>4, ScanRun
    <3> QED
      BY <1>1, <2>1, <2>4, <3>1, EmitVInv
  <2> QED
    BY <2>3, <2>4
<1>5. CASE EmitAdditiveV
  <2>1. PICK n \in 1 .. Len(source) :
          /\ IsRun(source, pos, n)
          /\ \/ Returns("SUCCESS", pos + n, loop_buf) /\ UNCHANGED loop_stack
             \/ Emit(IF Token = "my" THEN "addv" ELSE "subv", Wrapped(n), pos + n, pos + n)
    BY <1>5 DEF EmitAdditiveV
  <2>2. n \in Nat \ {0} /\ TokenAt(source, pos) \in Adds
        /\ Scanned(source, pos, Len(loop_stack))
    BY <1>2, <1>5 DEF EmitAdditiveV, Token
  <2>3. TokenAt(source, pos) \notin Moves
    BY <2>2 DEF Adds, Moves
  <2>4. Scanned(source, pos + n, Len(loop_stack))
    BY <1>1, <2>1, <2>2, <2>3, ScanRun
  <2> QED
    BY <1>1, <2>1, <2>4, EmitVInv, ReturnsVInv
<1>6. CASE EmitNoOperand
  <2>1. Scanned(source, pos + 1, Len(loop_stack))
    BY <1>1, <1>2, <1>6, ScanEffect DEF EmitNoOperand, Token
  <2> QED
    BY <1>1, <1>6, <2>1, EmitVInv DEF EmitNoOperand
<1>7. CASE BeginLoop
  <2>1. PICK w \in Write(loop_buf, SIZE_T) :
          /\ loop_stack' = IF w.error = "SUCCESS"
                           THEN Append(loop_stack, dst'.size) ELSE loop_stack
          /\ Returns(Result(w), IF w.error = "SUCCESS" THEN pos + 1 ELSE pos, w.buf)
    BY <1>7 DEF BeginLoop
  <2>2. w.error \in {"SUCCESS", "MALLOC"}
    BY <1>1, WriteFacts, WidthAssumption DEF TypeOK, WidthAssumption
  <2>3. Result(w) \in {"SUCCESS", "MALLOC", "UNDEFINED"}
        /\ (Result(w) = "SUCCESS" => w.error = "SUCCESS")
    BY <2>2 DEF Result
  <2>4. Scanned(source, pos + 1, Len(loop_stack) + 1)
    BY <1>1, <1>2, <1>7, ScanOpen DEF BeginLoop, Token
  <2>5. dst'.size \in Nat
    BY <1>1, <1>7, SizesPositive DEF BeginLoop, Reserve, TypeOK, BufferRecord
  <2>6. Len(Append(loop_stack, dst'.size)) = Len(loop_stack) + 1
    BY <1>1, <2>5, AppendProperties
  <2> QED
    BY <2>1, <2>3, <2>4, <2>6, ReturnsVInv
<1>8. CASE EndLoop
  <2>1. Scanned(source, pos, Len(loop_stack)) /\ TokenAt(source, pos) = "jet2"
    BY <1>2, <1>8 DEF EndLoop, Token
  <2>2. CASE loop_stack = <<>>
    <3>1. Returns("UNEXPECTED_LOOP_END", pos, loop_buf)
      BY <1>8, <2>2 DEF EndLoop
    <3>2. Len(loop_stack) = 0
      BY <2>2
    <3>3. IsVerdict(source, pos, "UNEXPECTED_LOOP_END")
      BY <1>1, <2>1, <3>2, ScanClose
    <3> QED
      BY <3>1, <3>3, ReturnsVInv
  <2>3. CASE loop_stack # <<>>
    <3>1. PICK w \in Write(dst, JUMP_SIZE) :
            /\ loop_stack' = SubSeq(loop_stack, 1, Len(loop_stack) - 1)
            /\ Returns(IF Top(loop_stack) > w.buf.alloc THEN "UNDEFINED" ELSE Result(w),
                       IF w.error = "SUCCESS" THEN pos + 1 ELSE pos, PopSize(loop_buf))
      BY <1>8, <2>3 DEF EndLoop
    <3>2. w.error \in {"SUCCESS", "MALLOC"}
      BY <1>1, WriteFacts, SizesPositive DEF TypeOK
    <3> DEFINE e == IF Top(loop_stack) > w.buf.alloc THEN "UNDEFINED" ELSE Result(w)
    <3>3. e \in {"SUCCESS", "MALLOC", "UNDEFINED"} /\ (e = "SUCCESS" => w.error = "SUCCESS")
      BY <3>2 DEF Result
    <3>4. Len(loop_stack) \in Nat \ {0}
          /\ Len(SubSeq(loop_stack, 1, Len(loop_stack) - 1)) = Len(loop_stack) - 1
      BY <1>1, <2>3, PopFacts
    <3>5. Scanned(source, pos + 1, Len(loop_stack) - 1)
      BY <1>1, <2>1, <3>4, ScanClose
    <3> QED
      BY <3>1, <3>3, <3>4, <3>5, ReturnsVInv
  <2> QED
    BY <2>2, <2>3
<1>9. CASE InvalidToken
  <2>1. IsVerdict(source, pos, "INVALID_TOKEN")
    BY <1>2, <1>9, ScanInvalid DEF InvalidToken, Token
  <2> QED
    BY <1>9, <2>1, ReturnsVInv DEF InvalidToken
<1>10. CASE Finish
  <2>1. Scanned(source, pos, Len(loop_stack)) /\ TokenAt(source, pos) = "EOF"
        /\ last_token' = pos /\ UNCHANGED source
    BY <1>2, <1>10 DEF Finish, Token
  <2>2. CASE loop_stack # <<>> /\ outcome' = "UNCLOSED_LOOPS"
    <3>1. Len(loop_stack) # 0
      BY <1>1, <2>2
    <3>2. IsVerdict(source, pos, "UNCLOSED_LOOPS")
      BY <1>1, <2>1, <3>1, ScanEnd
    <3> QED
      BY <2>1, <2>2, <3>2 DEF VInv, Reading, VerdictIsFirstFault
  <2>3. CASE loop_stack = <<>> /\ \E w \in Write(dst, InstrSize("ret")) : outcome' = Result(w)
    <3>1. PICK w \in Write(dst, InstrSize("ret")) : outcome' = Result(w)
      BY <2>3
    <3>2. w.error \in {"SUCCESS", "MALLOC"}
      BY <1>1, WriteFacts, SizesPositive DEF TypeOK
    <3>3. outcome' \in {"SUCCESS", "MALLOC", "UNDEFINED"}
      BY <3>1, <3>2 DEF Result
    <3>4. Len(loop_stack) = 0
      BY <2>3
    <3>5. IsVerdict(source, pos, "SUCCESS")
      BY <1>1, <2>1, <3>4, ScanEnd
    <3> QED
      BY <2>1, <3>3, <3>5 DEF VInv, Reading, VerdictIsFirstFault
  <2> QED
    BY <1>10, <2>2, <2>3 DEF Finish, Unclosed
<1>11. CASE UNCHANGED vars
  BY <1>11 DEF vars, VInv, Reading, VerdictIsFirstFault
<1> QED
  BY <1>3, <1>4, <1>5, <1>6, <1>7, <1>8, <1>9, <1>10, <1>11 DEF Next

(***************************************************************************)
(* The compiler reports the first fault in source order, at its token, and *)
(* success only for a source without one, whatever the source and however  *)
(* wide the operands.                                                      *)
(***************************************************************************)
THEOREM FirstFaultReported == Spec => []VerdictIsFirstFault
<1>1. Init => VInv
  BY DEF Init, VInv, Reading, VerdictIsFirstFault
<1>2. VInv => VerdictIsFirstFault
  BY DEF VInv
<1> QED
  BY <1>1, <1>2, NextVInv, Invariance, PTL DEF Spec

=============================================================================
