------------------------- MODULE BytecodeVM_proofs -------------------------
(***************************************************************************)
(* For any widths, any memory size and any well-formed program, whether    *)
(* the compiler made it or not.                                            *)
(***************************************************************************)
EXTENDS BytecodeVM, TLAPS

(* The invariant is inductive only together with the program's being       *)
(* well-formed, which no step changes: it is what keeps the next fetch     *)
(* inside the program.                                                     *)
IInv ==
  /\ WellFormedCode(program)
  /\ TypeOK
  /\ IpAtInstruction
  /\ StopsAtCulprit

LEMMA ModuloRange ==
  ASSUME NEW a \in Int, NEW n \in Nat \ {0}
  PROVE  a % n \in 0 .. n - 1
  OBVIOUS

(* Cell arithmetic wraps to a cell value. *)
LEMMA ByteWraps ==
  ASSUME NEW a \in Int
  PROVE  a % (UINT8_MAX + 1) \in Byte
<1> DEFINE n == UINT8_MAX + 1
<1>1. n \in Nat \ {0} /\ Byte = 0 .. n - 1
  BY WidthAssumption DEF WidthAssumption, Byte
<1> HIDE DEF n
<1>2. a % n \in 0 .. n - 1
  BY <1>1, ModuloRange
<1> QED
  BY <1>1, <1>2 DEF n

LEMMA InitIInv == Init => IInv
<1> SUFFICES ASSUME Init PROVE IInv
  OBVIOUS
<1>1. TypeOK
  BY WidthAssumption DEF Init, ContextInit, TypeOK, Cell, Byte, Event, NoEvent, Status,
     WidthAssumption
<1>2. IpAtInstruction /\ StopsAtCulprit
  BY DEF Init, ContextInit, WellFormedCode, IpAtInstruction, StopsAtCulprit
<1> QED
  BY <1>1, <1>2 DEF Init, IInv

(* What a well-formed program gives the interpreter about the instruction  *)
(* it has fetched.                                                         *)
LEMMA Fetched ==
  ASSUME WellFormedCode(program), ip \in DOMAIN program
  PROVE  /\ ip \in Nat
         /\ instr.op \in {"addp", "subp"} => instr.operand \in 1 .. UINT16_MAX
         /\ instr.op \in {"addv", "subv"} => instr.operand \in Byte
         /\ instr.op \in Opcode \ {"ret"} => ip + InstrSize(instr.op) \in DOMAIN program
         /\ instr.op \in Jumps => instr.operand \in DOMAIN program
<1>1. OperandOK(instr)
  BY DEF WellFormedCode, instr
<1>2. instr.op \in {"addp", "subp"} => instr.operand \in 1 .. UINT16_MAX
  BY <1>1 DEF OperandOK
<1>3. instr.op \in {"addv", "subv"} => instr.operand \in Byte
  BY <1>1 DEF OperandOK
<1> QED
  BY <1>2, <1>3 DEF WellFormedCode, instr

(* A return leaves everything an invariant speaks of in order, if it says  *)
(* the right thing of the instruction.                                     *)
LEMMA ReturnKeepsIInv ==
  ASSUME IInv, ip \in DOMAIN program, NEW s \in Status \ {"RUNNING"},
         Return(s), Explains(instr, s)
  PROVE  IInv'
<1>1. TypeOK'
  BY DEF IInv, TypeOK, Return
<1>2. WellFormedCode(program)'
  BY DEF IInv, Return
<1>3. IpAtInstruction'
  BY DEF Return, IpAtInstruction
<1>4. ip \in Nat
  BY Fetched DEF IInv
<1>5. ip' - 1 = ip /\ program' = program /\ status' = s /\ dp' = dp
  BY <1>4 DEF Return
<1>6. StopsAtCulprit'
  <2>1. program'[ip' - 1] = instr /\ ip' - 1 \in DOMAIN program'
    BY <1>5 DEF instr
  <2> QED
    BY <1>5, <2>1 DEF StopsAtCulprit, Explains
<1> QED
  BY <1>1, <1>2, <1>3, <1>6 DEF IInv

(* Going on behind an instruction that is not a ret keeps the fetch inside *)
(* the program.                                                            *)
LEMMA AdvanceKeepsIp ==
  ASSUME IInv, Fetch(Opcode \ {"ret"}), Advance
  PROVE  /\ WellFormedCode(program)' /\ IpAtInstruction' /\ StopsAtCulprit'
         /\ ip' \in Nat /\ status' \in Status
<1>1. ip' \in DOMAIN program /\ program' = program /\ status' = "RUNNING"
  BY Fetched DEF IInv, Fetch, Advance
<1>2. WellFormedCode(program)'
  BY <1>1 DEF IInv
<1>3. IpAtInstruction' /\ StopsAtCulprit' /\ ip' \in Nat /\ status' \in Status
  BY <1>1, <1>2 DEF IpAtInstruction, StopsAtCulprit, WellFormedCode, Status
<1> QED
  BY <1>2, <1>3

-----------------------------------------------------------------------------

LEMMA NextIInv == IInv /\ [Next]_vars => IInv'
<1> SUFFICES ASSUME IInv, [Next]_vars PROVE IInv'
  OBVIOUS
<1> USE DEF TypeOK
<1>0. /\ WellFormedCode(program) /\ TypeOK /\ UINT8_MAX \in Nat /\ 0 \in Byte
      /\ Value \in Byte
  BY WidthAssumption DEF IInv, Value, WidthAssumption, Byte
<1>1. CASE RunRet
  <2>1. Explains(instr, "SUCCESS")
    BY <1>1 DEF RunRet, Fetch, Explains
  <2> QED
    BY <1>1, <2>1, ReturnKeepsIInv DEF RunRet, Fetch, Status
<1>2. CASE RunAddp
  <2>1. dp \in Cell /\ MEMORY_SIZE \in Nat /\ instr.operand \in 1 .. MEMORY_SIZE - 1
    BY <1>0, <1>2, Fetched, WidthAssumption DEF RunAddp, Fetch, WidthAssumption
  <2>2. CASE dp >= MEMORY_SIZE - instr.operand
    <3>1. Explains(instr, "DP_OUT_OF_BOUNDS")
      BY <1>2, <2>1, <2>2 DEF RunAddp, Fetch, Explains, Cell
    <3> QED
      BY <1>2, <2>2, <3>1, ReturnKeepsIInv DEF RunAddp, Fetch, Status, BeyondEnd
  <2>3. CASE ~(dp >= MEMORY_SIZE - instr.operand)
    <3>1. dp' \in Cell
      BY <1>2, <2>1, <2>3 DEF RunAddp, Cell, BeyondEnd
    <3> QED
      BY <1>0, <1>2, <2>3, <3>1, AdvanceKeepsIp DEF RunAddp, Fetch, IInv, Opcode, BeyondEnd
  <2> QED
    BY <2>2, <2>3
<1>3. CASE RunSubp
  <2>1. dp \in Cell /\ MEMORY_SIZE \in Nat /\ instr.operand \in 1 .. MEMORY_SIZE - 1
    BY <1>0, <1>3, Fetched, WidthAssumption DEF RunSubp, Fetch, WidthAssumption
  <2>2. CASE dp < instr.operand
    <3>1. Explains(instr, "DP_OUT_OF_BOUNDS")
      BY <1>3, <2>1, <2>2 DEF RunSubp, Fetch, Explains, Cell
    <3> QED
      BY <1>3, <2>2, <3>1, ReturnKeepsIInv DEF RunSubp, Fetch, Status
  <2>3. CASE ~(dp < instr.operand)
    <3>1. dp' \in Cell
      BY <1>3, <2>1, <2>3 DEF RunSubp, Cell
    <3> QED
      BY <1>0, <1>3, <2>3, <3>1, AdvanceKeepsIp DEF RunSubp, Fetch, IInv, Opcode
  <2> QED
    BY <2>2, <2>3
<1>4. CASE RunAddv
  <2>1. instr.operand \in Byte
    BY <1>0, <1>4, Fetched DEF RunAddv, Fetch
  <2>2. (memory[dp] + instr.operand) % (UINT8_MAX + 1) \in Byte
    <3>1. memory[dp] + instr.operand \in Int
      BY <1>0, <2>1 DEF Byte, Value
    <3> QED
      BY <3>1, ByteWraps
  <2>3. memory' \in [Cell -> Byte]
    BY <1>0, <1>4, <2>2 DEF RunAddv
  <2> QED
    BY <1>0, <1>4, <2>3, AdvanceKeepsIp DEF RunAddv, Fetch, IInv, Opcode
<1>5. CASE RunSubv
  <2>1. instr.operand \in Byte
    BY <1>0, <1>5, Fetched DEF RunSubv, Fetch
  <2>2. (memory[dp] + (UINT8_MAX + 1) - instr.operand) % (UINT8_MAX + 1) \in Byte
    <3>1. memory[dp] + (UINT8_MAX + 1) - instr.operand \in Int
      BY <1>0, <2>1 DEF Byte, Value
    <3> QED
      BY <3>1, ByteWraps
  <2>3. memory' \in [Cell -> Byte]
    BY <1>0, <1>5, <2>2 DEF RunSubv
  <2> QED
    BY <1>0, <1>5, <2>3, AdvanceKeepsIp DEF RunSubv, Fetch, IInv, Opcode
<1>6. CASE RunWrite
  <2>1. CASE Return("IO")
    <3>1. Explains(instr, "IO")
      BY <1>6 DEF RunWrite, Fetch, Explains
    <3> QED
      BY <1>6, <2>1, <3>1, ReturnKeepsIInv DEF RunWrite, Fetch, Status
  <2>2. CASE Advance /\ event' = [kind |-> "write", dp |-> 0, value |-> Value]
             /\ UNCHANGED <<dp, memory>>
    <3>1. event' \in Event
      BY <1>0, <2>2, WidthAssumption DEF Event, Cell, WidthAssumption
    <3> QED
      BY <1>0, <1>6, <2>2, <3>1, AdvanceKeepsIp DEF RunWrite, Fetch, IInv, Opcode
  <2> QED
    BY <1>6, <2>1, <2>2 DEF RunWrite
<1>7. CASE RunRead
  <2>1. CASE Return("IO") \/ Return("END_OF_INPUT_FILE")
    <3>1. Explains(instr, "IO") /\ Explains(instr, "END_OF_INPUT_FILE")
      BY <1>7 DEF RunRead, Fetch, Explains
    <3> QED
      BY <1>7, <2>1, <3>1, ReturnKeepsIInv DEF RunRead, Fetch, Status
  <2>2. ASSUME NEW v \in Byte, Advance, memory' = [memory EXCEPT ![dp] = v],
               event' = [kind |-> "read", dp |-> 0, value |-> v], UNCHANGED dp
        PROVE  IInv'
    <3>1. event' \in Event /\ memory' \in [Cell -> Byte]
      BY <1>0, <2>2, WidthAssumption DEF Event, Cell, WidthAssumption
    <3> QED
      BY <1>0, <1>7, <2>2, <3>1, AdvanceKeepsIp DEF RunRead, Fetch, IInv, Opcode
  <2> QED
    BY <1>7, <2>1, <2>2 DEF RunRead
<1>8. CASE RunJump
  <2>1. ip' \in DOMAIN program
    BY <1>0, <1>8, Fetched DEF RunJump, Fetch, Jumps, Opcode
  <2> QED
    BY <1>0, <1>8, <2>1
    DEF RunJump, Fetch, IInv, IpAtInstruction, StopsAtCulprit, WellFormedCode
<1>9. CASE RunDebug
  <2>1. event' \in Event
    BY <1>0, <1>9 DEF RunDebug, Event
  <2> QED
    BY <1>0, <1>9, <2>1, AdvanceKeepsIp DEF RunDebug, Fetch, IInv, Opcode
<1>10. CASE RunInvalidOp
  <2>1. Explains(instr, "INVALID_OP")
    BY <1>10 DEF RunInvalidOp, Explains
  <2> QED
    BY <1>10, <2>1, ReturnKeepsIInv DEF RunInvalidOp, Status
<1>11. CASE UNCHANGED vars
  BY <1>11 DEF vars, context, IInv, IpAtInstruction, StopsAtCulprit, Explains
<1> QED
  BY <1>1, <1>2, <1>3, <1>4, <1>5, <1>6, <1>7, <1>8, <1>9, <1>10, <1>11 DEF Next

(* No step of the interpreter leaves the states in which the next fetch is from an
   instruction of the program and the data pointer is in the memory. *)
THEOREM Invariance == Spec => []IInv
BY InitIInv, NextIInv, PTL DEF Spec

(* The data pointer stays inside the working memory, cells stay bytes. *)
THEOREM TypeCorrect == Spec => []TypeOK
<1>1. IInv => TypeOK
  BY DEF IInv
<1> QED
  BY <1>1, Invariance, PTL

(* No fetch from the middle of an instruction or from outside the program. *)
THEOREM FetchesAreSound == Spec => []IpAtInstruction
<1>1. IInv => IpAtInstruction
  BY DEF IInv
<1> QED
  BY <1>1, Invariance, PTL

(* When the interpreter returns, the opcode in front of ip had to end it. *)
THEOREM ErrorsPointAtCulprit == Spec => []StopsAtCulprit
<1>1. IInv => StopsAtCulprit
  BY DEF IInv
<1> QED
  BY <1>1, Invariance, PTL

(* A failing instruction has no effect, and nothing follows a return. *)
THEOREM FailuresAreClean == Spec => FailureIsClean
<1>1. [Next]_vars =>
        [/\ status = "RUNNING"
         /\ status' # "RUNNING" => UNCHANGED <<program, dp, memory, event>>]_vars
  BY DEF Next, vars, context, Fetch, Advance, Return, RunRet, RunAddp, RunSubp, RunAddv,
     RunSubv, RunWrite, RunRead, RunJump, RunDebug, RunInvalidOp
<1> QED
  BY <1>1, PTL DEF Spec, FailureIsClean

=============================================================================
