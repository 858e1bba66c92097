---------------------------- MODULE MCBytecodeVM ----------------------------
(* The interpreter on every well-formed program of up to MaxLen            *)
(* instructions, with jumps from anywhere to anywhere: more than the       *)
(* compiler produces, as nbajh_run_bytecode takes any program.             *)
EXTENDS BytecodeVM, Sequences

CONSTANT MaxLen

Ops == Opcode \cup {"bad"}

(* The offset of the k-th instruction of a sequence of opcodes. *)
Offset(ops, k) ==
  LET at[i \in 1 .. k] == IF i = 1 THEN 0 ELSE at[i - 1] + InstrSize(ops[i - 1])
  IN  at[k]

Offsets(ops) == {Offset(ops, k) : k \in 1 .. Len(ops)}

Operands(op, offsets) ==
  CASE op \in {"addp", "subp"} -> 1 .. UINT16_MAX
    [] op \in {"addv", "subv"} -> Byte \ {0}
    [] op \in Jumps            -> offsets
    [] OTHER                   -> {0}

OpcodeAt(ops, o) == ops[CHOOSE k \in 1 .. Len(ops) : Offset(ops, k) = o]

(* Every assignment of operands to a sequence of opcodes. *)
Layouts(ops) ==
  LET where == Offsets(ops)
      instrs == UNION {{[op |-> OpcodeAt(ops, o), operand |-> n] :
                          n \in Operands(OpcodeAt(ops, o), where)} : o \in where}
  IN  {p \in [where -> instrs] : \A o \in where : p[o].op = OpcodeAt(ops, o)}

Programs ==
  UNION {Layouts(ops) : ops \in {s \o <<last>> :
           s \in UNION {[1 .. n -> Opcode] : n \in 0 .. MaxLen - 1},
           last \in {"ret", "bad"}}}

MCInit == program \in Programs /\ Init

MCSpec == MCInit /\ [][Next]_vars

=============================================================================
