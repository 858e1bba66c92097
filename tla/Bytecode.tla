------------------------------ MODULE Bytecode ------------------------------
(***************************************************************************)
(* The bytecode (bytecode.h) as the compiler writes it and the interpreter *)
(* reads it: a program is a function from byte offsets to instructions.    *)
(* Instructions are written whole, so the bytes of one are not told apart. *)
(***************************************************************************)
EXTENDS Widths

Jumps  == {"jmpz", "jmpnz"}
Opcode == {"ret", "addp", "subp", "addv", "subv", "write", "read", "debug"} \cup Jumps

(* An opcode byte and, if the opcode has one, its operand. *)
JUMP_SIZE == 1 + SIZE_T

InstrSize(op) ==
  CASE op \in {"addp", "subp"} -> 3
    [] op \in {"addv", "subv"} -> 2
    [] op \in Jumps            -> JUMP_SIZE
    [] OTHER                   -> 1

(* What an instruction's operand may be. *)
OperandOK(i) ==
  CASE i.op \in {"addp", "subp"} -> i.operand \in 1 .. UINT16_MAX
    [] i.op \in {"addv", "subv"} -> i.operand \in Byte
    [] OTHER                     -> i.operand \in Nat

(***************************************************************************)
(* Code that can be run without ever fetching from the middle of an        *)
(* instruction or from outside the program: it starts at 0, control falls  *)
(* through to another instruction and jumps land on instructions.          *)
(***************************************************************************)
WellFormedCode(code) ==
  /\ DOMAIN code \subseteq Nat
  /\ 0 \in DOMAIN code
  /\ \A o \in DOMAIN code :
       /\ OperandOK(code[o])
       /\ code[o].op \in Opcode \ {"ret"} => o + InstrSize(code[o].op) \in DOMAIN code
       /\ code[o].op \in Jumps => code[o].operand \in DOMAIN code

=============================================================================
