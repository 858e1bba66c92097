------------------------------- MODULE Widths -------------------------------
(***************************************************************************)
(* The widths of the C types the library relies on, as constants: the real *)
(* values are beside each, TLC is given small ones.                        *)
(***************************************************************************)
EXTENDS Integers

CONSTANTS
  MEMORY_SIZE, \* NBAJH_CONTEXT_MEMORY_SIZE, 1U << 16U
  UINT16_MAX,  \* largest operand of addp and subp, 2^16 - 1
  UINT8_MAX,   \* largest value of a memory cell, 2^8 - 1
  SIZE_T       \* sizeof(size_t), 8

ASSUME WidthAssumption ==
  /\ MEMORY_SIZE \in Nat \ {0, 1}
  /\ UINT16_MAX = MEMORY_SIZE - 1
  /\ UINT8_MAX \in Nat \ {0}
  /\ SIZE_T \in Nat \ {0}

Cell == 0 .. MEMORY_SIZE - 1
Byte == 0 .. UINT8_MAX

=============================================================================
