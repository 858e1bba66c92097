------------------------- MODULE MCBytecodeCompiler -------------------------
(* Every source of up to MaxLen tokens over one token of each kind, and a  *)
(* few longer ones with the remaining keywords and deep nesting.           *)
EXTENDS BytecodeCompiler

CONSTANT MaxLen

Kinds == {"darling", "my", "nothing", "a", "jet2", "INVALID"}

Repeat(t, n) == [i \in 1 .. n |-> t]

MCSources ==
  UNION {[1 .. n -> Kinds] : n \in 0 .. MaxLen}
    \cup {<<"hold", "hold", "darling", "hand", "beats", "holiday">>,
          <<"a", "hand", "my", "a", "hold", "jet2", "a", "jet2", "jet2">>,
          Repeat("hold", UINT16_MAX) \o <<"a", "jet2">> \o Repeat("hold", UINT16_MAX + 1),
          Repeat("a", 3) \o Repeat("my", UINT8_MAX + 1) \o Repeat("jet2", 4)}

=============================================================================
