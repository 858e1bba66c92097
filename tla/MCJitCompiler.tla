---------------------------- MODULE MCJitCompiler ----------------------------
(* Every source of up to MaxLen tokens over one token for each kind of      *)
(* group, and a few longer ones with faults, nested loops or long jumps.    *)
EXTENDS JitCompiler

CONSTANT MaxLen

Kinds == {"darling", "my", "nothing", "beats", "holiday", "a", "jet2"}

Repeat(t, n) == [i \in 1 .. n |-> t]

MCSources ==
  UNION {[1 .. n -> Kinds] : n \in 0 .. MaxLen}
    \cup {<<"hold", "hold", "hand", "INVALID">>,
          <<"hold", "hold", "hold", "beats">>,
          <<"a", "a", "my", "jet2", "a", "hand", "jet2", "jet2">>,
          <<"a", "beats", "hand", "hand", "a", "nothing", "jet2", "hand", "jet2">>,
          Repeat("nothing", 6),
          <<"a">> \o Repeat("nothing", 5) \o <<"jet2">>}

=============================================================================
