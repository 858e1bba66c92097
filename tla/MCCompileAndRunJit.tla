------------------------- MODULE MCCompileAndRunJit -------------------------
(* Every source of up to MaxLen tokens over one token for each kind of      *)
(* group, and longer ones: moves that just do and just do not stay inside   *)
(* memory, runs that wrap to nothing around a loop, debugging calls inside  *)
(* loops, all stubs in several orders, and faults behind working code.      *)
EXTENDS CompileAndRunJit

CONSTANT MaxLen

Kinds == {"darling", "my", "nothing", "beats", "holiday", "a", "jet2"}

MCSources ==
  UNION {[1 .. n -> Kinds] : n \in 0 .. MaxLen}
    \cup {<<"beats", "a", "nothing", "hand", "my", "beats", "jet2">>,
          <<"nothing", "my", "my", "a", "my", "my", "jet2", "my", "my">>,
          <<"my", "a", "darling", "beats", "a", "hand", "jet2", "hold", "beats", "jet2",
            "a", "jet2", "holiday">>,
          <<"beats", "a", "darling", "darling", "my", "jet2", "hold", "hold", "holiday">>,
          <<"darling", "darling", "hold", "nothing", "hold", "hold", "holiday">>,
          <<"hand", "hand", "hand", "nothing", "darling", "darling", "darling", "my">>,
          <<"a", "a", "a", "jet2", "jet2", "nothing", "jet2", "beats">>,
          <<"beats", "a", "holiday", "darling", "beats", "jet2", "nothing">>,
          <<"holiday", "nothing", "darling", "beats", "holiday">>,
          <<"my", "nothing", "INVALID", "jet2">>,
          <<"a", "beats", "jet2", "hold", "hold", "hold", "hold">>}

=============================================================================
