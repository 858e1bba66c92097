-------------------------- MODULE MCCompileAndRun --------------------------
(* Every source of up to MaxLen tokens over the commands that differ for   *)
(* the control flow, and longer ones: runs that wrap to nothing around a   *)
(* loop, moves that just do and just do not stay inside memory, nested and *)
(* neighbouring loops, and faults behind working code.                     *)
EXTENDS CompileAndRun

CONSTANT MaxLen

Kinds == {"darling", "my", "nothing", "beats", "a", "jet2"}

MCSources ==
  UNION {[1 .. n -> Kinds] : n \in 0 .. MaxLen}
    \cup {<<"beats", "a", "nothing", "hand", "my", "beats", "jet2">>,
          <<"nothing", "my", "my", "a", "my", "my", "jet2", "my", "my">>,
          <<"my", "a", "darling", "beats", "a", "hand", "jet2", "hold", "beats", "jet2",
            "a", "jet2", "holiday">>,
          <<"beats", "a", "darling", "darling", "my", "jet2", "hold", "hold", "holiday">>,
          <<"darling", "darling", "hold", "nothing", "hold", "hold", "holiday">>,
          <<"hand", "hand", "hand", "nothing", "darling", "darling", "darling", "my">>,
          <<"a", "a", "a", "jet2", "jet2", "nothing", "jet2", "beats">>,
          <<"my", "nothing", "INVALID", "jet2">>,
          <<"a", "beats", "jet2", "hold", "hold", "hold", "hold">>}

=============================================================================
