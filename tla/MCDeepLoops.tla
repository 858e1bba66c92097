----------------------------- MODULE MCDeepLoops -----------------------------
(* The compiler with the real widths, on loops nested around one command.  *)
EXTENDS BytecodeCompiler

CONSTANTS MinDepth, MaxDepth

Nest(n) == [i \in 1 .. n |-> "a"] \o <<"nothing">> \o [i \in 1 .. n |-> "jet2"]

DeepSources == {Nest(n) : n \in MinDepth .. MaxDepth}

=============================================================================
