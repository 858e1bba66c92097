------------------------------- MODULE Faults -------------------------------
(***************************************************************************)
(* What can be wrong with a source, by position and without reference to   *)
(* how a compiler finds it out: what compilers are compared with.          *)
(***************************************************************************)
EXTENDS Tokens, Widths, FiniteSets

(* Loops opened less loops closed by the first i tokens. *)
Balance(source, i) == Cardinality({k \in 1 .. i : source[k] = "a"})
                        - Cardinality({k \in 1 .. i : source[k] = "jet2"})

(* The fault of the i-th token, "SUCCESS" if it has none. *)
FaultAt(source, i) ==
  CASE TokenAt(source, i) = "INVALID" -> "INVALID_TOKEN"
    [] TokenAt(source, i) = "jet2" /\ Balance(source, i) < 0 -> "UNEXPECTED_LOOP_END"
    [] /\ TokenAt(source, i) \in Moves
       /\ i > UINT16_MAX
       /\ \A k \in i - UINT16_MAX .. i : source[k] = source[i]
         -> "DP_OUT_OF_BOUNDS"
    [] TokenAt(source, i) = "EOF" /\ Balance(source, i - 1) > 0 -> "UNCLOSED_LOOPS"
    [] OTHER -> "SUCCESS"

Faultless(source, i) == FaultAt(source, i) = "SUCCESS"

(* Error e is the verdict on a source, reached at its i-th token. *)
IsVerdict(source, i, e) ==
  /\ e = FaultAt(source, i)
  /\ \A k \in 1 .. i - 1 : Faultless(source, k)
  /\ e = "SUCCESS" => i = Len(source) + 1

=============================================================================
