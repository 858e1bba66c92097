------------------------------- MODULE Tokens -------------------------------
(***************************************************************************)
(* Token types (token.h) and the token stream a compiler pulls from the    *)
(* lexer, and the library's error codes (errors.h).  Lines and columns are *)
(* left out: a token is named by its index in the source, so "the last     *)
(* token" of a compilation is an index.                                    *)
(***************************************************************************)
EXTENDS Naturals, Sequences

(* The nine keywords; what each one means to the compilers. *)
Moves   == {"darling", "hold"}
Adds    == {"my", "hand"}
Effects == {"nothing", "beats", "holiday"}
Keyword == Moves \cup Adds \cup Effects \cup {"a", "jet2"}

TokenType == Keyword \cup {"INVALID", "EOF"}

(* The i-th result of nbajh_lexer_next_token: end of file is sticky. *)
TokenAt(source, i) == IF i \in DOMAIN source THEN source[i] ELSE "EOF"

(* Starting at token i, n tokens of one type and then one of another: what *)
(* the run-length loops of the emit_additive functions look for.           *)
IsRun(source, i, n) ==
  /\ \A k \in i .. i + n - 1 : TokenAt(source, k) = TokenAt(source, i)
  /\ TokenAt(source, i + n) # TokenAt(source, i)

(* enum nbajh_error. *)
CompilerErrors == {"INVALID_TOKEN", "UNEXPECTED_LOOP_END", "UNCLOSED_LOOPS",
                   "INTERNAL", "DP_OUT_OF_BOUNDS", "MALLOC"}
RunErrors      == {"DP_OUT_OF_BOUNDS", "END_OF_INPUT_FILE", "IO", "INVALID_OP"}
NbajhError     == CompilerErrors \cup RunErrors
                    \cup {"SUCCESS", "INVALID_TARGET", "JUMP_TOO_LARGE"}

=============================================================================
