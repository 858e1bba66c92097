------------------------------- MODULE MCLexer -------------------------------
(* Every text of up to MaxLen characters that can spell the short keywords, *)
(* and the long keywords, whole, cut short or run together, one after       *)
(* another with every kind of separator.                                    *)
EXTENDS Lexer

CONSTANT MaxLen

Alphabet == {"a", "m", "y", COMMENT, "\n", " "}

Keywords == {Spelling[k] : k \in Keyword}
Cut(w)   == {SubSeq(w, 1, n) : n \in 1 .. Len(w) - 1}
Words    == Keywords \cup UNION {Cut(w) : w \in Keywords}
              \cup {w \o <<"x">> : w \in Keywords}
Separators == {<<>>, <<"\t">>, <<"\r", "\n">>, <<COMMENT, "a", "\n">>}

MCTexts ==
  UNION {[1 .. n -> Alphabet] : n \in 0 .. MaxLen}
    \cup {v \o s \o w : v \in Words, s \in Separators, w \in Keywords}

=============================================================================
