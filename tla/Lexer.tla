-------------------------------- MODULE Lexer --------------------------------
(***************************************************************************)
(* The lexer (lexer.c): one turn of the loop of nbajh_lexer_next_token per *)
(* step.  The caller is a compiler or the token printer: it asks for one   *)
(* token after another and stops at an invalid one or at the end of file.  *)
(*                                                                         *)
(* `text' is what the stream delivers before fgetc first returns EOF: the  *)
(* whole file or, as an error is taken for the end of file, the part of it *)
(* before a read error.  `rest' is what is still to be delivered,          *)
(* characters pushed back with ungetc included.                            *)
(***************************************************************************)
EXTENDS Tokens, FiniteSets, SequencesExt

CONSTANT Texts \* the texts of the source files

(* One-character strings; x stands for every character of no keyword. *)
Spelling ==
  [darling |-> <<"d", "a", "r", "l", "i", "n", "g">>,
   hold    |-> <<"h", "o", "l", "d">>,
   my      |-> <<"m", "y">>,
   hand    |-> <<"h", "a", "n", "d">>,
   nothing |-> <<"n", "o", "t", "h", "i", "n", "g">>,
   beats   |-> <<"b", "e", "a", "t", "s">>,
   a       |-> <<"a">>,
   jet2    |-> <<"j", "e", "t", "2">>,
   holiday |-> <<"h", "o", "l", "i", "d", "a", "y">>]

Space   == {"\t", "\n", "\r", " "}
COMMENT == ";"
Letter  == UNION {Range(Spelling[k]) : k \in Keyword} \cup {"x"}
Char    == Letter \cup Space \cup {COMMENT}

ASSUME TextsAssumption == Texts \subseteq Seq(Char)

VARIABLES
  text,   \* the characters of the source file
  rest,   \* those the stream still has to deliver
  line,   \* lexer->line
  col,    \* lexer->col
  tokens  \* the tokens returned so far

vars == <<text, rest, line, col, tokens>>

Init ==
  /\ text \in Texts
  /\ rest = text
  /\ line = 1
  /\ col = 0
  /\ tokens = <<>>

IsTokenChar(ch) == ch \notin Space \cup {COMMENT}

Returned == {tokens[k].type : k \in DOMAIN tokens}
Calling  == Returned \cap {"INVALID", "EOF"} = {}

(* What the stream delivers after the first n characters of rest. *)
After(n) == SubSeq(rest, n + 1, Len(rest))

(* Mutant: columns counted from zero. *)
ZeroBased(type) == [type |-> type, line |-> line, col |-> col]

(* The token at the character read first in this turn. *)
At(type) == [type |-> type, line |-> line, col |-> col + 1]

(* Mutant: what follows a keyword is not looked at. *)
NeverRunsOn(s) == FALSE

(* The peek behind a complete keyword: more characters of the same word. *)
RunsOn(s) == s # <<>> /\ IsTokenChar(Head(s))

(* Characters the switches and comparisons accept before they find a       *)
(* mismatch or the end of a keyword.                                       *)
Matched ==
  Max({n \in 0 .. Len(rest) :
         \E k \in Keyword : IsPrefix(SubSeq(rest, 1, n), Spelling[k])})

(* nbajh_lexer_skip_line: everything up to a new line or the end of file,  *)
(* and then a new line is pushed back in either case.                      *)
SkipComment ==
  /\ Calling /\ rest # <<>> /\ Head(rest) = COMMENT
  /\ LET eol == Min({i \in 1 .. Len(rest) : rest[i] = "\n"} \cup {Len(rest) + 1})
     IN  /\ rest' = <<"\n">> \o After(eol)
         /\ col' = col + eol
  /\ UNCHANGED <<text, line, tokens>>

NewLine ==
  /\ Calling /\ rest # <<>> /\ Head(rest) = "\n"
  /\ rest' = After(1)
  /\ line' = line + 1
  /\ col' = 0
  /\ UNCHANGED <<text, tokens>>

SkipSpace ==
  /\ Calling /\ rest # <<>> /\ Head(rest) \in Space \ {"\n"}
  /\ rest' = After(1)
  /\ col' = col + 1
  /\ UNCHANGED <<text, line, tokens>>

(* A whole keyword that ends where its word ends. *)
MatchToken ==
  /\ Calling /\ rest # <<>> /\ IsTokenChar(Head(rest))
  /\ \E k \in Keyword :
       /\ Spelling[k] = SubSeq(rest, 1, Matched)
       /\ tokens' = Append(tokens, At(IF RunsOn(After(Matched)) THEN "INVALID" ELSE k))
  /\ rest' = After(Matched)
  /\ col' = col + Matched
  /\ UNCHANGED <<text, line>>

(* Anything else: the character that does not match is consumed too, be it *)
(* a new line, a semicolon or the end of file.                             *)
Mismatch ==
  /\ Calling /\ rest # <<>> /\ IsTokenChar(Head(rest))
  /\ \A k \in Keyword : Spelling[k] # SubSeq(rest, 1, Matched)
  /\ tokens' = Append(tokens, At("INVALID"))
  /\ rest' = After(Matched + 1)
  /\ col' = col + Matched + 1
  /\ UNCHANGED <<text, line>>

EndOfFile ==
  /\ Calling /\ rest = <<>>
  /\ tokens' = Append(tokens, At("EOF"))
  /\ col' = col + 1
  /\ UNCHANGED <<text, rest, line>>

Next ==
  \/ SkipComment
  \/ NewLine
  \/ SkipSpace
  \/ MatchToken
  \/ Mismatch
  \/ EndOfFile

Spec == Init /\ [][Next]_vars

-----------------------------------------------------------------------------
(* The words of a text, found without reading it in order.                 *)

InComment(i) ==
  \E j \in 1 .. i : text[j] = COMMENT /\ \A m \in j .. i : text[m] # "\n"

IsWordChar(i) == i \in DOMAIN text /\ IsTokenChar(text[i]) /\ ~InComment(i)

WordStarts == {i \in DOMAIN text : IsWordChar(i) /\ ~IsWordChar(i - 1)}

(* The word that starts at i. *)
Word(i) ==
  LET end == Min({j \in i .. Len(text) + 1 : ~IsWordChar(j)})
  IN  SubSeq(text, i, end - 1)

LineEndsBefore(i) == {j \in 1 .. i - 1 : text[j] = "\n"}

(* The token that the word at i is. *)
TokenOfWord(i) ==
  [type |-> IF \E k \in Keyword : Spelling[k] = Word(i)
            THEN CHOOSE k \in Keyword : Spelling[k] = Word(i)
            ELSE "INVALID",
   line |-> 1 + Cardinality(LineEndsBefore(i)),
   col  |-> i - Max(LineEndsBefore(i) \cup {0})]

(* i is the start of the k-th word. *)
IsKthWord(k, i) ==
  /\ i \in WordStarts
  /\ Cardinality({j \in WordStarts : j <= i}) = k

TypeOK ==
  /\ text \in Texts
  /\ rest \in Seq(Char)
  /\ line \in Nat \ {0}
  /\ col \in Nat
  /\ tokens \in Seq([type : TokenType, line : Nat \ {0}, col : Nat \ {0}])

(***************************************************************************)
(* The k-th token is the k-th word: words are what is left of the text     *)
(* once comments and white space are taken out (language_specification.md, *)
(* "Comments", "Whitespace"), none is skipped, split or joined with a      *)
(* neighbour, an invalid one is noticed, and each is reported at the line  *)
(* and column where it starts.  The end of file is found behind the last   *)
(* word and not before.                                                    *)
(***************************************************************************)
TokensAreWords ==
  \A k \in DOMAIN tokens :
    IF tokens[k].type = "EOF"
    THEN k = Cardinality(WordStarts) + 1
    ELSE \E i \in WordStarts : IsKthWord(k, i) /\ tokens[k] = TokenOfWord(i)

(***************************************************************************)
(* Comments are ignored (language_specification.md: "Source code can       *)
(* contain comments that will be ignored during lexical analysis"): the    *)
(* end of file is reported on the last line of the text, whether or not    *)
(* that line has a comment.                                                *)
(***************************************************************************)
EndOfFileOnLastLine ==
  \A k \in DOMAIN tokens : tokens[k].type = "EOF" =>
    tokens[k].line = 1 + Cardinality(LineEndsBefore(Len(text) + 1))

=============================================================================
