---------------------------- MODULE Lexer_proofs ----------------------------
(***************************************************************************)
(* The lexer for texts of any length: the tokens are the words.  `Reading' *)
(* relates the stream to a position of the text.                           *)
(***************************************************************************)
EXTENDS Lexer, FiniteSetTheorems, SequenceTheorems, TLAPS

-----------------------------------------------------------------------------
(* Least and greatest members, keywords and their spelling.                *)

LEMMA LeastMember ==
  ASSUME NEW T \in SUBSET Nat, T # {}
  PROVE  Min(T) \in T /\ \A y \in T : Min(T) <= y
<1> DEFINE R == OpToRel(<, Nat)
<1>1. \A x, y \in Nat : <<y, x>> \in R <=> y < x
  BY DEF OpToRel
<1>2. IsWellFoundedOn(R, Nat)
  BY NatLessThanWellFounded
<1> HIDE DEF R
<1>3. PICK x \in T : \A y \in T : ~(<<y, x>> \in R)
  BY <1>2, WFMin
<1>4. ASSUME NEW y \in T PROVE x <= y
  <2>1. x \in Nat /\ y \in Nat
    OBVIOUS
  <2>2. ~(y < x)
    BY <1>1, <1>3, <2>1
  <2> QED
    BY <2>1, <2>2
<1> QED
  BY <1>3, <1>4 DEF Min

LEMMA GreatestMember ==
  ASSUME NEW T \in SUBSET Nat, T # {}, NEW n \in Nat, \A x \in T : x <= n
  PROVE  Max(T) \in T /\ \A y \in T : y <= Max(T)
<1> DEFINE D == {n - x : x \in T}
<1>1. D \in SUBSET Nat /\ D # {}
  <2>1. \A x \in T : n - x \in Nat
    OBVIOUS
  <2> QED
    BY <2>1
<1>2. Min(D) \in D /\ \A d \in D : Min(D) <= d
  BY <1>1, LeastMember
<1>3. PICK x \in T : Min(D) = n - x
  BY <1>2
<1>4. \A y \in T : Min(D) <= n - y
  BY <1>2
<1>5. \A y \in T : x >= y
  BY <1>3, <1>4
<1> QED
  BY <1>5 DEF Max

LEMMA SpellingFacts ==
  /\ \A k \in Keyword : /\ Spelling[k] \in Seq(Letter)
                        /\ Len(Spelling[k]) \in Nat \ {0}
                        /\ \A c \in 1 .. Len(Spelling[k]) : IsTokenChar(Spelling[k][c])
  /\ \A k, l \in Keyword : Spelling[k] = Spelling[l] => k = l
<1> DEFINE S(k) == Spelling[k]
           L == {"a", "b", "d", "e", "g", "h", "i", "j", "l", "m", "n", "o", "r", "s",
                 "t", "y", "2"}
<1>1. Keyword = {"darling", "hold", "my", "hand", "nothing", "beats", "a", "jet2", "holiday"}
  BY DEF Keyword, Moves, Adds, Effects
<1>2. /\ S("darling") = <<"d", "a", "r", "l", "i", "n", "g">>
      /\ S("hold") = <<"h", "o", "l", "d">>
      /\ S("my") = <<"m", "y">>
      /\ S("hand") = <<"h", "a", "n", "d">>
      /\ S("nothing") = <<"n", "o", "t", "h", "i", "n", "g">>
      /\ S("beats") = <<"b", "e", "a", "t", "s">>
      /\ S("a") = <<"a">>
      /\ S("jet2") = <<"j", "e", "t", "2">>
      /\ S("holiday") = <<"h", "o", "l", "i", "d", "a", "y">>
  BY DEF Spelling
<1> HIDE DEF S
<1>3. /\ Len(S("darling")) = 7 /\ S("darling")[1] = "d"
      /\ Len(S("hold")) = 4 /\ S("hold")[1] = "h" /\ S("hold")[2] = "o"
      /\ Len(S("my")) = 2 /\ S("my")[1] = "m"
      /\ Len(S("hand")) = 4 /\ S("hand")[1] = "h" /\ S("hand")[2] = "a"
      /\ Len(S("nothing")) = 7 /\ S("nothing")[1] = "n"
      /\ Len(S("beats")) = 5 /\ S("beats")[1] = "b"
      /\ Len(S("a")) = 1 /\ S("a")[1] = "a"
      /\ Len(S("jet2")) = 4 /\ S("jet2")[1] = "j"
      /\ Len(S("holiday")) = 7 /\ S("holiday")[1] = "h"
  BY <1>2
<1>4. \A k, l \in Keyword : S(k) = S(l) => k = l
  BY <1>1, <1>3
<1>5. \A k \in Keyword : /\ S(k) \in Seq(Range(S(k))) /\ Len(S(k)) \in Nat \ {0}
                          /\ S(k) \in Seq(L)
  <2>1. \A k \in Keyword : S(k) \in Seq(L)
    <3>1. <<"d", "a", "r", "l", "i", "n", "g">> \in Seq(L)
      OBVIOUS
    <3>2. <<"h", "o", "l", "d">> \in Seq(L)
      OBVIOUS
    <3>3. <<"m", "y">> \in Seq(L)
      OBVIOUS
    <3>4. <<"h", "a", "n", "d">> \in Seq(L)
      OBVIOUS
    <3>5. <<"n", "o", "t", "h", "i", "n", "g">> \in Seq(L)
      OBVIOUS
    <3>6. <<"b", "e", "a", "t", "s">> \in Seq(L)
      OBVIOUS
    <3>7. <<"a">> \in Seq(L)
      OBVIOUS
    <3>8. <<"j", "e", "t", "2">> \in Seq(L)
      OBVIOUS
    <3>9. <<"h", "o", "l", "i", "d", "a", "y">> \in Seq(L)
      OBVIOUS
    <3> QED
      BY <1>1, <1>2, <3>1, <3>2, <3>3, <3>4, <3>5, <3>6, <3>7, <3>8, <3>9, Zenon
  <2>2. \A k \in Keyword : S(k) \in Seq(L) /\ Len(S(k)) \in Nat \ {0}
    BY <1>1, <1>3, <2>1
  <2>3. \A s \in Seq(L) : s \in Seq(Range(s))
    BY DEF Range
  <2> QED
    BY <2>2, <2>3
<1>6. \A k \in Keyword : Range(S(k)) \subseteq Letter
  BY DEF Letter, S
<1>7. \A k \in Keyword : \A c \in 1 .. Len(S(k)) : IsTokenChar(S(k)[c])
  <2>1. \A c \in L : IsTokenChar(c)
    BY DEF IsTokenChar, Space, COMMENT
  <2> HIDE DEF L
  <2> QED
    BY <1>5, <2>1
<1> QED
  BY <1>4, <1>5, <1>6, <1>7 DEF S

-----------------------------------------------------------------------------
(* Positions of the text.                                                  *)

(* Where the word starts that are not behind p. *)
Behind(p) == {j \in WordStarts : j <= p}

LEMMA CommentsStart ==
  ASSUME NEW p \in Nat, NEW q \in Nat, p <= q, ~InComment(p),
         \A j \in p + 1 .. q : text[j] # COMMENT
  PROVE  ~InComment(q)
<1> SUFFICES ASSUME InComment(q) PROVE FALSE
  OBVIOUS
<1>1. PICK j \in 1 .. q : text[j] = COMMENT /\ \A m \in j .. q : text[m] # "\n"
  BY DEF InComment
<1>2. j \in 1 .. p
  BY <1>1
<1>3. \A m \in j .. p : text[m] # "\n"
  BY <1>1
<1> QED
  BY <1>1, <1>2, <1>3 DEF InComment

LEMMA LineFacts ==
  ASSUME NEW p \in Nat
  PROVE  /\ IsFiniteSet(LineEndsBefore(p + 1))
         /\ Cardinality(LineEndsBefore(p + 1)) \in Nat
         /\ LineEndsBefore(p + 1) \cup {0} \in SUBSET (0 .. p)
         /\ Max(LineEndsBefore(p + 1) \cup {0}) \in 0 .. p
<1>1. LineEndsBefore(p + 1) \subseteq 1 .. p
  BY DEF LineEndsBefore
<1>2. IsFiniteSet(LineEndsBefore(p + 1)) /\ Cardinality(LineEndsBefore(p + 1)) \in Nat
  <2>1. IsFiniteSet(1 .. p)
    BY FS_Interval
  <2> QED
    BY <1>1, <2>1, FS_Subset, FS_CardinalityType
<1>3. LineEndsBefore(p + 1) \cup {0} \in SUBSET (0 .. p)
  BY <1>1
<1>4. Max(LineEndsBefore(p + 1) \cup {0}) \in 0 .. p
  <2>1. \A x \in LineEndsBefore(p + 1) \cup {0} : x \in Nat /\ x <= p
    BY <1>3
  <2> QED
    BY <1>3, <2>1, GreatestMember
<1> QED
  BY <1>2, <1>3, <1>4

LEMMA LineStays ==
  ASSUME NEW p \in Nat, NEW q \in Nat, p <= q, \A j \in p + 1 .. q : text[j] # "\n"
  PROVE  LineEndsBefore(q + 1) = LineEndsBefore(p + 1)
  BY DEF LineEndsBefore

LEMMA LineEnds ==
  ASSUME NEW p \in Nat, NEW q \in Nat, q = p + 1, text[q] = "\n"
  PROVE  /\ Cardinality(LineEndsBefore(q + 1)) = Cardinality(LineEndsBefore(p + 1)) + 1
         /\ Max(LineEndsBefore(q + 1) \cup {0}) = q
<1>1. /\ LineEndsBefore(q + 1) = LineEndsBefore(p + 1) \cup {q}
      /\ q \notin LineEndsBefore(p + 1)
      /\ \A x \in LineEndsBefore(p + 1) : x \in Nat /\ x <= q
  BY DEF LineEndsBefore
<1>2. Cardinality(LineEndsBefore(q + 1)) = Cardinality(LineEndsBefore(p + 1)) + 1
  BY <1>1, LineFacts, FS_AddElement
<1> DEFINE T == LineEndsBefore(q + 1) \cup {0}
<1>3. T \in SUBSET Nat /\ q \in T /\ \A x \in T : x <= q
  BY <1>1
<1>4. Max(T) \in T /\ \A y \in T : y <= Max(T)
  BY <1>3, GreatestMember
<1> QED
  BY <1>2, <1>3, <1>4

LEMMA BehindFacts ==
  ASSUME text \in Seq(Char), NEW p \in Nat
  PROVE  /\ IsFiniteSet(Behind(p)) /\ Cardinality(Behind(p)) \in Nat
         /\ \A q \in Nat : p <= q /\ (\A j \in p + 1 .. q : j \notin WordStarts) =>
              Behind(q) = Behind(p)
         /\ p + 1 \in WordStarts =>
              Cardinality(Behind(p + 1)) = Cardinality(Behind(p)) + 1
         /\ p >= Len(text) => Behind(p) = WordStarts
<1>1. Len(text) \in Nat /\ \A j \in WordStarts : j \in Nat /\ j <= Len(text)
  BY DEF WordStarts
<1> DEFINE N == Len(text)
<1> HIDE DEF N
<1>2. IsFiniteSet(Behind(p)) /\ Cardinality(Behind(p)) \in Nat
  <2>1. IsFiniteSet(0 .. p)
    BY FS_Interval
  <2>2. Behind(p) \subseteq 0 .. p
    BY <1>1 DEF Behind
  <2> QED
    BY <2>1, <2>2, FS_Subset, FS_CardinalityType
<1>3. ASSUME NEW q \in Nat, p <= q, \A j \in p + 1 .. q : j \notin WordStarts
      PROVE  Behind(q) = Behind(p)
  BY <1>1, <1>3 DEF Behind
<1>4. ASSUME p + 1 \in WordStarts
      PROVE  Cardinality(Behind(p + 1)) = Cardinality(Behind(p)) + 1
  <2>1. Behind(p + 1) = Behind(p) \cup {p + 1} /\ p + 1 \notin Behind(p)
    BY <1>1, <1>4 DEF Behind
  <2> QED
    BY <1>2, <2>1, FS_AddElement
<1>5. p >= Len(text) => Behind(p) = WordStarts
  BY <1>1 DEF Behind
<1> QED
  BY <1>2, <1>3, <1>4, <1>5

-----------------------------------------------------------------------------
(* Words and what the lexer matches of them.                               *)

(* The first n characters behind p are the beginning of the keyword k. *)
Begins(k, p, n) ==
  n <= Len(Spelling[k]) /\ \A c \in 1 .. n : text[p + c] = Spelling[k][c]

(* Where the word that starts behind p ends. *)
LEMMA WordFacts ==
  ASSUME text \in Seq(Char), NEW p \in Nat, p + 1 \in DOMAIN text,
         IsTokenChar(text[p + 1]), ~InComment(p)
  PROVE  \E n \in Nat \ {0} :
           /\ p + n <= Len(text)
           /\ Word(p + 1) = SubSeq(text, p + 1, p + n)
           /\ \A c \in 1 .. n : IsTokenChar(text[p + c])
           /\ p + n < Len(text) => ~IsTokenChar(text[p + n + 1])
<1> DEFINE N == Len(text)
           T == {j \in p + 1 .. N + 1 : ~IsWordChar(j)}
           end == Min(T)
<1>1. N \in Nat /\ DOMAIN text = 1 .. N /\ p + 1 <= N
  OBVIOUS
<1>2. N + 1 \in T
  BY <1>1 DEF IsWordChar
<1>3. T \in SUBSET Nat
  BY <1>1
<1>4. end \in T /\ \A j \in T : end <= j
  BY <1>2, <1>3, LeastMember
<1> HIDE DEF end
<1>5. end \in p + 1 .. N + 1 /\ ~IsWordChar(end)
      /\ \A j \in p + 1 .. end - 1 : IsWordChar(j)
  BY <1>1, <1>4
<1>6. \A j \in p + 1 .. N : IsTokenChar(text[j]) => text[j] # COMMENT
  BY DEF IsTokenChar
<1>7. \A j \in p + 1 .. end - 1 : j \in 1 .. N /\ IsTokenChar(text[j])
  BY <1>1, <1>5 DEF IsWordChar
<1>8. ASSUME end <= N, IsTokenChar(text[end]) PROVE FALSE
  <2>1. \A j \in p + 1 .. end : text[j] # COMMENT
    BY <1>5, <1>6, <1>7, <1>8
  <2>2. ~InComment(end)
    BY <1>1, <1>5, <2>1, CommentsStart
  <2> QED
    BY <1>1, <1>5, <1>8, <2>2 DEF IsWordChar
<1>9. end # p + 1
  BY <1>1, <1>8
<1> DEFINE n == end - p - 1
<1>10. n \in Nat \ {0} /\ p + n = end - 1 /\ p + n <= N /\ p + n + 1 = end
  BY <1>1, <1>5, <1>9
<1>11. Word(p + 1) = SubSeq(text, p + 1, end - 1)
  BY DEF Word, end
<1> HIDE DEF n
<1>12. \A c \in 1 .. n : IsTokenChar(text[p + c])
  BY <1>7, <1>10
<1>13. p + n < N => ~IsTokenChar(text[p + n + 1])
  BY <1>1, <1>8, <1>10
<1> QED
  BY <1>10, <1>11, <1>12, <1>13

LEMMA SuffixFacts ==
  ASSUME NEW t \in Seq(Char), NEW q \in 0 .. Len(t)
  PROVE  LET s == SubSeq(t, q + 1, Len(t))
         IN  /\ s \in Seq(Char)
             /\ Len(s) = Len(t) - q
             /\ s = <<>> <=> q = Len(t)
             /\ s # <<>> => Head(s) = t[q + 1]
             /\ \A i \in 1 .. Len(t) - q : s[i] = t[q + i]
<1> DEFINE s == SubSeq(t, q + 1, Len(t))
           N == Len(t)
<1>1. N \in Nat /\ q \in Nat /\ q <= N
  OBVIOUS
<1>2. s \in Seq(Char) /\ Len(s) = N - q /\ \A i \in 1 .. N - q : s[i] = t[q + i]
  OBVIOUS
<1> HIDE DEF s, N
<1>3. s = <<>> <=> Len(s) = 0
  BY <1>2
<1>4. s # <<>> => Head(s) = s[1] /\ 1 \in 1 .. N - q
  BY <1>1, <1>2, <1>3
<1>5. s = <<>> <=> q = N
  BY <1>1, <1>2, <1>3
<1> QED
  BY <1>2, <1>4, <1>5 DEF s, N

LEMMA MatchedFacts ==
  ASSUME text \in Seq(Char), NEW p \in 0 .. Len(text),
         rest = SubSeq(text, p + 1, Len(text))
  PROVE  /\ Len(rest) = Len(text) - p
         /\ rest = <<>> <=> p = Len(text)
         /\ rest # <<>> => Head(rest) = text[p + 1]
         /\ \A i \in 1 .. Len(text) - p : rest[i] = text[p + i]
         /\ \A n \in 0 .. Len(text) - p : After(n) = SubSeq(text, p + n + 1, Len(text))
         /\ Matched \in 0 .. Len(text) - p
         /\ \E k \in Keyword : Begins(k, p, Matched)
         /\ \A k \in Keyword : \A n \in 0 .. Len(text) - p : Begins(k, p, n) => n <= Matched
         /\ \A k \in Keyword : Spelling[k] = SubSeq(rest, 1, Matched)
              <=> Len(Spelling[k]) = Matched /\ Begins(k, p, Matched)
<1> DEFINE N == Len(text)
           T == {n \in 0 .. Len(rest) :
                   \E k \in Keyword : IsPrefix(SubSeq(rest, 1, n), Spelling[k])}
<1>1. N \in Nat /\ p \in Nat /\ p <= N
  OBVIOUS
<1>2. /\ rest \in Seq(Char) /\ Len(rest) = N - p
      /\ \A i \in 1 .. N - p : rest[i] = text[p + i]
  OBVIOUS
<1>3. rest = <<>> <=> p = N
  BY SuffixFacts
<1>4. rest # <<>> => Head(rest) = text[p + 1]
  BY SuffixFacts
<1>5. \A n \in 0 .. N - p : After(n) = SubSeq(text, p + n + 1, N)
  <2> SUFFICES ASSUME NEW n \in 0 .. N - p
               PROVE  After(n) = SubSeq(text, p + n + 1, N)
    OBVIOUS
  <2>1. After(n) = SubSeq(rest, n + 1, N - p)
    BY <1>2 DEF After
  <2> QED
    BY <1>1, <1>2, <2>1
<1> HIDE DEF N
<1>6. ASSUME NEW n \in 0 .. N - p, NEW k \in Keyword
      PROVE  /\ IsPrefix(SubSeq(rest, 1, n), Spelling[k]) <=> Begins(k, p, n)
             /\ Spelling[k] = SubSeq(rest, 1, n) <=> Len(Spelling[k]) = n /\ Begins(k, p, n)
  <2> DEFINE s == Spelling[k]
             r == SubSeq(rest, 1, n)
  <2>1. s \in Seq(Letter) /\ Len(s) \in Nat
    BY SpellingFacts
  <2>2. r \in Seq(Char) /\ Len(r) = n /\ \A i \in 1 .. n : r[i] = text[p + i]
    BY <1>2
  <2>3. IsPrefix(r, s) <=> n <= Len(s) /\ \A c \in 1 .. n : r[c] = s[c]
    <3>1. SubSeq(r, 1, n) = r
      <4> HIDE DEF r
      <4> QED
        BY <2>2, SubSeqFull
    <3>2. n <= Len(s) => Len(SubSeq(s, 1, n)) = n /\ SubSeq(s, 1, n) \in Seq(Letter)
                        /\ \A c \in 1 .. n : SubSeq(s, 1, n)[c] = s[c]
      BY <2>1
    <3> HIDE DEF s, r
    <3>3. n <= Len(s) => (r = SubSeq(s, 1, n) <=> \A c \in 1 .. n : r[c] = s[c])
      BY <2>2, <3>2
    <3> QED
      BY <2>2, <3>1, <3>3 DEF IsPrefix
  <2>4. s = r <=> Len(s) = n /\ \A c \in 1 .. n : r[c] = s[c]
    <3> HIDE DEF s, r
    <3> QED
      BY <2>1, <2>2
  <2>5. (\A c \in 1 .. n : r[c] = s[c]) <=> \A c \in 1 .. n : text[p + c] = s[c]
    <3> HIDE DEF s, r
    <3> QED
      BY <2>2
  <2>6. Begins(k, p, n) <=> n <= Len(s) /\ \A c \in 1 .. n : text[p + c] = s[c]
    BY DEF Begins
  <2>7. Len(s) = n => n <= Len(s)
    OBVIOUS
  <2> HIDE DEF s, r
  <2>8. (IsPrefix(r, s) <=> Begins(k, p, n)) /\ (s = r <=> Len(s) = n /\ Begins(k, p, n))
    BY <2>3, <2>4, <2>5, <2>6, <2>7, Zenon
  <2> QED
    BY <2>8 DEF s, r
<1>7. T = {n \in 0 .. N - p : \E k \in Keyword : Begins(k, p, n)}
  BY <1>2, <1>6
<1>8. 0 \in T
  <2>1. Begins("a", p, 0) /\ "a" \in Keyword
    BY SpellingFacts DEF Begins, Keyword
  <2> QED
    BY <1>1, <1>7, <2>1
<1>9. Max(T) \in T /\ \A n \in T : n <= Max(T)
  <2>1. T \in SUBSET Nat /\ N - p \in Nat /\ \A n \in T : n <= N - p
    BY <1>1, <1>7
  <2> QED
    BY <1>8, <2>1, GreatestMember
<1>10. Matched = Max(T)
  BY DEF Matched
<1> HIDE DEF T
<1> QED
  BY <1>2, <1>3, <1>4, <1>5, <1>6, <1>7, <1>9, <1>10 DEF N

(* What a match of the lexer says of the word that starts there. *)
LEMMA TypeOfWord ==
  ASSUME text \in Seq(Char), NEW p \in 0 .. Len(text),
         rest = SubSeq(text, p + 1, Len(text)), p + 1 \in DOMAIN text,
         IsTokenChar(text[p + 1]), ~InComment(p)
  PROVE  /\ \A k \in Keyword : Spelling[k] = SubSeq(rest, 1, Matched) =>
              TokenOfWord(p + 1).type = IF RunsOn(After(Matched)) THEN "INVALID" ELSE k
         /\ (\A k \in Keyword : Spelling[k] # SubSeq(rest, 1, Matched)) =>
              TokenOfWord(p + 1).type = "INVALID"
<1> DEFINE N == Len(text)
           M == Matched
<1>1. N \in Nat /\ p \in Nat /\ p < N
  OBVIOUS
<1>2. /\ M \in 0 .. N - p
      /\ \E k \in Keyword : Begins(k, p, M)
      /\ \A k \in Keyword : \A n \in 0 .. N - p : Begins(k, p, n) => n <= M
      /\ \A k \in Keyword : Spelling[k] = SubSeq(rest, 1, M)
           <=> Len(Spelling[k]) = M /\ Begins(k, p, M)
      /\ After(M) = SubSeq(text, p + M + 1, N)
  BY MatchedFacts
<1>3. PICK n \in Nat \ {0} :
        /\ p + n <= N
        /\ Word(p + 1) = SubSeq(text, p + 1, p + n)
        /\ \A c \in 1 .. n : IsTokenChar(text[p + c])
        /\ p + n < N => ~IsTokenChar(text[p + n + 1])
  BY <1>1, WordFacts
<1>4. RunsOn(After(M)) <=> p + M < N /\ IsTokenChar(text[p + M + 1])
  <2> DEFINE q == p + M
  <2>1. q \in 0 .. N /\ q + 1 = p + M + 1
    <3> HIDE DEF M, N
    <3> QED
      BY <1>1, <1>2
  <2>2. After(M) = SubSeq(text, q + 1, N)
    BY <1>2
  <2> HIDE DEF q, M
  <2>3. /\ After(M) = <<>> <=> q = N
        /\ After(M) # <<>> => Head(After(M)) = text[q + 1]
    BY <2>1, <2>2, SuffixFacts
  <2> QED
    BY <2>1, <2>3 DEF RunsOn, q
<1> DEFINE w == Word(p + 1)
<1>5. w \in Seq(Char) /\ Len(w) = n /\ \A c \in 1 .. n : w[c] = text[p + c]
  <2> DEFINE v == SubSeq(text, p + 1, p + n)
  <2>1. v \in Seq(Char) /\ Len(v) = n /\ \A c \in 1 .. n : v[c] = text[p + c]
    BY <1>1, <1>3
  <2> QED
    BY <1>3, <2>1
<1> HIDE DEF N, M, w
<1>6. ASSUME NEW k \in Keyword
      PROVE  Spelling[k] = w <=> Len(Spelling[k]) = n /\ Begins(k, p, n)
  <2>1. Spelling[k] \in Seq(Letter) /\ Len(Spelling[k]) \in Nat
    BY SpellingFacts
  <2> DEFINE s == Spelling[k]
  <2>2. Begins(k, p, n) <=> n <= Len(s) /\ \A c \in 1 .. n : text[p + c] = s[c]
    BY DEF Begins
  <2> HIDE DEF s
  <2>3. s \in Seq(Letter) /\ Len(s) \in Nat
    BY <2>1 DEF s
  <2>4. s = w <=> Len(s) = n /\ \A c \in 1 .. n : text[p + c] = s[c]
    <3>1. w \in Seq(Char) /\ Len(w) = n
      BY <1>5
    <3>2. s = w <=> Len(s) = n /\ \A c \in 1 .. n : w[c] = s[c]
      BY <2>3, <3>1
    <3>3. (\A c \in 1 .. n : w[c] = s[c]) <=> \A c \in 1 .. n : text[p + c] = s[c]
      BY <1>5
    <3> QED
      BY <3>2, <3>3
  <2>5. s = w <=> Len(s) = n /\ Begins(k, p, n)
    BY <2>2, <2>3, <2>4
  <2> QED
    BY <2>5 DEF s
(* A keyword that is the word is matched, and nothing else of its length. *)
<1>7. ASSUME NEW k \in Keyword, Spelling[k] = w
      PROVE  M = n /\ Begins(k, p, n)
  <2>1. Len(Spelling[k]) = n /\ Begins(k, p, n)
    BY <1>6, <1>7
  <2>2. n <= M
    BY <1>1, <1>2, <1>3, <2>1
  <2>3. ASSUME n < M PROVE FALSE
    <3>1. PICK l \in Keyword : Begins(l, p, M)
      BY <1>2
    <3>2. n + 1 \in 1 .. M /\ M <= Len(Spelling[l]) /\ text[p + (n + 1)] = Spelling[l][n + 1]
      BY <1>1, <1>2, <1>3, <2>3, <3>1 DEF Begins
    <3>3. IsTokenChar(Spelling[l][n + 1])
      BY <1>2, <3>2, SpellingFacts
    <3>4. p + n < N /\ p + (n + 1) = p + n + 1
      BY <1>1, <1>2, <1>3, <2>3
    <3> QED
      BY <1>3, <3>2, <3>3, <3>4
  <2> QED
    BY <1>2, <2>1, <2>2, <2>3
<1>8. ASSUME NEW k \in Keyword, Spelling[k] = SubSeq(rest, 1, M)
      PROVE  w = Spelling[k] <=> ~RunsOn(After(M))
  <2>1. Len(Spelling[k]) = M /\ Begins(k, p, M) /\ M # 0
    BY <1>2, <1>8, SpellingFacts
  <2>2. CASE RunsOn(After(M))
    <3>1. ASSUME w = Spelling[k] PROVE FALSE
      <4>1. M = n
        BY <1>7, <3>1
      <4> QED
        BY <1>3, <1>4, <2>2, <4>1
    <3> QED
      BY <2>2, <3>1
  <2>3. CASE ~RunsOn(After(M))
    <3>1. \A c \in 1 .. M : IsTokenChar(text[p + c])
      BY <2>1, SpellingFacts DEF Begins
    <3>2. ~(n < M)
      <4> SUFFICES ASSUME n < M PROVE FALSE
        OBVIOUS
      <4>1. n + 1 \in 1 .. M /\ p + n < N /\ p + (n + 1) = p + n + 1
        BY <1>1, <1>2, <1>3
      <4> QED
        BY <1>3, <3>1, <4>1
    <3>3. ~(M < n)
      <4> SUFFICES ASSUME M < n PROVE FALSE
        OBVIOUS
      <4>1. M + 1 \in 1 .. n /\ p + M < N /\ p + (M + 1) = p + M + 1
        BY <1>1, <1>2, <1>3
      <4> QED
        BY <1>3, <1>4, <2>3, <4>1
    <3>4. M = n
      BY <1>2, <3>2, <3>3
    <3> QED
      BY <1>6, <2>1, <2>3, <3>4
  <2> QED
    BY <2>2, <2>3
<1> DEFINE type == TokenOfWord(p + 1).type
<1>9. type = IF \E k \in Keyword : Spelling[k] = w
             THEN CHOOSE k \in Keyword : Spelling[k] = w ELSE "INVALID"
  BY DEF TokenOfWord, w
<1> HIDE DEF type
<1>10. ASSUME NEW k \in Keyword, Spelling[k] = w PROVE type = k
  <2>1. \A l \in Keyword : Spelling[l] = w => l = k
    BY <1>10, SpellingFacts
  <2> QED
    BY <1>9, <1>10, <2>1
<1>11. (\A k \in Keyword : Spelling[k] # w) => type = "INVALID"
  BY <1>9
<1>12. ASSUME NEW k \in Keyword, Spelling[k] = SubSeq(rest, 1, M)
       PROVE  type = IF RunsOn(After(M)) THEN "INVALID" ELSE k
  <2>1. CASE ~RunsOn(After(M))
    BY <1>8, <1>10, <1>12, <2>1
  <2>2. CASE RunsOn(After(M))
    <3>1. ASSUME NEW l \in Keyword, Spelling[l] = w PROVE FALSE
      <4>1. M = n /\ Begins(l, p, n) /\ Len(Spelling[l]) = n
        BY <1>6, <1>7, <3>1
      <4>2. Spelling[l] = SubSeq(rest, 1, M)
        BY <1>2, <4>1
      <4> QED
        BY <1>8, <2>2, <3>1, <4>2
    <3> QED
      BY <1>11, <2>2, <3>1
  <2> QED
    BY <2>1, <2>2
<1>13. ASSUME \A k \in Keyword : Spelling[k] # SubSeq(rest, 1, M)
       PROVE  type = "INVALID"
  <2>1. ASSUME NEW l \in Keyword, Spelling[l] = w PROVE FALSE
    <3>1. M = n /\ Begins(l, p, n) /\ Len(Spelling[l]) = n
      BY <1>6, <1>7, <2>1
    <3> QED
      BY <1>2, <1>13, <3>1
  <2> QED
    BY <1>11, <2>1
<1> QED
  BY <1>12, <1>13 DEF type, M

-----------------------------------------------------------------------------
(* What relates the stream to the text, the position and the tokens.       *)

(* The stream is at the character behind p, which is not inside a comment  *)
(* or a word; but behind a comment, at the end of its line, the column is  *)
(* one ahead, and so is `Finished' of a comment that the file ends with.   *)
Reading(p) ==
  /\ rest = SubSeq(text, p + 1, Len(text))
  /\ line = 1 + Cardinality(LineEndsBefore(p + 1))
  /\ Len(tokens) = Cardinality(Behind(p))
  /\ p + 1 \in DOMAIN text /\ text[p + 1] # "\n" =>
       /\ ~InComment(p)
       /\ IsWordChar(p + 1) => ~IsWordChar(p)
       /\ col = p - Max(LineEndsBefore(p + 1) \cup {0})

Finished ==
  /\ rest \in {<<>>, <<"\n">>}
  /\ Len(tokens) = Cardinality(WordStarts)

IInv ==
  /\ TypeOK
  /\ TokensAreWords
  /\ Calling => Finished \/ \E p \in 0 .. Len(text) : Reading(p)

LEMMA TypeFacts ==
  ASSUME TypeOK
  PROVE  /\ text \in Seq(Char) /\ Len(text) \in Nat /\ DOMAIN text = 1 .. Len(text)
         /\ Len(tokens) \in Nat /\ DOMAIN tokens = 1 .. Len(tokens)
  BY TextsAssumption DEF TypeOK

(* Words are words of the text, which stays. *)
TokenOfStart == [i \in WordStarts |-> TokenOfWord(i)]
PlaceOfStart == [i \in WordStarts |-> Cardinality({j \in WordStarts : j <= i})]

LEMMA TokensByStart ==
  TokensAreWords <=>
    \A k \in DOMAIN tokens :
      IF tokens[k].type = "EOF" THEN k = Cardinality(WordStarts) + 1
      ELSE \E i \in WordStarts : PlaceOfStart[i] = k /\ tokens[k] = TokenOfStart[i]
  BY DEF TokensAreWords, IsKthWord, TokenOfStart, PlaceOfStart

LEMMA TextStays ==
  ASSUME text' = text
  PROVE  /\ WordStarts' = WordStarts
         /\ TokenOfStart' = TokenOfStart
         /\ PlaceOfStart' = PlaceOfStart
         /\ TokensAreWords' <=>
              \A k \in DOMAIN tokens' :
                IF tokens'[k].type = "EOF" THEN k = Cardinality(WordStarts) + 1
                ELSE \E i \in WordStarts : PlaceOfStart[i] = k /\ tokens'[k] = TokenOfStart[i]
<1>1. WordStarts' = WordStarts
  BY DEF WordStarts, IsWordChar, InComment
<1>2. TokenOfStart' = TokenOfStart
  BY <1>1 DEF TokenOfStart, TokenOfWord, Word, IsWordChar, InComment, LineEndsBefore
<1>3. PlaceOfStart' = PlaceOfStart
  BY <1>1 DEF PlaceOfStart
<1>4. TokensAreWords' <=>
        (\A k \in DOMAIN tokens :
           IF tokens[k].type = "EOF" THEN k = Cardinality(WordStarts) + 1
           ELSE \E i \in WordStarts : PlaceOfStart[i] = k /\ tokens[k] = TokenOfStart[i])'
  BY TokensByStart, PTL
<1> QED
  BY <1>1, <1>2, <1>3, <1>4

LEMMA ReadingOn ==
  ASSUME text' = text, NEW q,
         rest' = SubSeq(text, q + 1, Len(text)),
         line' = 1 + Cardinality(LineEndsBefore(q + 1)),
         Len(tokens') = Cardinality(Behind(q)),
         q + 1 \in DOMAIN text /\ text[q + 1] # "\n" =>
           /\ ~InComment(q)
           /\ IsWordChar(q + 1) => ~IsWordChar(q)
           /\ col' = q - Max(LineEndsBefore(q + 1) \cup {0})
  PROVE  Reading(q)'
  BY DEF Reading, Behind, WordStarts, IsWordChar, InComment, LineEndsBefore

LEMMA TokensStay ==
  ASSUME TokensAreWords, text' = text, tokens' = tokens
  PROVE  TokensAreWords'
  BY TokensByStart, TextStays

(* Nothing is returned after a token that is no keyword. *)
LEMMA LastToken ==
  ASSUME TypeOK, NEW t \in [type : {"INVALID", "EOF"}, line : Nat \ {0}, col : Nat \ {0}],
         tokens' = Append(tokens, t)
  PROVE  ~Calling'
<1>1. Len(tokens) + 1 \in DOMAIN tokens' /\ tokens'[Len(tokens) + 1] = t
  BY TypeFacts DEF TypeOK
<1>2. t.type \in Returned' /\ t.type \in {"INVALID", "EOF"}
  BY <1>1 DEF Returned
<1> QED
  BY <1>2 DEF Calling

LEMMA TokenParts ==
  ASSUME NEW i
  PROVE  TokenOfWord(i) = [type |-> TokenOfWord(i).type,
                           line |-> 1 + Cardinality(LineEndsBefore(i)),
                           col  |-> i - Max(LineEndsBefore(i) \cup {0})]
<1> DEFINE type == IF \E k \in Keyword : Spelling[k] = Word(i)
                   THEN CHOOSE k \in Keyword : Spelling[k] = Word(i)
                   ELSE "INVALID"
<1>1. TokenOfWord(i) = [type |-> type,
                        line |-> 1 + Cardinality(LineEndsBefore(i)),
                        col  |-> i - Max(LineEndsBefore(i) \cup {0})]
  BY DEF TokenOfWord
<1> HIDE DEF type
<1> QED
  BY <1>1

(* A token returned is the next word. *)
LEMMA NewToken ==
  ASSUME IInv, NEW p \in 0 .. Len(text), Reading(p), p + 1 \in DOMAIN text,
         IsTokenChar(text[p + 1]), text' = text,
         NEW type \in Keyword \cup {"INVALID"}, type = TokenOfWord(p + 1).type,
         tokens' = Append(tokens, At(type))
  PROVE  /\ TokensAreWords'
         /\ At(type) \in [type : TokenType, line : Nat \ {0}, col : Nat \ {0}]
         /\ tokens' \in Seq([type : TokenType, line : Nat \ {0}, col : Nat \ {0}])
         /\ Len(tokens') = Cardinality(Behind(p + 1))
<1> DEFINE n == Len(tokens)
           Position == [type : TokenType, line : Nat \ {0}, col : Nat \ {0}]
<1>a. TypeOK /\ TokensAreWords
  BY DEF IInv
<1>1. /\ text \in Seq(Char) /\ p \in Nat /\ text[p + 1] # "\n"
      /\ text[p + 1] # COMMENT /\ tokens \in Seq(Position)
      /\ n \in Nat /\ DOMAIN tokens = 1 .. n
  <2>1. text \in Seq(Char) /\ n \in Nat /\ DOMAIN tokens = 1 .. n /\ Len(text) \in Nat
    BY <1>a, TypeFacts
  <2>2. text[p + 1] # "\n" /\ text[p + 1] # COMMENT
    BY DEF IsTokenChar, Space
  <2> QED
    BY <1>a, <2>1, <2>2 DEF TypeOK
<1>2. /\ ~InComment(p)
      /\ IsWordChar(p + 1) => ~IsWordChar(p)
      /\ col = p - Max(LineEndsBefore(p + 1) \cup {0})
      /\ line = 1 + Cardinality(LineEndsBefore(p + 1))
      /\ n = Cardinality(Behind(p))
  BY <1>1 DEF Reading
<1>3. p + 1 \in WordStarts
  <2>1. ~InComment(p + 1)
    <3> DEFINE q == p + 1
    <3>1. q \in Nat /\ p <= q /\ \A j \in p + 1 .. q : text[j] # COMMENT
      BY <1>1
    <3> HIDE DEF q
    <3>2. ~InComment(q)
      BY <1>1, <1>2, <3>1, CommentsStart
    <3> QED
      BY <3>2 DEF q
  <2>2. IsWordChar(p + 1) /\ ~IsWordChar(p + 1 - 1)
    BY <1>1, <1>2, <2>1 DEF IsWordChar
  <2> QED
    BY <2>2 DEF WordStarts
<1>4. Cardinality(Behind(p + 1)) = n + 1
  BY <1>1, <1>2, <1>3, BehindFacts
<1>5. At(type) = TokenOfWord(p + 1) /\ At(type) \in Position
  <2>1. /\ Max(LineEndsBefore(p + 1) \cup {0}) \in 0 .. p
        /\ Cardinality(LineEndsBefore(p + 1)) \in Nat
    BY <1>1, LineFacts
  <2>2. col + 1 = p + 1 - Max(LineEndsBefore(p + 1) \cup {0})
    BY <1>1, <1>2, <2>1
  <2>3. At(type) = TokenOfWord(p + 1)
    <3> DEFINE i == p + 1
    <3>1. /\ type = TokenOfWord(i).type
          /\ line = 1 + Cardinality(LineEndsBefore(i))
          /\ col + 1 = i - Max(LineEndsBefore(i) \cup {0})
      BY <1>1, <1>2, <2>1, <2>2
    <3> HIDE DEF i
    <3>2. At(type) = TokenOfWord(i)
      BY <3>1, TokenParts, Zenon DEF At
    <3> QED
      BY <3>2 DEF i
  <2>4. type \in TokenType /\ line \in Nat \ {0} /\ col + 1 \in Nat \ {0}
    BY <1>1, <1>2, <2>1, <2>2 DEF TokenType
  <2> QED
    BY <2>3, <2>4 DEF At
<1>6. /\ tokens' \in Seq(Position) /\ Len(tokens') = n + 1
      /\ \A k \in 1 .. n : tokens'[k] = tokens[k]
      /\ tokens'[n + 1] = At(type)
  BY <1>1, <1>5
<1>7. TokensAreWords'
  <2> SUFFICES ASSUME NEW k \in 1 .. n + 1
               PROVE  IF tokens'[k].type = "EOF" THEN k = Cardinality(WordStarts) + 1
                      ELSE \E i \in WordStarts :
                             PlaceOfStart[i] = k /\ tokens'[k] = TokenOfStart[i]
    <3>1. DOMAIN tokens' = 1 .. n + 1
      BY <1>6
    <3> QED
      BY <3>1, TextStays
  <2>1. CASE k \in 1 .. n
    <3>1. tokens'[k] = tokens[k] /\ k \in DOMAIN tokens
      BY <1>1, <1>6, <2>1
    <3>2. IF tokens[k].type = "EOF" THEN k = Cardinality(WordStarts) + 1
          ELSE \E i \in WordStarts : PlaceOfStart[i] = k /\ tokens[k] = TokenOfStart[i]
      BY <1>a, <3>1, TokensByStart, Zenon
    <3> HIDE DEF n
    <3> QED
      BY <3>1, <3>2
  <2>2. CASE k = n + 1
    <3>1. At(type).type # "EOF"
      BY DEF At, Keyword, Moves, Adds, Effects
    <3>2. PlaceOfStart[p + 1] = n + 1 /\ TokenOfStart[p + 1] = TokenOfWord(p + 1)
      BY <1>3, <1>4 DEF Behind, PlaceOfStart, TokenOfStart
    <3> QED
      BY <1>3, <1>5, <1>6, <2>2, <3>1, <3>2
  <2> QED
    BY <1>1, <2>1, <2>2
<1> QED
  BY <1>4, <1>5, <1>6, <1>7

-----------------------------------------------------------------------------
(* One lemma per action: the stream is where the tokens say it is.         *)

LEMMA HeadFacts ==
  ASSUME IInv, Calling, rest # <<>>, Head(rest) # "\n"
  PROVE  \E p \in 0 .. Len(text) :
           /\ Reading(p)
           /\ p + 1 \in DOMAIN text /\ Head(rest) = text[p + 1]
           /\ ~InComment(p)
           /\ IsWordChar(p + 1) => ~IsWordChar(p)
           /\ rest = SubSeq(text, p + 1, Len(text))
<1>1. ~Finished
  <2>1. Head(<<"\n">>) = "\n"
    OBVIOUS
  <2> QED
    BY <2>1 DEF Finished
<1>2. PICK p \in 0 .. Len(text) : Reading(p)
  BY <1>1 DEF IInv
<1>3. text \in Seq(Char) /\ Len(text) \in Nat /\ DOMAIN text = 1 .. Len(text)
  BY TypeFacts DEF IInv
<1>4. rest = SubSeq(text, p + 1, Len(text))
  BY <1>2 DEF Reading
<1>5. Head(rest) = text[p + 1] /\ p # Len(text)
  BY <1>3, <1>4, SuffixFacts
<1>6. p + 1 \in DOMAIN text
  <2>1. \A n \in Nat : p \in 0 .. n /\ p # n => p + 1 \in 1 .. n
    OBVIOUS
  <2>2. p + 1 \in 1 .. Len(text)
    BY <1>3, <1>5, <2>1
  <2> QED
    BY <1>3, <2>2
<1> QED
  BY <1>2, <1>4, <1>5, <1>6 DEF Reading

(* n characters are read. *)
LEMMA AfterFacts ==
  ASSUME text \in Seq(Char), NEW p \in 0 .. Len(text), NEW n \in 0 .. Len(text) - p,
         NEW q, q = p + n, rest = SubSeq(text, p + 1, Len(text))
  PROVE  /\ q \in Nat /\ p \in Nat /\ p <= q /\ q \in 0 .. Len(text)
         /\ After(n) = SubSeq(text, q + 1, Len(text))
         /\ After(n) \in Seq(Char)
<1>1. Len(text) \in Nat
  OBVIOUS
<1>2. q \in Nat /\ p \in Nat /\ p <= q /\ q \in 0 .. Len(text)
  BY <1>1
<1>3. After(n) = SubSeq(text, q + 1, Len(text))
  BY <1>1, MatchedFacts
<1> QED
  BY <1>2, <1>3, SuffixFacts

(* No line ends in the n characters that are passed. *)
LEMMA Passed ==
  ASSUME text \in Seq(Char), NEW p \in Nat, NEW n \in Nat, NEW q \in Nat, q = p + n,
         \A j \in p + 1 .. q : text[j] # "\n",
         col = p - Max(LineEndsBefore(p + 1) \cup {0})
  PROVE  col + n = q - Max(LineEndsBefore(q + 1) \cup {0})
<1> DEFINE m == Max(LineEndsBefore(p + 1) \cup {0})
<1>1. LineEndsBefore(q + 1) = LineEndsBefore(p + 1)
  <2>1. p <= q
    OBVIOUS
  <2> QED
    BY <2>1, LineStays
<1>2. m \in Nat
  BY LineFacts
<1>3. Max(LineEndsBefore(q + 1) \cup {0}) = m
  BY <1>1
<1>4. col = p - m
  OBVIOUS
<1> HIDE DEF m
<1>5. col + n = q - m
  BY <1>2, <1>4
<1> QED
  BY <1>3, <1>5

LEMMA SkipSpaceIInv ==
  ASSUME IInv, SkipSpace
  PROVE  IInv'
<1>1. Calling /\ rest # <<>> /\ Head(rest) \in Space \ {"\n"}
      /\ rest' = After(1) /\ col' = col + 1
      /\ text' = text /\ line' = line /\ tokens' = tokens
  BY DEF SkipSpace
<1>2. PICK p \in 0 .. Len(text) :
        /\ Reading(p)
        /\ p + 1 \in DOMAIN text /\ Head(rest) = text[p + 1]
        /\ ~InComment(p)
        /\ rest = SubSeq(text, p + 1, Len(text))
  BY <1>1, HeadFacts DEF Space
<1> DEFINE q == p + 1
<1>3. text \in Seq(Char) /\ Len(text) \in Nat /\ DOMAIN text = 1 .. Len(text) /\ TypeOK
  BY TypeFacts DEF IInv
<1>4. 1 \in 0 .. Len(text) - p /\ q = p + 1
  BY <1>2, <1>3
<1>5. text[q] # "\n" /\ text[q] # COMMENT /\ ~IsTokenChar(text[q])
  BY <1>1, <1>2 DEF Space, COMMENT, IsTokenChar
<1> HIDE DEF q
<1>6. /\ rest' = SubSeq(text, q + 1, Len(text)) /\ rest' \in Seq(Char)
      /\ q \in 0 .. Len(text) /\ q \in Nat /\ p \in Nat /\ p <= q
  BY <1>1, <1>2, <1>3, <1>4, AfterFacts
<1>7. line = 1 + Cardinality(LineEndsBefore(p + 1)) /\ Len(tokens) = Cardinality(Behind(p))
      /\ col = p - Max(LineEndsBefore(p + 1) \cup {0})
  BY <1>2, <1>4, <1>5 DEF Reading
<1>8. /\ LineEndsBefore(q + 1) = LineEndsBefore(p + 1)
      /\ col' = q - Max(LineEndsBefore(q + 1) \cup {0})
  <2>1. \A j \in p + 1 .. q : text[j] # "\n"
    BY <1>4, <1>5, <1>6
  <2>2. LineEndsBefore(q + 1) = LineEndsBefore(p + 1)
    BY <1>6, <2>1, LineStays
  <2>3. \A n \in Nat : q = p + n => col + n = q - Max(LineEndsBefore(q + 1) \cup {0})
    BY <1>3, <1>6, <1>7, <2>1, Passed, Zenon
  <2> QED
    BY <1>1, <1>4, <2>2, <2>3
<1>9. Behind(q) = Behind(p)
  <2>1. q \notin WordStarts
    BY <1>5 DEF WordStarts, IsWordChar
  <2> QED
    BY <1>3, <1>4, <1>6, <2>1, BehindFacts
<1>10. ~InComment(q) /\ ~IsWordChar(q)
  BY <1>2, <1>4, <1>5, <1>6, CommentsStart DEF IsWordChar
<1>11. Reading(q)'
  BY <1>1, <1>6, <1>7, <1>8, <1>9, <1>10, ReadingOn
<1>12. TypeOK'
  BY <1>1, <1>3, <1>6 DEF TypeOK
<1>13. TokensAreWords'
  BY <1>1, TokensStay DEF IInv
<1> QED
  BY <1>1, <1>6, <1>11, <1>12, <1>13 DEF IInv

LEMMA NewLineIInv ==
  ASSUME IInv, NewLine
  PROVE  IInv'
<1>1. Calling /\ rest # <<>> /\ Head(rest) = "\n"
      /\ rest' = After(1) /\ col' = 0 /\ line' = line + 1
      /\ text' = text /\ tokens' = tokens
  BY DEF NewLine
<1>2. text \in Seq(Char) /\ Len(text) \in Nat /\ DOMAIN text = 1 .. Len(text) /\ TypeOK
  BY TypeFacts DEF IInv
<1>3. TokensAreWords'
  BY <1>1, TokensStay DEF IInv
<1>4. CASE Finished
  <2>1. rest = <<"\n">>
    BY <1>1, <1>4 DEF Finished
  <2>2. rest' = <<>>
    <3>1. Len(rest) = 1
      BY <2>1
    <3> QED
      BY <1>1, <3>1, SubSeqEmpty DEF After
  <2>3. Finished'
    <3>1. WordStarts' = WordStarts
      BY <1>1, TextStays
    <3> QED
      BY <1>1, <1>4, <2>2, <3>1 DEF Finished
  <2>4. TypeOK'
    <3>1. rest' \in Seq(Char)
      BY <2>2
    <3> QED
      BY <1>1, <1>2, <3>1 DEF TypeOK
  <2> QED
    BY <1>3, <2>3, <2>4 DEF IInv
<1>5. ASSUME NEW p \in 0 .. Len(text), Reading(p)
      PROVE  IInv'
  <2> DEFINE q == p + 1
  <2>1. rest = SubSeq(text, p + 1, Len(text))
    BY <1>5 DEF Reading
  <2>2. text[q] = "\n" /\ 1 \in 0 .. Len(text) - p /\ q = p + 1
    <3>1. p # Len(text) /\ text[q] = "\n"
      BY <1>1, <1>2, <2>1, SuffixFacts
    <3>2. \A n \in Nat : p \in 0 .. n /\ p # n => 1 \in 0 .. n - p
      OBVIOUS
    <3> QED
      BY <1>2, <3>1, <3>2
  <2> HIDE DEF q
  <2>3. /\ rest' = SubSeq(text, q + 1, Len(text)) /\ rest' \in Seq(Char)
        /\ q \in 0 .. Len(text) /\ q \in Nat /\ p \in Nat /\ p <= q
    BY <1>1, <1>2, <2>1, <2>2, AfterFacts
  <2>4. line = 1 + Cardinality(LineEndsBefore(p + 1)) /\ Len(tokens) = Cardinality(Behind(p))
    BY <1>5 DEF Reading
  <2>5. line' = 1 + Cardinality(LineEndsBefore(q + 1))
    <3>1. Cardinality(LineEndsBefore(q + 1)) = Cardinality(LineEndsBefore(p + 1)) + 1
      BY <2>2, <2>3, LineEnds
    <3>2. Cardinality(LineEndsBefore(p + 1)) \in Nat
      BY <2>3, LineFacts
    <3> QED
      BY <1>1, <2>4, <3>1, <3>2
  <2>6. col' = q - Max(LineEndsBefore(q + 1) \cup {0})
    BY <1>1, <2>2, <2>3, LineEnds
  <2>7. ~InComment(q) /\ ~IsWordChar(q)
    BY <2>2, <2>3 DEF InComment, IsWordChar, IsTokenChar, Space
  <2>8. Behind(q) = Behind(p)
    <3>1. q \notin WordStarts
      BY <2>7 DEF WordStarts
    <3> QED
      BY <1>2, <2>2, <2>3, <3>1, BehindFacts
  <2>9. Reading(q)'
    BY <1>1, <2>3, <2>4, <2>5, <2>6, <2>7, <2>8, ReadingOn
  <2>10. TypeOK'
    BY <1>1, <1>2, <2>3 DEF TypeOK
  <2> QED
    BY <1>1, <1>3, <2>3, <2>9, <2>10 DEF IInv
<1> QED
  BY <1>1, <1>4, <1>5 DEF IInv

LEMMA EndOfFileIInv ==
  ASSUME IInv, EndOfFile
  PROVE  IInv'
<1> DEFINE n == Len(tokens)
<1>1. Calling /\ rest = <<>> /\ tokens' = Append(tokens, At("EOF")) /\ col' = col + 1
      /\ text' = text /\ rest' = rest /\ line' = line
  BY DEF EndOfFile
<1>2. text \in Seq(Char) /\ Len(text) \in Nat /\ n \in Nat /\ DOMAIN tokens = 1 .. n
      /\ TypeOK /\ TokensAreWords
  BY TypeFacts DEF IInv
<1>3. n = Cardinality(WordStarts)
  <2>1. CASE Finished
    BY <2>1 DEF Finished
  <2>2. ASSUME NEW p \in 0 .. Len(text), Reading(p)
        PROVE  n = Cardinality(WordStarts)
    <3>1. p = Len(text) /\ p \in Nat
      BY <1>1, <1>2, <2>2, SuffixFacts DEF Reading
    <3>2. Behind(p) = WordStarts
      BY <1>2, <3>1, BehindFacts
    <3> QED
      BY <2>2, <3>2 DEF Reading
  <2> QED
    BY <1>1, <2>1, <2>2 DEF IInv
<1>4. At("EOF") \in [type : {"INVALID", "EOF"}, line : Nat \ {0}, col : Nat \ {0}]
      /\ At("EOF").type = "EOF"
  BY <1>2 DEF At, TypeOK
<1>5. ~Calling'
  BY <1>1, <1>2, <1>4, LastToken
<1>6. TypeOK'
  <2>1. At("EOF") \in [type : TokenType, line : Nat \ {0}, col : Nat \ {0}]
    BY <1>4 DEF TokenType
  <2> QED
    BY <1>1, <1>2, <2>1 DEF TypeOK
<1>7. TokensAreWords'
  <2>1. /\ DOMAIN tokens' = 1 .. n + 1
        /\ \A k \in 1 .. n : tokens'[k] = tokens[k]
        /\ tokens'[n + 1] = At("EOF")
    BY <1>1, <1>2 DEF TypeOK
  <2> SUFFICES ASSUME NEW k \in 1 .. n + 1
               PROVE  IF tokens'[k].type = "EOF" THEN k = Cardinality(WordStarts) + 1
                      ELSE \E i \in WordStarts :
                             PlaceOfStart[i] = k /\ tokens'[k] = TokenOfStart[i]
    BY <1>1, <2>1, TextStays
  <2>2. CASE k \in 1 .. n
    BY <1>2, <2>1, <2>2, TokensByStart
  <2>3. CASE k = n + 1
    BY <1>3, <1>4, <2>1, <2>3
  <2> QED
    BY <1>2, <2>2, <2>3
<1> QED
  BY <1>5, <1>6, <1>7 DEF IInv

(* The character behind p is the first of a word. *)
LEMMA AtWord ==
  ASSUME IInv, Calling, rest # <<>>, IsTokenChar(Head(rest))
  PROVE  \E p \in 0 .. Len(text) :
           /\ Reading(p)
           /\ p + 1 \in DOMAIN text /\ IsTokenChar(text[p + 1])
           /\ ~InComment(p)
           /\ rest = SubSeq(text, p + 1, Len(text))
           /\ line = 1 + Cardinality(LineEndsBefore(p + 1))
           /\ col = p - Max(LineEndsBefore(p + 1) \cup {0})
<1>1. Head(rest) # "\n"
  BY DEF IsTokenChar, Space
<1>2. PICK p \in 0 .. Len(text) :
        /\ Reading(p)
        /\ p + 1 \in DOMAIN text /\ Head(rest) = text[p + 1]
        /\ ~InComment(p)
        /\ rest = SubSeq(text, p + 1, Len(text))
  BY <1>1, HeadFacts
<1>3. text[p + 1] # "\n" /\ IsTokenChar(text[p + 1])
  BY <1>1, <1>2
<1> QED
  BY <1>2, <1>3 DEF Reading

LEMMA MatchTokenIInv ==
  ASSUME IInv, MatchToken
  PROVE  IInv'
<1> DEFINE M == Matched
           Position == [type : TokenType, line : Nat \ {0}, col : Nat \ {0}]
<1>1. Calling /\ rest # <<>> /\ IsTokenChar(Head(rest))
      /\ rest' = After(M) /\ col' = col + M /\ text' = text /\ line' = line
  BY DEF MatchToken
<1>2. PICK k \in Keyword :
        /\ Spelling[k] = SubSeq(rest, 1, M)
        /\ tokens' = Append(tokens, At(IF RunsOn(After(M)) THEN "INVALID" ELSE k))
  BY DEF MatchToken
<1>3. PICK p \in 0 .. Len(text) :
        /\ Reading(p)
        /\ p + 1 \in DOMAIN text /\ IsTokenChar(text[p + 1])
        /\ ~InComment(p)
        /\ rest = SubSeq(text, p + 1, Len(text))
        /\ line = 1 + Cardinality(LineEndsBefore(p + 1))
        /\ col = p - Max(LineEndsBefore(p + 1) \cup {0})
  BY <1>1, AtWord
<1>4. text \in Seq(Char) /\ Len(text) \in Nat /\ DOMAIN text = 1 .. Len(text) /\ TypeOK
  BY TypeFacts DEF IInv
<1>5. M \in 0 .. Len(text) - p /\ Len(Spelling[k]) = M /\ Begins(k, p, M)
  BY <1>2, <1>3, <1>4, MatchedFacts
<1> DEFINE type == IF RunsOn(After(M)) THEN "INVALID" ELSE k
<1>6. type = TokenOfWord(p + 1).type /\ type \in Keyword \cup {"INVALID"}
  BY <1>2, <1>3, <1>4, TypeOfWord
<1>7. tokens' = Append(tokens, At(type))
  BY <1>2
<1>8. type # "INVALID" => ~RunsOn(After(M))
  OBVIOUS
<1> HIDE DEF M, type
<1>. PICK q \in 0 .. Len(text) : q = p + M
  BY <1>4, <1>5
<1>9. /\ TokensAreWords'
      /\ At(type) \in Position
      /\ tokens' \in Seq(Position)
      /\ Len(tokens') = Cardinality(Behind(p + 1))
  BY <1>1, <1>3, <1>6, <1>7, NewToken
<1>10. /\ q \in Nat /\ p \in Nat /\ p <= q /\ q \in 0 .. Len(text)
       /\ After(M) = SubSeq(text, q + 1, Len(text))
       /\ After(M) \in Seq(Char)
  BY <1>3, <1>4, <1>5, <1>7, AfterFacts
<1>11. TypeOK'
  BY <1>1, <1>4, <1>5, <1>9, <1>10 DEF TypeOK
<1>12. CASE type = "INVALID"
  <2>1. At(type) \in [type : {"INVALID", "EOF"}, line : Nat \ {0}, col : Nat \ {0}]
    BY <1>4, <1>9, <1>12 DEF At, TypeOK
  <2>2. ~Calling'
    BY <1>4, <1>7, <2>1, LastToken
  <2> QED
    BY <1>9, <1>11, <2>2 DEF IInv
<1>13. CASE type # "INVALID"
  <2>1. \A c \in 1 .. M : IsTokenChar(text[p + c])
    BY <1>5, SpellingFacts DEF Begins
  <2>2. \A j \in p + 1 .. q : IsTokenChar(text[j]) /\ j \in 1 .. Len(text)
    <3> SUFFICES ASSUME NEW j \in p + 1 .. q
                 PROVE  IsTokenChar(text[j]) /\ j \in 1 .. Len(text)
      OBVIOUS
    <3>1. j - p \in 1 .. M /\ p + (j - p) = j /\ j \in 1 .. Len(text)
      BY <1>4, <1>5, <1>7, <1>10
    <3> QED
      BY <2>1, <3>1
  <2>3. \A j \in p + 1 .. q : text[j] # COMMENT /\ text[j] # "\n"
    BY <2>2 DEF IsTokenChar, Space
  <2>4. \A j \in p + 1 .. q : IsWordChar(j)
    <3> SUFFICES ASSUME NEW j \in p + 1 .. q PROVE IsWordChar(j)
      OBVIOUS
    <3>1. j \in Nat /\ p <= j /\ \A i \in p + 1 .. j : text[i] # COMMENT
      BY <1>10, <2>3
    <3>2. ~InComment(j)
      BY <1>3, <1>10, <3>1, CommentsStart
    <3> QED
      BY <1>4, <2>2, <3>2 DEF IsWordChar
  <2>5. ~InComment(q)
    BY <1>3, <1>10, <2>3, CommentsStart
  <2>6. ~IsWordChar(q + 1)
    <3>1. After(M) = <<>> \/ ~IsTokenChar(Head(After(M)))
      BY <1>8, <1>13 DEF RunsOn
    <3>2. q = Len(text) \/ ~IsTokenChar(text[q + 1])
      <4> DEFINE s == SubSeq(text, q + 1, Len(text))
      <4>1. (s = <<>> <=> q = Len(text)) /\ (s # <<>> => Head(s) = text[q + 1])
        BY <1>4, <1>10, SuffixFacts
      <4> HIDE DEF s
      <4>2. After(M) = s
        BY <1>10 DEF s
      <4> QED
        BY <3>1, <4>1, <4>2
    <3>3. q = Len(text) => q + 1 \notin DOMAIN text
      BY <1>4
    <3> QED
      BY <3>2, <3>3 DEF IsWordChar
  <2>7. Behind(q) = Behind(p + 1)
    <3> DEFINE s == p + 1
    <3>1. s \in Nat /\ s <= q
      <4>1. M # 0
        BY <1>5, SpellingFacts
      <4> QED
        BY <1>5, <1>7, <1>10, <4>1
    <3>2. \A j \in s + 1 .. q : j - 1 \in p + 1 .. q
      BY <1>10
    <3>3. \A j \in s + 1 .. q : j \notin WordStarts
      BY <2>4, <3>2 DEF WordStarts
    <3> HIDE DEF s
    <3>4. Behind(q) = Behind(s)
      BY <1>4, <1>10, <3>1, <3>3, BehindFacts
    <3> QED
      BY <3>4 DEF s
  <2>8. LineEndsBefore(q + 1) = LineEndsBefore(p + 1)
    BY <1>10, <2>3, LineStays
  <2>9. col' = q - Max(LineEndsBefore(q + 1) \cup {0})
    <3>1. M \in Nat
      BY <1>5
    <3>2. \A j \in p + 1 .. q : text[j] # "\n"
      BY <2>3
    <3>3. col + M = q - Max(LineEndsBefore(q + 1) \cup {0})
      BY <1>3, <1>4, <1>7, <1>10, <3>1, <3>2, Passed, Zenon
    <3> QED
      BY <1>1, <3>3
  <2>10. Reading(q)'
    <3>1. /\ text' = text
          /\ rest' = SubSeq(text, q + 1, Len(text))
          /\ line' = 1 + Cardinality(LineEndsBefore(q + 1))
          /\ Len(tokens') = Cardinality(Behind(q))
      BY <1>1, <1>3, <1>9, <1>10, <2>7, <2>8
    <3> QED
      BY <2>5, <2>6, <2>9, <3>1, ReadingOn
  <2> QED
    BY <1>1, <1>9, <1>11, <2>10 DEF IInv
<1> QED
  BY <1>12, <1>13

LEMMA MismatchIInv ==
  ASSUME IInv, Mismatch
  PROVE  IInv'
<1> DEFINE M == Matched
           Position == [type : TokenType, line : Nat \ {0}, col : Nat \ {0}]
<1>1. Calling /\ rest # <<>> /\ IsTokenChar(Head(rest))
      /\ rest' = After(M + 1) /\ col' = col + M + 1 /\ text' = text /\ line' = line
      /\ tokens' = Append(tokens, At("INVALID"))
      /\ \A k \in Keyword : Spelling[k] # SubSeq(rest, 1, M)
  BY DEF Mismatch
<1>2. PICK p \in 0 .. Len(text) :
        /\ Reading(p)
        /\ p + 1 \in DOMAIN text /\ IsTokenChar(text[p + 1])
        /\ ~InComment(p)
        /\ rest = SubSeq(text, p + 1, Len(text))
        /\ line = 1 + Cardinality(LineEndsBefore(p + 1))
        /\ col = p - Max(LineEndsBefore(p + 1) \cup {0})
  BY <1>1, AtWord
<1>3. text \in Seq(Char) /\ Len(text) \in Nat /\ DOMAIN text = 1 .. Len(text) /\ TypeOK
  BY TypeFacts DEF IInv
<1>4. M \in 0 .. Len(text) - p
  BY <1>2, <1>3, MatchedFacts
<1>5. "INVALID" = TokenOfWord(p + 1).type
  BY <1>1, <1>2, <1>3, TypeOfWord
<1> HIDE DEF M
<1>6. /\ TokensAreWords'
      /\ At("INVALID") \in Position
      /\ tokens' \in Seq(Position)
  BY <1>1, <1>2, <1>5, NewToken
<1>7. ~Calling'
  <2>1. At("INVALID") \in [type : {"INVALID", "EOF"}, line : Nat \ {0}, col : Nat \ {0}]
    BY <1>6 DEF At
  <2> QED
    BY <1>1, <1>3, <2>1, LastToken
<1>8. TypeOK'
  <2>1. rest \in Seq(Char) /\ M \in Nat
    BY <1>3, <1>4 DEF TypeOK
  <2>2. After(M + 1) \in Seq(Char)
    BY <2>1 DEF After
  <2> QED
    BY <1>1, <1>3, <1>6, <2>1, <2>2 DEF TypeOK
<1> QED
  BY <1>6, <1>7, <1>8 DEF IInv

LEMMA SkipCommentIInv ==
  ASSUME IInv, SkipComment
  PROVE  IInv'
<1> DEFINE T == {i \in 1 .. Len(rest) : rest[i] = "\n"} \cup {Len(rest) + 1}
<1>1. Calling /\ rest # <<>> /\ Head(rest) = COMMENT
      /\ text' = text /\ line' = line /\ tokens' = tokens
      /\ rest' = <<"\n">> \o After(Min(T)) /\ col' = col + Min(T)
  BY DEF SkipComment
<1>2. PICK p \in 0 .. Len(text) :
        /\ Reading(p)
        /\ p + 1 \in DOMAIN text /\ text[p + 1] = COMMENT
        /\ rest = SubSeq(text, p + 1, Len(text))
  BY <1>1, HeadFacts DEF COMMENT
<1>3. text \in Seq(Char) /\ Len(text) \in Nat /\ DOMAIN text = 1 .. Len(text) /\ TypeOK
  BY TypeFacts DEF IInv
<1>4. line = 1 + Cardinality(LineEndsBefore(p + 1)) /\ Len(tokens) = Cardinality(Behind(p))
  BY <1>2 DEF Reading
<1>5. /\ Len(rest) = Len(text) - p /\ Len(rest) \in Nat
      /\ \A i \in 1 .. Len(text) - p : rest[i] = text[p + i]
  <2>1. /\ Len(rest) = Len(text) - p
        /\ \A i \in 1 .. Len(text) - p : rest[i] = text[p + i]
    BY <1>2, <1>3, MatchedFacts
  <2>2. rest \in Seq(Char)
    BY <1>3 DEF TypeOK
  <2> QED
    BY <2>1, <2>2
<1>6. Min(T) \in T /\ \A i \in T : Min(T) <= i
  <2>1. T \in SUBSET Nat /\ T # {}
    BY <1>5
  <2> QED
    BY <2>1, LeastMember
<1>. PICK eol \in 1 .. Len(rest) + 1 :
       /\ eol = Min(T)
       /\ eol # Len(rest) + 1 => rest[eol] = "\n"
       /\ \A i \in 1 .. Len(rest) : rest[i] = "\n" => eol <= i
  <2>1. /\ Min(T) \in 1 .. Len(rest) + 1
        /\ Min(T) # Len(rest) + 1 => rest[Min(T)] = "\n"
    BY <1>5, <1>6
  <2>2. \A i \in 1 .. Len(rest) : rest[i] = "\n" => Min(T) <= i
    BY <1>6
  <2> HIDE DEF T
  <2> QED
    BY <2>1, <2>2
<1>. PICK q \in 0 .. Len(text) : q = p + eol - 1
  <2>1. \A n \in Nat : p \in 0 .. n /\ eol \in 1 .. n - p + 1 => p + eol - 1 \in 0 .. n
    OBVIOUS
  <2> HIDE DEF T
  <2>2. p + eol - 1 \in 0 .. Len(text)
    BY <1>3, <1>5, <2>1
  <2> QED
    BY <2>2
<1>7. /\ p \in Nat /\ q \in Nat /\ p <= q /\ eol \in Nat /\ q = p + eol - 1
      /\ rest' = <<"\n">> \o After(eol) /\ col' = col + eol
  BY <1>1, <1>3, <1>5
<1> HIDE DEF T
(* All of it is in the comment. *)
<1>8. \A j \in p + 1 .. q : text[j] # "\n"
  <2> SUFFICES ASSUME NEW j \in p + 1 .. q, text[j] = "\n" PROVE FALSE
    OBVIOUS
  <2>1. j - p \in 1 .. Len(text) - p /\ p + (j - p) = j /\ j - p < eol
    BY <1>3, <1>7
  <2>2. rest[j - p] = "\n" /\ j - p \in 1 .. Len(rest)
    BY <1>5, <2>1
  <2>3. PICK i \in 1 .. Len(rest) : i = j - p /\ rest[i] = "\n"
    BY <2>2
  <2>4. eol <= i
    BY <2>3
  <2> QED
    BY <1>7, <2>1, <2>3, <2>4
<1>9. \A j \in p + 1 .. q : InComment(j)
  <2> SUFFICES ASSUME NEW j \in p + 1 .. q PROVE InComment(j)
    OBVIOUS
  <2>1. p + 1 \in 1 .. j /\ \A m \in p + 1 .. j : text[m] # "\n"
    BY <1>7, <1>8
  <2> QED
    BY <1>2, <2>1 DEF InComment
<1>10. Behind(q) = Behind(p)
  <2>1. \A j \in p + 1 .. q : j \notin WordStarts
    BY <1>9 DEF WordStarts, IsWordChar
  <2> QED
    BY <1>3, <1>7, <2>1, BehindFacts
<1>11. LineEndsBefore(q + 1) = LineEndsBefore(p + 1)
  BY <1>7, <1>8, LineStays
<1>12. TokensAreWords'
  BY <1>1, TokensStay DEF IInv
<1>13. CASE eol = Len(rest) + 1
  <2>1. rest' = <<"\n">>
    <3>1. After(eol) = <<>>
      BY <1>5, <1>13, SubSeqEmpty DEF After
    <3> QED
      BY <1>7, <3>1
  <2>2. Len(tokens) = Cardinality(WordStarts)
    <3>1. q = Len(text)
      BY <1>5, <1>7, <1>13
    <3>2. Behind(q) = WordStarts
      BY <1>3, <1>7, <3>1, BehindFacts
    <3> QED
      BY <1>4, <1>10, <3>2
  <2>3. Finished'
    <3>1. WordStarts' = WordStarts
      BY <1>1, TextStays
    <3> QED
      BY <1>1, <2>1, <2>2, <3>1 DEF Finished
  <2>4. TypeOK'
    <3>1. rest' \in Seq(Char)
      BY <2>1 DEF Char, Space
    <3> QED
      BY <1>1, <1>3, <1>7, <3>1 DEF TypeOK
  <2> QED
    BY <1>12, <2>3, <2>4 DEF IInv
<1>14. CASE eol # Len(rest) + 1
  <2>1. eol \in 1 .. Len(text) - p /\ text[q + 1] = "\n" /\ q + 1 \in 1 .. Len(text)
    <3>1. eol \in 1 .. Len(text) - p /\ p + eol = q + 1 /\ rest[eol] = "\n"
      BY <1>5, <1>7, <1>14
    <3> QED
      BY <1>3, <1>5, <1>7, <3>1
  <2>2. rest' = SubSeq(text, q + 1, Len(text))
    <3>1. After(eol) = SubSeq(text, q + 2, Len(text))
      <4>1. eol \in 0 .. Len(text) - p /\ p + eol + 1 = q + 2
        BY <1>7, <2>1
      <4>2. After(eol) = SubSeq(text, p + eol + 1, Len(text))
        BY <1>2, <1>3, <4>1, MatchedFacts
      <4> QED
        BY <4>1, <4>2
    <3>2. SubSeq(text, q + 1, Len(text)) = <<text[q + 1]>> \o SubSeq(text, (q + 1) + 1, Len(text))
      <4>1. Len(text) \in q + 1 .. Len(text)
        BY <1>3, <2>1
      <4> QED
        BY <1>3, <2>1, <4>1, SubSeqRecursiveFirst
    <3>3. (q + 1) + 1 = q + 2
      BY <1>7
    <3> QED
      BY <1>7, <2>1, <3>1, <3>2, <3>3
  <2>3. rest' \in Seq(Char)
    BY <1>3, <2>2, SuffixFacts
  <2>4. Reading(q)'
    <3>1. line' = 1 + Cardinality(LineEndsBefore(q + 1)) /\ Len(tokens') = Cardinality(Behind(q))
      BY <1>1, <1>4, <1>10, <1>11
    <3> QED
      BY <1>1, <2>1, <2>2, <3>1, ReadingOn
  <2>5. TypeOK'
    BY <1>1, <1>3, <1>7, <2>3 DEF TypeOK
  <2> QED
    BY <1>1, <1>12, <2>4, <2>5 DEF IInv
<1> QED
  BY <1>13, <1>14

LEMMA InitIInv ==
  Init => IInv
<1> SUFFICES ASSUME Init PROVE IInv
  OBVIOUS
<1>1. /\ text \in Texts /\ text \in Seq(Char) /\ rest = text
      /\ line = 1 /\ col = 0 /\ tokens = <<>>
  BY TextsAssumption DEF Init
<1>2. Len(text) \in Nat /\ DOMAIN tokens = {} /\ Len(tokens) = 0
  BY <1>1
<1>3. TypeOK
  BY <1>1 DEF TypeOK
<1>4. TokensAreWords
  BY <1>2 DEF TokensAreWords
<1>5. PICK p \in 0 .. Len(text) : p = 0
  BY <1>2
<1>6. LineEndsBefore(p + 1) = {} /\ Behind(p) = {} /\ ~InComment(p) /\ ~IsWordChar(p)
  BY <1>1, <1>5 DEF LineEndsBefore, Behind, WordStarts, InComment, IsWordChar
<1>7. Cardinality({}) = 0
  BY FS_EmptySet
<1>8. Max(LineEndsBefore(p + 1) \cup {0}) = 0
  <2>1. {} \cup {0} = {0} /\ Max({0}) = 0
    <3>1. {0} \in SUBSET Nat /\ \A x \in {0} : x <= 0
      OBVIOUS
    <3> QED
      BY <3>1, GreatestMember
  <2> QED
    BY <1>6, <2>1
<1>9. rest = SubSeq(text, p + 1, Len(text))
  BY <1>1, <1>5, SubSeqFull
<1>10. /\ line = 1 + Cardinality(LineEndsBefore(p + 1))
       /\ Len(tokens) = Cardinality(Behind(p))
       /\ col = p - Max(LineEndsBefore(p + 1) \cup {0})
  <2>1. Cardinality(LineEndsBefore(p + 1)) = 0 /\ Cardinality(Behind(p)) = 0
    BY <1>6, <1>7
  <2>2. col = p - Max(LineEndsBefore(p + 1) \cup {0})
    <3> DEFINE m == Max(LineEndsBefore(p + 1) \cup {0})
    <3>1. m = 0
      BY <1>8
    <3> HIDE DEF m
    <3>2. col = p - m
      BY <1>1, <1>5, <3>1
    <3> QED
      BY <3>2 DEF m
  <2> QED
    BY <1>1, <1>2, <2>1, <2>2
<1>11. Reading(p)
  BY <1>6, <1>9, <1>10 DEF Reading
<1> QED
  BY <1>3, <1>4, <1>5, <1>11 DEF IInv

LEMMA NextIInv ==
  ASSUME IInv, [Next]_vars
  PROVE  IInv'
<1>1. CASE SkipComment
  BY <1>1, SkipCommentIInv
<1>2. CASE NewLine
  BY <1>2, NewLineIInv
<1>3. CASE SkipSpace
  BY <1>3, SkipSpaceIInv
<1>4. CASE MatchToken
  BY <1>4, MatchTokenIInv
<1>5. CASE Mismatch
  BY <1>5, MismatchIInv
<1>6. CASE EndOfFile
  BY <1>6, EndOfFileIInv
<1>7. CASE UNCHANGED vars
  <2>1. /\ text' = text /\ rest' = rest /\ line' = line /\ col' = col /\ tokens' = tokens
    BY <1>7 DEF vars
  <2>2. TypeOK'
    BY <2>1 DEF IInv, TypeOK
  <2>3. TokensAreWords'
    BY <2>1, TokensStay DEF IInv
  <2>4. Calling' => Calling
    BY <2>1 DEF Calling, Returned
  <2>5. WordStarts' = WordStarts
    BY <2>1, TextStays
  <2>6. Finished => Finished'
    BY <2>1, <2>5 DEF Finished
  <2>7. ASSUME NEW p \in 0 .. Len(text), Reading(p) PROVE Reading(p)'
    BY <2>1, <2>7, ReadingOn DEF Reading
  <2> QED
    BY <2>1, <2>2, <2>3, <2>4, <2>6, <2>7 DEF IInv
<1> QED
  BY <1>1, <1>2, <1>3, <1>4, <1>5, <1>6, <1>7 DEF Next

(* The invariant holds in every state, whatever the texts are. *)
THEOREM Invariance == Spec => []IInv
<1>1. IInv /\ [Next]_vars => IInv'
  BY NextIInv
<1> QED
  BY InitIInv, <1>1, PTL DEF Spec

(* lexer.c: lines and columns are positive, and tokens are token types at  *)
(* positions.                                                              *)
THEOREM TypeCorrect == Spec => []TypeOK
<1>1. IInv => TypeOK
  BY DEF IInv
<1> QED
  BY Invariance, <1>1, PTL

(* nbajh_lexer_next_token (lexer.c): the k-th token is the k-th word of    *)
(* the text, of its keyword or invalid, at the line and column where the   *)
(* word starts, and the end of file comes after the last word.             *)
THEOREM TokensAreTheWords == Spec => []TokensAreWords
<1>1. IInv => TokensAreWords
  BY DEF IInv
<1> QED
  BY Invariance, <1>1, PTL

=============================================================================
