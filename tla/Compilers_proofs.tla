-------------------------- MODULE Compilers_proofs --------------------------
(***************************************************************************)
(* What the proofs of both compilers rest on: what nbajh_buffer_write      *)
(* guarantees, for buffers of any capacity and writes of any size; what a  *)
(* one-pass compiler may conclude from the tokens it has read, for sources *)
(* of any length and any widths; and what the commands of a source do in   *)
(* runs, for comparing a target with module Language.                      *)
(***************************************************************************)
EXTENDS Commands, Buffer, FiniteSetTheorems, SequenceTheorems, TLAPS

-----------------------------------------------------------------------------
(* Buffers. *)

(***************************************************************************)
(* The growth formula leaves room for what is written: the new capacity is *)
(* at least the old one and the n bytes together.  With q the quotient in  *)
(* the formula, cap * q is at least n (q is rounded up) and at least cap   *)
(* (q is at least 1), and it is taken twice.                               *)
(***************************************************************************)
THEOREM GrowthSuffices ==
  ASSUME NEW cap \in Nat \ {0}, NEW n \in Nat \ {0}
  PROVE  GrownCap(cap, n) \in Nat \ {0} /\ GrownCap(cap, n) >= cap + n
<1> DEFINE q == (cap + n - 1) \div cap
<1>1. q \in Nat \ {0}
  OBVIOUS
<1>2. cap * q >= n
  OBVIOUS
<1>3. cap * q >= cap
  BY <1>1
<1>4. GrownCap(cap, n) = cap * (q * 2)
  BY DEF GrownCap, GROWTH_FACTOR
<1> HIDE DEF q
<1>5. cap * (q * 2) = (cap * q) + (cap * q) /\ cap * q \in Nat
  BY <1>1
<1> QED
  BY <1>2, <1>3, <1>4, <1>5

(* What the callers of nbajh_buffer_write rely on.  A buffer that believes *)
(* in the capacity it has still does after a success, and then holds what  *)
(* was written.                                                            *)
Honest(b) == b.cap = b.alloc /\ b.size <= b.cap

THEOREM WriteFacts ==
  ASSUME NEW b \in BufferRecord, NEW n \in Nat \ {0}, NEW w \in Write(b, n)
  PROVE  /\ w.buf \in BufferRecord
         /\ w.error \in {"SUCCESS", "MALLOC"}
         /\ w.buf.size = IF w.error = "SUCCESS" THEN b.size + n ELSE b.size
         /\ w.error = "SUCCESS" /\ Honest(b) => Honest(w.buf)
<1>1. b.cap \in Nat \ {0} /\ b.size \in Nat /\ b.alloc \in Nat
      /\ b = [size |-> b.size, cap |-> b.cap, alloc |-> b.alloc]
  BY DEF BufferRecord
<1> DEFINE cap == GrownCap(b.cap, n)
<1>2. cap \in Nat \ {0} /\ cap >= b.cap + n
  BY <1>1, GrowthSuffices
<1>3. CASE b.size + n <= b.cap
  <2>1. w = [buf |-> [b EXCEPT !.size = @ + n], error |-> "SUCCESS"]
    BY <1>3 DEF Write
  <2> QED
    BY <1>1, <1>3, <2>1 DEF BufferRecord, Honest
<1>4. CASE ~(b.size + n <= b.cap)
  <2> HIDE DEF cap
  <2>1. \/ w = [buf |-> [size |-> b.size + n, cap |-> cap, alloc |-> cap],
               error |-> "SUCCESS"]
        \/ w = [buf |-> [b EXCEPT !.cap = cap], error |-> "MALLOC"]
    BY <1>4 DEF Write, cap
  <2> QED
    BY <1>1, <1>2, <2>1 DEF BufferRecord, Honest
<1> QED
  BY <1>3, <1>4

(* A write for which there is room does not fail, and one that does leaves *)
(* the storage it had and at least doubles the capacity believed in.       *)
LEMMA WriteRoom ==
  ASSUME NEW b \in BufferRecord, NEW n \in Nat \ {0}, NEW w \in Write(b, n)
  PROVE  /\ b.size + n <= b.cap =>
              w.error = "SUCCESS" /\ w.buf.cap = b.cap /\ w.buf.alloc = b.alloc
         /\ w.error = "MALLOC" =>
              w.buf.size = b.size /\ w.buf.alloc = b.alloc /\ w.buf.cap >= b.cap + b.cap
<1>1. b.cap \in Nat \ {0} /\ b.size \in Nat /\ b.alloc \in Nat
      /\ b = [size |-> b.size, cap |-> b.cap, alloc |-> b.alloc]
  BY DEF BufferRecord
<1> DEFINE q == (b.cap + n - 1) \div b.cap
<1>2. q \in Nat \ {0}
  BY <1>1
<1>3. GrownCap(b.cap, n) = b.cap * (q * 2)
  BY DEF GrownCap, GROWTH_FACTOR
<1> HIDE DEF q
<1>4. GrownCap(b.cap, n) >= b.cap + b.cap
  BY <1>1, <1>2, <1>3
<1> DEFINE cap == GrownCap(b.cap, n)
<1> HIDE DEF cap
<1>5. CASE b.size + n <= b.cap
  <2>1. w = [buf |-> [b EXCEPT !.size = @ + n], error |-> "SUCCESS"]
    BY <1>5 DEF Write
  <2> QED
    BY <1>1, <2>1
<1>6. CASE ~(b.size + n <= b.cap)
  <2>1. \/ w.error = "SUCCESS"
        \/ w = [buf |-> [b EXCEPT !.cap = cap], error |-> "MALLOC"]
    BY <1>6 DEF Write, cap
  <2> QED
    BY <1>1, <1>4, <1>6, <2>1 DEF cap
<1> QED
  BY <1>5, <1>6

-----------------------------------------------------------------------------
(* The offsets pushed on a buffer that is used as a stack, as a sequence. *)

LEMMA PushFacts ==
  ASSUME NEW S, NEW s \in Seq(S), NEW e \in S
  PROVE  /\ Append(s, e) \in Seq(S)
         /\ Len(s) \in Nat
         /\ Len(Append(s, e)) = Len(s) + 1
         /\ Append(s, e)[Len(s) + 1] = e
         /\ \A k \in 1 .. Len(s) : Append(s, e)[k] = s[k]
BY AppendProperties, LenProperties

LEMMA PopFacts ==
  ASSUME NEW S, NEW s \in Seq(S), s # <<>>
  PROVE  /\ SubSeq(s, 1, Len(s) - 1) \in Seq(S)
         /\ Len(s) \in Nat \ {0}
         /\ s[Len(s)] \in S
         /\ Len(SubSeq(s, 1, Len(s) - 1)) = Len(s) - 1
         /\ \A k \in 1 .. Len(s) - 1 : SubSeq(s, 1, Len(s) - 1)[k] = s[k]
<1> DEFINE n == Len(s)
<1>1. n \in Nat \ {0}
  BY EmptySeq, LenProperties
<1>2. n - 1 \in 0 .. Len(s)
  BY <1>1
<1>3. s[n] \in S
  BY <1>1, ElementOfSeq
<1> HIDE DEF n
<1>4. /\ SubSeq(s, 1, n - 1) \in Seq(S)
      /\ Len(SubSeq(s, 1, n - 1)) = n - 1
      /\ \A k \in 1 .. n - 1 : SubSeq(s, 1, n - 1)[k] = s[k]
  BY <1>1, <1>2, SubSeqProperties
<1> QED
  BY <1>1, <1>3, <1>4 DEF n

-----------------------------------------------------------------------------

(***************************************************************************)
(* Tilings.  t maps the offset of each piece to its size; the pieces cover *)
(* 0 .. end-1 without gap or overlap.                                      *)
(***************************************************************************)
Tiles(t, end) ==
  /\ DOMAIN t \subseteq Nat
  /\ 0 \in DOMAIN t \cup {end}
  /\ \A o \in DOMAIN t :
       /\ t[o] \in Nat \ {0}
       /\ o + t[o] \in DOMAIN t \cup {end}
       /\ o + t[o] <= end
       /\ \A q \in DOMAIN t : o < q => o + t[o] <= q

Laid(t, end, n) == [o \in DOMAIN t \cup {end} |-> IF o = end THEN n ELSE t[o]]

(* A piece laid at the end of a tiling gives a tiling. *)
LEMMA TilesGrow ==
  ASSUME NEW t, NEW end \in Nat, NEW n \in Nat \ {0}, Tiles(t, end)
  PROVE  /\ end \notin DOMAIN t
         /\ \A o \in DOMAIN t : o < end
         /\ Tiles(Laid(t, end, n), end + n)
<1>1. \A o \in DOMAIN t : o < end
  <2> TAKE o \in DOMAIN t
  <2>1. o \in Nat /\ t[o] \in Nat \ {0} /\ o + t[o] <= end
    BY DEF Tiles
  <2> QED
    BY <2>1
<1>2. end \notin DOMAIN t
  BY <1>1
<1> DEFINE u == Laid(t, end, n)
<1>3. DOMAIN u = DOMAIN t \cup {end} /\ u[end] = n
      /\ \A o \in DOMAIN t : u[o] = t[o]
  BY <1>2 DEF Laid
<1> HIDE DEF u
<1>4. Tiles(u, end + n)
  <2>1. DOMAIN u \subseteq Nat /\ 0 \in DOMAIN u
    BY <1>3 DEF Tiles
  <2>2. ASSUME NEW o \in DOMAIN t
        PROVE  /\ u[o] \in Nat \ {0}
               /\ o + u[o] \in DOMAIN u
               /\ o + u[o] <= end + n
               /\ \A q \in DOMAIN u : o < q => o + u[o] <= q
    BY <1>3, <2>2 DEF Tiles
  <2>3. \A q \in DOMAIN u : ~(end < q)
    BY <1>1, <1>3 DEF Tiles
  <2> QED
    BY <1>3, <2>1, <2>2, <2>3 DEF Tiles
<1> QED
  BY <1>1, <1>2, <1>4 DEF u

-----------------------------------------------------------------------------
(* Sources. *)

IsSource(source) == source \in Seq(Keyword \cup {"INVALID"})

-----------------------------------------------------------------------------
(* Numbers and runs. *)

LEMMA LeastNat ==
  ASSUME NEW T \in SUBSET Nat, T # {}
  PROVE  \E x \in T : \A y \in T : x <= y
<1> DEFINE R == OpToRel(<, Nat)
<1>1. \A x, y \in Nat : <<y, x>> \in R <=> y < x
  BY DEF OpToRel
<1>2. IsWellFoundedOn(R, Nat)
  BY NatLessThanWellFounded
<1> HIDE DEF R
<1>3. PICK x \in T : \A y \in T : ~(<<y, x>> \in R)
  BY <1>2, WFMin
<1>4. ASSUME NEW y \in T PROVE x <= y
  <2>1. x \in Nat /\ y \in Nat
    OBVIOUS
  <2>2. ~(y < x)
    BY <1>1, <1>3, <2>1
  <2> QED
    BY <2>1, <2>2
<1> QED
  BY <1>3, <1>4

(***************************************************************************)
(* Induction over the numbers up to m, for facts that are given as a set.  *)
(***************************************************************************)
LEMMA SetInduction ==
  ASSUME NEW m \in Nat, NEW S, 0 \in S, \A n \in S : n \in Nat /\ n < m => n + 1 \in S
  PROVE  \A n \in 0 .. m : n \in S
<1> DEFINE T == {n \in 0 .. m : n \notin S}
<1> SUFFICES ASSUME T # {} PROVE FALSE
  OBVIOUS
<1>1. T \in SUBSET Nat
  OBVIOUS
<1>2. PICK x \in T : \A y \in T : x <= y
  <2> HIDE DEF T
  <2> QED
    BY <1>1, LeastNat
<1>3. x \in Nat /\ x # 0 /\ x <= m
  BY <1>2
<1>4. x - 1 \in 0 .. m /\ x - 1 \in Nat /\ x - 1 < m /\ ~(x <= x - 1)
  BY <1>3
<1>5. x - 1 \in S
  BY <1>2, <1>4
<1>6. (x - 1) + 1 \in S
  <2> HIDE DEF T
  <2> QED
    BY <1>4, <1>5
<1> QED
  BY <1>2, <1>3, <1>6

LEMMA MulAtLeast ==
  ASSUME NEW a \in Int, NEW b \in Int, NEW n \in Nat \ {0}, a < b
  PROVE  n * a + n <= n * b
<1>1. b - a \in Nat \ {0}
  OBVIOUS
<1>2. ASSUME NEW k \in Nat \ {0} PROVE n * k >= n
  OBVIOUS
<1>3. n * (b - a) >= n
  BY <1>1, <1>2
<1>4. n * (b - a) = n * b - n * a /\ n * a \in Int /\ n * b \in Int
  OBVIOUS
<1> QED
  BY <1>3, <1>4

(* The remainder is the only number of its range that makes up a. *)
LEMMA RemainderIs ==
  ASSUME NEW a \in Int, NEW n \in Nat \ {0}, NEW q \in Int, NEW r \in 0 .. n - 1,
         a = n * q + r
  PROVE  a % n = r
<1> DEFINE s == a \div n
           t == a % n
<1>1. s \in Int /\ t \in 0 .. n - 1 /\ a = n * s + t
  OBVIOUS
<1> HIDE DEF s, t
<1>2. n * q \in Int /\ n * s \in Int /\ n * q + r = n * s + t
  BY <1>1
<1>3. ~(q < s)
  <2>1. q < s => n * q + n <= n * s
    BY <1>1, MulAtLeast
  <2> QED
    BY <1>1, <1>2, <2>1
<1>4. ~(s < q)
  <2>1. s < q => n * s + n <= n * q
    BY <1>1, MulAtLeast
  <2> QED
    BY <1>1, <1>2, <2>1
<1>5. s = q
  BY <1>1, <1>3, <1>4
<1> QED
  BY <1>1, <1>2, <1>5 DEF t

(* Adding to a remainder and adding to the number is the same, modulo n. *)
LEMMA RemainderAdd ==
  ASSUME NEW a \in Int, NEW b \in Int, NEW n \in Nat \ {0}
  PROVE  (a + (b % n)) % n = (a + b) % n
<1> DEFINE q == b \div n
           s == (a + (b % n)) \div n
           r == (a + (b % n)) % n
<1>1. q \in Int /\ b % n \in Int /\ b = n * q + (b % n)
  OBVIOUS
<1>2. s \in Int /\ r \in 0 .. n - 1 /\ a + (b % n) = n * s + r
  BY <1>1
<1> HIDE DEF q, s, r
<1>3. n * (q + s) = n * q + n * s /\ n * q \in Int /\ n * s \in Int /\ q + s \in Int
  BY <1>1, <1>2
<1>4. a + b = n * (q + s) + r
  BY <1>1, <1>2, <1>3
<1>5. (a + b) % n = r
  BY <1>2, <1>3, <1>4, RemainderIs
<1> QED
  BY <1>5 DEF r

LEMMA RemainderSub ==
  ASSUME NEW a \in Int, NEW b \in Int, NEW n \in Nat \ {0}
  PROVE  (a + n - (b % n)) % n = (a - b) % n
<1> DEFINE q == b \div n
           s == (a + n - (b % n)) \div n
           r == (a + n - (b % n)) % n
<1>1. q \in Int /\ b % n \in Int /\ b = n * q + (b % n)
  OBVIOUS
<1>2. s \in Int /\ r \in 0 .. n - 1 /\ a + n - (b % n) = n * s + r
  BY <1>1
<1> HIDE DEF q, s, r
<1> DEFINE k == (s - q) - 1
<1>3. n * k = n * s - n * q - n /\ n * q \in Int /\ n * s \in Int
      /\ k \in Int
  BY <1>1, <1>2
<1> HIDE DEF k
<1>4. a - b \in Int /\ a - b = n * k + r
  BY <1>1, <1>2, <1>3
<1>5. (a - b) % n = r
  BY <1>2, <1>3, <1>4, RemainderIs
<1> QED
  BY <1>5 DEF r

(* One step on a counter that wraps at n. *)
LEMMA RemainderStep ==
  ASSUME NEW a \in Int, NEW n \in Nat \ {0}
  PROVE  /\ (a + 1) % n = IF a % n = n - 1 THEN 0 ELSE (a % n) + 1
         /\ (a - 1) % n = IF a % n = 0 THEN n - 1 ELSE (a % n) - 1
<1> DEFINE q == a \div n
           r == a % n
<1>1. q \in Int /\ r \in 0 .. n - 1 /\ a = n * q + r
  OBVIOUS
<1> HIDE DEF q, r
<1>2. /\ n * (q + 1) = n * q + n /\ n * (q - 1) = n * q - n /\ n * q \in Int
      /\ q + 1 \in Int /\ q - 1 \in Int /\ 0 \in 0 .. n - 1 /\ n - 1 \in 0 .. n - 1
      /\ a + 1 \in Int /\ a - 1 \in Int
  BY <1>1
<1>3. (a + 1) % n = IF r = n - 1 THEN 0 ELSE r + 1
  <2>1. CASE r = n - 1
    <3>1. a + 1 = n * (q + 1) + 0
      BY <1>1, <1>2, <2>1
    <3> QED
      BY <1>2, <2>1, <3>1, RemainderIs
  <2>2. CASE r # n - 1
    <3>1. a + 1 = n * q + (r + 1) /\ r + 1 \in 0 .. n - 1
      BY <1>1, <1>2, <2>2
    <3> QED
      BY <1>1, <1>2, <2>2, <3>1, RemainderIs
  <2> QED
    BY <2>1, <2>2
<1>4. (a - 1) % n = IF r = 0 THEN n - 1 ELSE r - 1
  <2>1. CASE r = 0
    <3>1. a - 1 = n * (q - 1) + (n - 1)
      BY <1>1, <1>2, <2>1
    <3> QED
      BY <1>2, <2>1, <3>1, RemainderIs
  <2>2. CASE r # 0
    <3>1. a - 1 = n * q + (r - 1) /\ r - 1 \in 0 .. n - 1
      BY <1>1, <1>2, <2>2
    <3> QED
      BY <1>1, <1>2, <2>2, <3>1, RemainderIs
  <2> QED
    BY <2>1, <2>2
<1> QED
  BY <1>3, <1>4 DEF r

LEMMA SourceFacts ==
  ASSUME NEW source, IsSource(source)
  PROVE  /\ Len(source) \in Nat
         /\ DOMAIN source = 1 .. Len(source)
         /\ \A i \in 1 .. Len(source) :
              source[i] \in Keyword \cup {"INVALID"} /\ TokenAt(source, i) = source[i]
         /\ \A i : i \notin 1 .. Len(source) => TokenAt(source, i) = "EOF"
         /\ \A i : TokenAt(source, i) \in Keyword \cup {"INVALID"} => i \in 1 .. Len(source)
<1>1. Len(source) \in Nat /\ DOMAIN source = 1 .. Len(source)
      /\ \A i \in 1 .. Len(source) : source[i] \in Keyword \cup {"INVALID"}
  BY DEF IsSource
<1>2. "EOF" \notin Keyword \cup {"INVALID"}
  BY DEF Keyword, Moves, Adds, Effects
<1> QED
  BY <1>1, <1>2 DEF TokenAt

(* Every token starts a run: the loops that count a run find its end. *)
LEMMA RunExists ==
  ASSUME NEW source, IsSource(source), NEW p \in 1 .. Len(source)
  PROVE  \E n \in 1 .. Len(source) : IsRun(source, p, n)
<1> DEFINE L == Len(source)
           T == {m \in Nat : TokenAt(source, p + m) # TokenAt(source, p)}
<1>1. L \in Nat /\ p \in Nat /\ p \in 1 .. L
  BY SourceFacts
<1>2. L + 1 - p \in T
  <2>1. L + 1 - p \in Nat /\ p + (L + 1 - p) = L + 1 /\ L + 1 \notin 1 .. L
    BY <1>1
  <2>2. TokenAt(source, L + 1) = "EOF" /\ TokenAt(source, p) # "EOF"
    BY <2>1, SourceFacts DEF Keyword, Moves, Adds, Effects
  <2> QED
    BY <2>1, <2>2
<1>3. PICK n \in T : \A m \in T : n <= m
  <2>1. T \in SUBSET Nat /\ T # {}
    BY <1>2
  <2> QED
    BY <2>1, LeastNat
<1>4. n \in Nat /\ n <= L + 1 - p /\ TokenAt(source, p + n) # TokenAt(source, p)
  BY <1>2, <1>3
<1>5. n # 0
  BY <1>1, <1>4
<1>6. ASSUME NEW k \in p .. p + n - 1
      PROVE  TokenAt(source, k) = TokenAt(source, p)
  <2>1. k - p \in Nat /\ k - p < n /\ p + (k - p) = k
    BY <1>1, <1>4
  <2>2. k - p \notin T
    BY <1>3, <1>4, <2>1
  <2> QED
    BY <2>1, <2>2
<1> HIDE DEF T
<1>7. n \in 1 .. L
  BY <1>1, <1>4, <1>5
<1> QED
  BY <1>4, <1>6, <1>7 DEF IsRun

(* The tokens of a run lie in the source. *)
LEMMA RunFacts ==
  ASSUME NEW source, IsSource(source), NEW p \in 1 .. Len(source),
         NEW n \in Nat \ {0}, IsRun(source, p, n)
  PROVE  /\ p + n \in 1 .. Len(source) + 1
         /\ \A k \in p .. p + n - 1 :
              k \in 1 .. Len(source) /\ source[k] = source[p]
                /\ TokenAt(source, k) = source[p]
         /\ TokenAt(source, p + n) # source[p]
         /\ TokenAt(source, p + n - 1) = source[p]
<1>1. TokenAt(source, p) = source[p] /\ source[p] \in Keyword \cup {"INVALID"}
      /\ Len(source) \in Nat
  BY SourceFacts
<1>2. \A k \in p .. p + n - 1 : TokenAt(source, k) = source[p]
  BY <1>1 DEF IsRun
<1>3. \A k \in p .. p + n - 1 : k \in 1 .. Len(source) /\ source[k] = source[p]
  BY <1>1, <1>2, SourceFacts
<1>4. p + n - 1 \in p .. p + n - 1
  BY <1>1
<1>5. p + n - 1 \in 1 .. Len(source)
  BY <1>3, <1>4
<1> QED
  BY <1>1, <1>2, <1>3, <1>4, <1>5 DEF IsRun

-----------------------------------------------------------------------------
(* Loops opened less loops closed, token by token. *)

Count(source, i, t) == Cardinality({k \in 1 .. i : source[k] = t})

LEMMA CountType ==
  ASSUME NEW source, NEW i \in Nat, NEW t
  PROVE  /\ IsFiniteSet({k \in 1 .. i : source[k] = t})
         /\ Count(source, i, t) \in Nat
<1>1. IsFiniteSet(1 .. i)
  BY FS_Interval
<1>2. {k \in 1 .. i : source[k] = t} \in SUBSET (1 .. i)
  OBVIOUS
<1>3. IsFiniteSet({k \in 1 .. i : source[k] = t})
  BY <1>1, <1>2, FS_Subset
<1> QED
  BY <1>3, FS_CardinalityType DEF Count

LEMMA CountStep ==
  ASSUME NEW source, NEW i \in Nat \ {0}, NEW t
  PROVE  Count(source, i, t) = Count(source, i - 1, t) + (IF source[i] = t THEN 1 ELSE 0)
<1> DEFINE S(j) == {k \in 1 .. j : source[k] = t}
<1>1. i - 1 \in Nat
  OBVIOUS
<1>2. IsFiniteSet(S(i - 1)) /\ Count(source, i - 1, t) \in Nat
  BY <1>1, CountType
<1>3. CASE source[i] = t
  <2>1. S(i) = S(i - 1) \cup {i} /\ i \notin S(i - 1)
    BY <1>3
  <2> HIDE DEF S
  <2>2. Cardinality(S(i)) = Cardinality(S(i - 1)) + 1
    BY <1>2, <2>1, FS_AddElement
  <2> QED
    BY <1>3, <2>2 DEF S, Count
<1>4. CASE source[i] # t
  <2>1. S(i) = S(i - 1)
    BY <1>4
  <2>2. Count(source, i, t) = Count(source, i - 1, t)
    BY <2>1 DEF Count
  <2> QED
    BY <1>2, <1>4, <2>2
<1> QED
  BY <1>3, <1>4

LEMMA BalanceStart == ASSUME NEW source PROVE Balance(source, 0) = 0
<1>1. \A t : {k \in 1 .. 0 : source[k] = t} = {}
  OBVIOUS
<1>2. Cardinality({}) = 0
  BY FS_EmptySet
<1> QED
  BY <1>1, <1>2 DEF Balance

LEMMA BalanceStep ==
  ASSUME NEW source, NEW i \in Nat \ {0}
  PROVE  /\ Balance(source, i) \in Int /\ Balance(source, i - 1) \in Int
         /\ source[i] = "a" => Balance(source, i) = Balance(source, i - 1) + 1
         /\ source[i] = "jet2" => Balance(source, i) = Balance(source, i - 1) - 1
         /\ source[i] \notin {"a", "jet2"} => Balance(source, i) = Balance(source, i - 1)
<1>1. \A j : Balance(source, j) = Count(source, j, "a") - Count(source, j, "jet2")
  BY DEF Balance, Count
<1>2. /\ Count(source, i - 1, "a") \in Nat /\ Count(source, i - 1, "jet2") \in Nat
      /\ Count(source, i, "a") \in Nat /\ Count(source, i, "jet2") \in Nat
  <2>1. i \in Nat /\ i - 1 \in Nat
    OBVIOUS
  <2> QED
    BY <2>1, CountType
<1>3. Count(source, i, "a") = Count(source, i - 1, "a") + (IF source[i] = "a" THEN 1 ELSE 0)
  BY CountStep
<1>4. Count(source, i, "jet2")
        = Count(source, i - 1, "jet2") + (IF source[i] = "jet2" THEN 1 ELSE 0)
  BY CountStep
<1> QED
  BY <1>1, <1>2, <1>3, <1>4

(* Tokens that are no ends of loops do not change it, however many. *)
LEMMA BalanceRun ==
  ASSUME NEW source, NEW i \in Nat, NEW j \in Nat, i <= j,
         \A k \in i + 1 .. j : source[k] \notin {"a", "jet2"}
  PROVE  Balance(source, j) = Balance(source, i)
<1>1. ASSUME NEW t \in {"a", "jet2"}
      PROVE  {k \in 1 .. j : source[k] = t} = {k \in 1 .. i : source[k] = t}
  OBVIOUS
<1> QED
  BY <1>1 DEF Balance

-----------------------------------------------------------------------------
(* Faults of single tokens. *)

(* A token of no loop and no move has none. *)
LEMMA PlainFaultless ==
  ASSUME NEW source, NEW i, TokenAt(source, i) \in Adds \cup Effects \cup {"a"}
  PROVE  Faultless(source, i)
BY DEF Faultless, FaultAt, Adds, Effects, Moves

(* Nor has a move near the start of its run. *)
LEMMA MoveFault ==
  ASSUME NEW source, NEW i, TokenAt(source, i) \in Moves
  PROVE  /\ (i > UINT16_MAX /\ \A k \in i - UINT16_MAX .. i : source[k] = source[i])
              => FaultAt(source, i) = "DP_OUT_OF_BOUNDS"
         /\ ~(i > UINT16_MAX /\ \A k \in i - UINT16_MAX .. i : source[k] = source[i])
              => Faultless(source, i)
<1>1. TokenAt(source, i) \notin {"INVALID", "jet2", "EOF"}
  BY DEF Moves
<1> QED
  BY <1>1, Zenon DEF Faultless, FaultAt

-----------------------------------------------------------------------------
(***************************************************************************)
(* What a compiler knows when it is about to take the p-th token with      *)
(* `depth' loops open: nothing before it was wrong, and a move here is the *)
(* first of its run.                                                       *)
(***************************************************************************)
Scanned(source, p, depth) ==
  /\ p \in 1 .. Len(source) + 1
  /\ \A k \in 1 .. p - 1 : Faultless(source, k)
  /\ Balance(source, p - 1) = depth
  /\ p > 1 /\ TokenAt(source, p) \in Moves => TokenAt(source, p - 1) # TokenAt(source, p)

LEMMA ScanStart ==
  ASSUME NEW source, IsSource(source)
  PROVE  Scanned(source, 1, 0)
<1>1. Len(source) \in Nat
  BY SourceFacts
<1>2. 1 - 1 = 0 /\ 1 .. 0 = {}
  OBVIOUS
<1> QED
  BY <1>1, <1>2, BalanceStart DEF Scanned

(* One token taken. *)
LEMMA ScanOne ==
  ASSUME NEW source, IsSource(source), NEW p, NEW depth, Scanned(source, p, depth),
         p <= Len(source), Faultless(source, p),
         TokenAt(source, p) \notin Moves
  PROVE  Scanned(source, p + 1, Balance(source, p))
<1>1. p \in 1 .. Len(source) /\ Len(source) \in Nat
  BY SourceFacts DEF Scanned
<1>2. p + 1 \in 1 .. Len(source) + 1 /\ (p + 1) - 1 = p
  BY <1>1
<1>3. \A k \in 1 .. p : Faultless(source, k)
  BY <1>1 DEF Scanned
<1> QED
  BY <1>2, <1>3 DEF Scanned

LEMMA ScanEffect ==
  ASSUME NEW source, IsSource(source), NEW p, NEW depth, Scanned(source, p, depth),
         TokenAt(source, p) \in Effects
  PROVE  Scanned(source, p + 1, depth)
<1>1. p \in 1 .. Len(source) /\ source[p] \in Effects
  BY SourceFacts DEF Effects, Keyword, Scanned
<1>2. p \in Nat \ {0} /\ p <= Len(source)
  BY <1>1, SourceFacts
<1>3. Balance(source, p) = depth
  BY <1>1, <1>2, BalanceStep DEF Scanned, Effects
<1>4. Faultless(source, p) /\ TokenAt(source, p) \notin Moves
  BY PlainFaultless DEF Effects, Moves
<1> QED
  BY <1>2, <1>3, <1>4, ScanOne

LEMMA ScanOpen ==
  ASSUME NEW source, IsSource(source), NEW p, NEW depth, Scanned(source, p, depth),
         TokenAt(source, p) = "a"
  PROVE  Scanned(source, p + 1, depth + 1)
<1>1. p \in 1 .. Len(source) /\ source[p] = "a"
  BY SourceFacts DEF Keyword, Scanned
<1>2. p \in Nat \ {0} /\ p <= Len(source)
  BY <1>1, SourceFacts
<1>3. Balance(source, p) = depth + 1
  BY <1>1, <1>2, BalanceStep DEF Scanned
<1>4. Faultless(source, p) /\ TokenAt(source, p) \notin Moves
  BY PlainFaultless DEF Moves
<1> QED
  BY <1>2, <1>3, <1>4, ScanOne

LEMMA ScanClose ==
  ASSUME NEW source, IsSource(source), NEW p, NEW depth, Scanned(source, p, depth),
         TokenAt(source, p) = "jet2"
  PROVE  /\ depth \in Nat \ {0} => Scanned(source, p + 1, depth - 1)
         /\ depth = 0 => IsVerdict(source, p, "UNEXPECTED_LOOP_END")
<1>1. p \in 1 .. Len(source) /\ source[p] = "jet2"
  BY SourceFacts DEF Keyword, Scanned
<1>2. p \in Nat \ {0} /\ p <= Len(source)
  BY <1>1, SourceFacts
<1>3. Balance(source, p) = depth - 1 /\ TokenAt(source, p) \notin Moves
  BY <1>1, <1>2, BalanceStep DEF Scanned, Moves
<1>4. FaultAt(source, p) = IF Balance(source, p) < 0 THEN "UNEXPECTED_LOOP_END" ELSE "SUCCESS"
  BY <1>3 DEF FaultAt
<1>5. ASSUME depth \in Nat \ {0} PROVE Scanned(source, p + 1, depth - 1)
  <2>1. ~(Balance(source, p) < 0)
    BY <1>3, <1>5
  <2>2. Faultless(source, p)
    BY <1>4, <2>1 DEF Faultless
  <2> QED
    BY <1>2, <1>3, <2>2, ScanOne
<1>6. ASSUME depth = 0 PROVE IsVerdict(source, p, "UNEXPECTED_LOOP_END")
  BY <1>3, <1>4, <1>6 DEF IsVerdict, Scanned
<1> QED
  BY <1>5, <1>6

(* A whole run taken, short enough if it is one of moves. *)
LEMMA ScanRun ==
  ASSUME NEW source, IsSource(source), NEW p, NEW depth, Scanned(source, p, depth),
         TokenAt(source, p) \in Moves \cup Adds,
         NEW n \in Nat \ {0}, IsRun(source, p, n),
         TokenAt(source, p) \in Moves => n <= UINT16_MAX
  PROVE  Scanned(source, p + n, depth)
<1>1. p \in 1 .. Len(source) /\ source[p] = TokenAt(source, p) /\ Len(source) \in Nat
  BY SourceFacts DEF Moves, Adds, Keyword
<1>2. /\ p + n \in 1 .. Len(source) + 1 /\ p + n - 1 \in Nat /\ p - 1 \in Nat
      /\ p - 1 <= p + n - 1
  BY <1>1, RunFacts
<1>3. \A k \in p .. p + n - 1 : source[k] = source[p] /\ TokenAt(source, k) = source[p]
  BY <1>1, RunFacts
<1>4. Balance(source, p + n - 1) = depth
  <2>1. \A k \in (p - 1) + 1 .. p + n - 1 : source[k] \notin {"a", "jet2"}
    BY <1>1, <1>3 DEF Moves, Adds
  <2> QED
    BY <1>2, <2>1, BalanceRun DEF Scanned
<1>5. ASSUME NEW k \in p .. p + n - 1
      PROVE  Faultless(source, k)
  <2>1. CASE source[p] \in Adds
    BY <1>3, <2>1, PlainFaultless
  <2>2. CASE source[p] \in Moves
    <3>1. k \in Nat /\ p \in Nat /\ UINT16_MAX \in Nat /\ k - p < UINT16_MAX
      BY <1>1, <2>2, WidthAssumption DEF WidthAssumption
    <3>2. ASSUME k > UINT16_MAX, \A m \in k - UINT16_MAX .. k : source[m] = source[k]
          PROVE  FALSE
      <4>1. p - 1 \in k - UINT16_MAX .. k /\ p > 1 /\ p - 1 \in 1 .. Len(source)
        BY <1>1, <3>1, <3>2
      <4>2. source[p - 1] = source[p] /\ TokenAt(source, p - 1) = source[p - 1]
        BY <1>3, <3>2, <4>1, SourceFacts
      <4> QED
        BY <1>1, <2>2, <4>1, <4>2 DEF Scanned
    <3>3. TokenAt(source, k) \in Moves
      BY <1>3, <2>2
    <3> QED
      BY <3>2, <3>3, MoveFault
  <2> QED
    BY <1>1, <2>1, <2>2
<1>6. \A k \in 1 .. p + n - 1 : Faultless(source, k)
  BY <1>1, <1>5 DEF Scanned
<1>7. TokenAt(source, p + n - 1) # TokenAt(source, p + n)
  BY <1>1, RunFacts
<1> QED
  BY <1>2, <1>4, <1>6, <1>7 DEF Scanned

(* The move with which a run gets too long is at fault. *)
LEMMA ScanOverrun ==
  ASSUME NEW source, IsSource(source), NEW p, NEW depth, Scanned(source, p, depth),
         TokenAt(source, p) \in Moves,
         NEW n \in Nat \ {0}, IsRun(source, p, n), n > UINT16_MAX
  PROVE  IsVerdict(source, p + UINT16_MAX, "DP_OUT_OF_BOUNDS")
<1>1. p \in 1 .. Len(source) /\ source[p] = TokenAt(source, p) /\ Len(source) \in Nat
  BY SourceFacts DEF Moves, Keyword
<1>2. UINT16_MAX \in Nat
  BY WidthAssumption DEF WidthAssumption
<1> DEFINE q == p + UINT16_MAX
<1>3. \A k \in p .. p + n - 1 : source[k] = source[p] /\ TokenAt(source, k) = source[p]
  BY <1>1, RunFacts
<1>4. q \in p .. p + n - 1 /\ q - UINT16_MAX = p /\ q > UINT16_MAX /\ q \in Nat
  BY <1>1, <1>2
<1>5. \A k \in p .. q : source[k] = source[q]
  BY <1>1, <1>3, <1>4
<1>6. FaultAt(source, q) = "DP_OUT_OF_BOUNDS"
  <2>1. TokenAt(source, q) \in Moves
    BY <1>1, <1>3, <1>4
  <2> HIDE DEF q
  <2> QED
    BY <1>4, <1>5, <2>1, MoveFault
<1>7. ASSUME NEW k \in p .. q - 1
      PROVE  Faultless(source, k)
  <2>1. k \in Nat /\ p \in Nat /\ k - p < UINT16_MAX /\ k \in p .. p + n - 1
    BY <1>1, <1>2
  <2>2. ASSUME k > UINT16_MAX, \A m \in k - UINT16_MAX .. k : source[m] = source[k]
        PROVE  FALSE
    <3>1. p - 1 \in k - UINT16_MAX .. k /\ p > 1 /\ p - 1 \in 1 .. Len(source)
      BY <1>1, <1>2, <2>1, <2>2
    <3>2. source[p - 1] = source[p] /\ TokenAt(source, p - 1) = source[p - 1]
      BY <1>3, <2>1, <2>2, <3>1, SourceFacts
    <3> QED
      BY <1>1, <3>1, <3>2 DEF Scanned
  <2>3. TokenAt(source, k) \in Moves
    BY <1>1, <1>3, <2>1
  <2> QED
    BY <2>2, <2>3, MoveFault
<1>8. \A k \in 1 .. q - 1 : Faultless(source, k)
  BY <1>1, <1>2, <1>7 DEF Scanned
<1> QED
  BY <1>6, <1>8 DEF IsVerdict

(* The other two faults, and none at all. *)
LEMMA ScanInvalid ==
  ASSUME NEW source, NEW p, NEW depth, Scanned(source, p, depth),
         TokenAt(source, p) = "INVALID"
  PROVE  IsVerdict(source, p, "INVALID_TOKEN")
<1>1. FaultAt(source, p) = "INVALID_TOKEN"
  BY DEF FaultAt, Moves
<1> QED
  BY <1>1 DEF IsVerdict, Scanned

LEMMA ScanEnd ==
  ASSUME NEW source, IsSource(source), NEW p, NEW depth \in Nat, Scanned(source, p, depth),
         TokenAt(source, p) = "EOF"
  PROVE  /\ depth # 0 => IsVerdict(source, p, "UNCLOSED_LOOPS")
         /\ depth = 0 => IsVerdict(source, p, "SUCCESS")
<1>1. p = Len(source) + 1
  <2>1. p \notin 1 .. Len(source)
    BY SourceFacts DEF Keyword, Moves, Adds, Effects
  <2> QED
    BY <2>1, SourceFacts DEF Scanned
<1>2. FaultAt(source, p) = IF Balance(source, p - 1) > 0 THEN "UNCLOSED_LOOPS" ELSE "SUCCESS"
  BY DEF FaultAt, Moves
<1> QED
  BY <1>1, <1>2 DEF IsVerdict, Scanned

-----------------------------------------------------------------------------
(***************************************************************************)
(* m silent commands lead from configuration c to d.                       *)
(***************************************************************************)
At(pc, dp, memory) == [pc |-> pc, dp |-> dp, memory |-> memory]

Path(source, g, m) ==
  \A n \in 1 .. m : IsSilent(source, g[n - 1]) /\ g[n] = Silent(source, g[n - 1])

Leads(source, c, d, m) ==
  /\ m \in Nat
  /\ \E g : g[0] = c /\ g[m] = d /\ Path(source, g, m)

LEMMA LeadsNowhere == ASSUME NEW source, NEW c PROVE Leads(source, c, c, 0)
<1> DEFINE g == [n \in {0} |-> c]
<1>1. g[0] = c /\ Path(source, g, 0)
  BY DEF Path
<1> QED
  BY <1>1 DEF Leads

LEMMA LeadsOn ==
  ASSUME NEW source, NEW c, NEW d, NEW m, Leads(source, c, d, m), IsSilent(source, d)
  PROVE  Leads(source, c, Silent(source, d), m + 1)
<1>1. PICK g : g[0] = c /\ g[m] = d /\ Path(source, g, m)
  BY DEF Leads
<1>2. m \in Nat
  BY DEF Leads
<1> DEFINE h == [n \in 0 .. m + 1 |-> IF n <= m THEN g[n] ELSE Silent(source, d)]
<1>3. h[0] = c /\ h[m + 1] = Silent(source, d)
  BY <1>1, <1>2
<1>4. ASSUME NEW n \in 1 .. m + 1
      PROVE  IsSilent(source, h[n - 1]) /\ h[n] = Silent(source, h[n - 1])
  <2>1. CASE n <= m
    <3>1. n \in 1 .. m /\ h[n - 1] = g[n - 1] /\ h[n] = g[n]
      BY <1>2, <1>4, <2>1
    <3> QED
      BY <1>1, <3>1 DEF Path
  <2>2. CASE n = m + 1
    <3>1. h[n - 1] = d /\ h[n] = Silent(source, d)
      BY <1>1, <1>2, <2>2
    <3> QED
      BY <3>1
  <2> QED
    BY <1>2, <1>4, <2>1, <2>2
<1>5. Path(source, h, m + 1)
  <2> HIDE DEF h
  <2> QED
    BY <1>4 DEF Path
<1> HIDE DEF h
<1> QED
  BY <1>2, <1>3, <1>5 DEF Leads

LEMMA LeadsJoin ==
  ASSUME NEW source, NEW c, NEW d, NEW e, NEW m, NEW k,
         Leads(source, c, d, m), Leads(source, d, e, k)
  PROVE  Leads(source, c, e, m + k)
<1>1. PICK g : g[0] = c /\ g[m] = d /\ Path(source, g, m)
  BY DEF Leads
<1>2. PICK h : h[0] = d /\ h[k] = e /\ Path(source, h, k)
  BY DEF Leads
<1>3. m \in Nat /\ k \in Nat
  BY DEF Leads
<1> DEFINE f == [n \in 0 .. m + k |-> IF n <= m THEN g[n] ELSE h[n - m]]
<1>4. f[0] = c /\ f[m + k] = e
  <2>1. f[0] = g[0]
    BY <1>3
  <2>2. k = 0 => f[m + k] = g[m] /\ d = e
    BY <1>1, <1>2, <1>3
  <2>3. k # 0 => f[m + k] = h[k]
    BY <1>3
  <2> QED
    BY <1>1, <1>2, <2>1, <2>2, <2>3
<1>5. ASSUME NEW n \in 1 .. m + k
      PROVE  IsSilent(source, f[n - 1]) /\ f[n] = Silent(source, f[n - 1])
  <2>1. CASE n <= m
    <3>1. n \in 1 .. m /\ f[n - 1] = g[n - 1] /\ f[n] = g[n]
      BY <1>3, <1>5, <2>1
    <3> QED
      BY <1>1, <3>1 DEF Path
  <2>2. CASE n = m + 1
    <3>1. f[n - 1] = g[m] /\ f[n] = h[1] /\ 1 \in 1 .. k
      BY <1>3, <1>5, <2>2
    <3>2. IsSilent(source, h[1 - 1]) /\ h[1] = Silent(source, h[1 - 1])
      BY <1>2, <3>1 DEF Path
    <3> QED
      BY <1>1, <1>2, <3>1, <3>2
  <2>3. CASE n > m + 1
    <3>1. n - m \in 1 .. k /\ f[n - 1] = h[(n - m) - 1] /\ f[n] = h[n - m]
      <4>1. n - m \in 1 .. k /\ ~(n <= m) /\ ~(n - 1 <= m) /\ n - 1 \in 0 .. m + k
             /\ (n - 1) - m = (n - m) - 1
        BY <1>3, <1>5, <2>3
      <4> QED
        BY <4>1
    <3>2. IsSilent(source, h[(n - m) - 1]) /\ h[n - m] = Silent(source, h[(n - m) - 1])
      BY <1>2, <3>1 DEF Path
    <3> QED
      BY <3>1, <3>2
  <2> QED
    BY <1>3, <1>5, <2>1, <2>2, <2>3
<1>6. Path(source, f, m + k)
  <2> HIDE DEF f
  <2> QED
    BY <1>5 DEF Path
<1> HIDE DEF f
<1> QED
  BY <1>3, <1>4, <1>6 DEF Leads

LEMMA LeadsAhead ==
  ASSUME NEW source, NEW c, NEW d, NEW m, Leads(source, c, d, m),
         Len(source) \in Nat, m <= Len(source)
  PROVE  d \in Ahead(source, c)
<1> DEFINE L == Len(source)
           Further(e) == IF IsSilent(source, e) THEN Silent(source, e) ELSE e
           Unrolled(f, k) == f = [n \in 0 .. k |-> IF n = 0 THEN c ELSE Further(f[n - 1])]
           Known == {k \in Nat : \E f : Unrolled(f, k)}
<1>1. L \in Nat /\ m \in 0 .. L
  BY DEF Leads
<1> HIDE DEF L
<1>2. ASSUME NEW k \in Known PROVE k + 1 \in Known
  <2>1. PICK f : Unrolled(f, k)
    OBVIOUS
  <2> DEFINE h == [n \in 0 .. k + 1 |-> IF n <= k THEN f[n] ELSE Further(f[k])]
  <2>2. k \in Nat
    OBVIOUS
  <2>3. ASSUME NEW n \in 0 .. k + 1
        PROVE  h[n] = IF n = 0 THEN c ELSE Further(h[n - 1])
    <3> HIDE DEF Further
    <3>1. CASE n = 0
      BY <2>1, <2>2, <3>1
    <3>2. CASE n \in 1 .. k
      <4>1. n \in 0 .. k /\ n - 1 \in 0 .. k /\ n # 0
        BY <2>2, <3>2
      <4>2. f[n] = Further(f[n - 1])
        BY <2>1, <4>1
      <4>3. h[n] = f[n] /\ h[n - 1] = f[n - 1]
        BY <2>2, <2>3, <3>2
      <4> QED
        BY <4>1, <4>2, <4>3
    <3>3. CASE n = k + 1
      BY <2>2, <3>3
    <3> QED
      BY <2>2, <2>3, <3>1, <3>2, <3>3
  <2>4. Unrolled(h, k + 1)
    <3> HIDE DEF Further
    <3>1. h = [n \in 0 .. k + 1 |-> h[n]]
      OBVIOUS
    <3> QED
      BY <2>3, <3>1
  <2> QED
    BY <2>2, <2>4
<1>3. 0 \in Known
  <2> DEFINE f == [n \in 0 .. 0 |-> c]
  <2>1. Unrolled(f, 0)
    OBVIOUS
  <2> QED
    BY <2>1
<1>4. \E f : Unrolled(f, L)
  <2>1. \A n \in 0 .. L : n \in Known
    <3> HIDE DEF Known
    <3> QED
      BY <1>1, <1>2, <1>3, SetInduction
  <2>2. L \in Known
    <3> HIDE DEF Known
    <3> QED
      BY <1>1, <2>1
  <2> HIDE DEF Unrolled
  <2> QED
    BY <2>2
<1> DEFINE after == CHOOSE f : Unrolled(f, L)
<1>5. Unrolled(after, L)
  BY <1>4
<1>6. Ahead(source, c) = {after[n] : n \in 0 .. L}
  BY DEF Ahead, L
<1> HIDE DEF after
<1>7. PICK g : g[0] = c /\ g[m] = d /\ Path(source, g, m)
  BY DEF Leads
<1> DEFINE Same == {n \in Nat : after[n] = g[n]}
<1>8. 0 \in Same
  BY <1>1, <1>5, <1>7
<1>9. ASSUME NEW n \in Same, n < m PROVE n + 1 \in Same
  <2>1. n \in Nat /\ n + 1 \in 0 .. L /\ n + 1 # 0 /\ (n + 1) - 1 = n /\ n + 1 \in 1 .. m
    BY <1>1, <1>9
  <2>2. after[n + 1] = Further(after[n])
    <3> HIDE DEF Further
    <3> QED
      BY <1>5, <2>1
  <2>3. IsSilent(source, g[n]) /\ g[n + 1] = Silent(source, g[n])
    BY <1>7, <2>1 DEF Path
  <2> QED
    BY <1>9, <2>1, <2>2, <2>3
<1>10. m \in Same
  <2>1. \A n \in 0 .. m : n \in Same
    <3> HIDE DEF Same
    <3> QED
      BY <1>1, <1>8, <1>9, SetInduction
  <2> QED
    BY <1>1, <2>1
<1> QED
  BY <1>1, <1>6, <1>7, <1>10

(***************************************************************************)
(* What silent commands do, one by one and in runs.                        *)
(***************************************************************************)
Incremented(memory, d) == [memory EXCEPT ![d] = IF @ = UINT8_MAX THEN 0 ELSE @ + 1]
Decremented(memory, d) == [memory EXCEPT ![d] = IF @ = 0 THEN UINT8_MAX ELSE @ - 1]
Added(memory, d, z) == [memory EXCEPT ![d] = (@ + z) % (UINT8_MAX + 1)]

LEMMA SilentMove ==
  ASSUME NEW source, NEW p, NEW d, NEW memory, TokenAt(source, p) \in Moves,
         NEW e \in Cell, e = IF TokenAt(source, p) = "darling" THEN d + 1 ELSE d - 1
  PROVE  /\ IsSilent(source, At(p, d, memory))
         /\ Silent(source, At(p, d, memory)) = At(p + 1, e, memory)
<1>1. /\ Here(source, At(p, d, memory)) = TokenAt(source, p)
      /\ MovedTo(source, At(p, d, memory)) = e
      /\ Onward(At(p, d, memory)) = At(p + 1, d, memory)
  BY DEF Here, MovedTo, Onward, At
<1>2. CASE TokenAt(source, p) = "darling"
  BY <1>1, <1>2 DEF Silent, IsSilent, At, Moves
<1>3. CASE TokenAt(source, p) = "hold"
  BY <1>1, <1>3 DEF Silent, IsSilent, At, Moves
<1> QED
  BY <1>2, <1>3 DEF Moves

LEMMA SilentAdd ==
  ASSUME NEW source, NEW p, NEW d, NEW memory, TokenAt(source, p) \in Adds
  PROVE  /\ IsSilent(source, At(p, d, memory))
         /\ Silent(source, At(p, d, memory)) =
              At(p + 1, d, IF TokenAt(source, p) = "my" THEN Incremented(memory, d)
                           ELSE Decremented(memory, d))
<1>1. IsSilent(source, At(p, d, memory))
  BY DEF IsSilent, Here, At
<1>2. CASE TokenAt(source, p) = "my"
  BY <1>1, <1>2 DEF Silent, Here, Onward, At, Moves, Incremented
<1>3. CASE TokenAt(source, p) = "hand"
  BY <1>1, <1>3 DEF Silent, Here, Onward, At, Moves, Decremented
<1> QED
  BY <1>2, <1>3 DEF Adds

LEMMA SilentLoop ==
  ASSUME NEW source, NEW p, NEW d, NEW memory, TokenAt(source, p) \in {"a", "jet2"}
  PROVE  /\ IsSilent(source, At(p, d, memory))
         /\ Silent(source, At(p, d, memory)) =
              At(IF (TokenAt(source, p) = "a") = (memory[d] = 0)
                 THEN (IF TokenAt(source, p) = "a"
                       THEN ClosedAt(source, p) + 1 ELSE OpenedAt(source, p) + 1)
                 ELSE p + 1, d, memory)
<1>1. IsSilent(source, At(p, d, memory))
  BY DEF IsSilent, Here, At
<1>2. CASE TokenAt(source, p) = "a"
  BY <1>1, <1>2 DEF Silent, Here, Onward, At, Moves
<1>3. CASE TokenAt(source, p) = "jet2"
  BY <1>1, <1>3 DEF Silent, Here, Onward, At, Moves
<1> QED
  BY <1>2, <1>3

(* Arithmetic on a cell. *)
LEMMA AddedFacts ==
  ASSUME NEW memory \in [Cell -> Byte], NEW d \in Cell, NEW z \in Int
  PROVE  /\ z % (UINT8_MAX + 1) = 0 => Added(memory, d, z) = memory
         /\ Added(memory, d, z) \in [Cell -> Byte]
         /\ Added(memory, d, z + 1) = Incremented(Added(memory, d, z), d)
         /\ Added(memory, d, z - 1) = Decremented(Added(memory, d, z), d)
<1> DEFINE n == UINT8_MAX + 1
           x == memory[d]
<1>1. n \in Nat \ {0} /\ n - 1 = UINT8_MAX /\ Byte = 0 .. n - 1
  BY WidthAssumption DEF WidthAssumption, Byte
<1>2. x \in 0 .. n - 1 /\ x \in Int
  BY <1>1
<1>3. Added(memory, d, z) = [memory EXCEPT ![d] = (x + z) % n]
      /\ Added(memory, d, z + 1) = [memory EXCEPT ![d] = (x + (z + 1)) % n]
      /\ Added(memory, d, z - 1) = [memory EXCEPT ![d] = (x + (z - 1)) % n]
  BY DEF Added
<1> HIDE DEF n, x
<1>4. x + (z + 1) = (x + z) + 1 /\ x + (z - 1) = (x + z) - 1 /\ x + z \in Int
  BY <1>2
<1>5. /\ (x + (z + 1)) % n = IF (x + z) % n = n - 1 THEN 0 ELSE ((x + z) % n) + 1
      /\ (x + (z - 1)) % n = IF (x + z) % n = 0 THEN n - 1 ELSE ((x + z) % n) - 1
  BY <1>1, <1>4, RemainderStep
<1>6. (x + z) % n \in 0 .. n - 1
  BY <1>1, <1>4
<1>7. Added(memory, d, z) \in [Cell -> Byte]
  BY <1>1, <1>3, <1>6
<1>8. z % n = 0 => (x + z) % n = x
  <2>1. (x + (z % n)) % n = (x + z) % n
    BY <1>1, <1>2, RemainderAdd
  <2>2. x % n = x
    <3>1. x = n * 0 + x
      BY <1>1, <1>2
    <3> QED
      BY <1>1, <1>2, <3>1, RemainderIs
  <2>3. x + 0 = x
    BY <1>2
  <2> QED
    BY <2>1, <2>2, <2>3
<1>9. z % n = 0 => Added(memory, d, z) = memory
  BY <1>3, <1>8 DEF x
<1>10. Added(memory, d, z)[d] = (x + z) % n
  BY <1>3
<1> QED
  BY <1>1, <1>3, <1>5, <1>7, <1>9, <1>10 DEF n, Incremented, Decremented

LEMMA AddRun ==
  ASSUME NEW source, NEW p \in Nat, NEW n \in Nat, NEW d \in Cell,
         NEW memory \in [Cell -> Byte], NEW t \in Adds,
         \A k \in p .. p + n - 1 : TokenAt(source, k) = t
  PROVE  Leads(source, At(p, d, memory),
               At(p + n, d, Added(memory, d, IF t = "my" THEN n ELSE 0 - n)), n)
<1> DEFINE z(k) == IF t = "my" THEN k ELSE 0 - k
           d0(k) == At(p + k, d, Added(memory, d, z(k)))
           S == {k \in Nat : Leads(source, At(p, d, memory), d0(k), k)}
<1>1. 0 \in S
  <2>1. z(0) = 0 /\ p + 0 = p
    BY DEF Adds
  <2>2. 0 % (UINT8_MAX + 1) = 0
    <3>1. /\ UINT8_MAX + 1 \in Nat \ {0} /\ 0 = (UINT8_MAX + 1) * 0 + 0
          /\ 0 \in 0 .. (UINT8_MAX + 1) - 1
      BY WidthAssumption DEF WidthAssumption
    <3> QED
      BY <3>1, RemainderIs
  <2>3. Added(memory, d, 0) = memory
    <3>1. 0 \in Int
      OBVIOUS
    <3> QED
      BY <2>2, <3>1, AddedFacts
  <2> QED
    BY <2>1, <2>3, LeadsNowhere
<1>2. ASSUME NEW k \in S, k < n PROVE k + 1 \in S
  <2>1. k \in Nat /\ p + k \in p .. p + n - 1 /\ (p + k) + 1 = p + (k + 1)
    BY <1>2
  <2>2. TokenAt(source, p + k) = t
    BY <2>1
  <2>3. z(k) \in Int /\ z(k + 1) = IF t = "my" THEN z(k) + 1 ELSE z(k) - 1
    BY <2>1
  <2> HIDE DEF z
  <2>5. IsSilent(source, d0(k)) /\ Silent(source, d0(k)) = d0(k + 1)
    BY <2>1, <2>2, <2>3, AddedFacts, SilentAdd
  <2>6. Leads(source, At(p, d, memory), d0(k), k)
    BY <1>2
  <2> HIDE DEF d0
  <2> QED
    BY <2>1, <2>5, <2>6, LeadsOn
<1>3. \A k \in 0 .. n : k \in S
  <2> HIDE DEF S
  <2> QED
    BY <1>1, <1>2, SetInduction
<1> QED
  BY <1>3

LEMMA MoveRun ==
  ASSUME NEW source, NEW p \in Nat, NEW n \in Nat, NEW d \in Cell, NEW memory,
         NEW t \in Moves, \A k \in p .. p + n - 1 : TokenAt(source, k) = t,
         (IF t = "darling" THEN d + n ELSE d - n) \in Cell
  PROVE  Leads(source, At(p, d, memory),
               At(p + n, IF t = "darling" THEN d + n ELSE d - n, memory), n)
<1> DEFINE z(k) == IF t = "darling" THEN d + k ELSE d - k
           d0(k) == At(p + k, z(k), memory)
           S == {k \in Nat : Leads(source, At(p, d, memory), d0(k), k)}
<1>0. d \in Nat /\ Cell = 0 .. MEMORY_SIZE - 1 /\ MEMORY_SIZE \in Nat
  BY WidthAssumption DEF WidthAssumption, Cell
<1>1. 0 \in S
  <2>1. z(0) = d /\ p + 0 = p
    BY <1>0
  <2> QED
    BY <2>1, LeadsNowhere
<1>2. ASSUME NEW k \in S, k < n PROVE k + 1 \in S
  <2>1. k \in Nat /\ p + k \in p .. p + n - 1 /\ (p + k) + 1 = p + (k + 1)
    BY <1>2
  <2>2. TokenAt(source, p + k) = t
    BY <2>1
  <2>3. z(k + 1) \in Cell /\ z(k + 1) = IF t = "darling" THEN z(k) + 1 ELSE z(k) - 1
    BY <1>0, <1>2, <2>1
  <2> HIDE DEF z
  <2>4. t = "darling" \/ t = "hold"
    BY DEF Moves
  <2>5. IsSilent(source, d0(k)) /\ Silent(source, d0(k)) = d0(k + 1)
    BY <2>1, <2>2, <2>3, <2>4, SilentMove
  <2>6. Leads(source, At(p, d, memory), d0(k), k)
    BY <1>2
  <2> HIDE DEF d0
  <2> QED
    BY <2>1, <2>5, <2>6, LeadsOn
<1>3. \A k \in 0 .. n : k \in S
  <2> HIDE DEF S
  <2> QED
    BY <1>1, <1>2, SetInduction
<1> QED
  BY <1>3

-----------------------------------------------------------------------------
(* Loops: an `a' has one `jet2', and the other way round. *)
LEMMA MatchingIsUnique ==
  ASSUME NEW source, NEW i \in DOMAIN source, NEW j \in DOMAIN source,
         DOMAIN source \subseteq Nat \ {0}, Matching(source, i, j)
  PROVE  ClosedAt(source, i) = j /\ OpenedAt(source, j) = i
<1>1. /\ i \in Nat \ {0} /\ j \in Nat \ {0} /\ i < j
      /\ Balance(source, i) = Balance(source, j) + 1
      /\ \A k \in i .. j - 1 : Balance(source, k) >= Balance(source, i)
  BY DEF Matching
<1>2. \A k \in Nat \ {0} : Balance(source, k) \in Int /\ Balance(source, k - 1) \in Int
  BY BalanceStep
<1>3. ASSUME NEW k \in DOMAIN source, Matching(source, i, k) PROVE k = j
  <2>1. /\ k \in Nat \ {0} /\ i < k /\ Balance(source, i) = Balance(source, k) + 1
        /\ \A h \in i .. k - 1 : Balance(source, h) >= Balance(source, i)
    BY <1>3 DEF Matching
  <2>2. ~(k < j)
    <3>1. k < j => Balance(source, k) >= Balance(source, i)
      BY <1>1, <2>1
    <3> QED
      BY <1>1, <1>2, <2>1, <3>1
  <2>3. ~(j < k)
    <3>1. j < k => Balance(source, j) >= Balance(source, i)
      BY <1>1, <2>1
    <3> QED
      BY <1>1, <1>2, <2>1, <3>1
  <2> QED
    BY <1>1, <2>1, <2>2, <2>3
<1>4. ASSUME NEW k \in DOMAIN source, NEW h \in DOMAIN source, k < h,
             Matching(source, k, j), Matching(source, h, j)
      PROVE  FALSE
  <2>1. k \in Nat \ {0} /\ h \in Nat \ {0} /\ k < h /\ h < j /\ source[h] = "a"
    BY <1>4 DEF Matching
  <2>2. Balance(source, k) = Balance(source, j) + 1
        /\ Balance(source, h) = Balance(source, j) + 1
        /\ \A g \in k .. j - 1 : Balance(source, g) >= Balance(source, k)
    BY <1>4 DEF Matching
  <2>3. Balance(source, h) = Balance(source, h - 1) + 1
    BY <2>1, BalanceStep
  <2>4. Balance(source, h - 1) >= Balance(source, k)
    BY <1>1, <2>1, <2>2
  <2> QED
    BY <1>1, <1>2, <2>1, <2>2, <2>3, <2>4
<1>5. ASSUME NEW k \in DOMAIN source, Matching(source, k, j) PROVE k = i
  <2>1. ~(k < i) /\ ~(i < k)
    BY <1>4, <1>5
  <2>2. k \in Nat /\ i \in Nat
    OBVIOUS
  <2> QED
    BY <2>1, <2>2
<1>6. ClosedAt(source, i) = j
  BY <1>3 DEF ClosedAt
<1>7. OpenedAt(source, j) = i
  BY <1>5 DEF OpenedAt
<1> QED
  BY <1>6, <1>7

-----------------------------------------------------------------------------
(***************************************************************************)
(* From p to q there are only commands that come to nothing.               *)
(***************************************************************************)
Skips(source, p, q) ==
  /\ p \in Nat \ {0} /\ q \in Nat /\ p <= q /\ q <= Len(source) + 1
  /\ \A d \in Cell, memory \in [Cell -> Byte] :
       Leads(source, At(p, d, memory), At(q, d, memory), q - p)

LEMMA SkipsNone ==
  ASSUME NEW source, IsSource(source), NEW p \in 1 .. Len(source) + 1
  PROVE  Skips(source, p, p)
<1>1. Len(source) \in Nat
  BY SourceFacts
<1>2. p \in Nat \ {0} /\ p <= p /\ p <= Len(source) + 1 /\ p - p = 0
  BY <1>1
<1> QED
  BY <1>2, LeadsNowhere DEF Skips

(* A run that wraps to nothing is passed. *)
LEMMA SkipsRun ==
  ASSUME NEW source, IsSource(source), NEW p, NEW q, Skips(source, p, q),
         NEW n \in Nat \ {0}, NEW t \in Adds, n % (UINT8_MAX + 1) = 0,
         \A k \in q .. q + n - 1 : k \in 1 .. Len(source) /\ TokenAt(source, k) = t
  PROVE  Skips(source, p, q + n)
<1>1. /\ Len(source) \in Nat /\ p \in Nat \ {0} /\ q \in Nat /\ p <= q
      /\ q + n - 1 \in q .. q + n - 1
  BY SourceFacts DEF Skips
<1>2. q + n \in Nat /\ p <= q + n /\ q + n <= Len(source) + 1
  BY <1>1
<1>3. ASSUME NEW d \in Cell, NEW memory \in [Cell -> Byte]
      PROVE  Leads(source, At(p, d, memory), At(q + n, d, memory), (q + n) - p)
  <2>1. Leads(source, At(p, d, memory), At(q, d, memory), q - p)
    BY DEF Skips
  <2> DEFINE z == IF t = "my" THEN n ELSE 0 - n
  <2>2. z \in Int /\ z % (UINT8_MAX + 1) = 0
    <3> DEFINE m == UINT8_MAX + 1
               k == n \div m
    <3>1. m \in Nat \ {0} /\ n % m = 0
      BY WidthAssumption DEF WidthAssumption
    <3> HIDE DEF m
    <3>2. k \in Int /\ n = m * k + (n % m) /\ m * k \in Int
      BY <3>1
    <3> HIDE DEF k
    <3>3. 0 - n = m * (0 - k) + 0 /\ 0 - k \in Int /\ 0 \in 0 .. m - 1 /\ 0 - n \in Int
      BY <3>1, <3>2
    <3>4. (0 - n) % m = 0
      BY <3>1, <3>3, RemainderIs
    <3> QED
      BY <3>3, <3>4 DEF m
  <2>3. Leads(source, At(q, d, memory), At(q + n, d, Added(memory, d, z)), n)
    BY <1>1, AddRun
  <2> HIDE DEF z
  <2>4. Added(memory, d, z) = memory
    BY <2>2, AddedFacts
  <2>5. (q - p) + n = (q + n) - p
    BY <1>1
  <2> QED
    BY <2>1, <2>3, <2>4, <2>5, LeadsJoin
<1> QED
  BY <1>1, <1>2, <1>3 DEF Skips

(***************************************************************************)
(* What is ahead of a configuration at p, if what comes up to k is passed: *)
(* the command there itself, and what it or its run makes of the           *)
(* configuration if it is silent.                                          *)
(***************************************************************************)
LEMMA JoinAhead ==
  ASSUME NEW source, IsSource(source), NEW p, NEW k, Skips(source, p, k),
         NEW d \in Cell, NEW memory \in [Cell -> Byte], NEW c, NEW n \in Nat,
         Leads(source, At(k, d, memory), c, n), k + n <= Len(source) + 1
  PROVE  c \in Ahead(source, At(p, d, memory))
<1>1. Leads(source, At(p, d, memory), At(k, d, memory), k - p)
  BY DEF Skips
<1>2. Leads(source, At(p, d, memory), c, (k - p) + n)
  BY <1>1, LeadsJoin
<1>3. (k - p) + n <= Len(source) /\ Len(source) \in Nat
  BY SourceFacts DEF Skips
<1> QED
  BY <1>2, <1>3, LeadsAhead

LEMMA HereAhead ==
  ASSUME NEW source, IsSource(source), NEW p, NEW k, Skips(source, p, k),
         NEW d \in Cell, NEW memory \in [Cell -> Byte]
  PROVE  At(k, d, memory) \in Ahead(source, At(p, d, memory))
<1>1. k + 0 <= Len(source) + 1
  BY DEF Skips
<1> QED
  BY <1>1, LeadsNowhere, JoinAhead

LEMMA MoveAhead ==
  ASSUME NEW source, IsSource(source), NEW p, NEW k, Skips(source, p, k),
         NEW d \in Cell, NEW memory \in [Cell -> Byte], NEW n \in Nat \ {0},
         NEW t \in Moves, k + n <= Len(source) + 1,
         \A i \in k .. k + n - 1 : TokenAt(source, i) = t,
         NEW e \in Cell, e = IF t = "darling" THEN d + n ELSE d - n
  PROVE  At(k + n, e, memory) \in Ahead(source, At(p, d, memory))
<1>1. k \in Nat
  BY DEF Skips
<1>2. Leads(source, At(k, d, memory), At(k + n, e, memory), n)
  BY <1>1, MoveRun
<1> QED
  BY <1>2, JoinAhead

LEMMA AddAhead ==
  ASSUME NEW source, IsSource(source), NEW p, NEW k, Skips(source, p, k),
         NEW d \in Cell, NEW memory \in [Cell -> Byte], NEW n \in Nat \ {0},
         NEW t \in Adds, k + n <= Len(source) + 1,
         \A i \in k .. k + n - 1 : TokenAt(source, i) = t
  PROVE  At(k + n, d, Added(memory, d, IF t = "my" THEN n ELSE 0 - n))
           \in Ahead(source, At(p, d, memory))
<1>1. k \in Nat
  BY DEF Skips
<1>2. Leads(source, At(k, d, memory),
            At(k + n, d, Added(memory, d, IF t = "my" THEN n ELSE 0 - n)), n)
  BY <1>1, AddRun
<1> QED
  BY <1>2, JoinAhead

LEMMA LoopAhead ==
  ASSUME NEW source, IsSource(source), NEW p, NEW k, Skips(source, p, k),
         NEW d \in Cell, NEW memory \in [Cell -> Byte],
         TokenAt(source, k) \in {"a", "jet2"}
  PROVE  At(IF (TokenAt(source, k) = "a") = (memory[d] = 0)
            THEN (IF TokenAt(source, k) = "a"
                  THEN ClosedAt(source, k) + 1 ELSE OpenedAt(source, k) + 1)
            ELSE k + 1, d, memory)
           \in Ahead(source, At(p, d, memory))
<1> DEFINE c == At(IF (TokenAt(source, k) = "a") = (memory[d] = 0)
                   THEN (IF TokenAt(source, k) = "a"
                         THEN ClosedAt(source, k) + 1 ELSE OpenedAt(source, k) + 1)
                   ELSE k + 1, d, memory)
<1>1. IsSilent(source, At(k, d, memory)) /\ Silent(source, At(k, d, memory)) = c
  BY SilentLoop
<1>2. k + 1 <= Len(source) + 1
  BY SourceFacts DEF Keyword
<1> HIDE DEF c
<1>3. Leads(source, At(k, d, memory), c, 0 + 1)
  BY <1>1, LeadsNowhere, LeadsOn
<1>4. c \in Ahead(source, At(p, d, memory))
  BY <1>2, <1>3, JoinAhead
<1> QED
  BY <1>4 DEF c

=============================================================================
