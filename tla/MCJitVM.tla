------------------------------- MODULE MCJitVM -------------------------------
(* Every program of up to MaxLen tokens' groups with jumps of loops from    *)
(* anywhere to anywhere, all stubs behind it, the one for fgetc first or    *)
(* last: more than the compiler emits, as the theorems speak of any         *)
(* well-formed program.                                                     *)
EXTENDS JitVM

CONSTANT MaxLen

SeqExt == INSTANCE SequencesExt

G(op, n) == [op |-> op, n |-> n]

(* The groups of a token, and those of the footer. *)
Pieces == {<<G("addv", 1)>>, <<G("subv", 1)>>, <<G("fputc", 0)>>, <<G("debug", 0)>>,
           <<G("fgetc", 0), G("store", 0)>>, <<G("jz", 0)>>, <<G("jnz", 0)>>,
           <<G("above", 1), G("addp", 1)>>, <<G("below", 2), G("subp", 2)>>}
Ret    == <<G("success", 0), G("exit", 0)>>
Eof    == <<G("ferror", 0), G("eof", 0)>>
Others == <<G("io", 0), G("handler", 0), G("oob", 0)>>

Bodies == UNION {[1 .. n -> Pieces] : n \in 0 .. MaxLen}
Shapes == {<<G("header", 0)>> \o SeqExt!FlattenSeq(b) \o Ret \o footer :
             b \in Bodies, footer \in {Eof \o Others, Others \o Eof}}

(* The offset of the k-th group of a shape. *)
Offset(s, k) ==
  LET at[i \in 1 .. k] == IF i = 1 THEN 0 ELSE at[i - 1] + GroupSize[s[i - 1].op]
  IN  at[k]

(* Where a displacement of a group may lead. *)
Leads(s, g) ==
  LET Of(ops) == {Offset(s, k) : k \in {i \in DOMAIN s : s[i].op \in ops}}
  IN  CASE g.op \in {"jz", "jnz"}                -> Of(Opening)
        [] g.op \in DOMAIN StubOf                -> Of({StubOf[g.op]})
        [] g.op \in {"oob", "io", "ferror", "eof"} -> Of({"exit"})
        [] OTHER                                 -> {NOWHERE}

(* A shape with its displacements. *)
Linked(s, leads) ==
  [o \in {Offset(s, k) : k \in DOMAIN s} |->
     LET k == CHOOSE i \in DOMAIN s : Offset(s, i) = o
     IN  [op |-> s[k].op, n |-> s[k].n, to |-> leads[k]]]

Leadings(s) ==
  LET all == UNION {Leads(s, s[k]) : k \in DOMAIN s}
  IN  {f \in [{k \in DOMAIN s : s[k].op \in {"jz", "jnz"}} -> all] :
         \A k \in DOMAIN f : f[k] \in Leads(s, s[k])}

Full(s, f) == [k \in DOMAIN s |-> IF k \in DOMAIN f THEN f[k]
                                  ELSE CHOOSE o \in Leads(s, s[k]) : TRUE]

Programs == UNION {{Linked(s, Full(s, f)) : f \in Leadings(s)} : s \in Shapes}

MCInit == code \in Programs /\ Init

MCSpec == MCInit /\ [][Next]_vars

=============================================================================
