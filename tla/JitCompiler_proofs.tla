-------------------------- MODULE JitCompiler_proofs --------------------------
(***************************************************************************)
(* For any set of sources, any sizes of pages and buffers and any reach of *)
(* a long jump: no displacement is forgotten or claimed twice, loops are   *)
(* closed at both ends, and machine code handed out with success is what   *)
(* the theorems of JitVM_proofs suppose.                                   *)
(***************************************************************************)
EXTENDS JitCompiler, Compilers_proofs

(* The values of the compiler's fields. *)
Groups    == {g \in Group : IsGroup(g)}
Codes     == UNION {[D -> Groups] : D \in SUBSET Nat}
Jump      == [from : Nat, to : Stub]
Compilers == [token : Nat, jumps : Seq(Jump), jumps_buf : BufferRecord,
              loop_stack : Seq(Nat), loop_buf : BufferRecord,
              dst : BufferRecord, code : Codes]

(* The groups lie one behind the other from 0 to the end of the program. *)
Lengths(p) == [o \in DOMAIN p |-> GroupSize[p[o].op]]
Tiled(c)   == Tiles(Lengths(c.code), c.dst.size)

Headed(c) ==
  /\ 0 \in DOMAIN c.code
  /\ \A o \in DOMAIN c.code : c.code[o].op = "header" <=> o = 0

(* The group at o is one end of a loop, and the other leads back to it. *)
PairedIn(p, o) ==
  \E q \in DOMAIN p :
    /\ p[q].op = IF p[o].op = "jz" THEN "jnz" ELSE "jz"
    /\ p[q].op = "jnz" <=> o < q
    /\ p[o].to = End(p, q)
    /\ p[q].to = End(p, o)

(* The beginning of a loop that is still open. *)
OpensLoop(p, o) == p[o].op = "jz" /\ p[o].to = NOWHERE

(* A loop is closed, or its beginning is on the loop stack; and the stack  *)
(* holds nothing else, innermost loop last.                                *)
Loops(c) ==
  /\ \A o \in DOMAIN c.code : c.code[o].op \in {"jz", "jnz"} =>
       \/ PairedIn(c.code, o)
       \/ /\ OpensLoop(c.code, o)
          /\ \E k \in DOMAIN c.loop_stack : c.loop_stack[k] = End(c.code, o)
  /\ \A k \in DOMAIN c.loop_stack :
       /\ \E o \in DOMAIN c.code :
            OpensLoop(c.code, o) /\ c.loop_stack[k] = End(c.code, o)
       /\ \A j \in DOMAIN c.loop_stack : j < k => c.loop_stack[j] < c.loop_stack[k]

(* A jump to the footer whose displacement is not written, and how the     *)
(* table of jumps remembers it.                                            *)
CallsStub(p, o) == p[o].op \in DOMAIN StubOf /\ p[o].to = NOWHERE
CallAt(p, o)    == [from |-> End(p, o), to |-> StubOf[p[o].op]]

(* The entries of the table from the k-th on are just those jumps. *)
Calls(c, k) ==
  /\ \A o \in DOMAIN c.code : CallsStub(c.code, o) =>
       \E i \in k + 1 .. Len(c.jumps) : c.jumps[i] = CallAt(c.code, o)
  /\ \A i \in k + 1 .. Len(c.jumps) :
       /\ \E o \in DOMAIN c.code : CallsStub(c.code, o) /\ c.jumps[i] = CallAt(c.code, o)
       /\ \A j \in k + 1 .. Len(c.jumps) : i < j => c.jumps[i].from < c.jumps[j].from

Body(c, k) == c \in Compilers /\ Tiled(c) /\ Headed(c) /\ Loops(c) /\ Calls(c, k)

(* If h were the next group, each group would be followed by the right one. *)
Heads == [op : GroupOp, n : Nat]

FlowsTo(c, h) ==
  \A o \in DOMAIN c.code : c.code[o].op \notin Leaves =>
    Follows(c.code[o], IF End(c.code, o) = c.dst.size THEN h ELSE c.code[End(c.code, o)])

(* Both stacks have storage for what they hold. *)
StacksHonest(c) ==
  /\ Honest(c.jumps_buf) /\ c.jumps_buf.size = JUMP_STRUCT * Len(c.jumps)
  /\ Honest(c.loop_buf) /\ c.loop_buf.size = SIZE_T * Len(c.loop_stack)

FooterOps == Leaves \cup {"success", "ferror"}

(* Nothing of the footer is there, and no jump to it is linked. *)
Unlinked(p) ==
  \A o \in DOMAIN p : /\ p[o].op \notin FooterOps
                      /\ p[o].op \in DOMAIN StubOf => p[o].to = NOWHERE

(* Between two calls of nbajh_jit_x86_64_emit. *)
Between(c) ==
  /\ Body(c, 0)
  /\ StacksHonest(c)
  /\ Honest(c.dst)
  /\ Unlinked(c.code)
  /\ \A h \in Heads : h.op \in Opening => FlowsTo(c, h)

(* A growth of the program has failed, and the error was ignored. *)
Lost(c) == c.dst.cap # c.dst.alloc

(* The bytes of the stubs, and of those that are not there yet. *)
StubSize == [oob |-> 7, io |-> 7, ferror |-> 36, handler |-> 19]

Left(offsets) ==
  LET left(s) == IF offsets[s] = 0 THEN StubSize[s] ELSE 0
  IN  left("oob") + left("io") + left("ferror") + left("handler")

(***************************************************************************)
(* While the footer is linked.  There is room for the stubs within reach   *)
(* of the exit, and once a growth has failed no stub can make the program  *)
(* grow again: the capacity it believes in has doubled.  So a program that *)
(* lost a stub is never taken for one that did not.                        *)
(***************************************************************************)
Stubs(c, exit, offsets) ==
  /\ \A s \in Stub : offsets[s] # 0 =>
       offsets[s] \in DOMAIN c.code /\ c.code[offsets[s]].op = s
  /\ \A o \in DOMAIN c.code :
       c.code[o].op \in {"oob", "io", "ferror", "eof"} => c.code[o].to = exit

(* Up to the exit each group is followed by the right one; behind it there *)
(* are stubs, which lead back to it.                                       *)
StubGroups == {"oob", "io", "ferror", "eof", "handler"}

Spine(p, exit) ==
  \A o \in DOMAIN p :
    /\ o < exit => End(p, o) \in DOMAIN p /\ Follows(p[o], p[End(p, o)])
    /\ p[o].op \in StubGroups <=> o > exit
    /\ p[o].op = "exit" <=> o = exit
    /\ p[o].op \in {"oob", "io", "ferror", "eof"} => p[o].to = exit

Linked(p, offsets) ==
  \A o \in DOMAIN p :
    p[o].op \in DOMAIN StubOf => p[o].to \in {NOWHERE, offsets[StubOf[p[o].op]]}

Footer(c, exit, offsets) ==
  /\ exit \in DOMAIN c.code /\ c.code[exit].op = "exit"
  /\ Spine(c.code, exit)
  /\ \A s \in Stub : offsets[s] <= c.dst.size /\ (offsets[s] # 0 => exit < offsets[s])
  /\ c.dst.size + Left(offsets) <= exit + 79
  /\ Linked(c.code, offsets)
  /\ IF Lost(c)
     THEN c.dst.size + Left(offsets) <= c.dst.cap
     ELSE /\ c.dst.size <= c.dst.cap
          /\ Stubs(c, exit, offsets)
          /\ \A h \in Heads : FlowsTo(c, h)

Untouched(c) == /\ c.jumps = <<>> /\ c.loop_stack = <<>> /\ DOMAIN c.code = {}
                /\ c.dst.size = 0 /\ Honest(c.dst)

(* The inductive invariant. *)
JInv ==
  /\ TypeOK /\ compiler \in Compilers
  /\ outcome \in {"READY", "HEADER"} => Untouched(compiler)
  /\ outcome = "READY" => compiler.loop_buf = Freed
  /\ outcome = "HEADER" => StacksHonest(compiler)
  /\ outcome \in {"READY", "HEADER", "RUNNING"} =>
       linked = 0 /\ jump_target_offsets = [s \in Stub |-> 0]
  /\ outcome = "RUNNING" => Between(compiler)
  /\ outcome = "LINKING" =>
       /\ Body(compiler, linked)
       /\ StacksHonest(compiler)
       /\ compiler.loop_stack = <<>>
       /\ Footer(compiler, exit_offset, jump_target_offsets)
  /\ Ended => LoopsPaired /\ SuccessIsComplete /\ CompleteUpToExit /\ BuffersSound

(* The compiler has found nothing wrong so far. *)
Reading ==
  /\ outcome = "HEADER" => compiler.token = 1
  /\ outcome = "RUNNING" => Scanned(source, compiler.token, Len(compiler.loop_stack))
  /\ outcome = "LINKING" => IsVerdict(source, compiler.token, "SUCCESS")

VInv == Reading /\ VerdictIsFirstFault

-----------------------------------------------------------------------------
(* Programs of groups. *)

LEMMA SizeFacts == \A op \in GroupOp : GroupSize[op] \in Nat \ {0}
BY DEF GroupOp, GroupSize

LEMMA CodeFacts ==
  ASSUME NEW p \in Codes
  PROVE  /\ DOMAIN p \subseteq Nat
         /\ \A o \in DOMAIN p :
              /\ p[o] \in Groups /\ IsGroup(p[o])
              /\ p[o].op \in GroupOp /\ p[o].n \in Nat /\ p[o].to \in Nat
              /\ End(p, o) = o + GroupSize[p[o].op]
BY DEF Codes, Groups, Group, End

LEMMA CodeIntro ==
  ASSUME NEW D \in SUBSET Nat, NEW p \in [D -> Groups]
  PROVE  p \in Codes
BY DEF Codes

LEMMA CompilerFacts ==
  ASSUME NEW c \in Compilers
  PROVE  /\ c.token \in Nat
         /\ c.jumps \in Seq(Jump) /\ c.loop_stack \in Seq(Nat)
         /\ c.jumps_buf \in BufferRecord /\ c.loop_buf \in BufferRecord
         /\ c.dst \in BufferRecord /\ c.dst.size \in Nat
         /\ c.code \in Codes
BY DEF Compilers, BufferRecord

(* Groups that lie one behind the other are told apart by their ends. *)
LEMMA EndFacts ==
  ASSUME NEW c \in Compilers, Tiled(c)
  PROVE  /\ c.dst.size \in Nat /\ c.dst.size \notin DOMAIN c.code
         /\ \A o \in DOMAIN c.code :
              /\ o \in Nat /\ End(c.code, o) \in Nat
              /\ o < End(c.code, o) /\ End(c.code, o) <= c.dst.size
              /\ End(c.code, o) \in DOMAIN c.code \cup {c.dst.size}
              /\ \A q \in DOMAIN c.code :
                   /\ o < q => End(c.code, o) <= q
                   /\ End(c.code, o) = End(c.code, q) => o = q
<1>1. c.dst.size \in Nat /\ DOMAIN c.code \subseteq Nat
  BY CompilerFacts, CodeFacts
<1>2. DOMAIN Lengths(c.code) = DOMAIN c.code
      /\ \A o \in DOMAIN c.code : Lengths(c.code)[o] = GroupSize[c.code[o].op]
  BY DEF Lengths
<1>3. ASSUME NEW o \in DOMAIN c.code
      PROVE  /\ o \in Nat /\ End(c.code, o) \in Nat
             /\ o < End(c.code, o) /\ End(c.code, o) <= c.dst.size
             /\ End(c.code, o) \in DOMAIN c.code \cup {c.dst.size}
             /\ \A q \in DOMAIN c.code : o < q => End(c.code, o) <= q
  <2>1. c.code[o].op \in GroupOp /\ End(c.code, o) = o + Lengths(c.code)[o]
    BY <1>2, CompilerFacts, CodeFacts
  <2>2. Lengths(c.code)[o] \in Nat \ {0}
    BY <1>2, <2>1, SizeFacts
  <2>3. /\ o + Lengths(c.code)[o] \in DOMAIN c.code \cup {c.dst.size}
        /\ o + Lengths(c.code)[o] <= c.dst.size
        /\ \A q \in DOMAIN c.code : o < q => o + Lengths(c.code)[o] <= q
    BY <1>2 DEF Tiled, Tiles
  <2> QED
    BY <1>1, <2>1, <2>2, <2>3
<1>4. ASSUME NEW o \in DOMAIN c.code, NEW q \in DOMAIN c.code,
             End(c.code, o) = End(c.code, q)
      PROVE  o = q
  <2>1. o \in Nat /\ q \in Nat /\ ~(o < q) /\ ~(q < o)
    BY <1>3, <1>4
  <2> QED
    BY <2>1
<1>5. c.dst.size \notin DOMAIN c.code
  BY <1>1, <1>3
<1> QED
  BY <1>1, <1>3, <1>4, <1>5

-----------------------------------------------------------------------------
(* A group is appended. *)

Wrote(p, e, g) == [o \in DOMAIN p \cup {e} |-> IF o = e THEN g ELSE p[o]]

Appended(c, d, g) ==
  /\ d \in Compilers
  /\ d.code = Wrote(c.code, c.dst.size, g)
  /\ d.dst.size = c.dst.size + GroupSize[g.op]
  /\ d.jumps = c.jumps /\ d.loop_stack = c.loop_stack

LEMMA AppendedFacts ==
  ASSUME NEW c \in Compilers, Tiled(c), NEW g \in Groups, NEW d, Appended(c, d, g)
  PROVE  /\ Tiled(d)
         /\ c.dst.size \notin DOMAIN c.code
         /\ DOMAIN d.code = DOMAIN c.code \cup {c.dst.size}
         /\ d.code[c.dst.size] = g /\ End(d.code, c.dst.size) = d.dst.size
         /\ d.dst.size \in Nat /\ d.dst.size > c.dst.size
         /\ \A o \in DOMAIN c.code :
              d.code[o] = c.code[o] /\ End(d.code, o) = End(c.code, o)
<1>1. c.dst.size \in Nat /\ c.dst.size \notin DOMAIN c.code
  BY EndFacts
<1>2. DOMAIN d.code = DOMAIN c.code \cup {c.dst.size} /\ d.code[c.dst.size] = g
      /\ \A o \in DOMAIN c.code : d.code[o] = c.code[o]
  BY <1>1 DEF Appended, Wrote
<1>3. GroupSize[g.op] \in Nat \ {0}
  BY SizeFacts DEF Groups, Group
<1>4. Lengths(d.code) = Laid(Lengths(c.code), c.dst.size, GroupSize[g.op])
  BY <1>1, <1>2 DEF Lengths, Laid
<1>5. Tiled(d)
  BY <1>1, <1>3, <1>4, TilesGrow DEF Tiled, Appended
<1> QED
  BY <1>1, <1>2, <1>3, <1>5 DEF End, Appended

LEMMA AppendedFlows ==
  ASSUME NEW c \in Compilers, Tiled(c), NEW g \in Groups, NEW d, Appended(c, d, g),
         FlowsTo(c, g), NEW h, g.op \in Leaves \/ Follows(g, h)
  PROVE  FlowsTo(d, h)
<1> SUFFICES ASSUME NEW o \in DOMAIN d.code, d.code[o].op \notin Leaves
             PROVE  Follows(d.code[o], IF End(d.code, o) = d.dst.size THEN h
                                       ELSE d.code[End(d.code, o)])
  BY DEF FlowsTo
<1>1. CASE o = c.dst.size
  BY <1>1, AppendedFacts
<1>2. CASE o \in DOMAIN c.code
  <2>1. d.code[o] = c.code[o] /\ End(d.code, o) = End(c.code, o)
    BY <1>2, AppendedFacts
  <2>2. Follows(c.code[o], IF End(c.code, o) = c.dst.size THEN g
                           ELSE c.code[End(c.code, o)])
    BY <1>2, <2>1 DEF FlowsTo
  <2>3. /\ End(c.code, o) <= c.dst.size /\ End(c.code, o) \in Nat
        /\ End(c.code, o) \in DOMAIN c.code \cup {c.dst.size} /\ c.dst.size \in Nat
    BY <1>2, EndFacts
  <2>4. End(d.code, o) # d.dst.size
    BY <2>1, <2>3, AppendedFacts
  <2>5. d.code[End(d.code, o)] = IF End(c.code, o) = c.dst.size THEN g
                                 ELSE c.code[End(c.code, o)]
    BY <2>1, <2>3, AppendedFacts
  <2> QED
    BY <2>1, <2>2, <2>4, <2>5
<1> QED
  BY <1>1, <1>2, AppendedFacts

(* Loops are none of the business of another group. *)
LEMMA AppendedLoops ==
  ASSUME NEW c \in Compilers, Tiled(c), NEW g \in Groups, NEW d, Appended(c, d, g),
         Loops(c), g.op \notin {"jz", "jnz"}
  PROVE  Loops(d)
<1>1. ASSUME NEW o \in DOMAIN d.code, d.code[o].op \in {"jz", "jnz"}
      PROVE  \/ PairedIn(d.code, o)
             \/ /\ OpensLoop(d.code, o)
                /\ \E k \in DOMAIN d.loop_stack : d.loop_stack[k] = End(d.code, o)
  <2>1. o \in DOMAIN c.code /\ d.code[o] = c.code[o] /\ End(d.code, o) = End(c.code, o)
    BY <1>1, AppendedFacts
  <2>2. CASE PairedIn(c.code, o)
    BY <2>1, <2>2, AppendedFacts DEF PairedIn
  <2>3. CASE ~PairedIn(c.code, o)
    BY <1>1, <2>1, <2>3 DEF Loops, Appended, OpensLoop
  <2> QED
    BY <2>2, <2>3
<1>2. ASSUME NEW k \in DOMAIN d.loop_stack
      PROVE  /\ \E o \in DOMAIN d.code :
                  OpensLoop(d.code, o) /\ d.loop_stack[k] = End(d.code, o)
             /\ \A j \in DOMAIN d.loop_stack : j < k => d.loop_stack[j] < d.loop_stack[k]
  <2>1. d.loop_stack = c.loop_stack
    BY DEF Appended
  <2>2. PICK o \in DOMAIN c.code : OpensLoop(c.code, o) /\ c.loop_stack[k] = End(c.code, o)
    BY <2>1 DEF Loops
  <2>3. o \in DOMAIN d.code /\ OpensLoop(d.code, o) /\ d.loop_stack[k] = End(d.code, o)
    BY <2>1, <2>2, AppendedFacts DEF OpensLoop
  <2> QED
    BY <2>1, <2>3 DEF Loops
<1> QED
  BY <1>1, <1>2 DEF Loops

LEMMA AppendedCalls ==
  ASSUME NEW c \in Compilers, Tiled(c), NEW g \in Groups, NEW d, Appended(c, d, g),
         NEW k, Calls(c, k), g.op \notin DOMAIN StubOf
  PROVE  Calls(d, k)
<1>1. d.jumps = c.jumps
  BY DEF Appended
<1>2. ASSUME NEW o \in DOMAIN d.code, CallsStub(d.code, o)
      PROVE  \E i \in k + 1 .. Len(d.jumps) : d.jumps[i] = CallAt(d.code, o)
  <2>1. o \in DOMAIN c.code /\ d.code[o] = c.code[o] /\ End(d.code, o) = End(c.code, o)
    BY <1>2, AppendedFacts DEF CallsStub
  <2> QED
    BY <1>1, <1>2, <2>1 DEF Calls, CallsStub, CallAt
<1>3. ASSUME NEW i \in k + 1 .. Len(d.jumps)
      PROVE  \E o \in DOMAIN d.code : CallsStub(d.code, o) /\ d.jumps[i] = CallAt(d.code, o)
  <2>1. PICK o \in DOMAIN c.code : CallsStub(c.code, o) /\ c.jumps[i] = CallAt(c.code, o)
    BY <1>1 DEF Calls
  <2>2. o \in DOMAIN d.code /\ d.code[o] = c.code[o] /\ End(d.code, o) = End(c.code, o)
    BY AppendedFacts
  <2> QED
    BY <1>1, <2>1, <2>2 DEF CallsStub, CallAt
<1> QED
  BY <1>1, <1>2, <1>3 DEF Calls

(* A group that neither begins nor ends a loop nor calls a stub. *)
LEMMA AppendedBody ==
  ASSUME NEW c, NEW k, Body(c, k), NEW g \in Groups, NEW d, Appended(c, d, g),
         g.op \notin {"jz", "jnz", "header"} \cup DOMAIN StubOf
  PROVE  Body(d, k)
<1>1. c \in Compilers /\ Tiled(c) /\ Headed(c) /\ Loops(c) /\ Calls(c, k)
  BY DEF Body
<1>2. Headed(d)
  BY <1>1, AppendedFacts DEF Headed
<1> QED
  BY <1>1, <1>2, AppendedFacts, AppendedLoops, AppendedCalls DEF Body, Appended

-----------------------------------------------------------------------------
(* The functions that write. *)

OtherFieldsSame(c, d) ==
  /\ d.token = c.token
  /\ d.jumps = c.jumps /\ d.jumps_buf = c.jumps_buf
  /\ d.loop_stack = c.loop_stack /\ d.loop_buf = c.loop_buf

WriteError == {"SUCCESS", "MALLOC", "UNDEFINED"}

LEMMA ErrorFacts ==
  ASSUME NEW w, w.error \in {"SUCCESS", "MALLOC"}
  PROVE  /\ ErrorOf(w) \in WriteError
         /\ ErrorOf(w) = "SUCCESS" => w.error = "SUCCESS"
         /\ ErrorOf(w) = "MALLOC" => w.error = "MALLOC"
         /\ Honest(w.buf) => ErrorOf(w) = w.error
BY DEF ErrorOf, WriteError, Honest, InStorage

LEMMA WriteGroupFacts ==
  ASSUME NEW c \in Compilers, Tiled(c), NEW op, NEW n,
         [op |-> op, n |-> n, to |-> NOWHERE] \in Groups,
         NEW r \in WriteGroup(c, op, n)
  PROVE  /\ r.c \in Compilers /\ r.error \in WriteError
         /\ OtherFieldsSame(c, r.c)
         /\ r.c.dst.size >= c.dst.size
         /\ r.error = "SUCCESS" =>
              /\ Appended(c, r.c, [op |-> op, n |-> n, to |-> NOWHERE])
              /\ Honest(c.dst) => Honest(r.c.dst)
         /\ r.error = "MALLOC" => r.c.code = c.code /\ r.c.dst.size = c.dst.size
<1> DEFINE g == [op |-> op, n |-> n, to |-> NOWHERE]
<1>1. GroupSize[op] \in Nat \ {0}
  BY SizeFacts DEF Groups, Group
<1>2. c.dst \in BufferRecord /\ c.dst.size \in Nat /\ c.code \in Codes
      /\ DOMAIN c.code \subseteq Nat
      /\ \A o \in DOMAIN c.code : c.code[o] \in Groups
  BY CompilerFacts, CodeFacts
<1>3. PICK w \in Write(c.dst, GroupSize[op]) :
        /\ r.error = ErrorOf(w)
        /\ r.c = [c EXCEPT !.dst = w.buf,
                          !.code = IF w.error = "SUCCESS" THEN Wrote(c.code, c.dst.size, g)
                                   ELSE c.code]
  <2>1. PICK w \in Write(c.dst, GroupSize[op]) :
          r = Result([c EXCEPT !.dst = w.buf,
                               !.code = IF w.error = "SUCCESS"
                                        THEN Wrote(c.code, c.dst.size, g) ELSE c.code],
                     ErrorOf(w))
    BY DEF WriteGroup, Wrote
  <2> QED
    BY <2>1 DEF Result
<1>4. /\ w.buf \in BufferRecord
      /\ w.error \in {"SUCCESS", "MALLOC"}
      /\ w.buf.size = IF w.error = "SUCCESS" THEN c.dst.size + GroupSize[op] ELSE c.dst.size
      /\ w.error = "SUCCESS" /\ Honest(c.dst) => Honest(w.buf)
  BY <1>1, <1>2, WriteFacts
<1> DEFINE p == Wrote(c.code, c.dst.size, g)
<1>5. p \in Codes
  <2>1. DOMAIN c.code \cup {c.dst.size} \in SUBSET Nat
    BY <1>2
  <2>2. g \in Groups
    OBVIOUS
  <2> HIDE DEF g
  <2>3. p \in [DOMAIN c.code \cup {c.dst.size} -> Groups]
    BY <1>2, <2>2 DEF Wrote
  <2> QED
    BY <2>1, <2>3, CodeIntro
<1> HIDE DEF p, g
<1>6. r.c \in Compilers /\ OtherFieldsSame(c, r.c) /\ r.c.dst = w.buf
      /\ r.c.code = IF w.error = "SUCCESS" THEN p ELSE c.code
  BY <1>2, <1>3, <1>4, <1>5 DEF Compilers, OtherFieldsSame, p
<1>7. ErrorOf(w) \in WriteError
      /\ (ErrorOf(w) = "SUCCESS" => w.error = "SUCCESS")
      /\ (ErrorOf(w) = "MALLOC" => w.error = "MALLOC")
  BY <1>4, ErrorFacts
<1>8. ASSUME w.error = "SUCCESS" PROVE Appended(c, r.c, g)
  <2>1. g.op = op
    BY DEF g
  <2> QED
    BY <1>4, <1>6, <1>8, <2>1 DEF Appended, p, OtherFieldsSame
<1> QED
  BY <1>1, <1>2, <1>3, <1>4, <1>6, <1>7, <1>8 DEF g

LEMMA RecordJumpFacts ==
  ASSUME NEW c \in Compilers, NEW stub \in Stub, NEW r \in RecordJump(c, stub)
  PROVE  /\ r.c \in Compilers /\ r.error \in WriteError
         /\ r.c.token = c.token /\ r.c.dst = c.dst /\ r.c.code = c.code
         /\ r.c.loop_stack = c.loop_stack /\ r.c.loop_buf = c.loop_buf
         /\ r.error = "SUCCESS" =>
              /\ r.c.jumps = Append(c.jumps, [from |-> c.dst.size, to |-> stub])
              /\ StacksHonest(c) => StacksHonest(r.c)
<1>1. JUMP_STRUCT \in Nat \ {0}
  BY WidthAssumption DEF WidthAssumption, JUMP_STRUCT
<1> DEFINE e == [from |-> c.dst.size, to |-> stub]
<1>2. /\ c.jumps_buf \in BufferRecord /\ c.jumps \in Seq(Jump) /\ e \in Jump
      /\ c.jumps_buf.size \in Nat
  BY CompilerFacts DEF Jump, BufferRecord
<1> HIDE DEF e
<1>3. PICK w \in Write(c.jumps_buf, JUMP_STRUCT) :
        /\ r.error = ErrorOf(w)
        /\ r.c = [c EXCEPT !.jumps_buf = w.buf,
                          !.jumps = IF w.error = "SUCCESS" THEN Append(c.jumps, e) ELSE c.jumps]
  <2>1. PICK w \in Write(c.jumps_buf, JUMP_STRUCT) :
          r = Result([c EXCEPT !.jumps_buf = w.buf,
                               !.jumps = IF w.error = "SUCCESS"
                                         THEN Append(c.jumps, e) ELSE c.jumps],
                     ErrorOf(w))
    BY DEF RecordJump, e
  <2> QED
    BY <2>1 DEF Result
<1>4. /\ w.buf \in BufferRecord /\ w.error \in {"SUCCESS", "MALLOC"}
      /\ w.error = "SUCCESS" => w.buf.size = c.jumps_buf.size + JUMP_STRUCT
      /\ w.error = "SUCCESS" /\ Honest(c.jumps_buf) => Honest(w.buf)
  BY <1>1, <1>2, WriteFacts
<1>5. Append(c.jumps, e) \in Seq(Jump) /\ Len(c.jumps) \in Nat
      /\ Len(Append(c.jumps, e)) = Len(c.jumps) + 1
  BY <1>2, PushFacts
<1>6. /\ r.c \in Compilers /\ r.c.jumps_buf = w.buf
      /\ r.c.jumps = IF w.error = "SUCCESS" THEN Append(c.jumps, e) ELSE c.jumps
      /\ r.c.token = c.token /\ r.c.dst = c.dst /\ r.c.code = c.code
      /\ r.c.loop_stack = c.loop_stack /\ r.c.loop_buf = c.loop_buf
  BY <1>2, <1>3, <1>4, <1>5 DEF Compilers
<1>7. ErrorOf(w) \in WriteError /\ (ErrorOf(w) = "SUCCESS" => w.error = "SUCCESS")
  BY <1>4, ErrorFacts
<1>8. ASSUME w.error = "SUCCESS", StacksHonest(c) PROVE StacksHonest(r.c)
  <2>1. Len(r.c.jumps) = Len(c.jumps) + 1
    BY <1>5, <1>6, <1>8
  <2>2. r.c.jumps_buf.size = JUMP_STRUCT * Len(c.jumps) + JUMP_STRUCT /\ Honest(r.c.jumps_buf)
    BY <1>4, <1>6, <1>8 DEF StacksHonest
  <2>3. r.c.jumps_buf.size = JUMP_STRUCT * Len(r.c.jumps)
    BY <1>1, <1>5, <2>1, <2>2
  <2> QED
    BY <1>6, <1>8, <2>2, <2>3 DEF StacksHonest
<1> QED
  BY <1>3, <1>6, <1>7, <1>8 DEF e

LEMMA PushLoopFacts ==
  ASSUME NEW c \in Compilers, NEW r \in PushLoop(c)
  PROVE  /\ r.c \in Compilers /\ r.error \in WriteError
         /\ r.c.token = c.token /\ r.c.dst = c.dst /\ r.c.code = c.code
         /\ r.c.jumps = c.jumps /\ r.c.jumps_buf = c.jumps_buf
         /\ r.error = "SUCCESS" =>
              /\ r.c.loop_stack = Append(c.loop_stack, c.dst.size)
              /\ StacksHonest(c) => StacksHonest(r.c)
<1>1. SIZE_T \in Nat \ {0}
  BY WidthAssumption DEF WidthAssumption
<1> DEFINE e == c.dst.size
<1>2. /\ c.loop_buf \in BufferRecord /\ c.loop_stack \in Seq(Nat) /\ e \in Nat
      /\ c.loop_buf.size \in Nat
  BY CompilerFacts DEF BufferRecord
<1> HIDE DEF e
<1>3. PICK w \in Write(c.loop_buf, SIZE_T) :
        /\ r.error = ErrorOf(w)
        /\ r.c = [c EXCEPT !.loop_buf = w.buf,
                          !.loop_stack = IF w.error = "SUCCESS" THEN Append(c.loop_stack, e)
                                         ELSE c.loop_stack]
  <2>1. PICK w \in Write(c.loop_buf, SIZE_T) :
          r = Result([c EXCEPT !.loop_buf = w.buf,
                               !.loop_stack = IF w.error = "SUCCESS"
                                              THEN Append(c.loop_stack, e) ELSE c.loop_stack],
                     ErrorOf(w))
    BY DEF PushLoop, e
  <2> QED
    BY <2>1 DEF Result
<1>4. /\ w.buf \in BufferRecord /\ w.error \in {"SUCCESS", "MALLOC"}
      /\ w.error = "SUCCESS" => w.buf.size = c.loop_buf.size + SIZE_T
      /\ w.error = "SUCCESS" /\ Honest(c.loop_buf) => Honest(w.buf)
  BY <1>1, <1>2, WriteFacts
<1>5. Append(c.loop_stack, e) \in Seq(Nat) /\ Len(c.loop_stack) \in Nat
      /\ Len(Append(c.loop_stack, e)) = Len(c.loop_stack) + 1
  BY <1>2, PushFacts
<1>6. /\ r.c \in Compilers /\ r.c.loop_buf = w.buf
      /\ r.c.loop_stack = IF w.error = "SUCCESS" THEN Append(c.loop_stack, e) ELSE c.loop_stack
      /\ r.c.token = c.token /\ r.c.dst = c.dst /\ r.c.code = c.code
      /\ r.c.jumps = c.jumps /\ r.c.jumps_buf = c.jumps_buf
  BY <1>2, <1>3, <1>4, <1>5 DEF Compilers
<1>7. ErrorOf(w) \in WriteError /\ (ErrorOf(w) = "SUCCESS" => w.error = "SUCCESS")
  BY <1>4, ErrorFacts
<1>8. ASSUME w.error = "SUCCESS", StacksHonest(c) PROVE StacksHonest(r.c)
  <2>1. Len(r.c.loop_stack) = Len(c.loop_stack) + 1
    BY <1>5, <1>6, <1>8
  <2>2. r.c.loop_buf.size = SIZE_T * Len(c.loop_stack) + SIZE_T /\ Honest(r.c.loop_buf)
    BY <1>4, <1>6, <1>8 DEF StacksHonest
  <2>3. r.c.loop_buf.size = SIZE_T * Len(r.c.loop_stack)
    BY <1>1, <1>5, <2>1, <2>2
  <2> QED
    BY <1>6, <1>8, <2>2, <2>3 DEF StacksHonest
<1> QED
  BY <1>3, <1>6, <1>7, <1>8 DEF e

-----------------------------------------------------------------------------
(* A jump to the footer: its group, and its entry in the table. *)

LEMMA RecordedCalls ==
  ASSUME NEW c \in Compilers, Tiled(c), NEW k \in Nat, k <= Len(c.jumps), Calls(c, k),
         NEW g \in Groups, CallsStub([o \in {0} |-> g], 0), NEW q, Appended(c, q, g),
         NEW d \in Compilers, d.code = q.code,
         d.jumps = Append(c.jumps, [from |-> q.dst.size, to |-> StubOf[g.op]])
  PROVE  Calls(d, k)
<1> DEFINE e == [from |-> q.dst.size, to |-> StubOf[g.op]]
<1>1. g.op \in DOMAIN StubOf /\ g.to = NOWHERE /\ StubOf[g.op] \in Stub
  BY DEF CallsStub, StubOf, Stub
<1>2. /\ DOMAIN q.code = DOMAIN c.code \cup {c.dst.size} /\ q.code[c.dst.size] = g
      /\ End(q.code, c.dst.size) = q.dst.size /\ q.dst.size \in Nat /\ q.dst.size > c.dst.size
      /\ \A o \in DOMAIN c.code : q.code[o] = c.code[o] /\ End(q.code, o) = End(c.code, o)
  BY AppendedFacts
<1>3. e \in Jump /\ c.jumps \in Seq(Jump)
  BY <1>1, <1>2, CompilerFacts DEF Jump
<1> DEFINE m == Len(c.jumps)
<1>4. /\ m \in Nat /\ Len(d.jumps) = m + 1 /\ d.jumps[m + 1] = e
      /\ \A i \in 1 .. m : d.jumps[i] = c.jumps[i]
  BY <1>3, PushFacts
<1> HIDE DEF m
<1>5. CallAt(q.code, c.dst.size) = e /\ CallsStub(q.code, c.dst.size)
  BY <1>1, <1>2 DEF CallAt, CallsStub
<1>6. \A o \in DOMAIN c.code :
        /\ CallAt(q.code, o) = CallAt(c.code, o)
        /\ CallsStub(q.code, o) <=> CallsStub(c.code, o)
  BY <1>2 DEF CallAt, CallsStub
<1>7. m + 1 \in k + 1 .. m + 1 /\ k + 1 .. m + 1 = (k + 1 .. m) \cup {m + 1}
      /\ \A i \in k + 1 .. m : i \in 1 .. m
  BY <1>4 DEF m
<1>8. ASSUME NEW o \in DOMAIN d.code, CallsStub(d.code, o)
      PROVE  \E i \in k + 1 .. Len(d.jumps) : d.jumps[i] = CallAt(d.code, o)
  <2>1. CASE o = c.dst.size
    BY <1>4, <1>5, <1>7, <2>1
  <2>2. CASE o \in DOMAIN c.code
    <3>1. PICK i \in k + 1 .. m : c.jumps[i] = CallAt(c.code, o)
      BY <1>6, <1>8, <2>2 DEF Calls, m
    <3> QED
      BY <1>4, <1>6, <1>7, <2>2, <3>1
  <2> QED
    BY <1>2, <2>1, <2>2
<1>9. ASSUME NEW i \in k + 1 .. m
      PROVE  \E o \in DOMAIN c.code : /\ CallsStub(c.code, o) /\ c.jumps[i] = CallAt(c.code, o)
                                       /\ d.jumps[i] = CallAt(d.code, o)
                                       /\ d.jumps[i].from = End(c.code, o)
  <2>1. PICK o \in DOMAIN c.code : CallsStub(c.code, o) /\ c.jumps[i] = CallAt(c.code, o)
    BY DEF Calls, m
  <2>2. d.jumps[i] = CallAt(c.code, o) /\ CallAt(c.code, o) = CallAt(d.code, o)
    BY <1>4, <1>6, <1>7, <2>1
  <2>3. CallAt(c.code, o).from = End(c.code, o)
    BY DEF CallAt
  <2> QED
    BY <2>1, <2>2, <2>3
<1>10. ASSUME NEW i \in k + 1 .. m
       PROVE  d.jumps[i].from < d.jumps[m + 1].from
  <2>1. PICK o \in DOMAIN c.code : d.jumps[i].from = End(c.code, o)
    BY <1>9
  <2>2. End(c.code, o) \in Nat /\ End(c.code, o) <= c.dst.size /\ c.dst.size \in Nat
    BY EndFacts
  <2>3. d.jumps[m + 1].from = q.dst.size
    BY <1>4
  <2>4. End(c.code, o) < q.dst.size
    BY <1>2, <2>2
  <2> QED
    BY <2>1, <2>3, <2>4
<1>11. ASSUME NEW i \in k + 1 .. m + 1
       PROVE  \E o \in DOMAIN d.code : CallsStub(d.code, o) /\ d.jumps[i] = CallAt(d.code, o)
  <2>1. CASE i = m + 1
    BY <1>2, <1>4, <1>5, <2>1
  <2>2. CASE i \in k + 1 .. m
    BY <1>2, <1>6, <1>9, <2>2
  <2> QED
    BY <1>7, <2>1, <2>2
<1>12. ASSUME NEW i \in k + 1 .. m + 1, NEW j \in k + 1 .. m + 1, i < j
       PROVE  d.jumps[i].from < d.jumps[j].from
  <2>1. i \in k + 1 .. m
    BY <1>4, <1>12
  <2>2. CASE j = m + 1
    BY <1>10, <2>1, <2>2
  <2>3. CASE j \in k + 1 .. m
    <3>1. c.jumps[i].from < c.jumps[j].from
      BY <1>12, <2>1, <2>3 DEF Calls, m
    <3> QED
      BY <1>4, <1>7, <2>1, <2>3, <3>1
  <2> QED
    BY <1>7, <2>2, <2>3
<1> QED
  BY <1>4, <1>8, <1>11, <1>12 DEF Calls

LEMMA RecordedBody ==
  ASSUME NEW c, NEW k \in Nat, k <= Len(c.jumps), Body(c, k),
         NEW g \in Groups, g.op \in DOMAIN StubOf, g.to = NOWHERE, NEW q, Appended(c, q, g),
         NEW d \in Compilers, d.code = q.code, d.dst = q.dst, d.loop_stack = q.loop_stack,
         d.jumps = Append(c.jumps, [from |-> q.dst.size, to |-> StubOf[g.op]])
  PROVE  Body(d, k)
<1>1. c \in Compilers /\ Tiled(c) /\ Headed(c) /\ Loops(c) /\ Calls(c, k)
  BY DEF Body
<1>2. g.op \notin {"header", "jz", "jnz"}
  BY DEF StubOf
<1>3. Headed(q)
  BY <1>1, <1>2, AppendedFacts DEF Headed
<1>4. Tiled(q) /\ Loops(q)
  BY <1>1, <1>2, AppendedFacts, AppendedLoops
<1>5. Tiled(d) /\ Headed(d) /\ Loops(d)
  BY <1>3, <1>4 DEF Tiled, Headed, Loops
<1>6. CallsStub([o \in {0} |-> g], 0)
  BY DEF CallsStub
<1>7. Calls(d, k)
  BY <1>1, <1>6, RecordedCalls
<1> QED
  BY <1>5, <1>7 DEF Body

-----------------------------------------------------------------------------
(* A displacement is written. *)

Relinked(p, from, to) ==
  [o \in DOMAIN p |-> IF End(p, o) = from THEN [p[o] EXCEPT !.to = to] ELSE p[o]]

(* Two programs that differ in displacements only. *)
SameShape(p, q) ==
  /\ DOMAIN p = DOMAIN q
  /\ \A o \in DOMAIN p : q[o].op = p[o].op /\ q[o].n = p[o].n /\ End(q, o) = End(p, o)

LEMMA RelinkedFacts ==
  ASSUME NEW p \in Codes, NEW from, NEW to \in Nat
  PROVE  /\ Relinked(p, from, to) \in Codes
         /\ SameShape(p, Relinked(p, from, to))
         /\ \A o \in DOMAIN p :
              /\ End(p, o) = from => Relinked(p, from, to)[o].to = to
              /\ End(p, o) # from => Relinked(p, from, to)[o] = p[o]
<1> DEFINE q == Relinked(p, from, to)
<1>1. ASSUME NEW o \in DOMAIN p
      PROVE  /\ q[o] \in Groups /\ q[o].op = p[o].op /\ q[o].n = p[o].n
             /\ End(p, o) = from => q[o].to = to
             /\ End(p, o) # from => q[o] = p[o]
  <2>1. p[o] \in Groups
    BY CodeFacts
  <2>2. q[o] = IF End(p, o) = from THEN [p[o] EXCEPT !.to = to] ELSE p[o]
    BY DEF Relinked
  <2>3. [p[o] EXCEPT !.to = to] \in Groups
    BY <2>1 DEF Groups, Group, IsGroup
  <2> HIDE DEF q
  <2> QED
    BY <2>1, <2>2, <2>3 DEF Groups, Group
<1>2. DOMAIN q = DOMAIN p /\ DOMAIN p \in SUBSET Nat
  BY CodeFacts DEF Relinked
<1>3. q \in Codes
  <2>1. q = [o \in DOMAIN p |-> q[o]]
    BY DEF Relinked
  <2> HIDE DEF q
  <2>2. q \in [DOMAIN p -> Groups]
    BY <1>1, <2>1
  <2> QED
    BY <1>2, <2>2, CodeIntro
<1>4. SameShape(p, q)
  <2> HIDE DEF q
  <2> QED
    BY <1>1, <1>2 DEF SameShape, End
<1> QED
  BY <1>1, <1>3, <1>4

LEMMA ShapeKeeps ==
  ASSUME NEW c, NEW d, SameShape(c.code, d.code), d.dst.size = c.dst.size
  PROVE  /\ Tiled(c) => Tiled(d)
         /\ Headed(c) => Headed(d)
<1>1. Lengths(d.code) = Lengths(c.code)
  BY DEF SameShape, Lengths
<1> QED
  BY <1>1 DEF Tiled, Headed, SameShape

LEMMA ShapeFlows ==
  ASSUME NEW c \in Compilers, Tiled(c), NEW d, SameShape(c.code, d.code),
         d.dst.size = c.dst.size, NEW h, FlowsTo(c, h)
  PROVE  FlowsTo(d, h)
<1> SUFFICES ASSUME NEW o \in DOMAIN d.code, d.code[o].op \notin Leaves
             PROVE  Follows(d.code[o], IF End(d.code, o) = d.dst.size THEN h
                                       ELSE d.code[End(d.code, o)])
  BY DEF FlowsTo
<1>1. o \in DOMAIN c.code /\ c.code[o].op \notin Leaves /\ End(d.code, o) = End(c.code, o)
      /\ d.code[o].op = c.code[o].op /\ d.code[o].n = c.code[o].n
  BY DEF SameShape
<1>2. Follows(c.code[o], IF End(c.code, o) = c.dst.size THEN h ELSE c.code[End(c.code, o)])
  BY <1>1 DEF FlowsTo
<1>3. CASE End(c.code, o) = c.dst.size
  BY <1>1, <1>2, <1>3 DEF Follows
<1>4. CASE End(c.code, o) # c.dst.size
  <2>1. End(c.code, o) \in DOMAIN c.code
    BY <1>1, <1>4, EndFacts
  <2> DEFINE x == c.code[End(c.code, o)]
             y == d.code[End(c.code, o)]
  <2>2. y.op = x.op /\ y.n = x.n
    BY <2>1 DEF SameShape
  <2>3. Follows(c.code[o], x)
    BY <1>2, <1>4
  <2> HIDE DEF x, y
  <2>4. Follows(d.code[o], y)
    BY <1>1, <2>2, <2>3 DEF Follows
  <2> QED
    BY <1>1, <1>4, <2>4 DEF y
<1> QED
  BY <1>3, <1>4

LEMMA SetRelFacts ==
  ASSUME NEW c \in Compilers, NEW from \in Nat, NEW to \in Nat, NEW max \in Nat,
         NEW r \in SetRel(c, from, to, max)
  PROVE  \/ /\ r.error = "SUCCESS" /\ r.c \in Compilers
            /\ to - from \in -(max + 1) .. max
            /\ OtherFieldsSame(c, r.c) /\ r.c.dst = c.dst
            /\ r.c.code = Relinked(c.code, from, to)
         \/ /\ r = Result(c, "JUMP_TOO_LARGE")
            /\ to - from \notin -(max + 1) .. max
<1>1. CASE to - from \in -(max + 1) .. max
  <2>1. r = Result([c EXCEPT !.code = Relinked(c.code, from, to)], "SUCCESS")
    BY <1>1 DEF SetRel, Relinked
  <2>2. c.code \in Codes
    BY CompilerFacts
  <2>3. Relinked(c.code, from, to) \in Codes
    BY <2>2, RelinkedFacts
  <2>4. r.error = "SUCCESS" /\ r.c = [c EXCEPT !.code = Relinked(c.code, from, to)]
    BY <2>1 DEF Result
  <2> QED
    BY <1>1, <2>3, <2>4 DEF Compilers, OtherFieldsSame
<1>2. CASE to - from \notin -(max + 1) .. max
  BY <1>2 DEF SetRel
<1> QED
  BY <1>1, <1>2

-----------------------------------------------------------------------------
(* What an emit of a token leaves behind. *)

(* Between two calls, except for what may come next. *)
Built(c) ==
  /\ Body(c, 0)
  /\ StacksHonest(c)
  /\ Honest(c.dst)
  /\ Unlinked(c.code)

(* Behind a group g of a token, still with p tokens taken and these loops open. *)
Behind(r, g, c) ==
  /\ r.c \in Compilers /\ r.error \in WriteError
  /\ r.error = "SUCCESS" =>
       /\ Built(r.c)
       /\ r.c.token = c.token /\ r.c.loop_stack = c.loop_stack
       /\ r.c.dst.size > c.dst.size
       /\ \A h : Follows(g, h) => FlowsTo(r.c, h)

Fatal == {"MALLOC", "UNDEFINED", "JUMP_TOO_LARGE"}

(* A result of an emit that took the tokens up to p, with so many loops open. *)
Emitted(r, p, depth) ==
  /\ r.c \in Compilers
  /\ r.error \in NbajhError \cup {"UNDEFINED"}
  /\ r.error = "SUCCESS" =>
       Between(r.c) /\ r.c.token = p /\ Len(r.c.loop_stack) = depth
  /\ r.error \notin Fatal => Loops(r.c)
  /\ r.error = "JUMP_TOO_LARGE" => r.c.dst.size > INT32_MAX

(* A result whose program is longer than it was. *)
Grown(r, c) == r.error = "SUCCESS" => r.c.dst.size > c.dst.size

LEMMA FlowsByHead ==
  ASSUME NEW c, NEW h, NEW g, g.op = h.op, g.n = h.n, FlowsTo(c, h)
  PROVE  FlowsTo(c, g)
<1>1. \A x : Follows(x, h) => Follows(x, g)
  BY DEF Follows
<1> QED
  BY <1>1 DEF FlowsTo

LEMMA BetweenFlows ==
  ASSUME NEW c, Between(c), NEW g \in Groups, g.op \in Opening
  PROVE  FlowsTo(c, g)
<1> DEFINE h == [op |-> g.op, n |-> g.n]
<1>1. h \in Heads /\ h.op = g.op /\ h.n = g.n
  BY DEF Groups, Group, Heads
<1> HIDE DEF h
<1>2. FlowsTo(c, h)
  BY <1>1 DEF Between
<1> QED
  BY <1>1, <1>2, FlowsByHead

LEMMA BuiltFacts ==
  ASSUME NEW c, Built(c)
  PROVE  /\ c \in Compilers /\ Tiled(c) /\ Headed(c) /\ Loops(c) /\ Calls(c, 0)
         /\ c.dst.size \in Nat /\ Len(c.jumps) \in Nat /\ Len(c.loop_stack) \in Nat
BY CompilerFacts DEF Built, Body

LEMMA BetweenBuilt ==
  ASSUME NEW c
  PROVE  Between(c) <=> Built(c) /\ \A h \in Heads : h.op \in Opening => FlowsTo(c, h)
BY DEF Between, Built

LEMMA PlainGroup ==
  ASSUME NEW c, Built(c), NEW op, NEW n,
         [op |-> op, n |-> n, to |-> NOWHERE] \in Groups,
         op \notin {"jz", "jnz", "header"} \cup DOMAIN StubOf \cup FooterOps,
         FlowsTo(c, [op |-> op, n |-> n, to |-> NOWHERE]),
         NEW r \in WriteGroup(c, op, n)
  PROVE  Behind(r, [op |-> op, n |-> n, to |-> NOWHERE], c)
<1> DEFINE g == [op |-> op, n |-> n, to |-> NOWHERE]
<1>1. /\ c \in Compilers /\ Tiled(c) /\ g \in Groups /\ g.op = op
  BY BuiltFacts
<1>2. /\ r.c \in Compilers /\ r.error \in WriteError
      /\ OtherFieldsSame(c, r.c)
      /\ r.error = "SUCCESS" =>
           Appended(c, r.c, g) /\ (Honest(c.dst) => Honest(r.c.dst))
  BY <1>1, WriteGroupFacts
<1>3. ASSUME r.error = "SUCCESS"
      PROVE  /\ Built(r.c) /\ \A h : Follows(g, h) => FlowsTo(r.c, h)
             /\ r.c.dst.size > c.dst.size
  <2> HIDE DEF g
  <2>1. Body(r.c, 0)
    BY <1>1, <1>2, <1>3, AppendedBody DEF Built
  <2>2. StacksHonest(r.c) /\ Honest(r.c.dst)
    BY <1>2, <1>3 DEF Built, StacksHonest, OtherFieldsSame
  <2>3. Unlinked(r.c.code)
    BY <1>1, <1>2, <1>3, AppendedFacts DEF Built, Unlinked
  <2>4. ASSUME NEW h, Follows(g, h) PROVE FlowsTo(r.c, h)
    BY <1>1, <1>2, <1>3, <2>4, AppendedFlows DEF g
  <2>5. r.c.dst.size > c.dst.size
    BY <1>1, <1>2, <1>3, AppendedFacts
  <2> QED
    BY <2>1, <2>2, <2>3, <2>4, <2>5 DEF Built
<1> QED
  BY <1>2, <1>3 DEF Behind, OtherFieldsSame

LEMMA CallGroup ==
  ASSUME NEW c, Built(c), NEW op \in DOMAIN StubOf, NEW n,
         [op |-> op, n |-> n, to |-> NOWHERE] \in Groups,
         FlowsTo(c, [op |-> op, n |-> n, to |-> NOWHERE]),
         NEW s \in WriteGroup(c, op, n),
         NEW r, s.error # "SUCCESS" => r = s,
         s.error = "SUCCESS" => r \in RecordJump(s.c, StubOf[op])
  PROVE  Behind(r, [op |-> op, n |-> n, to |-> NOWHERE], c)
<1> DEFINE g == [op |-> op, n |-> n, to |-> NOWHERE]
<1>1. /\ c \in Compilers /\ Tiled(c) /\ g \in Groups /\ g.op = op /\ g.to = NOWHERE
      /\ 0 <= Len(c.jumps)
  BY BuiltFacts
<1>2. op \notin FooterOps /\ StubOf[op] \in Stub
  BY DEF StubOf, FooterOps, Leaves, Stub
<1>3. /\ s.c \in Compilers /\ s.error \in WriteError
      /\ OtherFieldsSame(c, s.c)
      /\ s.error = "SUCCESS" =>
           Appended(c, s.c, g) /\ (Honest(c.dst) => Honest(s.c.dst))
  BY <1>1, WriteGroupFacts
<1>4. CASE s.error # "SUCCESS"
  BY <1>3, <1>4 DEF Behind
<1>5. CASE s.error = "SUCCESS"
  <2> HIDE DEF g
  <2>1. /\ r.c \in Compilers /\ r.error \in WriteError
        /\ r.c.token = s.c.token /\ r.c.dst = s.c.dst /\ r.c.code = s.c.code
        /\ r.c.loop_stack = s.c.loop_stack /\ r.c.loop_buf = s.c.loop_buf
        /\ r.error = "SUCCESS" =>
             /\ r.c.jumps = Append(s.c.jumps, [from |-> s.c.dst.size, to |-> StubOf[op]])
             /\ StacksHonest(s.c) => StacksHonest(r.c)
    BY <1>2, <1>3, <1>5, RecordJumpFacts
  <2>2. StacksHonest(s.c) /\ Honest(s.c.dst)
    BY <1>3, <1>5 DEF Built, StacksHonest, OtherFieldsSame
  <2>3. ASSUME r.error = "SUCCESS" PROVE Body(r.c, 0)
    <3>1. s.c.jumps = c.jumps /\ Body(c, 0)
      BY <1>3 DEF OtherFieldsSame, Built
    <3> QED
      BY <1>1, <1>3, <1>5, <2>1, <2>3, <3>1, RecordedBody
  <2>4. Unlinked(r.c.code)
    BY <1>1, <1>2, <1>3, <1>5, <2>1, AppendedFacts DEF Built, Unlinked
  <2>5. ASSUME NEW h, Follows(g, h) PROVE FlowsTo(r.c, h)
    <3>1. FlowsTo(s.c, h)
      BY <1>1, <1>3, <1>5, <2>5, AppendedFlows DEF g
    <3> QED
      BY <2>1, <3>1 DEF FlowsTo
  <2>6. r.c.dst.size > c.dst.size
    BY <1>1, <1>3, <1>5, <2>1, AppendedFacts
  <2>7. r.c.token = c.token /\ r.c.loop_stack = c.loop_stack
    BY <1>3, <2>1 DEF OtherFieldsSame
  <2> QED
    BY <2>1, <2>2, <2>3, <2>4, <2>5, <2>6, <2>7 DEF Behind, Built, g
<1> QED
  BY <1>4, <1>5

(* What is longer than a longer program is longer. *)
LEMMA LongerStill ==
  ASSUME NEW c, Built(c), NEW g, NEW q, Behind(q, g, c), q.error = "SUCCESS",
         NEW r, r.c \in Compilers, Grown(r, q.c)
  PROVE  Grown(r, c)
<1>1. c.dst.size \in Nat /\ q.c.dst.size \in Nat /\ r.c.dst.size \in Nat
  BY BuiltFacts, CompilerFacts DEF Behind
<1> QED
  BY <1>1 DEF Behind, Grown

LEMMA BehindEmitted ==
  ASSUME NEW c, NEW g, NEW r, Behind(r, g, c),
         \A h : h.op \in Opening => Follows(g, h)
  PROVE  Emitted(r, c.token, Len(c.loop_stack)) /\ r.error \in WriteError /\ Grown(r, c)
<1>1. r.error \in WriteError /\ r.c \in Compilers /\ Grown(r, c)
  BY DEF Behind, Grown
<1>2. ASSUME r.error = "SUCCESS" PROVE Between(r.c) /\ Loops(r.c)
  BY <1>2, BetweenBuilt, BuiltFacts DEF Behind
<1>3. r.error = "SUCCESS" =>
        r.c.token = c.token /\ Len(r.c.loop_stack) = Len(c.loop_stack)
  BY DEF Behind
<1> QED
  BY <1>1, <1>2, <1>3 DEF Emitted, WriteError, Fatal, NbajhError, CompilerErrors

LEMMA AdvancedFacts ==
  ASSUME NEW c \in Compilers, NEW n \in Nat
  PROVE  /\ Advanced(c, n) \in Compilers
         /\ Advanced(c, n).token = c.token + n
         /\ Advanced(c, n).jumps = c.jumps /\ Advanced(c, n).jumps_buf = c.jumps_buf
         /\ Advanced(c, n).loop_stack = c.loop_stack /\ Advanced(c, n).loop_buf = c.loop_buf
         /\ Advanced(c, n).dst = c.dst /\ Advanced(c, n).code = c.code
         /\ Between(c) => Between(Advanced(c, n))
         /\ Loops(c) => Loops(Advanced(c, n))
<1>1. /\ Advanced(c, n) \in Compilers
      /\ Advanced(c, n).token = c.token + n
      /\ Advanced(c, n).jumps = c.jumps /\ Advanced(c, n).jumps_buf = c.jumps_buf
      /\ Advanced(c, n).loop_stack = c.loop_stack /\ Advanced(c, n).loop_buf = c.loop_buf
      /\ Advanced(c, n).dst = c.dst /\ Advanced(c, n).code = c.code
  BY DEF Compilers, Advanced
<1> DEFINE d == Advanced(c, n)
<1> HIDE DEF d
<1>2. d \in Compilers /\ d.jumps = c.jumps /\ d.jumps_buf = c.jumps_buf
      /\ d.loop_stack = c.loop_stack /\ d.loop_buf = c.loop_buf
      /\ d.dst = c.dst /\ d.code = c.code
  BY <1>1 DEF d
<1>3. Loops(c) => Loops(d)
  BY <1>2 DEF Loops
<1>4. Between(c) => Between(d)
  BY <1>2, <1>3 DEF Between, Body, Tiled, Headed, Calls, StacksHonest, FlowsTo
<1> QED
  BY <1>1, <1>3, <1>4 DEF d

(* The check, and behind it the move it is for. *)
LEMMA MovedEmits ==
  ASSUME NEW c, Between(c), NEW check, NEW op, NEW n \in 0 .. UINT16_MAX,
         <<check, op>> \in {<<"above", "addp">>, <<"below", "subp">>},
         NEW r \in Moved(c, check, op, n)
  PROVE  Emitted(r, c.token, Len(c.loop_stack)) /\ r.error \in WriteError /\ Grown(r, c)
<1> DEFINE g == [op |-> check, n |-> n, to |-> NOWHERE]
           h == [op |-> op, n |-> n, to |-> NOWHERE]
<1>1. \/ check = "above" /\ op = "addp"
      \/ check = "below" /\ op = "subp"
  OBVIOUS
<1>2. n \in Nat
  BY WidthAssumption DEF WidthAssumption
<1>3. g \in Groups /\ h \in Groups /\ g.op \in Opening /\ check \in DOMAIN StubOf
      /\ StubOf[check] = "oob"
  BY <1>1, <1>2 DEF Groups, Group, IsGroup, GroupOp, GroupSize, NOWHERE, Opening, StubOf
<1>4. op \notin {"jz", "jnz", "header"} \cup DOMAIN StubOf \cup FooterOps
  BY <1>1 DEF StubOf, FooterOps, Leaves
<1>5. Follows(g, h) /\ \A x : x.op \in Opening => Follows(h, x)
  BY <1>1 DEF Follows
<1>6. Built(c) /\ FlowsTo(c, g)
  BY <1>3, BetweenBuilt, BetweenFlows
<1>7. PICK q : /\ \/ q.error = "SUCCESS" /\ r \in WriteGroup(q.c, op, n)
                  \/ q.error # "SUCCESS" /\ r = q
               /\ \E s \in WriteGroup(c, check, n) :
                    \/ s.error = "SUCCESS" /\ q \in RecordJump(s.c, "oob")
                    \/ s.error # "SUCCESS" /\ q = s
  BY DEF Moved, Then
<1>8. Behind(q, g, c)
  <2>1. PICK s \in WriteGroup(c, check, n) :
          \/ s.error = "SUCCESS" /\ q \in RecordJump(s.c, "oob")
          \/ s.error # "SUCCESS" /\ q = s
    BY <1>7
  <2>2. s.error = "SUCCESS" => q \in RecordJump(s.c, StubOf[check])
    BY <1>3, <2>1
  <2>3. s.error # "SUCCESS" => q = s
    BY <2>1
  <2> QED
    BY <1>3, <1>6, <2>2, <2>3, CallGroup
<1> HIDE DEF g
<1>9. CASE q.error # "SUCCESS"
  BY <1>7, <1>8, <1>9
  DEF Behind, Emitted, Grown, WriteError, Fatal, NbajhError, CompilerErrors
<1>10. CASE q.error = "SUCCESS"
  <2>1. Built(q.c) /\ FlowsTo(q.c, h) /\ q.c.token = c.token
        /\ q.c.loop_stack = c.loop_stack
    BY <1>5, <1>8, <1>10 DEF Behind
  <2>2. r \in WriteGroup(q.c, op, n)
    BY <1>7, <1>10
  <2>3. Behind(r, h, q.c)
    BY <1>3, <1>4, <2>1, <2>2, PlainGroup
  <2> HIDE DEF h
  <2>4. Emitted(r, q.c.token, Len(q.c.loop_stack)) /\ r.error \in WriteError /\ Grown(r, q.c)
    BY <1>5, <2>3, BehindEmitted
  <2>5. Grown(r, c)
    BY <1>6, <1>8, <1>10, <2>4, LongerStill DEF Emitted
  <2> QED
    BY <2>1, <2>4, <2>5
<1> QED
  BY <1>9, <1>10

LEMMA RunLengthFacts ==
  ASSUME IsSource(source), NEW c, c.token \in 1 .. Len(source)
  PROVE  /\ RunLength(c) \in 1 .. Len(source) /\ RunLength(c) \in Nat \ {0}
         /\ IsRun(source, c.token, RunLength(c))
<1>1. \E n \in 1 .. Len(source) : IsRun(source, c.token, n)
  BY RunExists
<1>2. RunLength(c) \in 1 .. Len(source) /\ IsRun(source, c.token, RunLength(c))
  BY <1>1 DEF RunLength
<1> QED
  BY <1>2, SourceFacts

LEMMA AdditivePEmits ==
  ASSUME IsSource(source), NEW c, Between(c),
         c.token \in 1 .. Len(source), source[c.token] \in Moves,
         NEW r \in AdditiveP(c)
  PROVE  \/ /\ RunLength(c) > UINT16_MAX
            /\ r = Result(Advanced(c, UINT16_MAX), "DP_OUT_OF_BOUNDS")
         \/ /\ RunLength(c) <= UINT16_MAX /\ r.error \in WriteError
            /\ Emitted(r, c.token + RunLength(c), Len(c.loop_stack)) /\ Grown(r, c)
<1> DEFINE n == RunLength(c)
           d == Advanced(c, n)
<1>1. n \in Nat \ {0} /\ c \in Compilers /\ UINT16_MAX \in Nat
  BY RunLengthFacts, WidthAssumption DEF WidthAssumption, Between, Body
<1>2. Between(d) /\ d.token = c.token + n /\ d.loop_stack = c.loop_stack /\ d.dst = c.dst
  BY <1>1, AdvancedFacts
<1>3. CASE n > UINT16_MAX
  BY <1>3 DEF AdditiveP, TooLong
<1>4. CASE ~(n > UINT16_MAX)
  <2>1. n \in 0 .. UINT16_MAX /\ n <= UINT16_MAX
    BY <1>1, <1>4
  <2>2. r \in Moved(d, "above", "addp", n) \/ r \in Moved(d, "below", "subp", n)
    BY <1>4 DEF AdditiveP, TooLong
  <2> HIDE DEF d, n
  <2>3. Emitted(r, d.token, Len(d.loop_stack)) /\ r.error \in WriteError /\ Grown(r, d)
    BY <1>2, <2>1, <2>2, MovedEmits
  <2> QED
    BY <1>2, <2>1, <2>3 DEF n, Grown
<1> QED
  BY <1>3, <1>4

LEMMA AdditiveVEmits ==
  ASSUME IsSource(source), NEW c, Between(c),
         c.token \in 1 .. Len(source), source[c.token] \in Adds,
         NEW r \in AdditiveV(c)
  PROVE  /\ Emitted(r, c.token + RunLength(c), Len(c.loop_stack)) /\ r.error \in WriteError
         /\ Grown(r, c) \/ r.c.dst = c.dst
<1> DEFINE n == Wrapped(RunLength(c))
           d == Advanced(c, RunLength(c))
           op == IF source[c.token] = "my" THEN "addv" ELSE "subv"
           g == [op |-> op, n |-> n, to |-> NOWHERE]
<1>1. RunLength(c) \in Nat \ {0} /\ c \in Compilers /\ UINT8_MAX \in Nat \ {0}
  BY RunLengthFacts, WidthAssumption DEF WidthAssumption, Between, Body
<1>2. Between(d) /\ d.token = c.token + RunLength(c) /\ d.loop_stack = c.loop_stack
      /\ d.dst = c.dst
  BY <1>1, AdvancedFacts
<1>3. n \in Byte /\ n \in Nat
  BY <1>1 DEF Wrapped, Byte
<1>4. r = Result(d, "SUCCESS") \/ r \in WriteGroup(d, op, n)
  BY DEF AdditiveV
<1> HIDE DEF d, n
<1>5. CASE r = Result(d, "SUCCESS")
  <2>1. r.c = d /\ r.error = "SUCCESS"
    BY <1>5 DEF Result
  <2>2. Loops(d) /\ d \in Compilers
    BY <1>2 DEF Between, Body
  <2> QED
    BY <1>2, <2>1, <2>2 DEF Emitted, WriteError, NbajhError
<1>6. CASE r \in WriteGroup(d, op, n)
  <2>1. op \in {"addv", "subv"}
    OBVIOUS
  <2> HIDE DEF op
  <2>2. g \in Groups /\ g.op \in Opening
    BY <1>3, <2>1 DEF Groups, Group, IsGroup, GroupOp, GroupSize, NOWHERE, Opening
  <2>3. op \notin {"jz", "jnz", "header"} \cup DOMAIN StubOf \cup FooterOps
    BY <2>1 DEF StubOf, FooterOps, Leaves
  <2>4. \A x : x.op \in Opening => Follows(g, x)
    BY <2>1 DEF Follows
  <2>5. Built(d) /\ FlowsTo(d, g)
    BY <1>2, <2>2, BetweenBuilt, BetweenFlows
  <2>6. Behind(r, g, d)
    BY <1>6, <2>2, <2>3, <2>5, PlainGroup
  <2> HIDE DEF g
  <2> QED
    BY <1>2, <2>4, <2>6, BehindEmitted DEF Grown
<1> QED
  BY <1>4, <1>5, <1>6

(* A group of a token without an operand, with a jump to the footer. *)
LEMMA CallEmits ==
  ASSUME NEW c, Between(c), NEW op \in {"fputc", "fgetc", "debug"},
         NEW r \in Then(WriteGroup(c, op, 0), LAMBDA d : RecordJump(d, StubOf[op]))
  PROVE  Behind(r, [op |-> op, n |-> 0, to |-> NOWHERE], c)
<1> DEFINE g == [op |-> op, n |-> 0, to |-> NOWHERE]
<1>1. g \in Groups /\ g.op \in Opening /\ op \in DOMAIN StubOf
  BY WidthAssumption
  DEF Groups, Group, IsGroup, GroupOp, GroupSize, NOWHERE, Opening, StubOf, WidthAssumption
<1>2. Built(c) /\ FlowsTo(c, g)
  BY <1>1, BetweenBuilt, BetweenFlows
<1>3. PICK s \in WriteGroup(c, op, 0) :
        \/ s.error = "SUCCESS" /\ r \in RecordJump(s.c, StubOf[op])
        \/ s.error # "SUCCESS" /\ r = s
  BY DEF Then
<1>4. /\ s.error = "SUCCESS" => r \in RecordJump(s.c, StubOf[op])
      /\ s.error # "SUCCESS" => r = s
  BY <1>3
<1> QED
  BY <1>1, <1>2, <1>4, CallGroup

LEMMA WriteCharEmits ==
  ASSUME NEW c, Between(c), NEW r \in WriteChar(c)
  PROVE  Emitted(r, c.token, Len(c.loop_stack)) /\ r.error \in WriteError /\ Grown(r, c)
<1>1. Behind(r, [op |-> "fputc", n |-> 0, to |-> NOWHERE], c)
  <2>1. StubOf["fputc"] = "io"
    BY DEF StubOf
  <2>2. r \in Then(WriteGroup(c, "fputc", 0), LAMBDA d : RecordJump(d, StubOf["fputc"]))
    BY <2>1 DEF WriteChar
  <2> QED
    BY <2>2, CallEmits
<1>2. \A h : h.op \in Opening => Follows([op |-> "fputc", n |-> 0, to |-> NOWHERE], h)
  BY DEF Follows
<1> QED
  BY <1>1, <1>2, BehindEmitted

LEMMA DebugEmits ==
  ASSUME NEW c, Between(c), NEW r \in Debug(c)
  PROVE  Emitted(r, c.token, Len(c.loop_stack)) /\ r.error \in WriteError /\ Grown(r, c)
<1>1. Behind(r, [op |-> "debug", n |-> 0, to |-> NOWHERE], c)
  <2>1. StubOf["debug"] = "handler"
    BY DEF StubOf
  <2>2. r \in Then(WriteGroup(c, "debug", 0), LAMBDA d : RecordJump(d, StubOf["debug"]))
    BY <2>1 DEF Debug
  <2> QED
    BY <2>2, CallEmits
<1>2. \A h : h.op \in Opening => Follows([op |-> "debug", n |-> 0, to |-> NOWHERE], h)
  BY DEF Follows
<1> QED
  BY <1>1, <1>2, BehindEmitted

LEMMA ReadCharEmits ==
  ASSUME NEW c, Between(c), NEW r \in ReadChar(c)
  PROVE  Emitted(r, c.token, Len(c.loop_stack)) /\ r.error \in WriteError /\ Grown(r, c)
<1> DEFINE g == [op |-> "fgetc", n |-> 0, to |-> NOWHERE]
           h == [op |-> "store", n |-> 0, to |-> NOWHERE]
<1>1. StubOf["fgetc"] = "ferror"
  BY DEF StubOf
<1>2. PICK q \in Then(WriteGroup(c, "fgetc", 0), LAMBDA d : RecordJump(d, "ferror")) :
        \/ q.error = "SUCCESS" /\ r \in WriteGroup(q.c, "store", 0)
        \/ q.error # "SUCCESS" /\ r = q
  BY DEF ReadChar, Then
<1>3. Behind(q, g, c)
  <2>1. q \in Then(WriteGroup(c, "fgetc", 0), LAMBDA d : RecordJump(d, StubOf["fgetc"]))
    BY <1>1
  <2> QED
    BY <2>1, CallEmits
<1>4. h \in Groups /\ "store" \notin {"jz", "jnz", "header"} \cup DOMAIN StubOf \cup FooterOps
  BY WidthAssumption
  DEF Groups, Group, IsGroup, GroupOp, GroupSize, NOWHERE, StubOf, FooterOps, Leaves,
      WidthAssumption
<1>5. Follows(g, h) /\ \A x : x.op \in Opening => Follows(h, x)
  BY DEF Follows
<1>6. CASE q.error # "SUCCESS"
  BY <1>2, <1>3, <1>6
  DEF Behind, Emitted, Grown, WriteError, Fatal, NbajhError, CompilerErrors
<1>7. CASE q.error = "SUCCESS"
  <2>1. Built(q.c) /\ FlowsTo(q.c, h) /\ q.c.token = c.token
        /\ q.c.loop_stack = c.loop_stack
    BY <1>3, <1>5, <1>7 DEF Behind
  <2>2. Behind(r, h, q.c)
    BY <1>2, <1>4, <1>7, <2>1, PlainGroup
  <2> HIDE DEF h
  <2>3. Emitted(r, q.c.token, Len(q.c.loop_stack)) /\ r.error \in WriteError /\ Grown(r, q.c)
    BY <1>5, <2>2, BehindEmitted
  <2>4. Grown(r, c)
    <3>1. Built(c)
      BY BetweenBuilt
    <3> QED
      BY <1>3, <1>7, <2>3, <3>1, LongerStill DEF Emitted
  <2> QED
    BY <2>1, <2>3, <2>4
<1> QED
  BY <1>6, <1>7

LEMMA NextTokenEmits ==
  ASSUME NEW results, NEW p \in Nat, NEW depth, NEW c,
         \A q \in results : Emitted(q, p, depth) /\ Grown(q, c),
         NEW r \in NextToken(results)
  PROVE  /\ Emitted(r, p + 1, depth) /\ (r.error = "SUCCESS" \/ r \in results)
         /\ Grown(r, c)
<1>1. PICK q \in results :
        r = IF q.error = "SUCCESS" THEN Result(Advanced(q.c, 1), "SUCCESS") ELSE q
  <2>1. PICK q \in results :
          \/ q.error = "SUCCESS" /\ r \in {Result(Advanced(q.c, 1), "SUCCESS")}
          \/ q.error # "SUCCESS" /\ r \in {q}
    BY DEF NextToken, Then
  <2> QED
    BY <2>1
<1>2. Emitted(q, p, depth) /\ Grown(q, c)
  OBVIOUS
<1>3. CASE q.error # "SUCCESS"
  BY <1>1, <1>2, <1>3 DEF Emitted, Grown
<1>4. CASE q.error = "SUCCESS"
  <2>1. r.c = Advanced(q.c, 1) /\ r.error = "SUCCESS"
    BY <1>1, <1>4 DEF Result
  <2>2. q.c \in Compilers /\ Between(q.c) /\ q.c.token = p /\ Len(q.c.loop_stack) = depth
    BY <1>2, <1>4 DEF Emitted
  <2>3. r.c \in Compilers /\ Between(r.c) /\ r.c.token = p + 1
        /\ r.c.loop_stack = q.c.loop_stack /\ r.c.dst = q.c.dst
    <3>1. /\ Advanced(q.c, 1) \in Compilers /\ Advanced(q.c, 1).dst = q.c.dst
          /\ Advanced(q.c, 1).token = q.c.token + 1
          /\ Advanced(q.c, 1).loop_stack = q.c.loop_stack
          /\ Between(q.c) => Between(Advanced(q.c, 1))
      BY <2>2, AdvancedFacts
    <3> QED
      BY <2>1, <2>2, <3>1
  <2>4. Loops(r.c)
    BY <2>3 DEF Between, Body
  <2> QED
    BY <1>2, <1>4, <2>1, <2>2, <2>3, <2>4 DEF Emitted, Grown, NbajhError
<1> QED
  BY <1>3, <1>4

-----------------------------------------------------------------------------
(* Loops are opened and closed. *)

LEMMA OpenedLoops ==
  ASSUME NEW c \in Compilers, Tiled(c), Loops(c),
         NEW g \in Groups, g.op = "jz", g.to = NOWHERE, NEW q, Appended(c, q, g),
         NEW d \in Compilers, d.code = q.code,
         d.loop_stack = Append(c.loop_stack, q.dst.size)
  PROVE  Loops(d)
<1> DEFINE m == Len(c.loop_stack)
<1>1. /\ DOMAIN q.code = DOMAIN c.code \cup {c.dst.size} /\ q.code[c.dst.size] = g
      /\ End(q.code, c.dst.size) = q.dst.size /\ q.dst.size \in Nat /\ q.dst.size > c.dst.size
      /\ \A o \in DOMAIN c.code : q.code[o] = c.code[o] /\ End(q.code, o) = End(c.code, o)
  BY AppendedFacts
<1>2. /\ m \in Nat /\ DOMAIN c.loop_stack = 1 .. m /\ DOMAIN d.loop_stack = 1 .. m + 1
      /\ d.loop_stack[m + 1] = q.dst.size
      /\ \A i \in 1 .. m : d.loop_stack[i] = c.loop_stack[i]
  BY <1>1, CompilerFacts, PushFacts, LenProperties
<1> HIDE DEF m
<1>3. m + 1 \in 1 .. m + 1 /\ 1 .. m + 1 = (1 .. m) \cup {m + 1}
  BY <1>2
<1>4. ASSUME NEW o \in DOMAIN d.code, d.code[o].op \in {"jz", "jnz"}
      PROVE  \/ PairedIn(d.code, o)
             \/ /\ OpensLoop(d.code, o)
                /\ \E k \in DOMAIN d.loop_stack : d.loop_stack[k] = End(d.code, o)
  <2>1. CASE o = c.dst.size
    BY <1>1, <1>2, <1>3, <2>1 DEF OpensLoop
  <2>2. CASE o \in DOMAIN c.code /\ PairedIn(c.code, o)
    BY <1>1, <2>2 DEF PairedIn
  <2>3. CASE o \in DOMAIN c.code /\ ~PairedIn(c.code, o)
    <3>1. OpensLoop(c.code, o) /\ \E k \in 1 .. m : c.loop_stack[k] = End(c.code, o)
      BY <1>1, <1>2, <1>4, <2>3 DEF Loops
    <3> QED
      BY <1>1, <1>2, <1>3, <2>3, <3>1 DEF OpensLoop
  <2> QED
    BY <1>1, <2>1, <2>2, <2>3
<1>5. ASSUME NEW k \in 1 .. m
      PROVE  \E o \in DOMAIN c.code : /\ OpensLoop(d.code, o) /\ d.loop_stack[k] = End(d.code, o)
                                       /\ d.loop_stack[k] < q.dst.size
  <2>1. PICK o \in DOMAIN c.code : OpensLoop(c.code, o) /\ c.loop_stack[k] = End(c.code, o)
    BY <1>2 DEF Loops
  <2>2. End(c.code, o) \in Nat /\ End(c.code, o) <= c.dst.size /\ c.dst.size \in Nat
    BY EndFacts
  <2>3. End(c.code, o) < q.dst.size
    BY <1>1, <2>2
  <2>4. d.loop_stack[k] = c.loop_stack[k]
    BY <1>2
  <2>5. d.code[o] = c.code[o] /\ End(d.code, o) = End(c.code, o)
    BY <1>1
  <2> QED
    BY <2>1, <2>3, <2>4, <2>5 DEF OpensLoop
<1>6. ASSUME NEW k \in 1 .. m + 1
      PROVE  /\ \E o \in DOMAIN d.code :
                  OpensLoop(d.code, o) /\ d.loop_stack[k] = End(d.code, o)
             /\ \A j \in 1 .. m + 1 : j < k => d.loop_stack[j] < d.loop_stack[k]
  <2>1. CASE k = m + 1
    <3>1. OpensLoop(d.code, c.dst.size) /\ d.loop_stack[k] = End(d.code, c.dst.size)
          /\ c.dst.size \in DOMAIN d.code
      BY <1>1, <1>2, <2>1 DEF OpensLoop
    <3>2. \A j \in 1 .. m + 1 : j < k => j \in 1 .. m
      BY <1>2, <2>1
    <3>3. \A j \in 1 .. m : d.loop_stack[j] < d.loop_stack[k]
      BY <1>2, <1>5, <2>1
    <3> QED
      BY <3>1, <3>2, <3>3
  <2>2. CASE k \in 1 .. m
    <3>1. \A j \in 1 .. m + 1 : j < k => j \in 1 .. m
      BY <1>2, <2>2
    <3>2. \A j \in 1 .. m : j < k => c.loop_stack[j] < c.loop_stack[k]
      BY <1>2, <2>2 DEF Loops
    <3> QED
      BY <1>1, <1>2, <1>5, <2>2, <3>1, <3>2
  <2> QED
    BY <1>3, <2>1, <2>2
<1> QED
  BY <1>2, <1>4, <1>6 DEF Loops

LEMMA LoopStartEmits ==
  ASSUME NEW c, Between(c), NEW r \in LoopStart(c)
  PROVE  Emitted(r, c.token, Len(c.loop_stack) + 1) /\ r.error \in WriteError /\ Grown(r, c)
<1> DEFINE g == [op |-> "jz", n |-> 0, to |-> NOWHERE]
<1>1. g \in Groups /\ g.op \in Opening /\ g.op = "jz" /\ g.to = NOWHERE
      /\ \A h : h.op \in Opening => Follows(g, h)
  BY WidthAssumption
  DEF Groups, Group, IsGroup, GroupOp, GroupSize, NOWHERE, Opening, WidthAssumption, Follows
<1>2. Built(c) /\ FlowsTo(c, g)
  BY <1>1, BetweenBuilt, BetweenFlows
<1>3. /\ c \in Compilers /\ Tiled(c) /\ Headed(c) /\ Loops(c) /\ Calls(c, 0)
  BY <1>2, BuiltFacts
<1>4. PICK q \in WriteGroup(c, "jz", 0) :
        \/ q.error = "SUCCESS" /\ r \in PushLoop(q.c)
        \/ q.error # "SUCCESS" /\ r = q
  BY DEF LoopStart, Then
<1>5. /\ q.c \in Compilers /\ q.error \in WriteError
      /\ OtherFieldsSame(c, q.c)
      /\ q.error = "SUCCESS" =>
           Appended(c, q.c, g) /\ (Honest(c.dst) => Honest(q.c.dst))
  BY <1>1, <1>3, WriteGroupFacts
<1>6. CASE q.error # "SUCCESS"
  BY <1>4, <1>5, <1>6 DEF Emitted, Grown, WriteError, Fatal, NbajhError, CompilerErrors
<1>7. CASE q.error = "SUCCESS"
  <2> HIDE DEF g
  <2>1. /\ r.c \in Compilers /\ r.error \in WriteError
        /\ r.c.token = q.c.token /\ r.c.dst = q.c.dst /\ r.c.code = q.c.code
        /\ r.c.jumps = q.c.jumps /\ r.c.jumps_buf = q.c.jumps_buf
        /\ r.error = "SUCCESS" =>
             /\ r.c.loop_stack = Append(q.c.loop_stack, q.c.dst.size)
             /\ StacksHonest(q.c) => StacksHonest(r.c)
    BY <1>4, <1>5, <1>7, PushLoopFacts
  <2>2. CASE r.error # "SUCCESS"
    BY <2>1, <2>2 DEF Emitted, Grown, WriteError, Fatal, NbajhError, CompilerErrors
  <2>3. CASE r.error = "SUCCESS"
    <3>1. StacksHonest(q.c) /\ Honest(q.c.dst) /\ q.c.loop_stack = c.loop_stack
      BY <1>2, <1>5, <1>7 DEF Built, StacksHonest, OtherFieldsSame
    <3>2. Loops(r.c)
      BY <1>1, <1>3, <1>5, <1>7, <2>1, <2>3, <3>1, OpenedLoops
    <3>3. Headed(q.c) /\ Tiled(q.c)
      BY <1>1, <1>3, <1>5, <1>7, AppendedFacts DEF Headed
    <3>4. Calls(q.c, 0)
      <4>1. g.op \notin DOMAIN StubOf
        BY <1>1 DEF StubOf
      <4> QED
        BY <1>1, <1>3, <1>5, <1>7, <4>1, AppendedCalls
    <3>5. Body(r.c, 0)
      BY <2>1, <3>2, <3>3, <3>4 DEF Body, Headed, Tiled, Calls
    <3>6. Unlinked(r.c.code)
      <4>1. g.op \notin FooterOps
        BY <1>1 DEF FooterOps, Leaves
      <4> QED
        BY <1>1, <1>2, <1>3, <1>5, <1>7, <2>1, <4>1, AppendedFacts DEF Built, Unlinked
    <3>7. ASSUME NEW h \in Heads, h.op \in Opening PROVE FlowsTo(r.c, h)
      <4>1. FlowsTo(q.c, h)
        BY <1>1, <1>2, <1>3, <1>5, <1>7, <3>7, AppendedFlows
      <4> QED
        BY <2>1, <4>1 DEF FlowsTo
    <3>8. Between(r.c)
      BY <2>1, <2>3, <3>1, <3>5, <3>6, <3>7 DEF Between
    <3>9. Len(r.c.loop_stack) = Len(c.loop_stack) + 1 /\ r.c.token = c.token
      <4>1. q.c.dst.size \in Nat /\ c.loop_stack \in Seq(Nat)
        BY <1>3, <1>5, CompilerFacts
      <4>2. Len(Append(c.loop_stack, q.c.dst.size)) = Len(c.loop_stack) + 1
        BY <4>1, PushFacts
      <4> QED
        BY <1>5, <2>1, <2>3, <3>1, <4>2 DEF OtherFieldsSame
    <3>10. r.c.dst.size > c.dst.size
      BY <1>1, <1>3, <1>5, <1>7, <2>1, AppendedFacts
    <3> QED
      BY <2>1, <2>3, <3>2, <3>8, <3>9, <3>10 DEF Emitted, Grown, NbajhError
  <2> QED
    BY <2>2, <2>3
<1> QED
  BY <1>6, <1>7

(* Displacements of other groups are none of the table's business. *)
LEMMA RelinkedCalls ==
  ASSUME NEW c \in Compilers, NEW from, NEW to \in Nat, NEW k, Calls(c, k),
         \A o \in DOMAIN c.code : End(c.code, o) = from => c.code[o].op \notin DOMAIN StubOf,
         NEW d, d.code = Relinked(c.code, from, to), d.jumps = c.jumps
  PROVE  Calls(d, k)
<1>1. /\ SameShape(c.code, d.code)
      /\ \A o \in DOMAIN c.code : End(c.code, o) # from => d.code[o] = c.code[o]
  BY CompilerFacts, RelinkedFacts
<1>2. DOMAIN d.code = DOMAIN c.code
  BY <1>1 DEF SameShape
<1>3. ASSUME NEW o \in DOMAIN c.code
      PROVE  /\ CallAt(d.code, o) = CallAt(c.code, o)
             /\ CallsStub(d.code, o) <=> CallsStub(c.code, o)
  <2>1. d.code[o].op = c.code[o].op /\ End(d.code, o) = End(c.code, o)
    BY <1>1 DEF SameShape
  <2>2. CASE End(c.code, o) = from
    BY <2>1, <2>2 DEF CallAt, CallsStub
  <2>3. CASE End(c.code, o) # from
    BY <1>1, <2>1, <2>3 DEF CallAt, CallsStub
  <2> QED
    BY <2>2, <2>3
<1> QED
  BY <1>2, <1>3 DEF Calls

(***************************************************************************)
(* The innermost loop that is open begins with the group x, and the group  *)
(* e that ends it is the last one of q; each gets the displacement to just *)
(* behind the other.                                                       *)
(***************************************************************************)
LEMMA ClosedLoops ==
  ASSUME NEW c \in Compilers, Tiled(c), Loops(c), c.loop_stack # <<>>,
         NEW g \in Groups, g.op = "jnz", NEW q, Appended(c, q, g), NEW d,
         d.code = Relinked(Relinked(q.code, q.dst.size, Top(c.loop_stack)),
                           Top(c.loop_stack), q.dst.size),
         d.loop_stack = SubSeq(c.loop_stack, 1, Len(c.loop_stack) - 1)
  PROVE  Loops(d)
<1> DEFINE m == Len(c.loop_stack)
           e == c.dst.size
           start == Top(c.loop_stack)
<1>1. /\ DOMAIN q.code = DOMAIN c.code \cup {e} /\ q.code[e] = g /\ e \notin DOMAIN c.code
      /\ End(q.code, e) = q.dst.size /\ q.dst.size \in Nat /\ q.dst.size > e
      /\ \A o \in DOMAIN c.code : q.code[o] = c.code[o] /\ End(q.code, o) = End(c.code, o)
      /\ q.code \in Codes
  <2>1. q.code \in Codes
    BY CompilerFacts DEF Appended
  <2> QED
    BY <2>1, AppendedFacts
<1>2. /\ m \in Nat \ {0} /\ DOMAIN c.loop_stack = 1 .. m /\ DOMAIN d.loop_stack = 1 .. m - 1
      /\ start = c.loop_stack[m]
      /\ \A i \in 1 .. m - 1 : d.loop_stack[i] = c.loop_stack[i]
  <2>1. c.loop_stack \in Seq(Nat)
    BY CompilerFacts
  <2>2. DOMAIN c.loop_stack = 1 .. m
    BY <2>1, LenProperties
  <2>3. d.loop_stack \in Seq(Nat) /\ Len(d.loop_stack) = m - 1
    BY <2>1, PopFacts
  <2>4. DOMAIN d.loop_stack = 1 .. Len(d.loop_stack)
    BY <2>3, LenProperties
  <2> QED
    BY <2>1, <2>2, <2>3, <2>4, PopFacts DEF Top
<1>3. \A o \in DOMAIN c.code :
        /\ o \in Nat /\ End(c.code, o) \in Nat /\ o < End(c.code, o) /\ End(c.code, o) <= e
        /\ \A x \in DOMAIN c.code : End(c.code, o) = End(c.code, x) => o = x
  BY EndFacts
<1> HIDE DEF m, start
<1>4. PICK x \in DOMAIN c.code : OpensLoop(c.code, x) /\ End(c.code, x) = start
  <2>1. m \in DOMAIN c.loop_stack
    BY <1>2
  <2> QED
    BY <1>2, <2>1 DEF Loops
<1>5. e \in Nat /\ x < e /\ start \in Nat /\ start # q.dst.size
  <2>1. e \in Nat
    BY EndFacts
  <2> QED
    BY <1>1, <1>3, <1>4, <2>1
<1> DEFINE p == Relinked(q.code, q.dst.size, start)
<1>6. /\ p \in Codes /\ SameShape(q.code, p)
      /\ p[e].to = start
      /\ \A o \in DOMAIN q.code : End(q.code, o) # q.dst.size => p[o] = q.code[o]
  BY <1>1, <1>5, RelinkedFacts
<1> HIDE DEF p
<1>7. /\ DOMAIN p = DOMAIN q.code
      /\ \A o \in DOMAIN q.code : End(p, o) = End(q.code, o) /\ p[o].op = q.code[o].op
  BY <1>6 DEF SameShape
<1>8. d.code = Relinked(p, start, q.dst.size)
  BY DEF p, start
<1>9. /\ SameShape(p, d.code)
      /\ \A o \in DOMAIN p : End(p, o) = start => d.code[o].to = q.dst.size
      /\ \A o \in DOMAIN p : End(p, o) # start => d.code[o] = p[o]
  BY <1>1, <1>6, <1>8, RelinkedFacts
<1>10. /\ DOMAIN d.code = DOMAIN c.code \cup {e}
       /\ \A o \in DOMAIN c.code : End(d.code, o) = End(c.code, o)
       /\ \A o \in DOMAIN c.code : o # x => d.code[o] = c.code[o]
       /\ d.code[x].op = "jz" /\ d.code[x].to = q.dst.size
       /\ d.code[e].op = "jnz" /\ d.code[e].to = start
       /\ End(d.code, e) = q.dst.size /\ End(d.code, x) = start
  <2>1. DOMAIN d.code = DOMAIN c.code \cup {e}
    BY <1>1, <1>7, <1>9 DEF SameShape
  <2>2. \A o \in DOMAIN p : End(d.code, o) = End(p, o) /\ d.code[o].op = p[o].op
    BY <1>9 DEF SameShape
  <2>3. d.code[e] = p[e] /\ d.code[e].op = "jnz" /\ End(d.code, e) = q.dst.size
    BY <1>1, <1>5, <1>7, <1>9, <2>2
  <2>4. ASSUME NEW o \in DOMAIN c.code
        PROVE  /\ End(d.code, o) = End(c.code, o)
               /\ o # x => d.code[o] = c.code[o]
    <3>1. End(d.code, o) = End(c.code, o)
      BY <1>1, <1>7, <2>2
    <3>2. End(q.code, o) # q.dst.size
      BY <1>1, <1>3, <1>5
    <3>3. ASSUME o # x PROVE End(p, o) # start
      BY <1>1, <1>3, <1>4, <1>7, <3>3
    <3> QED
      BY <1>1, <1>6, <1>7, <1>9, <3>1, <3>2, <3>3
  <2>5. d.code[x].op = "jz" /\ d.code[x].to = q.dst.size /\ End(d.code, x) = start
    BY <1>1, <1>4, <1>7, <1>9, <2>2 DEF OpensLoop
  <2> QED
    BY <1>6, <2>1, <2>3, <2>4, <2>5
<1>11. PairedIn(d.code, x) /\ PairedIn(d.code, e)
  BY <1>5, <1>10, <1>3 DEF PairedIn
<1>12. ASSUME NEW o \in DOMAIN c.code, o # x, PairedIn(c.code, o)
       PROVE  PairedIn(d.code, o)
  <2>1. PICK y \in DOMAIN c.code :
          /\ c.code[y].op = IF c.code[o].op = "jz" THEN "jnz" ELSE "jz"
          /\ c.code[y].op = "jnz" <=> o < y
          /\ c.code[o].to = End(c.code, y)
          /\ c.code[y].to = End(c.code, o)
    BY <1>12 DEF PairedIn
  <2>2. y # x
    <3>1. c.code[x].to = 0
      BY <1>4 DEF OpensLoop, NOWHERE
    <3>2. c.code[y].to # 0
      BY <1>3, <2>1
    <3> QED
      BY <3>1, <3>2
  <2>3. y \in DOMAIN d.code /\ d.code[y] = c.code[y] /\ d.code[o] = c.code[o]
        /\ End(d.code, y) = End(c.code, y) /\ End(d.code, o) = End(c.code, o)
    BY <1>10, <1>12, <2>2
  <2> QED
    BY <2>1, <2>3 DEF PairedIn
<1>13. ASSUME NEW o \in DOMAIN d.code, d.code[o].op \in {"jz", "jnz"}
       PROVE  \/ PairedIn(d.code, o)
              \/ /\ OpensLoop(d.code, o)
                 /\ \E k \in DOMAIN d.loop_stack : d.loop_stack[k] = End(d.code, o)
  <2>1. CASE o \in {x, e}
    BY <1>11, <2>1
  <2>2. CASE o \notin {x, e} /\ PairedIn(c.code, o)
    BY <1>10, <1>12, <2>2
  <2>3. CASE o \notin {x, e} /\ ~PairedIn(c.code, o)
    <3>1. o \in DOMAIN c.code /\ d.code[o] = c.code[o] /\ End(d.code, o) = End(c.code, o)
      BY <1>10, <2>3
    <3>2. OpensLoop(c.code, o)
      BY <1>13, <2>3, <3>1 DEF Loops
    <3>3. PICK k \in 1 .. m : c.loop_stack[k] = End(c.code, o)
      BY <1>2, <1>13, <2>3, <3>1 DEF Loops
    <3>4. k # m
      BY <1>2, <1>3, <1>4, <2>3, <3>1, <3>3
    <3>5. k \in 1 .. m - 1
      BY <1>2, <3>4
    <3> QED
      BY <1>2, <3>1, <3>2, <3>3, <3>5 DEF OpensLoop
  <2> QED
    BY <2>1, <2>2, <2>3
<1>14. ASSUME NEW k \in 1 .. m - 1
       PROVE  /\ \E o \in DOMAIN d.code :
                   OpensLoop(d.code, o) /\ d.loop_stack[k] = End(d.code, o)
              /\ \A j \in 1 .. m - 1 : j < k => d.loop_stack[j] < d.loop_stack[k]
  <2>1. k \in 1 .. m /\ m \in 1 .. m /\ k < m /\ \A j \in 1 .. m - 1 : j \in 1 .. m
    BY <1>2
  <2>2. PICK o \in DOMAIN c.code : OpensLoop(c.code, o) /\ c.loop_stack[k] = End(c.code, o)
    BY <1>2, <2>1 DEF Loops
  <2>3. c.loop_stack[k] < start
    BY <1>2, <2>1 DEF Loops
  <2>4. o # x
    BY <1>3, <1>4, <2>2, <2>3
  <2>5. OpensLoop(d.code, o) /\ End(d.code, o) = End(c.code, o) /\ o \in DOMAIN d.code
    BY <1>10, <2>2, <2>4 DEF OpensLoop
  <2>6. \A j \in 1 .. m - 1 : j < k => c.loop_stack[j] < c.loop_stack[k]
    BY <1>2, <2>1 DEF Loops
  <2> QED
    BY <1>2, <2>2, <2>5, <2>6
<1> QED
  BY <1>2, <1>13, <1>14 DEF Loops

LEMMA LoopEndEmits ==
  ASSUME NEW c, Between(c), c.loop_stack # <<>>, NEW r \in LoopEnd(c)
  PROVE  /\ Emitted(r, c.token, Len(c.loop_stack) - 1) /\ r.error \in WriteError \cup Fatal
         /\ Grown(r, c)
<1> DEFINE g == [op |-> "jnz", n |-> 0, to |-> NOWHERE]
           start == Top(c.loop_stack)
           popped(d) == [d EXCEPT !.loop_stack = SubSeq(@, 1, Len(@) - 1),
                                  !.loop_buf = PopSize(@)]
<1>1. g \in Groups /\ g.op \in Opening /\ g.op = "jnz"
      /\ \A h : h.op \in Opening => Follows(g, h)
  BY WidthAssumption
  DEF Groups, Group, IsGroup, GroupOp, GroupSize, NOWHERE, Opening, WidthAssumption, Follows
<1>2. Built(c) /\ FlowsTo(c, g)
  BY <1>1, BetweenBuilt, BetweenFlows
<1>3. /\ c \in Compilers /\ Tiled(c) /\ Headed(c) /\ Loops(c) /\ Calls(c, 0)
      /\ c.loop_stack \in Seq(Nat) /\ c.dst.size \in Nat
  BY <1>2, BuiltFacts, CompilerFacts
<1> DEFINE back == Then(WriteGroup(c, "jnz", 0),
                       LAMBDA d : SetRel(popped(d), d.dst.size, start, INT32_MAX))
<1>4. PICK b \in back :
        \/ b.error = "SUCCESS" /\ r \in SetRel(b.c, start, b.c.dst.size, INT32_MAX)
        \/ b.error # "SUCCESS" /\ r = b
  <2>1. r \in Then(back, LAMBDA d : SetRel(d, start, d.dst.size, INT32_MAX))
    BY DEF LoopEnd
  <2> HIDE DEF back, start
  <2> QED
    BY <2>1 DEF Then
<1>5. PICK q \in WriteGroup(c, "jnz", 0) :
        \/ q.error = "SUCCESS" /\ b \in SetRel(popped(q.c), q.c.dst.size, start, INT32_MAX)
        \/ q.error # "SUCCESS" /\ b = q
  <2> HIDE DEF popped, start
  <2> QED
    BY DEF Then
<1> HIDE DEF back
<1>6. /\ q.c \in Compilers /\ q.error \in WriteError
      /\ OtherFieldsSame(c, q.c)
      /\ q.error = "SUCCESS" =>
           Appended(c, q.c, g) /\ (Honest(c.dst) => Honest(q.c.dst))
  BY <1>1, <1>3, WriteGroupFacts
<1>7. CASE q.error # "SUCCESS"
  BY <1>4, <1>5, <1>6, <1>7 DEF Emitted, Grown, WriteError, Fatal, NbajhError, CompilerErrors
<1>8. CASE q.error = "SUCCESS"
  <2> DEFINE d == popped(q.c)
  <2>1. /\ Appended(c, q.c, g) /\ Tiled(q.c) /\ q.c.dst.size \in Nat
        /\ q.c.dst.size > c.dst.size
    BY <1>1, <1>3, <1>6, <1>8, AppendedFacts
  <2>2. /\ start \in Nat /\ Len(c.loop_stack) \in Nat \ {0}
        /\ SubSeq(c.loop_stack, 1, Len(c.loop_stack) - 1) \in Seq(Nat)
        /\ Len(SubSeq(c.loop_stack, 1, Len(c.loop_stack) - 1)) = Len(c.loop_stack) - 1
    BY <1>3, PopFacts DEF Top
  <2>3. start <= c.dst.size
    <3>1. Len(c.loop_stack) \in DOMAIN c.loop_stack
      BY <1>3, <2>2, LenProperties
    <3>2. PICK x \in DOMAIN c.code : start = End(c.code, x)
      BY <1>3, <3>1 DEF Loops, Top
    <3> QED
      BY <1>3, <3>2, EndFacts
  <2>4. /\ d.token = c.token /\ d.jumps = c.jumps /\ d.jumps_buf = c.jumps_buf
        /\ d.loop_stack = SubSeq(c.loop_stack, 1, Len(c.loop_stack) - 1)
        /\ d.loop_buf = PopSize(c.loop_buf)
        /\ d.dst = q.c.dst /\ d.code = q.c.code
    BY <1>6 DEF OtherFieldsSame, Compilers
  <2>5. PopSize(c.loop_buf) \in BufferRecord /\ StacksHonest(d)
    <3>1. c.loop_buf \in BufferRecord /\ Honest(c.loop_buf)
          /\ c.loop_buf.size = SIZE_T * Len(c.loop_stack) /\ SIZE_T \in Nat \ {0}
      BY <1>2, <1>3, CompilerFacts, WidthAssumption DEF Built, StacksHonest, WidthAssumption
    <3>2. /\ SIZE_T * Len(c.loop_stack) - SIZE_T \in Nat
          /\ SIZE_T * Len(c.loop_stack) - SIZE_T = SIZE_T * (Len(c.loop_stack) - 1)
      <4> DEFINE n == Len(c.loop_stack)
      <4>1. n \in Nat \ {0} /\ SIZE_T \in Nat
        BY <2>2, <3>1
      <4> HIDE DEF n
      <4>2. n - 1 \in Nat /\ SIZE_T * (n - 1) \in Nat
            /\ SIZE_T * n = SIZE_T * (n - 1) + SIZE_T
        BY <4>1
      <4> QED
        BY <4>1, <4>2 DEF n
    <3>3. /\ PopSize(c.loop_buf).size = SIZE_T * (Len(c.loop_stack) - 1)
          /\ PopSize(c.loop_buf) \in BufferRecord /\ Honest(PopSize(c.loop_buf))
      BY <3>1, <3>2 DEF PopSize, BufferRecord, Honest
    <3>4. Len(d.loop_stack) = Len(c.loop_stack) - 1
      BY <2>2, <2>4
    <3>5. Honest(c.jumps_buf) /\ c.jumps_buf.size = JUMP_STRUCT * Len(c.jumps)
      BY <1>2 DEF Built, StacksHonest
    <3> QED
      BY <2>4, <3>3, <3>4, <3>5 DEF StacksHonest
  <2>6. d \in Compilers
    BY <1>6, <2>2, <2>4, <2>5 DEF Compilers
  <2> HIDE DEF d, start
  <2>7. b \in SetRel(d, q.c.dst.size, start, INT32_MAX) /\ INT32_MAX \in Nat
    BY <1>5, <1>8, JitAssumption DEF d, start, JitAssumption
  <2>8. CASE b.error # "SUCCESS"
    <3>1. /\ b = Result(d, "JUMP_TOO_LARGE")
          /\ start - q.c.dst.size \notin -(INT32_MAX + 1) .. INT32_MAX
      BY <2>1, <2>2, <2>6, <2>7, <2>8, SetRelFacts DEF start
    <3>2. q.c.dst.size > INT32_MAX
      BY <1>3, <2>1, <2>2, <2>3, <2>7, <3>1 DEF start
    <3>3. r.c = d /\ r.error = "JUMP_TOO_LARGE"
      BY <1>4, <2>8, <3>1 DEF Result
    <3> QED
      BY <2>4, <2>6, <3>2, <3>3 DEF Emitted, Grown, Fatal, NbajhError
  <2>9. CASE b.error = "SUCCESS"
    <3>1. /\ b.c \in Compilers /\ OtherFieldsSame(d, b.c) /\ b.c.dst = q.c.dst
          /\ b.c.code = Relinked(q.c.code, q.c.dst.size, start)
      BY <2>1, <2>2, <2>4, <2>6, <2>7, <2>9, SetRelFacts DEF start, Result
    <3>2. r \in SetRel(b.c, start, q.c.dst.size, INT32_MAX)
      BY <1>4, <2>9, <3>1 DEF start
    <3>3. CASE r.error # "SUCCESS"
      <4>1. r = Result(b.c, "JUMP_TOO_LARGE")
            /\ q.c.dst.size - start \notin -(INT32_MAX + 1) .. INT32_MAX
        BY <2>1, <2>2, <2>7, <3>1, <3>2, <3>3, SetRelFacts DEF start
      <4>2. q.c.dst.size > INT32_MAX
        BY <1>3, <2>1, <2>2, <2>3, <2>7, <4>1 DEF start
      <4>3. r.c = b.c /\ r.error = "JUMP_TOO_LARGE"
        BY <4>1 DEF Result
      <4> QED
        BY <3>1, <4>2, <4>3 DEF Emitted, Grown, Fatal, NbajhError
    <3>4. CASE r.error = "SUCCESS"
      <4>1. /\ r.c \in Compilers /\ OtherFieldsSame(b.c, r.c) /\ r.c.dst = q.c.dst
            /\ r.c.code = Relinked(b.c.code, start, q.c.dst.size)
        BY <2>1, <2>2, <2>7, <3>1, <3>2, <3>4, SetRelFacts DEF start, Result
      <4>2. /\ r.c.token = c.token /\ r.c.jumps = c.jumps /\ r.c.jumps_buf = c.jumps_buf
            /\ r.c.loop_stack = SubSeq(c.loop_stack, 1, Len(c.loop_stack) - 1)
            /\ r.c.loop_stack = d.loop_stack /\ r.c.loop_buf = d.loop_buf
        BY <2>4, <3>1, <4>1 DEF OtherFieldsSame
      <4>3. Loops(r.c)
        <5>1. r.c.code = Relinked(Relinked(q.c.code, q.c.dst.size, Top(c.loop_stack)),
                                  Top(c.loop_stack), q.c.dst.size)
          BY <3>1, <4>1 DEF start
        <5> HIDE DEF g
        <5> QED
          BY <1>1, <1>3, <2>1, <4>2, <5>1, ClosedLoops
      <4>4. /\ SameShape(q.c.code, b.c.code) /\ SameShape(b.c.code, r.c.code)
        <5>1. q.c.code \in Codes /\ b.c.code \in Codes
          BY <1>6, <3>1, CompilerFacts
        <5> QED
          BY <2>1, <2>2, <3>1, <4>1, <5>1, RelinkedFacts DEF start
      <4>5. Headed(q.c)
        <5> HIDE DEF g
        <5> QED
          BY <1>1, <1>3, <2>1, AppendedFacts DEF Headed
      <4>6. Tiled(r.c) /\ Headed(r.c)
        <5>1. Tiled(b.c) /\ Headed(b.c)
          BY <2>1, <3>1, <4>4, <4>5, ShapeKeeps
        <5> QED
          BY <3>1, <4>1, <4>4, <5>1, ShapeKeeps
      <4>7. ASSUME NEW o \in DOMAIN q.c.code,
                   End(q.c.code, o) \in {start, q.c.dst.size}
            PROVE  q.c.code[o].op \notin DOMAIN StubOf
        <5>1. CASE End(q.c.code, o) = q.c.dst.size
          <6>1. /\ c.dst.size \in DOMAIN q.c.code /\ q.c.code[c.dst.size] = g
                /\ End(q.c.code, c.dst.size) = q.c.dst.size
            BY <1>1, <1>3, <2>1, AppendedFacts
          <6>2. o = c.dst.size
            BY <1>6, <2>1, <5>1, <6>1, EndFacts
          <6> QED
            BY <6>1, <6>2 DEF StubOf
        <5>2. CASE End(q.c.code, o) = start
          <6>1. Len(c.loop_stack) \in DOMAIN c.loop_stack
            BY <1>3, <2>2, LenProperties
          <6>2. PICK x \in DOMAIN c.code : OpensLoop(c.code, x) /\ start = End(c.code, x)
            BY <1>3, <6>1 DEF Loops, Top, start
          <6>3. x \in DOMAIN q.c.code /\ q.c.code[x] = c.code[x]
                /\ End(q.c.code, x) = End(c.code, x)
            BY <1>1, <1>3, <2>1, <6>2, AppendedFacts
          <6>4. o = x
            BY <1>6, <2>1, <5>2, <6>2, <6>3, EndFacts
          <6> QED
            BY <6>2, <6>3, <6>4 DEF OpensLoop, StubOf
        <5> QED
          BY <4>7, <5>1, <5>2
      <4>8. Calls(r.c, 0)
        <5>1. Calls(q.c, 0)
          <6>1. g.op \notin DOMAIN StubOf
            BY DEF StubOf
          <6> HIDE DEF g
          <6> QED
            BY <1>3, <1>1, <2>1, <6>1, AppendedCalls
        <5>3. Calls(b.c, 0)
          <6>1. b.c.jumps = q.c.jumps
            BY <1>6, <2>4, <3>1 DEF OtherFieldsSame
          <6>2. \A o \in DOMAIN q.c.code :
                  End(q.c.code, o) = q.c.dst.size => q.c.code[o].op \notin DOMAIN StubOf
            BY <4>7
          <6>3. start \in Nat
            BY <2>2 DEF start
          <6> QED
            BY <1>6, <3>1, <5>1, <6>1, <6>2, <6>3, RelinkedCalls
        <5>4. \A o \in DOMAIN b.c.code :
                End(b.c.code, o) = start => b.c.code[o].op \notin DOMAIN StubOf
          BY <4>4, <4>7 DEF SameShape
        <5>5. r.c.jumps = b.c.jumps
          BY <4>1 DEF OtherFieldsSame
        <5> QED
          BY <2>1, <3>1, <4>1, <5>3, <5>4, <5>5, RelinkedCalls
      <4>9. StacksHonest(r.c) /\ Honest(r.c.dst)
        <5>1. r.c.jumps = d.jumps /\ r.c.jumps_buf = d.jumps_buf
          BY <2>4, <4>2
        <5> QED
          BY <1>2, <1>6, <1>8, <2>5, <4>1, <4>2, <5>1 DEF Built, StacksHonest
      <4>10. Unlinked(r.c.code)
        <5>1. g.op \notin FooterOps \cup DOMAIN StubOf
          BY DEF FooterOps, Leaves, StubOf
        <5> HIDE DEF g
        <5>2. Unlinked(q.c.code)
          BY <1>1, <1>2, <1>3, <2>1, <5>1, AppendedFacts DEF Built, Unlinked
        <5>3. ASSUME NEW o \in DOMAIN r.c.code, r.c.code[o].op \in DOMAIN StubOf
              PROVE  r.c.code[o].to = NOWHERE
          <6>1. /\ o \in DOMAIN q.c.code /\ q.c.code[o].op = r.c.code[o].op
                /\ o \in DOMAIN b.c.code /\ End(b.c.code, o) = End(q.c.code, o)
            BY <4>4, <5>3 DEF SameShape
          <6>2. End(q.c.code, o) # start /\ End(q.c.code, o) # q.c.dst.size
            BY <4>7, <5>3, <6>1
          <6>3. b.c.code[o] = q.c.code[o]
            BY <1>6, <2>2, <3>1, <6>1, <6>2, RelinkedFacts, CompilerFacts DEF start
          <6>4. r.c.code[o] = b.c.code[o]
            BY <2>1, <3>1, <4>1, <6>1, <6>2, RelinkedFacts, CompilerFacts
          <6> QED
            BY <5>2, <5>3, <6>1, <6>3, <6>4 DEF Unlinked
        <5> QED
          BY <4>4, <5>2, <5>3 DEF SameShape, Unlinked
      <4>11. ASSUME NEW h \in Heads, h.op \in Opening PROVE FlowsTo(r.c, h)
        <5>1. FlowsTo(q.c, h)
          <6>1. Follows(g, h)
            BY <1>1, <4>11
          <6> HIDE DEF g
          <6> QED
            BY <1>1, <1>2, <1>3, <2>1, <6>1, AppendedFlows
        <5>2. FlowsTo(b.c, h)
          BY <1>6, <2>1, <3>1, <4>4, <5>1, ShapeFlows
        <5>3. Tiled(b.c)
          BY <2>1, <3>1, <4>4, ShapeKeeps
        <5> QED
          BY <3>1, <4>1, <4>4, <5>2, <5>3, ShapeFlows
      <4>12. Between(r.c)
        BY <4>1, <4>3, <4>6, <4>8, <4>9, <4>10, <4>11 DEF Between, Body
      <4> QED
        BY <2>1, <2>2, <3>4, <4>1, <4>2, <4>3, <4>12 DEF Emitted, Grown, NbajhError, WriteError
    <3> QED
      BY <3>3, <3>4
  <2> QED
    BY <2>8, <2>9
<1> QED
  BY <1>7, <1>8

-----------------------------------------------------------------------------
(* The steps up to the end of the source. *)

LEMMA HeaderEmits ==
  ASSUME NEW c \in Compilers, Untouched(c), StacksHonest(c),
         NEW r \in WriteGroup(c, "header", 0)
  PROVE  Emitted(r, c.token, 0) /\ r.error \in WriteError /\ Grown(r, c)
<1> DEFINE g == [op |-> "header", n |-> 0, to |-> NOWHERE]
<1>1. g \in Groups /\ g.op = "header" /\ \A h : h.op \in Opening => Follows(g, h)
  BY WidthAssumption
  DEF Groups, Group, IsGroup, GroupOp, GroupSize, NOWHERE, WidthAssumption, Follows
<1>2. /\ DOMAIN c.code = {} /\ c.dst.size = 0 /\ Honest(c.dst)
      /\ c.jumps = <<>> /\ c.loop_stack = <<>>
  BY DEF Untouched
<1>3. Len(c.jumps) = 0 /\ Len(c.loop_stack) = 0 /\ DOMAIN c.loop_stack = {}
  BY <1>2
<1>4. Tiled(c)
  BY <1>2 DEF Tiled, Tiles, Lengths
<1>5. Loops(c) /\ Calls(c, 0) /\ FlowsTo(c, g)
  <2>1. 0 + 1 .. 0 = {}
    OBVIOUS
  <2> QED
    BY <1>2, <1>3, <2>1 DEF Loops, Calls, FlowsTo
<1>6. /\ r.c \in Compilers /\ r.error \in WriteError
      /\ OtherFieldsSame(c, r.c)
      /\ r.error = "SUCCESS" =>
           Appended(c, r.c, g) /\ (Honest(c.dst) => Honest(r.c.dst))
  BY <1>1, <1>4, WriteGroupFacts
<1>7. CASE r.error # "SUCCESS"
  BY <1>6, <1>7 DEF Emitted, Grown, WriteError, Fatal, NbajhError, CompilerErrors
<1>8. CASE r.error = "SUCCESS"
  <2> HIDE DEF g
  <2>1. /\ DOMAIN r.c.code = {0} /\ r.c.code[0] = g /\ Tiled(r.c)
        /\ r.c.dst.size > c.dst.size
    BY <1>1, <1>2, <1>4, <1>6, <1>8, AppendedFacts
  <2>2. Headed(r.c)
    BY <1>1, <2>1 DEF Headed
  <2>3. Loops(r.c) /\ Calls(r.c, 0)
    <3>1. g.op \notin {"jz", "jnz"} \cup DOMAIN StubOf
      BY <1>1 DEF StubOf
    <3> QED
      BY <1>1, <1>4, <1>5, <1>6, <1>8, <3>1, AppendedLoops, AppendedCalls
  <2>4. ASSUME NEW h \in Heads, h.op \in Opening PROVE FlowsTo(r.c, h)
    BY <1>1, <1>4, <1>5, <1>6, <1>8, <2>4, AppendedFlows
  <2>5. Unlinked(r.c.code)
    BY <1>1, <2>1 DEF FooterOps, Leaves, Unlinked, StubOf
  <2>6. StacksHonest(r.c) /\ Honest(r.c.dst)
    BY <1>2, <1>6, <1>8 DEF StacksHonest, OtherFieldsSame
  <2>7. Between(r.c)
    BY <1>6, <2>1, <2>2, <2>3, <2>4, <2>5, <2>6 DEF Between, Body
  <2>8. r.c.token = c.token /\ Len(r.c.loop_stack) = 0
    BY <1>3, <1>6 DEF OtherFieldsSame
  <2> QED
    BY <1>6, <1>8, <2>1, <2>3, <2>7, <2>8 DEF Emitted, Grown, WriteError, NbajhError
<1> QED
  BY <1>7, <1>8

(* The compiler's part of the type invariant. *)
LEMMA CompilerTypes ==
  ASSUME NEW c \in Compilers
  PROVE  /\ c.token \in Nat
         /\ c.jumps \in Seq([from : Nat, to : Stub])
         /\ c.loop_stack \in Seq(Nat)
         /\ {c.jumps_buf, c.loop_buf, c.dst} \subseteq BufferRecord
         /\ DOMAIN c.code \subseteq Nat
         /\ \A o \in DOMAIN c.code : IsGroup(c.code[o])
         /\ Len(c.jumps) \in Nat
<1>1. /\ c.token \in Nat /\ c.jumps \in Seq(Jump) /\ c.loop_stack \in Seq(Nat)
      /\ c.jumps_buf \in BufferRecord /\ c.loop_buf \in BufferRecord
      /\ c.dst \in BufferRecord /\ c.code \in Codes
  BY CompilerFacts
<1>2. DOMAIN c.code \subseteq Nat /\ \A o \in DOMAIN c.code : IsGroup(c.code[o])
  BY <1>1, CodeFacts
<1>3. Len(c.jumps) \in Nat
  BY <1>1, LenProperties
<1> QED
  BY <1>1, <1>2, <1>3 DEF Jump

LEMMA NextTypes ==
  ASSUME compiler' \in Compilers, source' \in Sources, exit_offset' \in Nat,
         jump_target_offsets' \in [Stub -> Nat], linked' \in 0 .. Len(compiler'.jumps),
         last_token' \in Nat,
         outcome' \in NbajhError \cup {"READY", "HEADER", "RUNNING", "LINKING", "UNDEFINED"}
  PROVE  TypeOK'
BY CompilerTypes DEF TypeOK, code

(* After nbajh_jit_x86_64_compiler_fini. *)
Closed(c) == [c EXCEPT !.jumps_buf = Freed, !.loop_buf = Freed]

LEMMA ClosedFacts ==
  ASSUME NEW c \in Compilers
  PROVE  /\ Closed(c) \in Compilers
         /\ Closed(c).token = c.token /\ Closed(c).dst = c.dst
         /\ Closed(c).code = c.code /\ Closed(c).jumps = c.jumps
         /\ Closed(c).loop_stack = c.loop_stack
         /\ Closed(c).jumps_buf = Freed /\ Closed(c).loop_buf = Freed
<1>1. Freed \in BufferRecord
  BY DEF Freed, BufferRecord
<1> QED
  BY <1>1 DEF Closed, Compilers

(* What a failing return leaves behind is as it should be. *)
LEMMA FailureSound ==
  ASSUME NEW c \in Compilers, compiler' = Closed(c),
         outcome' \in NbajhError \cup {"UNDEFINED"}, outcome' # "SUCCESS",
         outcome' \notin Fatal => Loops(c)
  PROVE  Ended' /\ LoopsPaired' /\ SuccessIsComplete' /\ CompleteUpToExit' /\ BuffersSound'
<1>1. /\ compiler'.code = c.code /\ compiler'.jumps_buf = Freed /\ compiler'.loop_buf = Freed
  BY ClosedFacts
<1>2. Ended' /\ outcome' \notin {"RUNNING", "LINKING"}
  BY DEF Ended, NbajhError, CompilerErrors, RunErrors
<1>3. BuffersSound' /\ SuccessIsComplete' /\ CompleteUpToExit'
  BY <1>1, <1>2 DEF BuffersSound, SuccessIsComplete, CompleteUpToExit
<1>4. ASSUME outcome' \notin Fatal, NEW o \in DOMAIN code' \ Open({"jz"})',
             code'[o].op \in {"jz", "jnz"}
      PROVE  PairedIn(code', o)
  <2>1. Loops(c) /\ code' = c.code
    BY <1>1, <1>4 DEF code
  <2>2. ~OpensLoop(code', o)
    BY <1>4 DEF OpensLoop, Open
  <2> QED
    BY <1>4, <2>1, <2>2 DEF Loops
<1>5. LoopsPaired'
  BY <1>4 DEF LoopsPaired, Fatal, PairedIn
<1> QED
  BY <1>2, <1>3, <1>5

LEMMA ReturnsJInv ==
  ASSUME JInv, outcome \in {"HEADER", "RUNNING"}, NEW r, NEW p, NEW depth,
         Emitted(r, p, depth), Returns(r, "RUNNING"), UNCHANGED footer_vars
  PROVE  JInv'
<1>1. /\ TypeOK /\ linked = 0 /\ jump_target_offsets = [s \in Stub |-> 0]
      /\ r.c \in Compilers /\ r.c.token \in Nat
  BY CompilerFacts DEF JInv, Emitted
<1>2. /\ source' = source /\ exit_offset' = exit_offset /\ linked' = 0
      /\ jump_target_offsets' = jump_target_offsets
  BY <1>1 DEF Returns, footer_vars
<1>3. CASE r.error = "SUCCESS"
  <2>1. compiler' = r.c /\ outcome' = "RUNNING" /\ last_token' = last_token /\ Between(r.c)
    BY <1>3 DEF Returns, Emitted
  <2>2. compiler' \in Compilers
    BY <1>1, <2>1
  <2>3. TypeOK'
    <3>1. linked' \in 0 .. Len(compiler'.jumps)
      BY <1>2, <2>2, CompilerTypes
    <3> QED
      BY <1>1, <1>2, <2>1, <2>2, <3>1, NextTypes DEF TypeOK
  <2> QED
    BY <1>1, <1>2, <2>1, <2>2, <2>3 DEF JInv, Ended
<1>4. CASE r.error # "SUCCESS"
  <2>1. compiler' = Closed(r.c) /\ outcome' = r.error /\ last_token' = r.c.token
    BY <1>4 DEF Returns, Closed
  <2>2. compiler' \in Compilers
    BY <1>1, <2>1, ClosedFacts
  <2>3. /\ outcome' \in NbajhError \cup {"UNDEFINED"} /\ outcome' # "SUCCESS"
        /\ outcome' \notin Fatal => Loops(r.c)
    BY <1>4, <2>1 DEF Emitted
  <2>4. Ended' /\ LoopsPaired' /\ SuccessIsComplete' /\ CompleteUpToExit' /\ BuffersSound'
    BY <1>1, <2>1, <2>3, FailureSound
  <2>5. TypeOK'
    <3>1. linked' \in 0 .. Len(compiler'.jumps)
      BY <1>2, <2>2, CompilerTypes
    <3> QED
      BY <1>1, <1>2, <2>1, <2>2, <2>3, <3>1, NextTypes DEF TypeOK
  <2> QED
    BY <2>2, <2>4, <2>5 DEF JInv, Ended
<1> QED
  BY <1>3, <1>4

LEMMA InitJInv == Init => JInv
<1> SUFFICES ASSUME Init PROVE JInv
  OBVIOUS
<1>1. /\ DOMAIN compiler.code = {} /\ compiler.jumps = <<>> /\ compiler.loop_stack = <<>>
      /\ compiler.dst = FreshJit /\ compiler.loop_buf = Freed
  BY DEF Init
<1>2. Freed \in BufferRecord /\ FreshJit \in BufferRecord /\ Honest(FreshJit)
      /\ FreshJit.size = 0
  BY JitAssumption DEF JitAssumption, Freed, FreshJit, BufferRecord, Honest
<1>3. compiler \in Compilers
  <2> DEFINE none == [o \in {} |-> 0]
  <2>1. none \in Codes
    <3>1. none \in [{} -> Groups]
      OBVIOUS
    <3> HIDE DEF none
    <3> QED
      BY <3>1, CodeIntro
  <2>2. compiler = [token |-> 0, jumps |-> <<>>, jumps_buf |-> Freed,
                    loop_stack |-> <<>>, loop_buf |-> Freed,
                    dst |-> FreshJit, code |-> none]
    BY DEF Init
  <2> HIDE DEF none
  <2> QED
    BY <1>2, <2>1, <2>2 DEF Compilers
<1>4. Untouched(compiler)
  BY <1>1, <1>2 DEF Untouched
<1>5. TypeOK
  <2>1. 0 \in 0 .. Len(compiler.jumps)
    BY <1>1
  <2> QED
    BY <1>3, <2>1, CompilerTypes DEF Init, TypeOK, code
<1> QED
  BY <1>1, <1>3, <1>4, <1>5 DEF Init, JInv, Ended

LEMMA CompilerInitJInv == JInv /\ CompilerInit => JInv'
<1> SUFFICES ASSUME JInv, CompilerInit PROVE JInv'
  OBVIOUS
<1>1. /\ TypeOK /\ compiler \in Compilers /\ Untouched(compiler)
      /\ compiler.loop_buf = Freed /\ linked = 0
      /\ jump_target_offsets = [s \in Stub |-> 0]
  BY DEF JInv, CompilerInit
<1>2. /\ source' = source /\ exit_offset' = exit_offset /\ linked' = 0
      /\ jump_target_offsets' = jump_target_offsets
  BY <1>1 DEF CompilerInit, footer_vars
<1>3. Freed \in BufferRecord /\ FreshBuffer \in BufferRecord /\ Honest(FreshBuffer)
      /\ FreshBuffer.size = 0
  BY BufferAssumption DEF BufferAssumption, Freed, FreshBuffer, BufferRecord, Honest
<1>4. CASE /\ compiler' = [compiler EXCEPT !.token = 1, !.jumps_buf = FreshBuffer,
                                           !.loop_buf = FreshBuffer]
           /\ outcome' = "HEADER" /\ UNCHANGED last_token
  <2>1. compiler' \in Compilers
    BY <1>1, <1>3, <1>4 DEF Compilers
  <2>2. /\ compiler'.jumps = compiler.jumps /\ compiler'.loop_stack = compiler.loop_stack
        /\ compiler'.dst = compiler.dst /\ compiler'.code = compiler.code
        /\ compiler'.jumps_buf = FreshBuffer /\ compiler'.loop_buf = FreshBuffer
    BY <1>1, <1>4 DEF Compilers
  <2>3. Untouched(compiler')
    BY <1>1, <2>2 DEF Untouched
  <2>4. StacksHonest(compiler')
    <3>1. Len(compiler'.jumps) = 0 /\ Len(compiler'.loop_stack) = 0
      BY <2>3 DEF Untouched
    <3>2. JUMP_STRUCT * 0 = 0 /\ SIZE_T * 0 = 0
      BY WidthAssumption DEF WidthAssumption, JUMP_STRUCT
    <3> QED
      BY <1>3, <2>2, <3>1, <3>2 DEF StacksHonest
  <2>5. TypeOK'
    <3>1. linked' \in 0 .. Len(compiler'.jumps)
      BY <1>2, <2>1, CompilerTypes
    <3> QED
      BY <1>1, <1>2, <1>4, <2>1, <3>1, NextTypes DEF TypeOK
  <2> QED
    BY <1>1, <1>2, <1>4, <2>1, <2>3, <2>4, <2>5 DEF JInv, Ended
<1>5. ASSUME NEW b \in {Freed, FreshBuffer},
             compiler' = [compiler EXCEPT !.token = 1, !.jumps_buf = b],
             outcome' = "MALLOC", last_token' = 1
      PROVE  JInv'
  <2>1. compiler' \in Compilers
    BY <1>1, <1>3, <1>5 DEF Compilers
  <2>2. compiler'.dst = compiler.dst /\ compiler'.loop_buf = Freed
    BY <1>1, <1>5 DEF Compilers
  <2>3. compiler'.dst.size = 0
    BY <1>1, <2>2 DEF Untouched
  <2>4. BuffersSound'
    BY <1>5, <2>2, <2>3 DEF BuffersSound
  <2>5. LoopsPaired' /\ SuccessIsComplete' /\ CompleteUpToExit'
    BY <1>5 DEF LoopsPaired, SuccessIsComplete, CompleteUpToExit
  <2>6. TypeOK'
    <3>1. linked' \in 0 .. Len(compiler'.jumps)
      BY <1>2, <2>1, CompilerTypes
    <3> QED
      BY <1>1, <1>2, <1>5, <2>1, <3>1, NextTypes DEF TypeOK, NbajhError, CompilerErrors
  <2> QED
    BY <1>5, <2>1, <2>4, <2>5, <2>6 DEF JInv
<1> QED
  BY <1>4, <1>5 DEF CompilerInit

(* A fault of the source is reported with what there is. *)
LEMMA FaultEmits ==
  ASSUME NEW c, NEW d \in Compilers, Between(c), d.code = c.code,
         d.loop_stack = c.loop_stack,
         NEW e \in NbajhError, e \notin Fatal \cup {"SUCCESS"}, NEW p, NEW depth
  PROVE  Emitted(Result(d, e), p, depth)
<1>1. Loops(d)
  BY DEF Between, Body, Loops
<1> QED
  BY <1>1 DEF Emitted, Result, Fatal

LEMMA TokenInSource ==
  ASSUME TypeOK, TokenAt(source, compiler.token) # "EOF"
  PROVE  /\ IsSource(source) /\ compiler.token \in 1 .. Len(source)
         /\ source[compiler.token] = TokenAt(source, compiler.token)
<1>1. IsSource(source)
  BY JitAssumption DEF TypeOK, JitAssumption, IsSource
<1> QED
  BY <1>1, SourceFacts

(***************************************************************************)
(* Every result of an emit is as Emitted says, with the tokens it took and *)
(* the loops then open, and what fails for a fault of the source is named. *)
(***************************************************************************)
LEMMA EmitMoves ==
  ASSUME TypeOK, Between(compiler), EmitAdditiveP
  PROVE  \E r :
           /\ Returns(r, "RUNNING") /\ UNCHANGED footer_vars
           /\ Emitted(r, compiler.token + RunLength(compiler), Len(compiler.loop_stack))
           /\ IsSource(source) /\ compiler.token \in 1 .. Len(source)
           /\ TokenAt(source, compiler.token) \in Moves
           /\ \/ RunLength(compiler) <= UINT16_MAX /\ r.error \in WriteError
              \/ /\ RunLength(compiler) > UINT16_MAX
                 /\ r.error = "DP_OUT_OF_BOUNDS"
                 /\ r.c.token = compiler.token + UINT16_MAX
           /\ Grown(r, compiler)
<1>1. PICK r \in AdditiveP(compiler) :
        Returns(r, "RUNNING") /\ TokenAt(source, compiler.token) \in Moves
          /\ UNCHANGED footer_vars
  BY DEF EmitAdditiveP, Emit
<1>2. IsSource(source) /\ compiler.token \in 1 .. Len(source)
      /\ source[compiler.token] \in Moves
  <2>1. TokenAt(source, compiler.token) # "EOF"
    BY <1>1 DEF Moves
  <2> QED
    BY <1>1, <2>1, TokenInSource
<1>3. CASE /\ RunLength(compiler) > UINT16_MAX
           /\ r = Result(Advanced(compiler, UINT16_MAX), "DP_OUT_OF_BOUNDS")
  <2> DEFINE d == Advanced(compiler, UINT16_MAX)
  <2>1. d \in Compilers /\ d.code = compiler.code /\ d.loop_stack = compiler.loop_stack
        /\ d.token = compiler.token + UINT16_MAX
    BY AdvancedFacts, WidthAssumption DEF WidthAssumption, Between, Body
  <2>2. r = Result(d, "DP_OUT_OF_BOUNDS")
    BY <1>3
  <2> HIDE DEF d
  <2>3. r.c = d /\ r.error = "DP_OUT_OF_BOUNDS"
    BY <2>2 DEF Result
  <2>4. Emitted(r, compiler.token + RunLength(compiler), Len(compiler.loop_stack))
    BY <2>1, <2>2, FaultEmits DEF Fatal, NbajhError, CompilerErrors
  <2> QED
    BY <1>1, <1>2, <1>3, <2>1, <2>3, <2>4 DEF Grown
<1>4. CASE ~(/\ RunLength(compiler) > UINT16_MAX
             /\ r = Result(Advanced(compiler, UINT16_MAX), "DP_OUT_OF_BOUNDS"))
  BY <1>1, <1>2, <1>4, AdditivePEmits
<1> QED
  BY <1>3, <1>4

LEMMA EmitAdds ==
  ASSUME TypeOK, Between(compiler), EmitAdditiveV
  PROVE  \E r :
           /\ Returns(r, "RUNNING") /\ UNCHANGED footer_vars
           /\ Emitted(r, compiler.token + RunLength(compiler), Len(compiler.loop_stack))
           /\ IsSource(source) /\ compiler.token \in 1 .. Len(source)
           /\ TokenAt(source, compiler.token) \in Adds
           /\ r.error \in WriteError
           /\ Grown(r, compiler) \/ r.c.dst = compiler.dst
<1>1. PICK r \in AdditiveV(compiler) :
        Returns(r, "RUNNING") /\ TokenAt(source, compiler.token) \in Adds
          /\ UNCHANGED footer_vars
  BY DEF EmitAdditiveV, Emit
<1>2. IsSource(source) /\ compiler.token \in 1 .. Len(source)
      /\ source[compiler.token] \in Adds
  <2>1. TokenAt(source, compiler.token) # "EOF"
    BY <1>1 DEF Adds
  <2> QED
    BY <1>1, <2>1, TokenInSource
<1> QED
  BY <1>1, <1>2, AdditiveVEmits

LEMMA EmitEffects ==
  ASSUME Between(compiler), EmitWrite \/ EmitRead \/ EmitDebug
  PROVE  \E r :
           /\ Returns(r, "RUNNING") /\ UNCHANGED footer_vars
           /\ Emitted(r, compiler.token + 1, Len(compiler.loop_stack))
           /\ TokenAt(source, compiler.token) \in Effects
           /\ r.error \in WriteError
           /\ Grown(r, compiler)
<1>1. compiler.token \in Nat
  BY CompilerFacts DEF Between, Body
<1>2. PICK results \in {WriteChar(compiler), ReadChar(compiler), Debug(compiler)} :
        \E r \in NextToken(results) :
          /\ Returns(r, "RUNNING") /\ UNCHANGED footer_vars
          /\ TokenAt(source, compiler.token) \in Effects
  BY DEF EmitWrite, EmitRead, EmitDebug, Emit, Effects
<1>3. ASSUME NEW q \in results
      PROVE  /\ Emitted(q, compiler.token, Len(compiler.loop_stack))
             /\ q.error \in WriteError /\ Grown(q, compiler)
  BY <1>2, <1>3, WriteCharEmits, ReadCharEmits, DebugEmits
<1>4. PICK r \in NextToken(results) :
        /\ Returns(r, "RUNNING") /\ UNCHANGED footer_vars
        /\ TokenAt(source, compiler.token) \in Effects
  BY <1>2
<1>5. /\ Emitted(r, compiler.token + 1, Len(compiler.loop_stack))
      /\ r.error = "SUCCESS" \/ r \in results
      /\ Grown(r, compiler)
  BY <1>1, <1>3, NextTokenEmits
<1>6. r.error \in WriteError
  BY <1>3, <1>5 DEF WriteError
<1> QED
  BY <1>4, <1>5, <1>6

LEMMA EmitLoopStart ==
  ASSUME Between(compiler), BeginLoop
  PROVE  \E r :
           /\ Returns(r, "RUNNING") /\ UNCHANGED footer_vars
           /\ Emitted(r, compiler.token + 1, Len(compiler.loop_stack) + 1)
           /\ TokenAt(source, compiler.token) = "a"
           /\ r.error \in WriteError /\ Grown(r, compiler)
<1>1. compiler.token \in Nat
  BY CompilerFacts DEF Between, Body
<1>2. PICK r \in NextToken(LoopStart(compiler)) :
        /\ Returns(r, "RUNNING") /\ UNCHANGED footer_vars
        /\ TokenAt(source, compiler.token) = "a"
  BY DEF BeginLoop, Emit
<1>3. ASSUME NEW q \in LoopStart(compiler)
      PROVE  /\ Emitted(q, compiler.token, Len(compiler.loop_stack) + 1)
             /\ q.error \in WriteError /\ Grown(q, compiler)
  BY <1>3, LoopStartEmits
<1>4. /\ Emitted(r, compiler.token + 1, Len(compiler.loop_stack) + 1)
      /\ r.error = "SUCCESS" \/ r \in LoopStart(compiler)
      /\ Grown(r, compiler)
  BY <1>1, <1>2, <1>3, NextTokenEmits
<1>5. r.error \in WriteError
  BY <1>3, <1>4 DEF WriteError
<1> QED
  BY <1>2, <1>4, <1>5

LEMMA EmitLoopEnd ==
  ASSUME Between(compiler), EndLoop
  PROVE  \E r :
           /\ Returns(r, "RUNNING") /\ UNCHANGED footer_vars
           /\ TokenAt(source, compiler.token) = "jet2"
           /\ Emitted(r, compiler.token + 1, Len(compiler.loop_stack) - 1)
           /\ \/ compiler.loop_stack # <<>> /\ r.error \in WriteError \cup Fatal
              \/ /\ compiler.loop_stack = <<>>
                 /\ r.error = "UNEXPECTED_LOOP_END" /\ r.c.token = compiler.token
           /\ Grown(r, compiler)
<1>1. compiler.token \in Nat /\ compiler \in Compilers
  BY CompilerFacts DEF Between, Body
<1>2. CASE /\ compiler.loop_stack # <<>>
           /\ Emit({"jet2"}, NextToken(LoopEnd(compiler)))
  <2>1. PICK r \in NextToken(LoopEnd(compiler)) :
          /\ Returns(r, "RUNNING") /\ UNCHANGED footer_vars
          /\ TokenAt(source, compiler.token) = "jet2"
    BY <1>2 DEF Emit
  <2>2. ASSUME NEW q \in LoopEnd(compiler)
        PROVE  /\ Emitted(q, compiler.token, Len(compiler.loop_stack) - 1)
               /\ q.error \in WriteError \cup Fatal /\ Grown(q, compiler)
    BY <1>2, <2>2, LoopEndEmits
  <2>3. /\ Emitted(r, compiler.token + 1, Len(compiler.loop_stack) - 1)
        /\ r.error = "SUCCESS" \/ r \in LoopEnd(compiler)
        /\ Grown(r, compiler)
    <3> DEFINE depth   == Len(compiler.loop_stack) - 1
               results == LoopEnd(compiler)
    <3>1. \A q \in results : Emitted(q, compiler.token, depth) /\ Grown(q, compiler)
      BY <2>2
    <3>2. r \in NextToken(results)
      BY <2>1
    <3> HIDE DEF depth, results
    <3>3. /\ Emitted(r, compiler.token + 1, depth) /\ (r.error = "SUCCESS" \/ r \in results)
          /\ Grown(r, compiler)
      BY <1>1, <3>1, <3>2, NextTokenEmits
    <3> QED
      BY <3>3 DEF depth, results
  <2>4. r.error \in WriteError \cup Fatal
    BY <2>2, <2>3 DEF WriteError
  <2> QED
    BY <1>2, <2>1, <2>3, <2>4
<1>3. CASE /\ compiler.loop_stack = <<>>
           /\ Emit({"jet2"}, {Result(compiler, "UNEXPECTED_LOOP_END")})
  <2> DEFINE r == Result(compiler, "UNEXPECTED_LOOP_END")
  <2>1. Returns(r, "RUNNING") /\ UNCHANGED footer_vars
        /\ TokenAt(source, compiler.token) = "jet2"
    BY <1>3 DEF Emit
  <2>2. Emitted(r, compiler.token + 1, Len(compiler.loop_stack) - 1)
    BY <1>1, FaultEmits DEF Fatal, NbajhError, CompilerErrors
  <2>3. r.error = "UNEXPECTED_LOOP_END" /\ r.c.token = compiler.token
    BY DEF Result
  <2> QED
    BY <1>3, <2>1, <2>2, <2>3 DEF Grown
<1> QED
  BY <1>2, <1>3 DEF EndLoop

LEMMA EmitInvalid ==
  ASSUME Between(compiler), InvalidToken
  PROVE  \E r :
           /\ Returns(r, "RUNNING") /\ UNCHANGED footer_vars
           /\ TokenAt(source, compiler.token) = "INVALID"
           /\ Emitted(r, compiler.token, Len(compiler.loop_stack))
           /\ r.error = "INVALID_TOKEN" /\ r.c.token = compiler.token
<1> DEFINE r == Result(compiler, "INVALID_TOKEN")
<1>1. Returns(r, "RUNNING") /\ UNCHANGED footer_vars
      /\ TokenAt(source, compiler.token) = "INVALID"
  BY DEF InvalidToken, Emit
<1>2. Emitted(r, compiler.token, Len(compiler.loop_stack))
  BY FaultEmits DEF Between, Body, Fatal, NbajhError, CompilerErrors
<1>3. r.error = "INVALID_TOKEN" /\ r.c.token = compiler.token
  BY DEF Result
<1> QED
  BY <1>1, <1>2, <1>3

LEMMA EmitHead ==
  ASSUME JInv, EmitHeader
  PROVE  \E r : /\ Returns(r, "RUNNING") /\ UNCHANGED footer_vars
                /\ Emitted(r, compiler.token, 0) /\ r.error \in WriteError
                /\ Grown(r, compiler)
BY HeaderEmits DEF EmitHeader, JInv

EmitToken == \/ EmitAdditiveP \/ EmitAdditiveV \/ EmitWrite \/ EmitRead \/ EmitDebug
             \/ BeginLoop \/ EndLoop \/ InvalidToken

LEMMA EmitJInv == JInv /\ (EmitHeader \/ EmitToken) => JInv'
<1> SUFFICES ASSUME JInv, EmitHeader \/ EmitToken PROVE JInv'
  OBVIOUS
<1>1. TypeOK /\ (outcome = "RUNNING" => Between(compiler))
  BY DEF JInv
<1>2. outcome = IF EmitHeader THEN "HEADER" ELSE "RUNNING"
  BY DEF EmitHeader, EmitToken, EmitAdditiveP, EmitAdditiveV, EmitWrite, EmitRead, EmitDebug,
         BeginLoop, EndLoop, InvalidToken, Emit
<1>3. \E r, p, depth : /\ Emitted(r, p, depth) /\ Returns(r, "RUNNING")
                       /\ UNCHANGED footer_vars
  <2>1. CASE EmitHeader
    BY <2>1, EmitHead
  <2>2. CASE ~EmitHeader
    BY <1>1, <1>2, <2>2, EmitMoves, EmitAdds, EmitEffects, EmitLoopStart, EmitLoopEnd,
       EmitInvalid
    DEF EmitToken
  <2> QED
    BY <2>1, <2>2
<1> QED
  BY <1>2, <1>3, ReturnsJInv

-----------------------------------------------------------------------------
(* The groups of the footer. *)

LEMMA LeftFacts ==
  ASSUME NEW offsets \in [Stub -> Nat], NEW stub \in Stub, offsets[stub] = 0,
         NEW x \in Nat \ {0}
  PROVE  LET after == [offsets EXCEPT ![stub] = x]
         IN  /\ after \in [Stub -> Nat]
             /\ Left(offsets) \in Nat /\ Left(after) \in Nat
             /\ Left(offsets) = Left(after) + StubSize[stub]
             /\ Left(offsets) <= 69
<1> DEFINE after == [offsets EXCEPT ![stub] = x]
<1>1. /\ after \in [Stub -> Nat]
      /\ \A s \in Stub : after[s] = IF s = stub THEN x ELSE offsets[s]
  OBVIOUS
<1> HIDE DEF after
<1>2. stub \in {"oob", "io", "ferror", "handler"} /\ Stub = {"oob", "io", "ferror", "handler"}
  BY DEF Stub
<1>3. /\ Left(offsets) \in Nat /\ Left(after) \in Nat
      /\ Left(offsets) = Left(after) + StubSize[stub]
      /\ Left(offsets) <= 69
  BY <1>1, <1>2 DEF Left, StubSize
<1> QED
  BY <1>1, <1>3 DEF after

(* A group written while the footer is linked: it is there as soon as the  *)
(* buffer takes it, or else the growth that failed leaves a capacity the   *)
(* rest of the footer fits into twice.                                     *)
Written(c, d, g) ==
  /\ Appended(c, d, g) /\ OtherFieldsSame(c, d)
  /\ IF Lost(c) THEN Lost(d) /\ d.dst.cap = c.dst.cap ELSE Honest(d.dst)

GrowthLost(c, d) ==
  /\ d \in Compilers /\ OtherFieldsSame(c, d)
  /\ d.code = c.code /\ d.dst.size = c.dst.size
  /\ ~Lost(c) /\ Lost(d) /\ d.dst.cap >= c.dst.size + c.dst.size

HasRoom(c, n) == IF Lost(c) THEN c.dst.size + n <= c.dst.cap ELSE c.dst.size <= c.dst.cap

LEMMA FooterGroup ==
  ASSUME NEW c \in Compilers, Tiled(c), NEW op \in FooterOps \cup {"eof"},
         HasRoom(c, GroupSize[op]), NEW r \in WriteGroup(c, op, 0)
  PROVE  LET g == [op |-> op, n |-> 0, to |-> NOWHERE]
         IN  /\ g \in Groups
             /\ r.c \in Compilers /\ OtherFieldsSame(c, r.c)
             /\ \/ r.error = "UNDEFINED"
                \/ r.error = "SUCCESS" /\ Written(c, r.c, g)
                \/ r.error = "MALLOC" /\ GrowthLost(c, r.c)
<1> DEFINE g == [op |-> op, n |-> 0, to |-> NOWHERE]
<1>1. g \in Groups
  BY WidthAssumption
  DEF FooterOps, Leaves, Groups, Group, IsGroup, GroupOp, GroupSize, NOWHERE, WidthAssumption
<1>2. /\ r.c \in Compilers /\ r.error \in WriteError
      /\ OtherFieldsSame(c, r.c)
      /\ r.error = "SUCCESS" =>
           Appended(c, r.c, g) /\ (Honest(c.dst) => Honest(r.c.dst))
      /\ r.error = "MALLOC" => r.c.code = c.code /\ r.c.dst.size = c.dst.size
  BY <1>1, WriteGroupFacts
<1>3. GroupSize[op] \in Nat \ {0} /\ c.dst \in BufferRecord
      /\ c.dst.size \in Nat /\ c.dst.cap \in Nat /\ c.dst.alloc \in Nat
      /\ c.dst.cap # 0
  BY <1>1, SizeFacts, CompilerFacts DEF Groups, Group, BufferRecord
<1>4. PICK w \in Write(c.dst, GroupSize[op]) : r.error = ErrorOf(w) /\ r.c.dst = w.buf
  <2> DEFINE p(w) == IF w.error = "SUCCESS" THEN Wrote(c.code, c.dst.size, g) ELSE c.code
  <2>1. PICK w \in Write(c.dst, GroupSize[op]) :
          r = Result([c EXCEPT !.dst = w.buf, !.code = p(w)], ErrorOf(w))
    BY DEF WriteGroup, Wrote
  <2> HIDE DEF p
  <2> QED
    BY <2>1 DEF Result, Compilers
<1>5. w.error \in {"SUCCESS", "MALLOC"}
  BY <1>3, WriteFacts
<1>6. /\ r.error = "SUCCESS" => w.error = "SUCCESS"
      /\ r.error = "MALLOC" => w.error = "MALLOC"
  BY <1>4, <1>5, ErrorFacts
<1>7. /\ c.dst.size + GroupSize[op] <= c.dst.cap =>
           w.error = "SUCCESS" /\ w.buf.cap = c.dst.cap /\ w.buf.alloc = c.dst.alloc
      /\ w.error = "MALLOC" =>
           w.buf.alloc = c.dst.alloc /\ w.buf.cap >= c.dst.cap + c.dst.cap
  BY <1>3, WriteRoom
<1>8. w.buf.cap \in Nat
  BY <1>3, WriteFacts DEF BufferRecord
<1> HIDE DEF g
<1>9. CASE r.error = "SUCCESS"
  <2>1. IF Lost(c) THEN Lost(r.c) /\ r.c.dst.cap = c.dst.cap ELSE Honest(r.c.dst)
    <3>1. CASE Lost(c)
      BY <1>4, <1>7, <3>1 DEF HasRoom, Lost
    <3>2. CASE ~Lost(c)
      BY <1>2, <1>9, <3>2 DEF HasRoom, Lost, Honest
    <3> QED
      BY <3>1, <3>2
  <2> QED
    BY <1>1, <1>2, <1>9, <2>1 DEF Written, g
<1>10. CASE r.error = "MALLOC"
  <2>1. ~(c.dst.size + GroupSize[op] <= c.dst.cap)
    BY <1>6, <1>7, <1>10
  <2>2. ~Lost(c) /\ c.dst.size <= c.dst.cap /\ c.dst.cap = c.dst.alloc
    BY <2>1 DEF HasRoom, Lost
  <2>3. r.c.dst.alloc = c.dst.alloc /\ r.c.dst.cap >= c.dst.cap + c.dst.cap
        /\ r.c.dst.cap \in Nat
    BY <1>4, <1>6, <1>7, <1>8, <1>10
  <2>4. Lost(r.c) /\ r.c.dst.cap >= c.dst.size + c.dst.size
    BY <1>3, <2>2, <2>3 DEF Lost
  <2> QED
    BY <1>1, <1>2, <1>10, <2>2, <2>4 DEF GrowthLost, g
<1> QED
  BY <1>1, <1>2, <1>9, <1>10 DEF g, WriteError

(* With its jump to the exit, which is in reach. *)
LEMMA ExitGroup ==
  ASSUME NEW c \in Compilers, Tiled(c), NEW op \in {"oob", "io", "ferror", "eof"},
         exit_offset \in Nat, exit_offset <= c.dst.size,
         c.dst.size + GroupSize[op] <= exit_offset + 79,
         HasRoom(c, GroupSize[op]), NEW r \in Then(WriteGroup(c, op, 0), ToExit)
  PROVE  LET g == [op |-> op, n |-> 0, to |-> exit_offset]
         IN  /\ g \in Groups
             /\ r.c \in Compilers /\ OtherFieldsSame(c, r.c)
             /\ \/ r.error = "UNDEFINED"
                \/ r.error = "SUCCESS" /\ Written(c, r.c, g)
                \/ r.error = "MALLOC" /\ GrowthLost(c, r.c)
<1> DEFINE g == [op |-> op, n |-> 0, to |-> exit_offset]
           f == [op |-> op, n |-> 0, to |-> NOWHERE]
<1>1. PICK q \in WriteGroup(c, op, 0) :
        \/ q.error = "SUCCESS" /\ r \in ToExit(q.c)
        \/ q.error # "SUCCESS" /\ r = q
  BY DEF Then
<1>2. op \in FooterOps \cup {"eof"}
  BY DEF FooterOps, Leaves
<1>3. /\ f \in Groups /\ q.c \in Compilers /\ OtherFieldsSame(c, q.c)
      /\ \/ q.error = "UNDEFINED"
         \/ q.error = "SUCCESS" /\ Written(c, q.c, f)
         \/ q.error = "MALLOC" /\ GrowthLost(c, q.c)
  BY <1>2, FooterGroup
<1>4. g \in Groups
  BY <1>3 DEF Groups, Group, IsGroup
<1>5. CASE q.error # "SUCCESS"
  BY <1>1, <1>3, <1>4, <1>5
<1>6. CASE q.error = "SUCCESS"
  <2> HIDE DEF f
  <2>1. Written(c, q.c, f) /\ Appended(c, q.c, f)
    BY <1>3, <1>6 DEF Written
  <2>2. /\ DOMAIN q.c.code = DOMAIN c.code \cup {c.dst.size} /\ c.dst.size \notin DOMAIN c.code
        /\ q.c.code[c.dst.size] = f /\ End(q.c.code, c.dst.size) = q.c.dst.size
        /\ q.c.dst.size \in Nat /\ c.dst.size < q.c.dst.size
        /\ \A o \in DOMAIN c.code :
             q.c.code[o] = c.code[o] /\ End(q.c.code, o) = End(c.code, o)
    BY <1>3, <2>1, AppendedFacts
  <2>3. q.c.dst.size = c.dst.size + GroupSize[op]
    BY <2>1 DEF Appended, f
  <2>4. c.dst.size \in Nat /\ INT8_MAX \in Nat /\ INT8_MAX >= 78
    BY CompilerFacts, JitAssumption DEF JitAssumption
  <2>5. exit_offset - q.c.dst.size \in -(INT8_MAX + 1) .. INT8_MAX
    BY <2>2, <2>3, <2>4
  <2>6. r \in SetRel(q.c, q.c.dst.size, exit_offset, INT8_MAX)
    BY <1>1, <1>6 DEF ToExit
  <2>7. /\ r.error = "SUCCESS" /\ r.c \in Compilers
        /\ OtherFieldsSame(q.c, r.c) /\ r.c.dst = q.c.dst
        /\ r.c.code = Relinked(q.c.code, q.c.dst.size, exit_offset)
    BY <1>3, <2>2, <2>4, <2>5, <2>6, SetRelFacts
  <2>8. r.c.code = Wrote(c.code, c.dst.size, g)
    <3>1. \A o \in DOMAIN c.code : End(q.c.code, o) # q.c.dst.size
      BY <2>2, <2>4, EndFacts
    <3>2. [f EXCEPT !.to = exit_offset] = g
      BY DEF f
    <3> HIDE DEF g
    <3> QED
      BY <2>2, <2>7, <3>1, <3>2 DEF Relinked, Wrote
  <2>9. Appended(c, r.c, g)
    BY <2>1, <2>3, <2>7, <2>8 DEF Appended, OtherFieldsSame
  <2>10. Written(c, r.c, g)
    BY <2>1, <2>7, <2>9 DEF Written, OtherFieldsSame, Lost
  <2> QED
    BY <1>4, <2>7, <2>10 DEF Written
<1> QED
  BY <1>5, <1>6

(* What such a group leaves as it was. *)
LEMMA PieceKeeps ==
  ASSUME NEW c, NEW k, Body(c, k), NEW exit \in DOMAIN c.code, c.code[exit].op = "exit",
         NEW g \in Groups, g.op \in {"oob", "io", "ferror", "eof", "handler"},
         g.op # "handler" => g.to = exit, NEW d, Appended(c, d, g), NEW offsets
  PROVE  /\ d \in Compilers /\ Body(d, k)
         /\ exit \in DOMAIN d.code /\ d.code[exit].op = "exit"
         /\ c.dst.size \in DOMAIN d.code /\ d.code[c.dst.size] = g
         /\ \A o \in DOMAIN c.code : d.code[o] = c.code[o] /\ o \in DOMAIN d.code
         /\ Linked(c.code, offsets) => Linked(d.code, offsets)
         /\ Stubs(c, exit, offsets) => Stubs(d, exit, offsets)
         /\ Spine(c.code, exit) => Spine(d.code, exit)
<1>1. g.op \notin {"jz", "jnz", "header"} \cup DOMAIN StubOf
  BY DEF StubOf
<1>2. c \in Compilers /\ Tiled(c) /\ Body(d, k) /\ d \in Compilers
  BY <1>1, AppendedBody DEF Body
<1>3. /\ DOMAIN d.code = DOMAIN c.code \cup {c.dst.size} /\ d.code[c.dst.size] = g
      /\ \A o \in DOMAIN c.code : d.code[o] = c.code[o]
  BY <1>2, AppendedFacts
<1>4. Linked(c.code, offsets) => Linked(d.code, offsets)
  BY <1>1, <1>3 DEF Linked
<1>5. Stubs(c, exit, offsets) => Stubs(d, exit, offsets)
  BY <1>3 DEF Stubs
<1>6. Spine(c.code, exit) => Spine(d.code, exit)
  <2>1. /\ exit \in Nat /\ c.dst.size \in Nat /\ exit < c.dst.size
        /\ c.dst.size \notin DOMAIN c.code
    BY <1>2, EndFacts
  <2>2. \A o \in DOMAIN c.code : d.code[o] = c.code[o] /\ End(d.code, o) = End(c.code, o)
    BY <1>2, AppendedFacts
  <2>3. g.op \in StubGroups /\ g.op # "exit"
        /\ (g.op \in {"oob", "io", "ferror", "eof"} => g.to = exit)
    BY DEF StubGroups
  <2>4. ASSUME Spine(c.code, exit), NEW o \in DOMAIN d.code
        PROVE  /\ o < exit => End(d.code, o) \in DOMAIN d.code
                               /\ Follows(d.code[o], d.code[End(d.code, o)])
               /\ d.code[o].op \in StubGroups <=> o > exit
               /\ d.code[o].op = "exit" <=> o = exit
               /\ d.code[o].op \in {"oob", "io", "ferror", "eof"} => d.code[o].to = exit
    <3>1. CASE o = c.dst.size
      BY <1>3, <2>1, <2>3, <3>1
    <3>2. CASE o \in DOMAIN c.code
      <4>1. /\ o < exit => End(c.code, o) \in DOMAIN c.code
                            /\ Follows(c.code[o], c.code[End(c.code, o)])
            /\ c.code[o].op \in StubGroups <=> o > exit
            /\ c.code[o].op = "exit" <=> o = exit
            /\ c.code[o].op \in {"oob", "io", "ferror", "eof"} => c.code[o].to = exit
        BY <2>4, <3>2 DEF Spine
      <4> QED
        BY <1>3, <2>2, <3>2, <4>1
    <3> QED
      BY <1>3, <3>1, <3>2
  <2> QED
    BY <2>4 DEF Spine
<1> QED
  BY <1>2, <1>3, <1>4, <1>5, <1>6

LEMMA PieceFlows ==
  ASSUME NEW c \in Compilers, Tiled(c), \A h \in Heads : FlowsTo(c, h),
         NEW g \in Groups, NEW d, Appended(c, d, g), NEW h, g.op \in Leaves \/ Follows(g, h)
  PROVE  FlowsTo(d, h)
<1> DEFINE x == [op |-> g.op, n |-> g.n]
<1>1. x \in Heads /\ x.op = g.op /\ x.n = g.n
  BY DEF Heads, Groups, Group
<1> HIDE DEF x
<1>2. FlowsTo(c, g)
  BY <1>1, FlowsByHead
<1> QED
  BY <1>2, AppendedFlows

(* The program is longer than any part of the footer that may be missing   *)
(* when a stub for the group at o is to be written.                        *)
LEMMA CallerSize ==
  ASSUME NEW c, NEW k, Body(c, k), NEW exit \in DOMAIN c.code, c.code[exit].op = "exit",
         NEW o \in DOMAIN c.code, c.code[o].op \in DOMAIN StubOf
  PROVE  /\ exit \in Nat /\ exit <= c.dst.size /\ 0 < c.dst.size /\ c.dst.size \in Nat
         /\ c.dst.size >= 55
         /\ c.code[o].op # "debug" => c.dst.size >= 68
<1>1. c \in Compilers /\ Tiled(c) /\ 0 \in DOMAIN c.code /\ c.code[0].op = "header"
  BY DEF Body, Headed
<1>2. o # exit /\ o # 0 /\ exit # 0
  BY <1>1 DEF StubOf
<1>3. End(c.code, 0) = 40 /\ End(c.code, exit) = exit + 10
      /\ End(c.code, o) = o + GroupSize[c.code[o].op]
  BY <1>1 DEF End, GroupSize
<1>4. /\ GroupSize[c.code[o].op] >= 5 /\ GroupSize[c.code[o].op] \in Nat
      /\ c.code[o].op # "debug" => GroupSize[c.code[o].op] >= 18
  BY DEF StubOf, GroupSize
<1>5. c.dst.size \in Nat /\ o \in Nat /\ exit \in Nat
  BY <1>1, EndFacts
<1>6. 40 <= o /\ 40 <= exit
  BY <1>1, <1>2, <1>3, <1>5, EndFacts
<1>7. End(c.code, o) <= c.dst.size /\ End(c.code, exit) <= c.dst.size
      /\ (o < exit => End(c.code, o) <= exit)
      /\ (exit < o => End(c.code, exit) <= o)
  BY <1>1, EndFacts
<1> QED
  BY <1>2, <1>3, <1>4, <1>5, <1>6, <1>7

(* The footer with one more stub, or without it if it got lost. *)
LEMMA FooterGrown ==
  ASSUME NEW c, NEW exit, NEW offsets \in [Stub -> Nat], NEW stub \in Stub,
         Footer(c, exit, offsets), offsets[stub] = 0,
         c.dst.size \in Nat \ {0}, exit \in Nat,
         NEW d, d.dst.size \in Nat, c.dst.size <= d.dst.size,
         d.dst.size <= c.dst.size + StubSize[stub],
         exit \in DOMAIN d.code, d.code[exit].op = "exit", Linked(d.code, offsets),
         Spine(d.code, exit), exit < c.dst.size,
         LET after == [offsets EXCEPT ![stub] = c.dst.size]
         IN  Lost(d) => d.dst.size + Left(after) <= d.dst.cap,
         ~Lost(d) => /\ Honest(d.dst) /\ Stubs(d, exit, offsets)
                     /\ c.dst.size \in DOMAIN d.code /\ d.code[c.dst.size].op = stub
                     /\ \A h \in Heads : FlowsTo(d, h)
  PROVE  Footer(d, exit, [offsets EXCEPT ![stub] = c.dst.size])
<1> DEFINE after == [offsets EXCEPT ![stub] = c.dst.size]
<1>1. /\ Left(offsets) \in Nat /\ Left(after) \in Nat
      /\ Left(offsets) = Left(after) + StubSize[stub]
  BY LeftFacts
<1>2. StubSize[stub] \in Nat
  BY DEF StubSize, Stub
<1>3. \A s \in Stub : after[s] = IF s = stub THEN c.dst.size ELSE offsets[s]
  OBVIOUS
<1>4. \A s \in Stub : after[s] <= d.dst.size /\ (after[s] # 0 => exit < after[s])
  <2>1. \A s \in Stub :
          /\ offsets[s] \in Nat /\ offsets[s] <= c.dst.size
          /\ offsets[s] # 0 => exit < offsets[s]
    BY DEF Footer
  <2>2. ASSUME NEW s \in Stub
        PROVE  after[s] <= d.dst.size /\ (after[s] # 0 => exit < after[s])
    <3> HIDE DEF after
    <3>1. CASE s = stub
      BY <1>3, <3>1
    <3>2. CASE s # stub
      <4>1. after[s] = offsets[s]
        BY <1>3, <3>2
      <4>2. /\ offsets[s] \in Nat /\ offsets[s] <= c.dst.size
            /\ offsets[s] # 0 => exit < offsets[s]
        BY <2>1
      <4>3. offsets[s] <= d.dst.size
        BY <4>2
      <4> QED
        BY <4>1, <4>2, <4>3
    <3> QED
      BY <3>1, <3>2
  <2> QED
    BY <2>2
<1>5. c.dst.size + Left(offsets) <= exit + 79
  BY DEF Footer
<1>6. Lost(d) => d.dst.size + Left(after) <= d.dst.cap
  OBVIOUS
<1> HIDE DEF after
<1>7. d.dst.size + Left(after) <= exit + 79
  BY <1>1, <1>2, <1>5
<1>8. Linked(d.code, after)
  <2>1. ASSUME NEW o \in DOMAIN d.code, d.code[o].op \in DOMAIN StubOf
        PROVE  d.code[o].to \in {NOWHERE, after[StubOf[d.code[o].op]]}
    <3>1. d.code[o].to \in {NOWHERE, offsets[StubOf[d.code[o].op]]}
          /\ StubOf[d.code[o].op] \in Stub
      BY <2>1 DEF Linked, StubOf, Stub
    <3> QED
      BY <1>3, <3>1 DEF NOWHERE
  <2> QED
    BY <2>1 DEF Linked
<1>9. ~Lost(d) => d.dst.size <= d.dst.cap /\ Stubs(d, exit, after)
                  /\ \A h \in Heads : FlowsTo(d, h)
  BY <1>3 DEF Stubs, Honest
<1> QED
  BY <1>4, <1>6, <1>7, <1>8, <1>9 DEF Footer, after

(***************************************************************************)
(* The stub for the next jump of the table is written, or it is lost and   *)
(* with it the trust in the buffer's capacity.                             *)
(***************************************************************************)
Stubbed(c, k, offsets, stub, s) ==
  /\ s.c \in Compilers /\ OtherFieldsSame(c, s.c)
  /\ s.error # "UNDEFINED" =>
       /\ Body(s.c, k)
       /\ c.dst.size <= s.c.dst.size
       /\ Footer(s.c, exit_offset, [offsets EXCEPT ![stub] = c.dst.size])

(* What is known when a stub is to be written for the group at o. *)
Calling(c, k, offsets, stub, o) ==
  /\ Body(c, k) /\ Footer(c, exit_offset, offsets)
  /\ offsets \in [Stub -> Nat] /\ stub \in Stub /\ offsets[stub] = 0
  /\ o \in DOMAIN c.code /\ CallsStub(c.code, o) /\ StubOf[c.code[o].op] = stub

(* And what follows from it. *)
Due(c, offsets, stub) ==
  LET after == [offsets EXCEPT ![stub] = c.dst.size]
  IN  /\ c \in Compilers /\ Tiled(c)
      /\ exit_offset \in DOMAIN c.code /\ c.code[exit_offset].op = "exit"
      /\ exit_offset \in Nat /\ exit_offset < c.dst.size /\ exit_offset <= c.dst.size
      /\ Spine(c.code, exit_offset)
      /\ c.dst.size \in Nat \ {0} /\ c.dst.cap \in Nat
      /\ StubSize[stub] \in Nat
      /\ Left(after) \in Nat /\ Left(offsets) = Left(after) + StubSize[stub]
      /\ Left(after) <= c.dst.size
      /\ c.dst.size + StubSize[stub] <= exit_offset + 79
      /\ HasRoom(c, StubSize[stub])
      /\ Linked(c.code, offsets)
      /\ ~Lost(c) => Stubs(c, exit_offset, offsets) /\ \A h \in Heads : FlowsTo(c, h)

LEMMA CallingFacts ==
  ASSUME NEW c, NEW k, NEW offsets, NEW stub, NEW o, Calling(c, k, offsets, stub, o)
  PROVE  Due(c, offsets, stub)
<1> DEFINE after == [offsets EXCEPT ![stub] = c.dst.size]
<1>1. /\ c \in Compilers /\ Tiled(c) /\ stub \in Stub
      /\ exit_offset \in DOMAIN c.code /\ c.code[exit_offset].op = "exit"
      /\ c.dst.size + Left(offsets) <= exit_offset + 79
      /\ c.code[o].op \in DOMAIN StubOf /\ StubOf[c.code[o].op] = stub
  BY DEF Calling, Body, Footer, CallsStub
<1>2. /\ exit_offset \in Nat /\ exit_offset <= c.dst.size
      /\ c.dst.size \in Nat \ {0} /\ c.dst.size >= 55
      /\ c.code[o].op # "debug" => c.dst.size >= 68
  BY <1>1, CallerSize DEF Calling
<1>3. /\ Left(offsets) \in Nat /\ Left(after) \in Nat /\ Left(offsets) <= 69
      /\ Left(offsets) = Left(after) + StubSize[stub]
  BY <1>2, LeftFacts DEF Calling
<1> HIDE DEF after
<1>4. c.dst \in BufferRecord
  BY <1>1, CompilerFacts
<1>5. StubSize[stub] \in Nat
      /\ (c.code[o].op # "debug" => StubSize[stub] >= 7)
      /\ (c.code[o].op = "debug" => StubSize[stub] = 19)
  BY <1>1 DEF StubSize, Stub, StubOf
<1>6. Left(after) <= c.dst.size
  BY <1>2, <1>3, <1>5
<1>7. c.dst.size + StubSize[stub] <= exit_offset + 79
  BY <1>1, <1>2, <1>3, <1>5
<1>8. c.dst.cap \in Nat
  BY <1>4 DEF BufferRecord
<1>9. HasRoom(c, StubSize[stub])
  <2>1. IF Lost(c) THEN c.dst.size + Left(offsets) <= c.dst.cap ELSE c.dst.size <= c.dst.cap
    BY DEF Calling, Footer
  <2> QED
    BY <1>2, <1>3, <1>5, <1>8, <2>1 DEF HasRoom
<1>10. /\ Linked(c.code, offsets) /\ Spine(c.code, exit_offset)
       /\ ~Lost(c) => Stubs(c, exit_offset, offsets) /\ \A h \in Heads : FlowsTo(c, h)
  BY DEF Calling, Footer
<1>11. exit_offset < c.dst.size
  BY <1>1, EndFacts
<1> QED
  BY <1>1, <1>2, <1>3, <1>5, <1>6, <1>7, <1>8, <1>9, <1>10, <1>11 DEF Due, after

(* A growth that failed before anything of the stub was there. *)
LEMMA StubLost ==
  ASSUME NEW c, NEW k, NEW offsets, NEW stub, NEW o, Calling(c, k, offsets, stub, o),
         NEW s, GrowthLost(c, s.c)
  PROVE  Stubbed(c, k, offsets, stub, s)
<1> DEFINE after == [offsets EXCEPT ![stub] = c.dst.size]
           d == s.c
<1>1. /\ c \in Compilers /\ Tiled(c)
      /\ exit_offset \in DOMAIN c.code /\ c.code[exit_offset].op = "exit"
      /\ exit_offset \in Nat /\ c.dst.size \in Nat \ {0}
      /\ StubSize[stub] \in Nat /\ Left(after) \in Nat
      /\ Left(after) <= c.dst.size
      /\ Linked(c.code, offsets)
      /\ Spine(c.code, exit_offset) /\ exit_offset < c.dst.size
  BY CallingFacts DEF Due
<1>2. /\ d \in Compilers /\ OtherFieldsSame(c, d)
      /\ d.code = c.code /\ d.dst.size = c.dst.size
      /\ Lost(d) /\ d.dst.cap >= c.dst.size + c.dst.size
  BY DEF GrowthLost
<1>3. d.dst.cap \in Nat
  BY <1>2, CompilerFacts DEF BufferRecord
<1>4. /\ offsets \in [Stub -> Nat] /\ stub \in Stub
      /\ Footer(c, exit_offset, offsets) /\ offsets[stub] = 0 /\ Body(c, k)
  BY DEF Calling
<1> HIDE DEF d
<1>5. d.dst.size + Left(after) <= d.dst.cap
  BY <1>1, <1>2, <1>3
<1>6. Body(d, k)
  BY <1>2, <1>4 DEF Body, Tiled, Headed, Loops, Calls, OtherFieldsSame
<1>7. /\ d.dst.size \in Nat /\ c.dst.size <= d.dst.size
      /\ d.dst.size <= c.dst.size + StubSize[stub]
      /\ exit_offset \in DOMAIN d.code /\ d.code[exit_offset].op = "exit"
      /\ Linked(d.code, offsets) /\ Spine(d.code, exit_offset)
  BY <1>1, <1>2
<1>8. Footer(d, exit_offset, after)
  BY <1>1, <1>2, <1>4, <1>5, <1>7, FooterGrown
<1> QED
  BY <1>2, <1>6, <1>7, <1>8 DEF Stubbed, d

(* A stub of one group. *)
LEMMA StubOfOne ==
  ASSUME NEW c, NEW k, NEW offsets, NEW stub, NEW o, Calling(c, k, offsets, stub, o),
         NEW g \in Groups, g.op = stub, stub \in {"oob", "io", "handler"},
         g.op # "handler" => g.to = exit_offset,
         NEW s, s.c \in Compilers, Written(c, s.c, g)
  PROVE  Stubbed(c, k, offsets, stub, s)
<1>0. Due(c, offsets, stub)
  BY CallingFacts
<1> DEFINE after == [offsets EXCEPT ![stub] = c.dst.size]
           d == s.c
<1>1. /\ c \in Compilers /\ Tiled(c)
      /\ exit_offset \in DOMAIN c.code /\ c.code[exit_offset].op = "exit"
      /\ exit_offset \in Nat /\ c.dst.size \in Nat \ {0} /\ c.dst.cap \in Nat
      /\ StubSize[stub] \in Nat /\ Left(after) \in Nat
      /\ Left(offsets) = Left(after) + StubSize[stub]
      /\ Linked(c.code, offsets)
      /\ Spine(c.code, exit_offset) /\ exit_offset < c.dst.size
      /\ ~Lost(c) => Stubs(c, exit_offset, offsets) /\ \A h \in Heads : FlowsTo(c, h)
  BY <1>0 DEF Due
<1>2. /\ Appended(c, d, g) /\ OtherFieldsSame(c, d) /\ d \in Compilers
      /\ IF Lost(c) THEN Lost(d) /\ d.dst.cap = c.dst.cap ELSE Honest(d.dst)
  BY DEF Written
<1>3. /\ offsets \in [Stub -> Nat] /\ stub \in Stub
      /\ Footer(c, exit_offset, offsets) /\ offsets[stub] = 0 /\ Body(c, k)
  BY DEF Calling
<1>4. d.dst.size = c.dst.size + StubSize[stub]
  BY <1>2 DEF Appended, GroupSize, StubSize
<1> HIDE DEF d, after
<1>4a. /\ g.op \in {"oob", "io", "ferror", "eof", "handler"}
       /\ exit_offset \in DOMAIN c.code /\ c.code[exit_offset].op = "exit"
  BY <1>1
<1>5. /\ Body(d, k)
      /\ exit_offset \in DOMAIN d.code /\ d.code[exit_offset].op = "exit"
      /\ c.dst.size \in DOMAIN d.code /\ d.code[c.dst.size] = g
      /\ Linked(d.code, offsets) /\ Spine(d.code, exit_offset)
      /\ Stubs(c, exit_offset, offsets) => Stubs(d, exit_offset, offsets)
  <2>1. g.op # "handler" => g.to = exit_offset
    OBVIOUS
  <2>2. PICK e \in DOMAIN c.code : e = exit_offset /\ c.code[e].op = "exit"
                                /\ (g.op # "handler" => g.to = e)
    BY <1>4a, <2>1
  <2>3. Appended(c, d, g) /\ Body(c, k)
    BY <1>2, <1>3
  <2>4. /\ Body(d, k) /\ e \in DOMAIN d.code /\ d.code[e].op = "exit"
        /\ c.dst.size \in DOMAIN d.code /\ d.code[c.dst.size] = g
        /\ Linked(c.code, offsets) => Linked(d.code, offsets)
        /\ Stubs(c, e, offsets) => Stubs(d, e, offsets)
        /\ Spine(c.code, e) => Spine(d.code, e)
    BY <1>4a, <2>2, <2>3, PieceKeeps
  <2> QED
    BY <1>1, <2>2, <2>4
<1>6. Lost(d) => d.dst.size + Left(after) <= d.dst.cap
  <2>1. SUFFICES ASSUME Lost(d) PROVE d.dst.size + Left(after) <= d.dst.cap
    OBVIOUS
  <2>2. Lost(c) /\ d.dst.cap = c.dst.cap
    BY <1>2, <2>1 DEF Lost, Honest
  <2>3. c.dst.size + Left(offsets) <= c.dst.cap
    BY <1>3, <2>2 DEF Footer
  <2> QED
    BY <1>1, <1>4, <2>2, <2>3
<1>7. ASSUME ~Lost(d)
      PROVE  Honest(d.dst) /\ Stubs(d, exit_offset, offsets) /\ \A h \in Heads : FlowsTo(d, h)
  <2>1. ~Lost(c) /\ Honest(d.dst)
    BY <1>2, <1>7
  <2>2. g.op \in Leaves
    BY DEF Leaves
  <2>3. \A h \in Heads : FlowsTo(d, h)
    BY <1>1, <1>2, <2>1, <2>2, PieceFlows
  <2> QED
    BY <1>1, <1>5, <2>1, <2>3
<1>8. /\ d.dst.size \in Nat /\ c.dst.size <= d.dst.size
      /\ d.dst.size <= c.dst.size + StubSize[stub]
  BY <1>1, <1>4
<1>9. Footer(d, exit_offset, after)
  BY <1>1, <1>3, <1>5, <1>6, <1>7, <1>8, FooterGrown DEF after
<1> QED
  BY <1>2, <1>5, <1>8, <1>9 DEF Stubbed, d, after

(* The stub of two groups, and how far it got. *)
LEMMA StubOfTwo ==
  ASSUME NEW c, NEW k, NEW offsets, NEW o, Calling(c, k, offsets, "ferror", o),
         NEW g \in Groups, g.op = "ferror", g.to = exit_offset,
         NEW e \in Groups, e.op = "eof", e.to = exit_offset,
         NEW d \in Compilers, Written(c, d, g),
         NEW s, s.c \in Compilers, Written(d, s.c, e) \/ GrowthLost(d, s.c)
  PROVE  Stubbed(c, k, offsets, "ferror", s)
<1> DEFINE after == [offsets EXCEPT !["ferror"] = c.dst.size]
           f == s.c
<1>0. Due(c, offsets, "ferror")
  BY CallingFacts
<1>1. /\ c \in Compilers /\ Tiled(c)
      /\ exit_offset \in DOMAIN c.code /\ c.code[exit_offset].op = "exit"
      /\ exit_offset \in Nat /\ c.dst.size \in Nat \ {0} /\ c.dst.cap \in Nat
      /\ StubSize["ferror"] \in Nat /\ Left(after) \in Nat /\ Left(after) <= c.dst.size
      /\ Left(offsets) = Left(after) + StubSize["ferror"]
      /\ Linked(c.code, offsets)
      /\ Spine(c.code, exit_offset) /\ exit_offset < c.dst.size
      /\ ~Lost(c) => Stubs(c, exit_offset, offsets) /\ \A h \in Heads : FlowsTo(c, h)
  BY <1>0 DEF Due
<1>2. /\ Appended(c, d, g) /\ OtherFieldsSame(c, d)
      /\ IF Lost(c) THEN Lost(d) /\ d.dst.cap = c.dst.cap ELSE Honest(d.dst)
  BY DEF Written
<1>3. /\ offsets \in [Stub -> Nat] /\ "ferror" \in Stub
      /\ Footer(c, exit_offset, offsets) /\ offsets["ferror"] = 0 /\ Body(c, k)
  BY DEF Calling
<1>4. d.dst.size = c.dst.size + 29 /\ StubSize["ferror"] = 36
  BY <1>2 DEF Appended, GroupSize, StubSize
<1> HIDE DEF f, after
<1>5. /\ Body(d, k) /\ Tiled(d)
      /\ exit_offset \in DOMAIN d.code /\ d.code[exit_offset].op = "exit"
      /\ c.dst.size \in DOMAIN d.code /\ d.code[c.dst.size] = g
      /\ Linked(d.code, offsets) /\ Spine(d.code, exit_offset)
      /\ Stubs(c, exit_offset, offsets) => Stubs(d, exit_offset, offsets)
  <2>1. /\ g.op \in {"oob", "io", "ferror", "eof", "handler"}
        /\ g.op # "handler" => g.to = exit_offset
    OBVIOUS
  <2>2. PICK x \in DOMAIN c.code : x = exit_offset /\ c.code[x].op = "exit"
                                /\ (g.op # "handler" => g.to = x)
    BY <1>1, <2>1
  <2>3. Appended(c, d, g) /\ Body(c, k)
    BY <1>2, <1>3
  <2>4. /\ Body(d, k) /\ x \in DOMAIN d.code /\ d.code[x].op = "exit"
        /\ c.dst.size \in DOMAIN d.code /\ d.code[c.dst.size] = g
        /\ Linked(c.code, offsets) => Linked(d.code, offsets)
        /\ Stubs(c, x, offsets) => Stubs(d, x, offsets)
        /\ Spine(c.code, x) => Spine(d.code, x)
    BY <2>1, <2>2, <2>3, PieceKeeps
  <2>5. Tiled(d)
    BY <2>4 DEF Body
  <2> QED
    BY <1>1, <2>2, <2>4, <2>5
<1>6. CASE Written(d, f, e)
  <2>1. /\ Appended(d, f, e) /\ OtherFieldsSame(d, f) /\ f \in Compilers
        /\ IF Lost(d) THEN Lost(f) /\ f.dst.cap = d.dst.cap ELSE Honest(f.dst)
    BY <1>6 DEF Written, f
  <2>2. f.dst.size = d.dst.size + 7
    BY <2>1 DEF Appended, GroupSize
  <2>3. /\ Body(f, k)
        /\ exit_offset \in DOMAIN f.code /\ f.code[exit_offset].op = "exit"
        /\ c.dst.size \in DOMAIN f.code /\ f.code[c.dst.size] = g
        /\ Linked(f.code, offsets) /\ Spine(f.code, exit_offset)
        /\ Stubs(c, exit_offset, offsets) => Stubs(f, exit_offset, offsets)
    <3>1. PICK y \in DOMAIN d.code :
            /\ y = exit_offset /\ d.code[y].op = "exit"
            /\ e.op \in {"oob", "io", "ferror", "eof", "handler"}
            /\ e.op # "handler" => e.to = y
      BY <1>5
    <3>a. /\ Body(f, k)
          /\ y \in DOMAIN f.code /\ f.code[y].op = "exit"
          /\ \A x \in DOMAIN d.code : f.code[x] = d.code[x] /\ x \in DOMAIN f.code
          /\ Linked(d.code, offsets) => Linked(f.code, offsets)
          /\ Stubs(d, y, offsets) => Stubs(f, y, offsets)
          /\ Spine(d.code, y) => Spine(f.code, y)
      BY <1>5, <2>1, <3>1, PieceKeeps
    <3>2. /\ Body(f, k)
          /\ exit_offset \in DOMAIN f.code /\ f.code[exit_offset].op = "exit"
          /\ \A x \in DOMAIN d.code : f.code[x] = d.code[x] /\ x \in DOMAIN f.code
          /\ Linked(d.code, offsets) => Linked(f.code, offsets)
          /\ Stubs(d, exit_offset, offsets) => Stubs(f, exit_offset, offsets)
          /\ Spine(d.code, exit_offset) => Spine(f.code, exit_offset)
      BY <3>1, <3>a
    <3> QED
      BY <1>5, <3>2
  <2>4. Lost(f) => f.dst.size + Left(after) <= f.dst.cap
    <3>1. SUFFICES ASSUME Lost(f) PROVE f.dst.size + Left(after) <= f.dst.cap
      OBVIOUS
    <3>2. Lost(d)
      BY <2>1, <3>1 DEF Lost, Honest
    <3>3. Lost(c) /\ f.dst.cap = c.dst.cap
      BY <1>2, <2>1, <3>2 DEF Lost, Honest
    <3>4. c.dst.size + Left(offsets) <= c.dst.cap
      BY <1>3, <3>3 DEF Footer
    <3> QED
      BY <1>1, <1>4, <2>2, <3>3, <3>4
  <2>5. ASSUME ~Lost(f)
        PROVE  Honest(f.dst) /\ Stubs(f, exit_offset, offsets) /\ \A h \in Heads : FlowsTo(f, h)
    <3>1. ~Lost(d) /\ Honest(f.dst)
      BY <2>1, <2>5
    <3>2. ~Lost(c)
      BY <1>2, <3>1
    <3>3. FlowsTo(d, e)
      <4>1. g.op \in Leaves \/ Follows(g, e)
        BY DEF Leaves, Follows
      <4> QED
        BY <1>1, <1>2, <3>2, <4>1, PieceFlows
    <3>4. \A h \in Heads : FlowsTo(f, h)
      <4>1. e.op \in Leaves
        BY DEF Leaves
      <4> QED
        BY <1>5, <2>1, <3>3, <4>1, AppendedFlows
    <3> QED
      BY <1>1, <2>3, <3>1, <3>2, <3>4
  <2>6. /\ f.dst.size \in Nat /\ c.dst.size <= f.dst.size
        /\ f.dst.size <= c.dst.size + StubSize["ferror"]
    BY <1>1, <1>4, <2>2
  <2>7. Footer(f, exit_offset, after)
    BY <1>1, <1>3, <2>3, <2>4, <2>5, <2>6, FooterGrown DEF after
  <2>8. OtherFieldsSame(c, f)
    BY <1>2, <2>1 DEF OtherFieldsSame
  <2> QED
    BY <2>1, <2>3, <2>6, <2>7, <2>8 DEF Stubbed, f, after
<1>7. CASE GrowthLost(d, f)
  <2>1. /\ f \in Compilers /\ OtherFieldsSame(d, f)
        /\ f.code = d.code /\ f.dst.size = d.dst.size
        /\ Lost(f) /\ f.dst.cap >= d.dst.size + d.dst.size
    BY <1>7 DEF GrowthLost
  <2>2. f.dst.cap \in Nat
    BY <2>1, CompilerFacts DEF BufferRecord
  <2>3. f.dst.size + Left(after) <= f.dst.cap
    BY <1>1, <1>4, <2>1, <2>2
  <2>4. Body(f, k)
    BY <1>5, <2>1 DEF Body, Tiled, Headed, Loops, Calls, OtherFieldsSame
  <2>5. /\ f.dst.size \in Nat /\ c.dst.size <= f.dst.size
        /\ f.dst.size <= c.dst.size + StubSize["ferror"]
        /\ exit_offset \in DOMAIN f.code /\ f.code[exit_offset].op = "exit"
        /\ Linked(f.code, offsets) /\ Spine(f.code, exit_offset)
    BY <1>1, <1>4, <1>5, <2>1
  <2>6. Footer(f, exit_offset, after)
    BY <1>1, <1>3, <2>1, <2>3, <2>5, FooterGrown DEF after
  <2>7. OtherFieldsSame(c, f)
    BY <1>2, <2>1 DEF OtherFieldsSame
  <2> QED
    BY <2>1, <2>4, <2>5, <2>6, <2>7 DEF Stubbed, f, after
<1> QED
  BY <1>6, <1>7 DEF f

(* The stub that is emitted, whatever the stub and however that fails. *)
LEMMA StubEmitted ==
  ASSUME NEW c, NEW k, NEW offsets, NEW stub, NEW o, Calling(c, k, offsets, stub, o),
         NEW s \in EmitStub(c, stub)
  PROVE  Stubbed(c, k, offsets, stub, s) /\ s.error \in {"SUCCESS", "MALLOC", "UNDEFINED"}
<1>0. Due(c, offsets, stub)
  BY CallingFacts
<1>1. /\ c \in Compilers /\ Tiled(c)
      /\ exit_offset \in Nat /\ exit_offset <= c.dst.size /\ c.dst.size \in Nat
      /\ c.dst.cap \in Nat
      /\ c.dst.size + StubSize[stub] <= exit_offset + 79
      /\ HasRoom(c, StubSize[stub])
  BY <1>0 DEF Due
<1>2. stub \in {"oob", "io", "ferror", "handler"}
  BY DEF Calling, Stub
<1>3. CASE stub = "handler"
  <2> DEFINE g == [op |-> "handler", n |-> 0, to |-> NOWHERE]
  <2>1. s \in WriteGroup(c, "handler", 0)
    BY <1>3 DEF EmitStub
  <2>2. "handler" \in FooterOps \cup {"eof"} /\ HasRoom(c, GroupSize["handler"])
    BY <1>1, <1>3 DEF FooterOps, Leaves, GroupSize, StubSize
  <2>3. /\ g \in Groups /\ s.c \in Compilers /\ OtherFieldsSame(c, s.c)
        /\ \/ s.error = "UNDEFINED"
           \/ s.error = "SUCCESS" /\ Written(c, s.c, g)
           \/ s.error = "MALLOC" /\ GrowthLost(c, s.c)
    BY <1>1, <2>1, <2>2, FooterGroup
  <2>4. g.op = "handler"
    OBVIOUS
  <2> HIDE DEF g
  <2> QED
    BY <1>3, <2>3, <2>4, StubLost, StubOfOne DEF Stubbed
<1>4. CASE stub \in {"oob", "io"}
  <2> DEFINE g == [op |-> stub, n |-> 0, to |-> exit_offset]
  <2>1. s \in Then(WriteGroup(c, stub, 0), ToExit)
    BY <1>4 DEF EmitStub
  <2>2. GroupSize[stub] = StubSize[stub]
    BY <1>4 DEF GroupSize, StubSize
  <2>3. stub \in {"oob", "io", "ferror", "eof"} /\ HasRoom(c, GroupSize[stub])
        /\ c.dst.size + GroupSize[stub] <= exit_offset + 79
    BY <1>1, <1>4, <2>2
  <2>4. /\ g \in Groups /\ s.c \in Compilers /\ OtherFieldsSame(c, s.c)
        /\ \/ s.error = "UNDEFINED"
           \/ s.error = "SUCCESS" /\ Written(c, s.c, g)
           \/ s.error = "MALLOC" /\ GrowthLost(c, s.c)
    BY <1>1, <2>1, <2>3, ExitGroup
  <2>5. g.op = stub /\ g.to = exit_offset
    OBVIOUS
  <2> HIDE DEF g
  <2> QED
    BY <1>4, <2>4, <2>5, StubLost, StubOfOne DEF Stubbed
<1>5. CASE stub = "ferror"
  <2> DEFINE g   == [op |-> "ferror", n |-> 0, to |-> exit_offset]
             e   == [op |-> "eof", n |-> 0, to |-> exit_offset]
             jne == Then(WriteGroup(c, "ferror", 0), ToExit)
             F(d) == WriteGroup(d, "eof", 0)
  <2>1. s \in Then(Then(jne, F), ToExit)
    BY <1>5 DEF EmitStub
  <2>2. /\ GroupSize["ferror"] = 29 /\ GroupSize["eof"] = 7 /\ StubSize[stub] = 36
    BY <1>5 DEF GroupSize, StubSize
  <2>3. \E q \in jne : \/ q.error = "SUCCESS" /\ s \in Then(WriteGroup(q.c, "eof", 0), ToExit)
                       \/ q.error # "SUCCESS" /\ s = q
    <3> HIDE DEF jne
    <3>1. PICK t \in Then(jne, F) : \/ t.error = "SUCCESS" /\ s \in ToExit(t.c)
                                    \/ t.error # "SUCCESS" /\ s = t
      <4> DEFINE X == Then(jne, F)
      <4>1. s \in Then(X, ToExit)
        BY <2>1
      <4> HIDE DEF X, F
      <4>2. \E t \in X : \/ t.error = "SUCCESS" /\ s \in ToExit(t.c)
                         \/ t.error # "SUCCESS" /\ s = t
        BY <4>1 DEF Then
      <4> QED
        BY <4>2 DEF X
    <3>2. PICK q \in jne : \/ q.error = "SUCCESS" /\ t \in F(q.c)
                           \/ q.error # "SUCCESS" /\ t = q
      <4> HIDE DEF F
      <4> QED
        BY <3>1 DEF Then
    <3>3. CASE q.error = "SUCCESS"
      <4>1. t \in WriteGroup(q.c, "eof", 0)
        BY <3>2, <3>3
      <4>2. s \in Then(WriteGroup(q.c, "eof", 0), ToExit)
        BY <3>1, <4>1 DEF Then
      <4> QED
        BY <3>3, <4>2
    <3>4. CASE q.error # "SUCCESS"
      BY <3>1, <3>2, <3>4
    <3> QED
      BY <3>3, <3>4
  <2>4. PICK q \in jne : \/ q.error = "SUCCESS" /\ s \in Then(WriteGroup(q.c, "eof", 0), ToExit)
                         \/ q.error # "SUCCESS" /\ s = q
    BY <2>3
  <2>5. /\ "ferror" \in {"oob", "io", "ferror", "eof"} /\ HasRoom(c, GroupSize["ferror"])
        /\ c.dst.size + GroupSize["ferror"] <= exit_offset + 79
    BY <1>1, <2>2 DEF HasRoom
  <2>6. /\ g \in Groups /\ q.c \in Compilers /\ OtherFieldsSame(c, q.c)
        /\ \/ q.error = "UNDEFINED"
           \/ q.error = "SUCCESS" /\ Written(c, q.c, g)
           \/ q.error = "MALLOC" /\ GrowthLost(c, q.c)
    BY <1>1, <2>5, ExitGroup
  <2>7. g.op = "ferror" /\ g.to = exit_offset /\ e.op = "eof" /\ e.to = exit_offset
    OBVIOUS
  <2>8. CASE q.error = "SUCCESS"
    <3> DEFINE d == q.c
    <3>1. s \in Then(WriteGroup(d, "eof", 0), ToExit)
      BY <2>4, <2>8
    <3>2. /\ d \in Compilers /\ Written(c, d, g) /\ Appended(c, d, g)
          /\ IF Lost(c) THEN Lost(d) /\ d.dst.cap = c.dst.cap ELSE Honest(d.dst)
      BY <2>6, <2>8 DEF Written
    <3>3. d.dst.size = c.dst.size + 29
      BY <2>2, <3>2 DEF Appended
    <3> HIDE DEF d, g, jne
    <3>4. Tiled(d)
      BY <1>1, <2>6, <3>2, AppendedFacts
    <3>5. /\ exit_offset <= d.dst.size /\ d.dst.size \in Nat
          /\ d.dst.size + GroupSize["eof"] <= exit_offset + 79
      BY <1>1, <2>2, <3>3
    <3>6. HasRoom(d, GroupSize["eof"])
      <4>1. CASE Lost(c)
        BY <1>1, <2>2, <3>2, <3>3, <4>1 DEF HasRoom
      <4>2. CASE ~Lost(c)
        BY <3>2, <4>2 DEF HasRoom, Honest, Lost
      <4> QED
        BY <4>1, <4>2
    <3>7. "eof" \in {"oob", "io", "ferror", "eof"}
      OBVIOUS
    <3>8. /\ e \in Groups /\ s.c \in Compilers /\ OtherFieldsSame(d, s.c)
          /\ \/ s.error = "UNDEFINED"
             \/ s.error = "SUCCESS" /\ Written(d, s.c, e)
             \/ s.error = "MALLOC" /\ GrowthLost(d, s.c)
      BY <1>1, <3>1, <3>2, <3>4, <3>5, <3>6, <3>7, ExitGroup
    <3> HIDE DEF e
    <3>9. Calling(c, k, offsets, "ferror", o)
      BY <1>5
    <3>10. s.error # "UNDEFINED" => Stubbed(c, k, offsets, "ferror", s)
      <4>1. SUFFICES ASSUME s.error # "UNDEFINED" PROVE Stubbed(c, k, offsets, "ferror", s)
        OBVIOUS
      <4>2. Written(d, s.c, e) \/ GrowthLost(d, s.c)
        BY <3>8, <4>1
      <4> QED
        BY <2>6, <2>7, <3>2, <3>8, <3>9, <4>2, StubOfTwo
    <3>11. OtherFieldsSame(c, s.c)
      BY <2>6, <3>8 DEF OtherFieldsSame, d
    <3> QED
      BY <1>5, <3>8, <3>10, <3>11 DEF Stubbed
  <2>9. CASE q.error # "SUCCESS"
    <3>1. /\ s = q
          /\ \/ q.error = "UNDEFINED" /\ q.c \in Compilers /\ OtherFieldsSame(c, q.c)
             \/ q.error = "MALLOC" /\ GrowthLost(c, q.c)
      BY <2>4, <2>6, <2>9
    <3>2. q.error = "MALLOC" => Stubbed(c, k, offsets, stub, q)
      BY <3>1, StubLost
    <3>3. q.error = "UNDEFINED" => Stubbed(c, k, offsets, stub, q)
      BY <3>1 DEF Stubbed
    <3> QED
      BY <3>1, <3>2, <3>3
  <2> QED
    BY <2>8, <2>9
<1> QED
  BY <1>2, <1>3, <1>4, <1>5

-----------------------------------------------------------------------------
(* The jump that the k+1st entry of the table remembers is linked. *)

LEMMA LinkedBody ==
  ASSUME NEW c, NEW k \in Nat, Body(c, k), k + 1 <= Len(c.jumps),
         NEW x \in DOMAIN c.code, CallsStub(c.code, x), c.jumps[k + 1] = CallAt(c.code, x),
         NEW to \in Nat \ {0},
         NEW d \in Compilers, OtherFieldsSame(c, d), d.dst = c.dst,
         d.code = Relinked(c.code, End(c.code, x), to)
  PROVE  /\ Body(d, k + 1)
         /\ SameShape(c.code, d.code)
         /\ d.code[x].to = to
         /\ \A o \in DOMAIN c.code : o # x => d.code[o] = c.code[o]
<1>1. /\ c \in Compilers /\ Tiled(c) /\ Headed(c) /\ Loops(c) /\ Calls(c, k)
      /\ c.code[x].op \in DOMAIN StubOf /\ c.code \in Codes
  BY CompilerFacts DEF Body, CallsStub
<1>2. /\ SameShape(c.code, d.code) /\ d.code[x].to = to
      /\ \A o \in DOMAIN c.code : End(c.code, o) # End(c.code, x) => d.code[o] = c.code[o]
  BY <1>1, RelinkedFacts
<1>3. \A o \in DOMAIN c.code : o # x => End(c.code, o) # End(c.code, x)
  BY <1>1, EndFacts
<1>4. \A o \in DOMAIN c.code : o # x => d.code[o] = c.code[o]
  BY <1>2, <1>3
<1>5. Tiled(d) /\ Headed(d)
  BY <1>1, <1>2, ShapeKeeps
<1>6. /\ DOMAIN d.code = DOMAIN c.code
      /\ \A o \in DOMAIN c.code : d.code[o].op = c.code[o].op /\ End(d.code, o) = End(c.code, o)
  BY <1>2 DEF SameShape
<1>7. c.code[x].op \notin {"jz", "jnz"} /\ d.loop_stack = c.loop_stack /\ d.jumps = c.jumps
  BY <1>1 DEF StubOf, OtherFieldsSame
<1>8. Loops(d)
  <2>1. ASSUME NEW o \in DOMAIN c.code, PairedIn(c.code, o), o # x
        PROVE  PairedIn(d.code, o)
    <3>1. PICK q \in DOMAIN c.code :
            /\ c.code[q].op = IF c.code[o].op = "jz" THEN "jnz" ELSE "jz"
            /\ c.code[q].op = "jnz" <=> o < q
            /\ c.code[o].to = End(c.code, q)
            /\ c.code[q].to = End(c.code, o)
      BY <2>1 DEF PairedIn
    <3>2. q # x
      BY <1>7, <3>1
    <3> QED
      BY <1>4, <1>6, <2>1, <3>1, <3>2 DEF PairedIn
  <2>2. ASSUME NEW o \in DOMAIN d.code, d.code[o].op \in {"jz", "jnz"}
        PROVE  \/ PairedIn(d.code, o)
               \/ /\ OpensLoop(d.code, o)
                  /\ \E i \in DOMAIN d.loop_stack : d.loop_stack[i] = End(d.code, o)
    <3>1. o \in DOMAIN c.code /\ o # x /\ d.code[o] = c.code[o]
          /\ End(d.code, o) = End(c.code, o)
      BY <1>4, <1>6, <1>7, <2>2
    <3>2. CASE PairedIn(c.code, o)
      BY <2>1, <3>1, <3>2
    <3>3. CASE ~PairedIn(c.code, o)
      BY <1>1, <1>7, <2>2, <3>1, <3>3 DEF Loops, OpensLoop
    <3> QED
      BY <3>2, <3>3
  <2>3. ASSUME NEW i \in DOMAIN d.loop_stack
        PROVE  /\ \E o \in DOMAIN d.code :
                    OpensLoop(d.code, o) /\ d.loop_stack[i] = End(d.code, o)
               /\ \A j \in DOMAIN d.loop_stack : j < i => d.loop_stack[j] < d.loop_stack[i]
    <3>1. PICK o \in DOMAIN c.code : OpensLoop(c.code, o) /\ c.loop_stack[i] = End(c.code, o)
      BY <1>1, <1>7 DEF Loops
    <3>2. o # x
      BY <1>7, <3>1 DEF OpensLoop
    <3> QED
      BY <1>1, <1>4, <1>6, <1>7, <3>1, <3>2 DEF Loops, OpensLoop
  <2> QED
    BY <2>2, <2>3 DEF Loops
<1> DEFINE n == Len(c.jumps)
<1>9. n \in Nat
  BY <1>1, CompilerTypes
<1>10. /\ \A o \in DOMAIN c.code : CallsStub(c.code, o) =>
            \E i \in k + 1 .. n : c.jumps[i] = CallAt(c.code, o)
       /\ \A i \in k + 1 .. n :
            /\ \E o \in DOMAIN c.code : CallsStub(c.code, o) /\ c.jumps[i] = CallAt(c.code, o)
            /\ \A j \in k + 1 .. n : i < j => c.jumps[i].from < c.jumps[j].from
  BY <1>1 DEF Calls
<1> HIDE DEF n
<1>11. \A o \in DOMAIN c.code : CallAt(d.code, o) = CallAt(c.code, o)
  BY <1>6 DEF CallAt
<1>12. /\ ~CallsStub(d.code, x)
       /\ \A o \in DOMAIN c.code : o # x => (CallsStub(d.code, o) <=> CallsStub(c.code, o))
  BY <1>2, <1>4 DEF CallsStub, NOWHERE
<1>13. ASSUME NEW o \in DOMAIN c.code, CallsStub(d.code, o)
       PROVE  \E i \in k + 1 + 1 .. n : c.jumps[i] = CallAt(d.code, o)
  <2>1. o # x /\ CallsStub(c.code, o)
    BY <1>12, <1>13
  <2>2. PICK i \in k + 1 .. n : c.jumps[i] = CallAt(c.code, o)
    BY <1>10, <2>1
  <2>3. CallAt(c.code, o) # CallAt(c.code, x)
    BY <1>3, <2>1 DEF CallAt
  <2>4. i # k + 1
    BY <2>2, <2>3
  <2>5. i \in k + 1 + 1 .. n
    BY <1>9, <2>4
  <2> QED
    BY <1>11, <2>2, <2>5
<1>14. ASSUME NEW i \in k + 1 + 1 .. n
       PROVE  /\ \E o \in DOMAIN c.code : CallsStub(d.code, o) /\ c.jumps[i] = CallAt(d.code, o)
              /\ \A j \in k + 1 + 1 .. n : i < j => c.jumps[i].from < c.jumps[j].from
  <2>1. i \in k + 1 .. n /\ k + 1 \in k + 1 .. n /\ k + 1 < i
    BY <1>9
  <2>2. PICK o \in DOMAIN c.code : CallsStub(c.code, o) /\ c.jumps[i] = CallAt(c.code, o)
    BY <1>10, <2>1
  <2>3. c.jumps[k + 1].from < c.jumps[i].from
    BY <1>10, <2>1
  <2>4. c.jumps[k + 1].from \in Nat
    BY <1>1, EndFacts DEF CallAt
  <2>5. o # x
    BY <2>2, <2>3, <2>4
  <2>6. \A j \in k + 1 + 1 .. n : j \in k + 1 .. n
    BY <1>9
  <2> QED
    BY <1>10, <1>11, <1>12, <2>1, <2>2, <2>5, <2>6
<1>15. Calls(d, k + 1)
  BY <1>6, <1>7, <1>13, <1>14 DEF Calls, n
<1> QED
  BY <1>2, <1>4, <1>5, <1>8, <1>15 DEF Body

LEMMA LinkedFooter ==
  ASSUME NEW c \in Compilers, Tiled(c), NEW exit, NEW offsets, Footer(c, exit, offsets),
         NEW x \in DOMAIN c.code, c.code[x].op \in DOMAIN StubOf,
         NEW d, d.dst = c.dst, SameShape(c.code, d.code),
         d.code[x].to = offsets[StubOf[c.code[x].op]],
         \A o \in DOMAIN c.code : o # x => d.code[o] = c.code[o]
  PROVE  Footer(d, exit, offsets)
<1>1. /\ DOMAIN d.code = DOMAIN c.code
      /\ \A o \in DOMAIN c.code : d.code[o].op = c.code[o].op
  BY DEF SameShape
<1>2. c.code[x].op \notin {"oob", "io", "ferror", "eof"}
  BY DEF StubOf
<1>3. Linked(d.code, offsets)
  <2>1. Linked(c.code, offsets)
    BY DEF Footer
  <2>2. ASSUME NEW o \in DOMAIN d.code, d.code[o].op \in DOMAIN StubOf
        PROVE  d.code[o].to \in {NOWHERE, offsets[StubOf[d.code[o].op]]}
    <3>1. CASE o = x
      BY <1>1, <3>1
    <3>2. CASE o # x
      BY <1>1, <2>1, <2>2, <3>2 DEF Linked
    <3> QED
      BY <3>1, <3>2
  <2> QED
    BY <2>2 DEF Linked
<1>4. ASSUME ~Lost(c)
      PROVE  Stubs(d, exit, offsets) /\ \A h \in Heads : FlowsTo(d, h)
  <2>1. Stubs(c, exit, offsets) /\ \A h \in Heads : FlowsTo(c, h)
    BY <1>4 DEF Footer
  <2>2. \A h \in Heads : FlowsTo(d, h)
    BY <2>1, ShapeFlows
  <2>3. \A o \in DOMAIN d.code :
          d.code[o].op \in {"oob", "io", "ferror", "eof"} => d.code[o].to = exit
    BY <1>1, <1>2, <2>1 DEF Stubs
  <2> QED
    BY <1>1, <2>1, <2>2, <2>3 DEF Stubs
<1>5. Spine(d.code, exit)
  <2>1. Spine(c.code, exit)
    BY DEF Footer
  <2>2. ASSUME NEW o \in DOMAIN d.code
        PROVE  /\ o < exit => End(d.code, o) \in DOMAIN d.code
                               /\ Follows(d.code[o], d.code[End(d.code, o)])
               /\ d.code[o].op \in StubGroups <=> o > exit
               /\ d.code[o].op = "exit" <=> o = exit
               /\ d.code[o].op \in {"oob", "io", "ferror", "eof"} => d.code[o].to = exit
    <3>1. /\ o < exit => End(c.code, o) \in DOMAIN c.code
                          /\ Follows(c.code[o], c.code[End(c.code, o)])
          /\ c.code[o].op \in StubGroups <=> o > exit
          /\ c.code[o].op = "exit" <=> o = exit
          /\ c.code[o].op \in {"oob", "io", "ferror", "eof"} => c.code[o].to = exit
      BY <1>1, <2>1, <2>2 DEF Spine
    <3>2. o < exit => Follows(d.code[o], d.code[End(d.code, o)])
      BY <1>1, <2>2, <3>1 DEF SameShape, Follows
    <3>3. End(d.code, o) = End(c.code, o)
      BY <1>1, <2>2 DEF SameShape
    <3> QED
      BY <1>1, <1>2, <2>2, <3>1, <3>2, <3>3
  <2> QED
    BY <2>2 DEF Spine
<1> QED
  BY <1>1, <1>3, <1>4, <1>5 DEF Footer, Lost

(* The displacement fits as long as the program does. *)
LEMMA LinkOne ==
  ASSUME NEW d, NEW k \in Nat, NEW exit, NEW offsets \in [Stub -> Nat],
         Body(d, k), Footer(d, exit, offsets), k + 1 <= Len(d.jumps),
         offsets[d.jumps[k + 1].to] # 0,
         NEW r \in SetRel(d, d.jumps[k + 1].from, offsets[d.jumps[k + 1].to], INT32_MAX)
  PROVE  /\ r.c \in Compilers /\ OtherFieldsSame(d, r.c)
         /\ \/ /\ r.error = "SUCCESS"
               /\ Body(r.c, k + 1) /\ Footer(r.c, exit, offsets)
            \/ r.error = "JUMP_TOO_LARGE" /\ r.c.dst.size > INT32_MAX
<1>1. /\ d \in Compilers /\ Tiled(d) /\ Calls(d, k)
  BY DEF Body
<1>2. PICK x \in DOMAIN d.code : CallsStub(d.code, x) /\ d.jumps[k + 1] = CallAt(d.code, x)
  <2> DEFINE n == Len(d.jumps)
  <2>1. n \in Nat
    BY <1>1, CompilerTypes
  <2>2. \A i \in k + 1 .. n :
          \E o \in DOMAIN d.code : CallsStub(d.code, o) /\ d.jumps[i] = CallAt(d.code, o)
    BY <1>1 DEF Calls
  <2>3. k + 1 <= n
    OBVIOUS
  <2> HIDE DEF n
  <2>4. k + 1 \in k + 1 .. n
    BY <2>1, <2>3
  <2> QED
    BY <2>2, <2>4
<1> DEFINE from == End(d.code, x)
           stub == StubOf[d.code[x].op]
           to   == offsets[stub]
<1>3. d.jumps[k + 1].from = from /\ d.jumps[k + 1].to = stub
  BY <1>2 DEF CallAt
<1>4. stub \in Stub /\ d.code[x].op \in DOMAIN StubOf
  BY <1>2 DEF CallsStub, StubOf, Stub
<1>5. from \in Nat /\ from <= d.dst.size /\ d.dst.size \in Nat
  BY <1>1, EndFacts
<1>6. to \in Nat \ {0} /\ to <= d.dst.size
  BY <1>3, <1>4 DEF Footer
<1>7. r \in SetRel(d, from, to, INT32_MAX)
  BY <1>3
<1> HIDE DEF from, to
<1>8. INT32_MAX \in Nat /\ to \in Nat
  BY <1>6, JitAssumption DEF JitAssumption
<1>9. \/ /\ r.error = "SUCCESS" /\ r.c \in Compilers
         /\ OtherFieldsSame(d, r.c) /\ r.c.dst = d.dst
         /\ r.c.code = Relinked(d.code, from, to)
      \/ /\ r = Result(d, "JUMP_TOO_LARGE")
         /\ to - from \notin -(INT32_MAX + 1) .. INT32_MAX
  BY <1>1, <1>5, <1>7, <1>8, SetRelFacts
<1>10. CASE r.error = "SUCCESS"
  <2>1. /\ r.c \in Compilers /\ OtherFieldsSame(d, r.c) /\ r.c.dst = d.dst
        /\ r.c.code = Relinked(d.code, End(d.code, x), to)
    BY <1>9, <1>10 DEF Result, from
  <2>2. /\ Body(r.c, k + 1)
        /\ SameShape(d.code, r.c.code)
        /\ r.c.code[x].to = to
        /\ \A o \in DOMAIN d.code : o # x => r.c.code[o] = d.code[o]
    BY <1>2, <1>6, <2>1, LinkedBody
  <2>3. Footer(r.c, exit, offsets)
    BY <1>1, <1>4, <2>1, <2>2, LinkedFooter DEF to
  <2> QED
    BY <1>10, <2>1, <2>2, <2>3
<1>11. CASE r.error # "SUCCESS"
  <2>1. /\ r.c = d /\ r.error = "JUMP_TOO_LARGE"
        /\ to - from \notin -(INT32_MAX + 1) .. INT32_MAX
    BY <1>9, <1>11 DEF Result
  <2>2. d.dst.size > INT32_MAX
    BY <1>5, <1>6, <1>8, <2>1
  <2> QED
    BY <1>1, <2>1, <2>2 DEF OtherFieldsSame
<1> QED
  BY <1>10, <1>11

LEMMA LinkJumpCases ==
  ASSUME JInv, LinkJump
  PROVE  /\ jump_target_offsets' \in [Stub -> Nat]
         /\ linked' = linked + 1 /\ linked' \in 0 .. Len(compiler.jumps)
         /\ exit_offset' = exit_offset
         /\ \E r : /\ Returns(r, "LINKING") /\ r.c \in Compilers
                   /\ OtherFieldsSame(compiler, r.c)
                   /\ \/ r.error = "UNDEFINED"
                      \/ /\ r.error = "SUCCESS"
                         /\ Body(r.c, linked + 1)
                         /\ Footer(r.c, exit_offset, jump_target_offsets')
                      \/ r.error = "JUMP_TOO_LARGE" /\ r.c.dst.size > INT32_MAX
<1> DEFINE offsets == jump_target_offsets
           jump    == compiler.jumps[linked + 1]
           known   == offsets[jump.to] # 0
           stubs   == IF known THEN {Result(compiler, "SUCCESS")}
                      ELSE EmitStub(compiler, jump.to)
           n       == Len(compiler.jumps)
<1>1. /\ compiler \in Compilers /\ Body(compiler, linked)
      /\ Footer(compiler, exit_offset, offsets)
      /\ offsets \in [Stub -> Nat] /\ linked \in 0 .. n
      /\ linked < n /\ linked' = linked + 1 /\ exit_offset' = exit_offset
  BY DEF JInv, TypeOK, LinkJump
<1>2. n \in Nat /\ compiler.jumps \in Seq(Jump) /\ compiler.dst.size \in Nat
  BY <1>1, CompilerFacts, CompilerTypes
<1>3. /\ linked \in Nat /\ linked + 1 <= n /\ linked + 1 \in 1 .. n /\ linked + 1 \in 0 .. n
  <2> HIDE DEF n
  <2> QED
    BY <1>1, <1>2
<1>4. jump \in Jump
  <2>1. DOMAIN compiler.jumps = 1 .. n
    BY <1>2
  <2> HIDE DEF n
  <2> QED
    BY <1>2, <1>3, <2>1
<1>5. jump.to \in Stub /\ jump.from \in Nat
  BY <1>4 DEF Jump
<1>6. PICK s \in stubs :
        LET offset == IF known THEN offsets[jump.to]
                      ELSE StubOffset(compiler.dst, s.c.dst)
        IN  /\ jump_target_offsets' = [offsets EXCEPT ![jump.to] = offset]
            /\ \E r \in SetRel(s.c, jump.from, offset, INT32_MAX) :
                 Returns(IF s.error = "UNDEFINED" THEN s ELSE r, "LINKING")
  BY DEF LinkJump
<1> DEFINE offset == IF known THEN offsets[jump.to] ELSE compiler.dst.size
<1>7. /\ jump_target_offsets' = [offsets EXCEPT ![jump.to] = offset]
      /\ \E r \in SetRel(s.c, jump.from, offset, INT32_MAX) :
           Returns(IF s.error = "UNDEFINED" THEN s ELSE r, "LINKING")
  BY <1>6 DEF StubOffset
<1>8. PICK r \in SetRel(s.c, jump.from, offset, INT32_MAX) :
        Returns(IF s.error = "UNDEFINED" THEN s ELSE r, "LINKING")
  BY <1>7
<1>9. offset \in Nat /\ jump_target_offsets' \in [Stub -> Nat]
  BY <1>1, <1>2, <1>5, <1>7
<1>10. /\ s.c \in Compilers /\ OtherFieldsSame(compiler, s.c)
       /\ s.error # "UNDEFINED" =>
            /\ Body(s.c, linked)
            /\ Footer(s.c, exit_offset, jump_target_offsets')
            /\ offset # 0
  <2>1. CASE known
    <3>1. s.c = compiler /\ offset = offsets[jump.to]
      BY <1>6, <2>1 DEF Result
    <3> HIDE DEF offset, jump, known
    <3>2. jump_target_offsets' = offsets
      BY <1>1, <1>5, <1>7, <3>1
    <3> QED
      BY <1>1, <2>1, <3>1, <3>2 DEF OtherFieldsSame, known
  <2>2. CASE ~known
    <3>1. s \in EmitStub(compiler, jump.to) /\ offset = compiler.dst.size
      BY <2>2
    <3>2. PICK o \in DOMAIN compiler.code :
            CallsStub(compiler.code, o) /\ jump = CallAt(compiler.code, o)
      <4>1. \A i \in linked + 1 .. n : \E o \in DOMAIN compiler.code :
              CallsStub(compiler.code, o) /\ compiler.jumps[i] = CallAt(compiler.code, o)
        BY <1>1 DEF Body, Calls
      <4>2. linked + 1 \in linked + 1 .. n
        <5> HIDE DEF n
        <5> QED
          BY <1>2, <1>3
      <4> QED
        BY <4>1, <4>2
    <3>3. Calling(compiler, linked, offsets, jump.to, o)
      BY <1>1, <1>5, <2>2, <3>2 DEF Calling, CallAt
    <3> HIDE DEF jump, known, offset
    <3>4. Stubbed(compiler, linked, offsets, jump.to, s)
      BY <3>1, <3>3, StubEmitted
    <3>5. Due(compiler, offsets, jump.to)
      BY <3>3, CallingFacts
    <3>6. compiler.dst.size # 0
      BY <3>5 DEF Due
    <3> QED
      BY <1>7, <3>1, <3>4, <3>6 DEF Stubbed
  <2> QED
    BY <2>1, <2>2
<1>11. CASE s.error = "UNDEFINED"
  BY <1>1, <1>3, <1>8, <1>9, <1>10, <1>11
<1>12. CASE s.error # "UNDEFINED"
  <2>1. Returns(r, "LINKING")
    BY <1>8, <1>12
  <2>2. s.c.jumps = compiler.jumps /\ jump_target_offsets'[jump.to] = offset
    BY <1>1, <1>5, <1>7, <1>10, <1>12 DEF OtherFieldsSame
  <2>3. /\ Body(s.c, linked) /\ Footer(s.c, exit_offset, jump_target_offsets')
        /\ linked \in Nat /\ linked + 1 <= Len(s.c.jumps)
        /\ s.c.jumps[linked + 1] = jump /\ offset # 0
    BY <1>3, <1>10, <1>12, <2>2
  <2> HIDE DEF jump, offset, known, stubs
  <2>4. PICK after : after = jump_target_offsets'
    OBVIOUS
  <2>5. /\ after \in [Stub -> Nat] /\ Footer(s.c, exit_offset, after)
        /\ after[s.c.jumps[linked + 1].to] # 0
        /\ r \in SetRel(s.c, s.c.jumps[linked + 1].from,
                        after[s.c.jumps[linked + 1].to], INT32_MAX)
    BY <1>8, <1>9, <2>2, <2>3, <2>4
  <2>6. /\ r.c \in Compilers /\ OtherFieldsSame(s.c, r.c)
        /\ \/ /\ r.error = "SUCCESS"
              /\ Body(r.c, linked + 1) /\ Footer(r.c, exit_offset, after)
           \/ r.error = "JUMP_TOO_LARGE" /\ r.c.dst.size > INT32_MAX
    BY <2>3, <2>5, LinkOne
  <2>7. OtherFieldsSame(compiler, r.c)
    BY <1>10, <1>12, <2>6 DEF OtherFieldsSame
  <2> QED
    BY <1>1, <1>3, <1>9, <2>1, <2>4, <2>6, <2>7
<1> QED
  BY <1>11, <1>12

LEMMA LinkJumpJInv == JInv /\ LinkJump => JInv'
<1> SUFFICES ASSUME JInv, LinkJump PROVE JInv'
  OBVIOUS
<1>1. /\ jump_target_offsets' \in [Stub -> Nat]
      /\ linked' = linked + 1 /\ linked' \in 0 .. Len(compiler.jumps)
      /\ exit_offset' = exit_offset
  BY LinkJumpCases
<1>2. PICK r : /\ Returns(r, "LINKING") /\ r.c \in Compilers
               /\ OtherFieldsSame(compiler, r.c)
               /\ \/ r.error = "UNDEFINED"
                  \/ /\ r.error = "SUCCESS"
                     /\ Body(r.c, linked + 1)
                     /\ Footer(r.c, exit_offset, jump_target_offsets')
                  \/ r.error = "JUMP_TOO_LARGE" /\ r.c.dst.size > INT32_MAX
  BY LinkJumpCases
<1>3. /\ TypeOK /\ compiler \in Compilers /\ StacksHonest(compiler)
      /\ compiler.loop_stack = <<>> /\ source' = source
  BY <1>2 DEF JInv, LinkJump, Returns
<1>4. CASE r.error = "SUCCESS"
  <2>1. compiler' = r.c /\ outcome' = "LINKING" /\ last_token' = last_token
    BY <1>4, <1>2 DEF Returns
  <2>2. /\ OtherFieldsSame(compiler, compiler') /\ Body(compiler', linked')
        /\ Footer(compiler', exit_offset', jump_target_offsets')
    BY <1>1, <1>2, <1>4, <2>1
  <2>3. StacksHonest(compiler') /\ compiler'.loop_stack = <<>>
        /\ linked' \in 0 .. Len(compiler'.jumps)
    BY <1>1, <1>3, <2>2 DEF StacksHonest, OtherFieldsSame
  <2>4. TypeOK'
    BY <1>1, <1>2, <1>3, <2>1, <2>3, NextTypes DEF TypeOK
  <2> QED
    BY <1>2, <2>1, <2>2, <2>3, <2>4 DEF JInv, Ended
<1>5. CASE r.error # "SUCCESS"
  <2>1. compiler' = Closed(r.c) /\ outcome' = r.error /\ last_token' = r.c.token
    BY <1>2, <1>5 DEF Returns, Closed
  <2>2. compiler' \in Compilers /\ r.c.token \in Nat
    BY <1>2, <2>1, ClosedFacts, CompilerFacts
  <2>3. /\ outcome' \in NbajhError \cup {"UNDEFINED"} /\ outcome' # "SUCCESS"
        /\ outcome' \in Fatal
    BY <1>2, <1>5, <2>1 DEF NbajhError, CompilerErrors, Fatal
  <2>4. Ended' /\ LoopsPaired' /\ SuccessIsComplete' /\ CompleteUpToExit' /\ BuffersSound'
    BY <1>2, <2>1, <2>3, FailureSound
  <2>5. linked' \in 0 .. Len(compiler'.jumps)
    BY <1>1, <1>2, <2>1, ClosedFacts DEF OtherFieldsSame
  <2>6. TypeOK'
    BY <1>1, <1>3, <2>1, <2>2, <2>3, <2>5, NextTypes DEF TypeOK
  <2> QED
    BY <2>2, <2>4, <2>6 DEF JInv, Ended
<1> QED
  BY <1>4, <1>5

-----------------------------------------------------------------------------
(* Both ends of the footer. *)

LEMMA FooterBegun ==
  ASSUME NEW c, Between(c),
         NEW r \in Then(WriteGroup(c, "success", 0), LAMBDA d : WriteGroup(d, "exit", 0))
  PROVE  /\ r.c \in Compilers /\ r.error \in WriteError /\ OtherFieldsSame(c, r.c)
         /\ r.error = "SUCCESS" =>
              Body(r.c, 0) /\ Footer(r.c, c.dst.size + 2, [s \in Stub |-> 0])
<1> DEFINE g == [op |-> "success", n |-> 0, to |-> NOWHERE]
           e == [op |-> "exit", n |-> 0, to |-> NOWHERE]
<1>1. /\ g \in Groups /\ g.op = "success" /\ g.op \in Opening
      /\ e \in Groups /\ e.op = "exit" /\ e.op \in Leaves /\ Follows(g, e)
  BY WidthAssumption
  DEF Groups, Group, IsGroup, GroupOp, GroupSize, NOWHERE, WidthAssumption, Follows, Opening,
      Leaves
<1>2. /\ c \in Compilers /\ Tiled(c) /\ Body(c, 0) /\ Honest(c.dst) /\ Unlinked(c.code)
      /\ c.dst.size \in Nat
  BY CompilerFacts DEF Between, Body
<1>3. PICK q \in WriteGroup(c, "success", 0) :
        \/ q.error = "SUCCESS" /\ r \in WriteGroup(q.c, "exit", 0)
        \/ q.error # "SUCCESS" /\ r = q
  BY DEF Then
<1>4. /\ q.c \in Compilers /\ q.error \in WriteError /\ OtherFieldsSame(c, q.c)
      /\ q.error = "SUCCESS" => Appended(c, q.c, g) /\ Honest(q.c.dst)
  BY <1>1, <1>2, WriteGroupFacts
<1>5. CASE q.error # "SUCCESS"
  BY <1>3, <1>4, <1>5
<1>6. CASE q.error = "SUCCESS"
  <2> DEFINE d == q.c
             f == r.c
  <2>1. d \in Compilers /\ Appended(c, d, g) /\ Honest(d.dst) /\ OtherFieldsSame(c, d)
    BY <1>4, <1>6
  <2>2. r \in WriteGroup(d, "exit", 0)
    BY <1>3, <1>6
  <2> HIDE DEF d
  <2>3. Tiled(d)
    BY <1>1, <1>2, <2>1, AppendedFacts
  <2>4. /\ f \in Compilers /\ r.error \in WriteError /\ OtherFieldsSame(d, f)
        /\ r.error = "SUCCESS" => Appended(d, f, e) /\ Honest(f.dst)
    BY <1>1, <2>1, <2>2, <2>3, WriteGroupFacts
  <2>5. OtherFieldsSame(c, f)
    BY <2>1, <2>4 DEF OtherFieldsSame
  <2> HIDE DEF f
  <2>6. ASSUME r.error = "SUCCESS"
        PROVE  Body(f, 0) /\ Footer(f, c.dst.size + 2, [s \in Stub |-> 0])
    <3> HIDE DEF g, e
    <3>1. Appended(d, f, e) /\ Honest(f.dst)
      BY <2>4, <2>6
    <3>2. /\ g.op \notin {"jz", "jnz", "header"} \cup DOMAIN StubOf
          /\ e.op \notin {"jz", "jnz", "header"} \cup DOMAIN StubOf
      BY <1>1 DEF StubOf
    <3>3. Body(d, 0)
      BY <1>1, <1>2, <2>1, <3>2, AppendedBody
    <3>4. Body(f, 0)
      BY <1>1, <3>1, <3>2, <3>3, AppendedBody
    <3>5. d.dst.size = c.dst.size + 2 /\ f.dst.size = d.dst.size + 10
      BY <1>1, <2>1, <3>1 DEF Appended, GroupSize
    <3>6. /\ DOMAIN d.code = DOMAIN c.code \cup {c.dst.size} /\ d.code[c.dst.size] = g
          /\ \A o \in DOMAIN c.code : d.code[o] = c.code[o]
      BY <1>1, <1>2, <2>1, AppendedFacts
    <3>7. /\ DOMAIN f.code = DOMAIN d.code \cup {d.dst.size} /\ f.code[d.dst.size] = e
          /\ \A o \in DOMAIN d.code : f.code[o] = d.code[o]
      BY <1>1, <2>1, <2>3, <3>1, AppendedFacts
    <3>8. \A h \in Heads : FlowsTo(f, h)
      <4>1. FlowsTo(c, g)
        BY <1>1, BetweenFlows
      <4>2. FlowsTo(d, e)
        BY <1>1, <1>2, <2>1, <4>1, AppendedFlows
      <4> QED
        BY <1>1, <2>1, <2>3, <3>1, <4>2, AppendedFlows
    <3> DEFINE zeros == [s \in Stub |-> 0]
    <3>9. \A s \in Stub : zeros[s] = 0
      OBVIOUS
    <3>10. Left(zeros) = 69
      BY DEF Left, StubSize, Stub
    <3> HIDE DEF zeros
    <3>11. /\ \A o \in DOMAIN f.code :
                f.code[o].op \in DOMAIN StubOf => f.code[o].to = NOWHERE
           /\ \A o \in DOMAIN f.code : f.code[o].op \notin {"oob", "io", "ferror", "eof"}
      BY <1>1, <1>2, <3>2, <3>6, <3>7 DEF Unlinked, FooterOps, Leaves
    <3>12. Linked(f.code, zeros)
      BY <3>11 DEF Linked
    <3>13. Stubs(f, d.dst.size, zeros)
      BY <3>9, <3>11 DEF Stubs
    <3>14. d.dst.size \in DOMAIN f.code /\ f.code[d.dst.size].op = "exit"
      BY <1>1, <3>7
    <3>15. ~Lost(f) /\ f.dst.size <= f.dst.cap
      BY <3>1 DEF Honest, Lost
    <3>16. /\ f.dst.size + 69 <= d.dst.size + 79
           /\ \A s \in Stub : zeros[s] <= f.dst.size /\ zeros[s] = 0
      BY <1>2, <3>5, <3>9
    <3>17. Spine(f.code, d.dst.size)
      <4>1. FlowsTo(d, e)
        <5>1. FlowsTo(c, g)
          BY <1>1, BetweenFlows
        <5> QED
          BY <1>1, <1>2, <2>1, <5>1, AppendedFlows
      <4>2. ASSUME NEW o \in DOMAIN f.code
            PROVE  /\ o < d.dst.size => End(f.code, o) \in DOMAIN f.code
                                        /\ Follows(f.code[o], f.code[End(f.code, o)])
                   /\ f.code[o].op \notin StubGroups /\ ~(o > d.dst.size)
                   /\ f.code[o].op = "exit" <=> o = d.dst.size
        <5>1. CASE o = d.dst.size
          BY <1>1, <2>1, <2>3, <3>7, <5>1, EndFacts DEF StubGroups
        <5>2. CASE o \in DOMAIN d.code
          <6>1. /\ o \in Nat /\ d.dst.size \in Nat /\ o < End(d.code, o)
                /\ End(d.code, o) \in Nat
                /\ End(d.code, o) <= d.dst.size
                /\ End(d.code, o) \in DOMAIN d.code \cup {d.dst.size}
                /\ d.dst.size \notin DOMAIN d.code
            BY <2>1, <2>3, <5>2, EndFacts
          <6>2. d.code[o].op \notin Leaves /\ d.code[o].op \notin StubGroups
            BY <1>1, <1>2, <3>6, <5>2 DEF Unlinked, FooterOps, Leaves, StubGroups
          <6>3. /\ f.code[o] = d.code[o] /\ End(f.code, o) = End(d.code, o)
            BY <1>1, <2>1, <2>3, <3>1, <5>2, AppendedFacts
          <6>4. Follows(d.code[o], IF End(d.code, o) = d.dst.size THEN e
                                   ELSE d.code[End(d.code, o)])
            BY <4>1, <5>2, <6>2 DEF FlowsTo
          <6>5. /\ End(f.code, o) \in DOMAIN f.code
                /\ Follows(f.code[o], f.code[End(f.code, o)])
            BY <3>7, <6>1, <6>3, <6>4
          <6>6. d.code[o].op # "exit" /\ o # d.dst.size /\ ~(o > d.dst.size)
            <7>1. o < d.dst.size
              BY <6>1
            <7> QED
              BY <6>1, <6>2, <7>1 DEF Leaves
          <6>7. f.code[o].op \notin StubGroups /\ f.code[o].op # "exit"
            BY <6>2, <6>3, <6>6
          <6> QED
            BY <6>5, <6>6, <6>7
        <5> QED
          BY <3>7, <5>1, <5>2
      <4>3. \A o \in DOMAIN f.code :
              f.code[o].op \in {"oob", "io", "ferror", "eof"} => f.code[o].op \in StubGroups
        BY DEF StubGroups
      <4> QED
        BY <4>2, <4>3 DEF Spine
    <3>18. Footer(f, d.dst.size, zeros)
      BY <3>8, <3>10, <3>12, <3>13, <3>14, <3>15, <3>16, <3>17 DEF Footer
    <3> QED
      BY <3>4, <3>5, <3>18 DEF zeros
  <2> QED
    BY <2>4, <2>5, <2>6 DEF f
<1> QED
  BY <1>5, <1>6

LEMMA BeginFooterJInv == JInv /\ BeginFooter => JInv'
<1> SUFFICES ASSUME JInv, BeginFooter PROVE JInv'
  OBVIOUS
<1>1. /\ outcome = "RUNNING" /\ Between(compiler) /\ TypeOK /\ compiler \in Compilers
      /\ linked = 0 /\ jump_target_offsets = [s \in Stub |-> 0]
  BY DEF JInv, BeginFooter
<1>2. /\ exit_offset' = compiler.dst.size + 2
      /\ linked' = 0 /\ jump_target_offsets' = [s \in Stub |-> 0]
  BY <1>1 DEF BeginFooter, GroupSize
<1>3. compiler.dst.size \in Nat /\ compiler.loop_stack \in Seq(Nat) /\ compiler.token \in Nat
      /\ exit_offset' \in Nat
  BY <1>1, <1>2, CompilerFacts
<1>4. \E r : /\ Returns(r, "LINKING") /\ r.c \in Compilers /\ OtherFieldsSame(compiler, r.c)
             /\ \/ r.error = "UNCLOSED_LOOPS" /\ r.c = compiler
                \/ /\ r.error \in WriteError
                   /\ compiler.loop_stack = <<>>
                   /\ r.error = "SUCCESS" =>
                        /\ Body(r.c, 0)
                        /\ Footer(r.c, compiler.dst.size + 2, [s \in Stub |-> 0])
  <2>1. CASE Unclosed
    <3>1. Returns(Result(compiler, "UNCLOSED_LOOPS"), "LINKING")
      BY <2>1 DEF BeginFooter
    <3>2. /\ Result(compiler, "UNCLOSED_LOOPS").c = compiler
          /\ Result(compiler, "UNCLOSED_LOOPS").error = "UNCLOSED_LOOPS"
      BY DEF Result
    <3> QED
      BY <1>1, <3>1, <3>2 DEF OtherFieldsSame
  <2>2. CASE ~Unclosed
    <3>1. PICK r \in Then(WriteGroup(compiler, "success", 0),
                          LAMBDA d : WriteGroup(d, "exit", 0)) : Returns(r, "LINKING")
      BY <2>2 DEF BeginFooter
    <3> QED
      BY <1>1, <2>2, <3>1, FooterBegun DEF Unclosed
  <2> QED
    BY <2>1, <2>2
<1>5. PICK r : /\ Returns(r, "LINKING") /\ r.c \in Compilers /\ OtherFieldsSame(compiler, r.c)
               /\ \/ r.error = "UNCLOSED_LOOPS" /\ r.c = compiler
                  \/ /\ r.error \in WriteError
                     /\ compiler.loop_stack = <<>>
                     /\ r.error = "SUCCESS" =>
                          /\ Body(r.c, 0)
                          /\ Footer(r.c, compiler.dst.size + 2, [s \in Stub |-> 0])
  BY <1>4
<1>6. source' = source
  BY <1>5 DEF Returns
<1>7. [s \in Stub |-> 0] \in [Stub -> Nat]
  OBVIOUS
<1>8. CASE r.error = "SUCCESS"
  <2>1. compiler' = r.c /\ outcome' = "LINKING" /\ last_token' = last_token
    BY <1>5, <1>8 DEF Returns
  <2>2. /\ Body(compiler', linked') /\ OtherFieldsSame(compiler, compiler')
        /\ Footer(compiler', exit_offset', jump_target_offsets')
        /\ compiler'.loop_stack = <<>>
    BY <1>2, <1>5, <1>8, <2>1 DEF OtherFieldsSame
  <2>3. StacksHonest(compiler')
    BY <1>1, <2>2 DEF Between, StacksHonest, OtherFieldsSame
  <2>4. linked' \in 0 .. Len(compiler'.jumps)
    BY <1>2, <1>5, <2>1, CompilerTypes
  <2>5. TypeOK'
    BY <1>1, <1>2, <1>3, <1>5, <1>6, <1>7, <2>1, <2>4, NextTypes DEF TypeOK
  <2> QED
    BY <1>5, <2>1, <2>2, <2>3, <2>5 DEF JInv, Ended
<1>9. CASE r.error # "SUCCESS"
  <2>1. compiler' = Closed(r.c) /\ outcome' = r.error /\ last_token' = r.c.token
    BY <1>5, <1>9 DEF Returns, Closed
  <2>2. compiler' \in Compilers /\ r.c.token \in Nat
    BY <1>5, <2>1, ClosedFacts, CompilerFacts
  <2>3. /\ outcome' \in NbajhError \cup {"UNDEFINED"} /\ outcome' # "SUCCESS"
        /\ outcome' \notin Fatal => Loops(r.c)
    BY <1>1, <1>5, <1>9, <2>1 DEF NbajhError, CompilerErrors, Fatal, WriteError, Between, Body
  <2>4. Ended' /\ LoopsPaired' /\ SuccessIsComplete' /\ CompleteUpToExit' /\ BuffersSound'
    BY <1>5, <2>1, <2>3, FailureSound
  <2>5. linked' \in 0 .. Len(compiler'.jumps)
    BY <1>2, <2>2, CompilerTypes
  <2>6. TypeOK'
    BY <1>1, <1>2, <1>3, <1>6, <1>7, <2>1, <2>2, <2>3, <2>5, NextTypes DEF TypeOK
  <2> QED
    BY <2>2, <2>4, <2>6 DEF JInv, Ended
<1> QED
  BY <1>8, <1>9

(* A program that lost nothing, with every jump linked, can be run. *)
LEMMA LinkedWellFormed ==
  ASSUME NEW c, Body(c, Len(c.jumps)), c.loop_stack = <<>>, NEW exit, NEW offsets,
         Footer(c, exit, offsets), ~Lost(c)
  PROVE  WellFormed(c.code)
<1>1. /\ c \in Compilers /\ Tiled(c) /\ Headed(c) /\ Loops(c) /\ Calls(c, Len(c.jumps))
      /\ Linked(c.code, offsets) /\ Stubs(c, exit, offsets)
      /\ exit \in DOMAIN c.code /\ c.code[exit].op = "exit"
      /\ \A h \in Heads : FlowsTo(c, h)
  BY DEF Body, Footer
<1>2. DOMAIN c.code \subseteq Nat /\ \A o \in DOMAIN c.code : IsGroup(c.code[o])
  BY <1>1, CompilerTypes
<1>3. ASSUME NEW o \in DOMAIN c.code, c.code[o].op \notin Leaves
      PROVE  End(c.code, o) \in DOMAIN c.code /\ Follows(c.code[o], c.code[End(c.code, o)])
  <2> DEFINE h == [op |-> "header", n |-> 0]
  <2>1. h \in Heads /\ h.op = "header"
    BY DEF Heads, GroupOp, GroupSize
  <2> HIDE DEF h
  <2>2. Follows(c.code[o], IF End(c.code, o) = c.dst.size THEN h ELSE c.code[End(c.code, o)])
    BY <1>1, <1>3, <2>1 DEF FlowsTo
  <2>3. ~Follows(c.code[o], h)
    BY <2>1 DEF Follows, Opening
  <2>4. End(c.code, o) # c.dst.size
    BY <2>2, <2>3
  <2> QED
    BY <1>1, <2>2, <2>4, EndFacts
<1>4. ASSUME NEW o \in DOMAIN c.code, c.code[o].op \in {"jz", "jnz"}
      PROVE  c.code[o].to \in DOMAIN c.code /\ c.code[c.code[o].to].op \in Opening
  <2>1. PairedIn(c.code, o)
    BY <1>1, <1>4 DEF Loops
  <2>2. PICK q \in DOMAIN c.code :
          c.code[q].op \in {"jz", "jnz"} /\ c.code[o].to = End(c.code, q)
    BY <2>1 DEF PairedIn
  <2>3. c.code[q].op \notin Leaves
    BY <2>2 DEF Leaves
  <2>4. /\ End(c.code, q) \in DOMAIN c.code
        /\ Follows(c.code[q], c.code[End(c.code, q)])
    BY <1>3, <2>3
  <2>5. c.code[End(c.code, q)].op \in Opening
    BY <2>2, <2>4 DEF Follows
  <2> QED
    BY <2>2, <2>4, <2>5
<1>5. ASSUME NEW o \in DOMAIN c.code, c.code[o].op \in DOMAIN StubOf
      PROVE  /\ c.code[o].to \in DOMAIN c.code
             /\ c.code[c.code[o].to].op = StubOf[c.code[o].op]
  <2> DEFINE n == Len(c.jumps)
  <2>1. n \in Nat /\ StubOf[c.code[o].op] \in Stub
    BY <1>1, <1>5, CompilerTypes DEF StubOf, Stub
  <2>2. CallsStub(c.code, o) => \E i \in n + 1 .. n : c.jumps[i] = CallAt(c.code, o)
    BY <1>1 DEF Calls
  <2> HIDE DEF n
  <2>3. ~CallsStub(c.code, o)
    BY <2>1, <2>2
  <2>4. c.code[o].to # 0 /\ c.code[o].to = offsets[StubOf[c.code[o].op]]
    BY <1>1, <1>5, <2>3 DEF CallsStub, Linked, NOWHERE
  <2> QED
    BY <1>1, <2>1, <2>4 DEF Stubs
<1>6. ASSUME NEW o \in DOMAIN c.code, c.code[o].op \in {"oob", "io", "ferror", "eof"}
      PROVE  c.code[o].to \in DOMAIN c.code /\ c.code[c.code[o].to].op = "exit"
  BY <1>1, <1>6 DEF Stubs
<1>7. \A o \in DOMAIN c.code : LeadsRight(c.code, o)
  BY <1>3, <1>4, <1>5, <1>6 DEF LeadsRight
<1> QED
  BY <1>1, <1>2, <1>7 DEF WellFormed, Headed

(* Lost or not, a program with every jump linked is right up to its exit.  *)
LEMMA LinkedUpToExit ==
  ASSUME NEW c, Body(c, Len(c.jumps)), c.loop_stack = <<>>, NEW exit, NEW offsets,
         Footer(c, exit, offsets)
  PROVE  /\ {0, exit} \subseteq DOMAIN c.code
         /\ \A o \in DOMAIN c.code :
              LET g == c.code[o]
              IN  /\ g.op = "header" <=> o = 0
                  /\ g.op = "exit" <=> o = exit
                  /\ g.op \in StubGroups <=> o > exit
                  /\ o < exit => End(c.code, o) \in DOMAIN c.code
                                 /\ Follows(g, c.code[End(c.code, o)])
                  /\ g.op \in {"jz", "jnz"} =>
                       g.to \in DOMAIN c.code /\ c.code[g.to].op \in Opening
                  /\ g.op \in DOMAIN StubOf => g.to > exit
                  /\ g.op \in {"oob", "io", "ferror", "eof"} => g.to = exit
<1>1. /\ c \in Compilers /\ Tiled(c) /\ Headed(c) /\ Loops(c) /\ Calls(c, Len(c.jumps))
      /\ Linked(c.code, offsets) /\ Spine(c.code, exit)
      /\ exit \in DOMAIN c.code /\ c.code[exit].op = "exit"
      /\ \A s \in Stub : offsets[s] # 0 => exit < offsets[s]
  BY DEF Body, Footer
<1>2. {0, exit} \subseteq DOMAIN c.code
      /\ \A o \in DOMAIN c.code : c.code[o].op = "header" <=> o = 0
  BY <1>1 DEF Headed
<1>3. \A o \in DOMAIN c.code :
        /\ c.code[o].op = "exit" <=> o = exit
        /\ c.code[o].op \in StubGroups <=> o > exit
        /\ o < exit => End(c.code, o) \in DOMAIN c.code
                       /\ Follows(c.code[o], c.code[End(c.code, o)])
        /\ c.code[o].op \in {"oob", "io", "ferror", "eof"} => c.code[o].to = exit
  BY <1>1 DEF Spine
<1>4. ASSUME NEW o \in DOMAIN c.code, c.code[o].op \in {"jz", "jnz"}
      PROVE  c.code[o].to \in DOMAIN c.code /\ c.code[c.code[o].to].op \in Opening
  <2>1. PairedIn(c.code, o)
    BY <1>1, <1>4 DEF Loops
  <2>2. PICK q \in DOMAIN c.code :
          c.code[q].op \in {"jz", "jnz"} /\ c.code[o].to = End(c.code, q)
    BY <2>1 DEF PairedIn
  <2>3. q \in Nat /\ exit \in Nat
    BY <1>1, EndFacts
  <2>4. q < exit
    BY <1>3, <2>2, <2>3 DEF StubGroups
  <2> QED
    BY <1>3, <2>2, <2>4 DEF Follows
<1>5. ASSUME NEW o \in DOMAIN c.code, c.code[o].op \in DOMAIN StubOf
      PROVE  c.code[o].to > exit
  <2> DEFINE n == Len(c.jumps)
  <2>1. n \in Nat /\ StubOf[c.code[o].op] \in Stub
    BY <1>1, <1>5, CompilerTypes DEF StubOf, Stub
  <2>2. CallsStub(c.code, o) => \E i \in n + 1 .. n : c.jumps[i] = CallAt(c.code, o)
    BY <1>1 DEF Calls
  <2> HIDE DEF n
  <2>3. ~CallsStub(c.code, o)
    BY <2>1, <2>2
  <2>4. c.code[o].to # 0 /\ c.code[o].to = offsets[StubOf[c.code[o].op]]
    BY <1>1, <1>5, <2>3 DEF CallsStub, Linked, NOWHERE
  <2> QED
    BY <1>1, <2>1, <2>4
<1> QED
  BY <1>2, <1>3, <1>4, <1>5

LEMMA EndFooterJInv == JInv /\ EndFooter => JInv'
<1> SUFFICES ASSUME JInv, EndFooter PROVE JInv'
  OBVIOUS
<1>1. /\ outcome = "LINKING" /\ linked = Len(compiler.jumps) /\ TypeOK
      /\ compiler \in Compilers /\ Body(compiler, Len(compiler.jumps))
      /\ compiler.loop_stack = <<>>
      /\ Footer(compiler, exit_offset, jump_target_offsets)
  BY DEF JInv, EndFooter
<1>2. /\ compiler' = Closed(compiler) /\ outcome' = "SUCCESS"
      /\ last_token' = compiler.token /\ source' = source
      /\ exit_offset' = exit_offset /\ linked' = linked
      /\ jump_target_offsets' = jump_target_offsets
  BY DEF EndFooter, Closed, footer_vars
<1>3. /\ compiler' \in Compilers /\ compiler'.code = compiler.code
      /\ compiler'.dst = compiler.dst /\ compiler'.jumps = compiler.jumps
      /\ compiler'.jumps_buf = Freed /\ compiler'.loop_buf = Freed
      /\ compiler.token \in Nat
  BY <1>1, <1>2, ClosedFacts, CompilerFacts
<1>4. TypeOK'
  <2>1. linked' \in 0 .. Len(compiler'.jumps)
    BY <1>1, <1>2, <1>3 DEF TypeOK
  <2>2. "SUCCESS" \in NbajhError
    BY DEF NbajhError
  <2> QED
    BY <1>1, <1>2, <1>3, <2>1, <2>2, NextTypes DEF TypeOK
<1>5. Ended' /\ BuffersSound'
  BY <1>2, <1>3 DEF Ended, BuffersSound
<1>6. ~Lost(compiler) => WellFormed(compiler.code)
  BY <1>1, LinkedWellFormed
<1>7. SuccessIsComplete'
  BY <1>2, <1>3, <1>6 DEF SuccessIsComplete, Lost, code
<1>9. CompleteUpToExit'
  <2>1. code' = compiler.code
    BY <1>3 DEF code
  <2> QED
    BY <1>1, <1>2, <2>1, LinkedUpToExit DEF CompleteUpToExit, StubGroups
<1>8. LoopsPaired'
  <2>1. ASSUME NEW o \in DOMAIN compiler.code, compiler.code[o].op \in {"jz", "jnz"}
        PROVE  PairedIn(compiler.code, o)
    BY <1>1, <2>1 DEF Body, Loops
  <2>2. code' = compiler.code
    BY <1>3 DEF code
  <2> QED
    BY <2>1, <2>2 DEF LoopsPaired, PairedIn
<1> QED
  BY <1>2, <1>3, <1>4, <1>5, <1>7, <1>8, <1>9 DEF JInv

LEMMA NextJInv == JInv /\ [Next]_vars => JInv'
<1> SUFFICES ASSUME JInv, [Next]_vars PROVE JInv'
  OBVIOUS
<1>1. CASE UNCHANGED vars
  BY <1>1
  DEF JInv, vars, TypeOK, code, Ended, LoopsPaired, SuccessIsComplete, CompleteUpToExit,
      BuffersSound, Open
<1>2. CASE CompilerInit
  BY <1>2, CompilerInitJInv
<1>3. CASE EmitHeader \/ EmitToken
  BY <1>3, EmitJInv
<1>4. CASE BeginFooter
  BY <1>4, BeginFooterJInv
<1>5. CASE LinkJump
  BY <1>5, LinkJumpJInv
<1>6. CASE EndFooter
  BY <1>6, EndFooterJInv
<1> QED
  BY <1>1, <1>2, <1>3, <1>4, <1>5, <1>6 DEF Next, EmitToken

-----------------------------------------------------------------------------
(* What the inductive invariant says of the properties. *)

LEMMA InitInvariant == Spec => []JInv
BY InitJInv, NextJInv, PTL DEF Spec

(* The table of jumps has an entry for each displacement, and just one. *)
LEMMA PendingCount ==
  ASSUME NEW c \in Compilers, NEW k \in 0 .. Len(c.jumps), Calls(c, k)
  PROVE  Cardinality({c.jumps[i] : i \in k + 1 .. Len(c.jumps)}) = Len(c.jumps) - k
<1> DEFINE n == Len(c.jumps)
           S == k + 1 .. n
           T == {c.jumps[i] : i \in S}
           f == [i \in S |-> c.jumps[i]]
<1>1. n \in Nat /\ c.jumps \in Seq(Jump)
  BY CompilerFacts, CompilerTypes
<1>2. \A i \in S : c.jumps[i] \in Jump /\ c.jumps[i].from \in Nat
  <2>1. DOMAIN c.jumps = 1 .. n
    BY <1>1
  <2> HIDE DEF n
  <2>2. \A i \in S : i \in 1 .. n
    BY <1>1
  <2>3. \A i \in 1 .. n : c.jumps[i] \in Jump
    BY <1>1, <2>1
  <2> QED
    BY <2>2, <2>3 DEF Jump
<1>3. \A i, j \in S : i < j => c.jumps[i].from < c.jumps[j].from
  BY DEF Calls
<1>4. k \in Nat /\ k <= n
  BY <1>1
<1> HIDE DEF n
<1>5. \A i, j \in S : c.jumps[i] = c.jumps[j] => i = j
  <2>1. SUFFICES ASSUME NEW i \in S, NEW j \in S, c.jumps[i] = c.jumps[j], i # j
                 PROVE  FALSE
    OBVIOUS
  <2>2. i < j \/ j < i
    BY <1>1, <1>4, <2>1
  <2>3. c.jumps[i].from < c.jumps[j].from \/ c.jumps[j].from < c.jumps[i].from
    BY <1>3, <2>2
  <2> QED
    BY <1>2, <2>1, <2>3
<1>6. IsFiniteSet(S) /\ Cardinality(S) = n - k
  <2>1. k + 1 \in Int /\ n \in Int
    BY <1>1, <1>4
  <2>2. IsFiniteSet(k + 1 .. n)
        /\ Cardinality(k + 1 .. n) = IF k + 1 > n THEN 0 ELSE n - (k + 1) + 1
    BY <2>1, FS_Interval
  <2> QED
    BY <1>1, <1>4, <2>2
<1> HIDE DEF S
<1>7. f \in Bijection(S, T)
  BY <1>5 DEF Bijection, Injection, Surjection, IsInjective
<1> HIDE DEF f, T
<1>8. ExistsBijection(S, T)
  BY <1>7 DEF ExistsBijection
<1>9. Cardinality(T) = n - k
  BY <1>6, <1>8, FS_Bijection
<1> QED
  BY <1>9 DEF T, S, n

LEMMA Remembered == JInv => DisplacementsRemembered
<1> SUFFICES ASSUME JInv, outcome \in {"RUNNING", "LINKING"}
             PROVE  /\ {End(code, o) : o \in Open({"jz"})} =
                         {compiler.loop_stack[k] : k \in DOMAIN compiler.loop_stack}
                    /\ Open({"jnz"}) = {}
                    /\ Pending = {[from |-> End(code, o), to |-> StubOf[code[o].op]] :
                                    o \in Open(DOMAIN StubOf)}
                    /\ Cardinality(Pending) = Len(compiler.jumps) - linked
  BY DEF DisplacementsRemembered
<1>1. /\ Body(compiler, linked) /\ linked \in 0 .. Len(compiler.jumps)
      /\ compiler \in Compilers
  BY DEF JInv, Between, TypeOK
<1> DEFINE c == compiler
           p == compiler.code
<1>2. /\ c \in Compilers /\ Tiled(c) /\ Loops(c) /\ Calls(c, linked) /\ code = p
  BY <1>1 DEF Body, code
<1>3. \A o \in DOMAIN p : ~(PairedIn(p, o) /\ p[o].to = NOWHERE)
  <2>1. SUFFICES ASSUME NEW o \in DOMAIN p, PairedIn(p, o), p[o].to = NOWHERE
                 PROVE  FALSE
    OBVIOUS
  <2>2. PICK q \in DOMAIN p : p[o].to = End(p, q)
    BY <2>1 DEF PairedIn
  <2>3. q \in Nat /\ End(p, q) \in Nat /\ q < End(p, q)
    BY <1>2, EndFacts
  <2> QED
    BY <2>1, <2>2, <2>3 DEF NOWHERE
<1>4. \A ops, o : o \in Open(ops) <=> o \in DOMAIN p /\ p[o].op \in ops /\ p[o].to = NOWHERE
  BY <1>2 DEF Open
<1> HIDE DEF c, p
<1>5. \A o \in DOMAIN p : p[o].op \in {"jz", "jnz"} /\ p[o].to = NOWHERE =>
        /\ p[o].op = "jz"
        /\ \E k \in DOMAIN c.loop_stack : c.loop_stack[k] = End(p, o)
  BY <1>2, <1>3 DEF Loops, OpensLoop, c, p
<1>6. {End(code, o) : o \in Open({"jz"})} = {c.loop_stack[k] : k \in DOMAIN c.loop_stack}
  <2>1. ASSUME NEW o \in Open({"jz"})
        PROVE  \E k \in DOMAIN c.loop_stack : End(code, o) = c.loop_stack[k]
    BY <1>2, <1>4, <1>5
  <2>2. ASSUME NEW k \in DOMAIN c.loop_stack
        PROVE  \E o \in Open({"jz"}) : End(code, o) = c.loop_stack[k]
    <3>1. PICK o \in DOMAIN p : OpensLoop(p, o) /\ c.loop_stack[k] = End(p, o)
      BY <1>2 DEF Loops, c, p
    <3> QED
      BY <1>2, <1>4, <3>1 DEF OpensLoop
  <2> QED
    BY <2>1, <2>2
<1>7. Open({"jnz"}) = {}
  BY <1>4, <1>5
<1>8. Pending = {[from |-> End(code, o), to |-> StubOf[code[o].op]] : o \in Open(DOMAIN StubOf)}
  <2>1. \A o : o \in Open(DOMAIN StubOf) <=> o \in DOMAIN p /\ CallsStub(p, o)
    BY <1>4 DEF CallsStub
  <2>2. \A o : CallAt(p, o) = [from |-> End(code, o), to |-> StubOf[code[o].op]]
    BY <1>2 DEF CallAt
  <2>3. Pending = {c.jumps[i] : i \in linked + 1 .. Len(c.jumps)}
    BY DEF Pending, c
  <2> DEFINE S == linked + 1 .. Len(c.jumps)
  <2>4. /\ \A o \in DOMAIN p : CallsStub(p, o) => \E i \in S : c.jumps[i] = CallAt(p, o)
        /\ \A i \in S : \E o \in DOMAIN p : CallsStub(p, o) /\ c.jumps[i] = CallAt(p, o)
    BY <1>2 DEF Calls, c, p
  <2> HIDE DEF S
  <2>5. {c.jumps[i] : i \in S} = {CallAt(p, o) : o \in Open(DOMAIN StubOf)}
    BY <2>1, <2>4
  <2> QED
    BY <2>2, <2>3, <2>5 DEF S
<1>9. Cardinality(Pending) = Len(c.jumps) - linked
  BY <1>1, <1>2, PendingCount DEF Pending, c
<1> QED
  BY <1>6, <1>7, <1>8, <1>9 DEF c

LEMMA Paired == JInv => LoopsPaired
<1> SUFFICES ASSUME JInv, ~Ended,
                    NEW o \in DOMAIN code \ Open({"jz"}), code[o].op \in {"jz", "jnz"}
             PROVE  PairedIn(code, o)
  BY DEF JInv, LoopsPaired, PairedIn
<1>1. CASE outcome \in {"READY", "HEADER"}
  BY <1>1 DEF JInv, Untouched, code
<1>2. CASE outcome \in {"RUNNING", "LINKING"}
  <2>1. Loops(compiler)
    BY <1>2 DEF JInv, Between, Body
  <2>2. ~OpensLoop(code, o)
    BY DEF OpensLoop, Open
  <2> QED
    BY <2>1, <2>2 DEF Loops, code
<1> QED
  BY <1>1, <1>2 DEF Ended

(***************************************************************************)
(* No displacement of the machine code is forgotten and none is claimed    *)
(* twice, however many the source asks for.                                *)
(***************************************************************************)
THEOREM NoDisplacementForgotten == Spec => []DisplacementsRemembered
BY InitInvariant, Remembered, PTL

(***************************************************************************)
(* The compiler's variables keep their types: in particular the table of   *)
(* jumps names stubs only, and linking never passes its end.               *)
(***************************************************************************)
THEOREM TypeCorrect == Spec => []TypeOK
<1>1. JInv => TypeOK
  BY DEF JInv
<1> QED
  BY <1>1, InitInvariant, PTL

(***************************************************************************)
(* Both ends of every loop that is closed lead just behind the other end,  *)
(* for any nesting of any length.                                          *)
(***************************************************************************)
THEOREM LoopsArePaired == Spec => []LoopsPaired
BY InitInvariant, Paired, PTL

(***************************************************************************)
(* Machine code handed out with success is what the theorems of            *)
(* JitVM_proofs suppose of the code they run, unless memory could not be   *)
(* had for a part of it.                                                   *)
(***************************************************************************)
THEOREM CompleteOnSuccess == Spec => []SuccessIsComplete
<1>1. JInv => SuccessIsComplete
  BY DEF JInv, SuccessIsComplete, Ended
<1> QED
  BY <1>1, InitInvariant, PTL

(***************************************************************************)
(* Nor is there a way out of a program with a lost stub but through its    *)
(* footer: up to the exit it is complete, and stubs that are there return  *)
(* to the exit.                                                            *)
(***************************************************************************)
THEOREM CompleteToTheExit == Spec => []CompleteUpToExit
<1>1. JInv => CompleteUpToExit
  BY DEF JInv, CompleteUpToExit, Ended
<1> QED
  BY <1>1, InitInvariant, PTL

(***************************************************************************)
(* The table of jumps and the loop stack are inside their storage while    *)
(* they are used, and given back on every way out behind their init.       *)
(***************************************************************************)
THEOREM StacksAreSound == Spec => []BuffersSound
<1>1. JInv => BuffersSound
  BY DEF JInv, BuffersSound, Ended, Between, StacksHonest, Honest, InStorage
<1> QED
  BY <1>1, InitInvariant, PTL

-----------------------------------------------------------------------------
(* The verdict. *)

(* A call of emit that has read up to p keeps it, if what may be wrong is. *)
LEMMA ReturnsVInv ==
  ASSUME NEW r, NEW p, NEW depth, Emitted(r, p, depth), Returns(r, "RUNNING"),
         r.error = "SUCCESS" => Scanned(source, p, depth),
         \/ r.error \in WriteError \cup Fatal
         \/ IsVerdict(source, r.c.token, r.error)
  PROVE  VInv'
<1>1. CASE r.error = "SUCCESS"
  <2>1. /\ compiler' = r.c /\ outcome' = "RUNNING" /\ source' = source
        /\ r.c.token = p /\ Len(r.c.loop_stack) = depth /\ Scanned(source, p, depth)
    BY <1>1 DEF Returns, Emitted
  <2> QED
    BY <2>1 DEF VInv, Reading, VerdictIsFirstFault, Ended
<1>2. CASE r.error # "SUCCESS"
  <2>1. /\ compiler' = Closed(r.c) /\ outcome' = r.error /\ last_token' = r.c.token
        /\ source' = source /\ r.c \in Compilers
        /\ outcome' \in NbajhError \cup {"UNDEFINED"}
        /\ r.error = "JUMP_TOO_LARGE" => r.c.dst.size > INT32_MAX
    BY <1>2 DEF Returns, Emitted, Closed
  <2>2. compiler'.dst = r.c.dst
    BY <2>1, ClosedFacts
  <2>3. outcome' \notin {"READY", "HEADER", "RUNNING", "LINKING"}
    BY <2>1 DEF NbajhError, CompilerErrors, RunErrors
  <2>4. \/ outcome' \in {"MALLOC", "UNDEFINED"}
        \/ outcome' = "JUMP_TOO_LARGE" /\ compiler'.dst.size > INT32_MAX
        \/ IsVerdict(source', last_token', outcome')
    BY <1>2, <2>1, <2>2 DEF WriteError, Fatal
  <2> QED
    BY <2>3, <2>4 DEF VInv, Reading, VerdictIsFirstFault, Ended
<1> QED
  BY <1>1, <1>2

LEMMA EmitVInv == JInv /\ VInv /\ (EmitHeader \/ EmitToken) => VInv'
<1> SUFFICES ASSUME JInv, VInv, EmitHeader \/ EmitToken PROVE VInv'
  OBVIOUS
<1>1. TypeOK /\ IsSource(source) /\ compiler \in Compilers
  BY JitAssumption DEF JInv, TypeOK, JitAssumption, IsSource
<1>2. CASE EmitHeader
  <2>1. compiler.token = 1 /\ Scanned(source, 1, 0)
    BY <1>1, <1>2, ScanStart DEF VInv, Reading, EmitHeader
  <2>2. PICK r : /\ Returns(r, "RUNNING")
                 /\ Emitted(r, compiler.token, 0) /\ r.error \in WriteError
    BY <1>2, EmitHead
  <2> QED
    BY <2>1, <2>2, ReturnsVInv
<1> DEFINE p     == compiler.token
           depth == Len(compiler.loop_stack)
<1>3. CASE EmitToken
  <2>1. outcome = "RUNNING"
    BY <1>3 DEF EmitToken, EmitAdditiveP, EmitAdditiveV, EmitWrite, EmitRead, EmitDebug,
                BeginLoop, EndLoop, InvalidToken, Emit
  <2>2. Between(compiler) /\ Scanned(source, p, depth)
    BY <2>1 DEF JInv, VInv, Reading
  <2>3. CASE EmitAdditiveP
    <3> DEFINE n == RunLength(compiler)
    <3>1. PICK r : /\ Returns(r, "RUNNING") /\ Emitted(r, p + n, depth)
                   /\ p \in 1 .. Len(source) /\ TokenAt(source, p) \in Moves
                   /\ \/ n <= UINT16_MAX /\ r.error \in WriteError
                      \/ /\ n > UINT16_MAX
                         /\ r.error = "DP_OUT_OF_BOUNDS" /\ r.c.token = p + UINT16_MAX
      BY <1>1, <2>2, <2>3, EmitMoves
    <3>2. n \in Nat \ {0} /\ IsRun(source, p, n)
      BY <1>1, <3>1, RunLengthFacts
    <3> HIDE DEF n, p, depth
    <3>3. CASE n <= UINT16_MAX /\ r.error \in WriteError
      <4>1. Scanned(source, p + n, depth)
        BY <1>1, <2>2, <3>1, <3>2, <3>3, ScanRun
      <4> QED
        BY <3>1, <3>3, <4>1, ReturnsVInv
    <3>4. CASE n > UINT16_MAX /\ r.error = "DP_OUT_OF_BOUNDS" /\ r.c.token = p + UINT16_MAX
      <4>1. IsVerdict(source, p + UINT16_MAX, "DP_OUT_OF_BOUNDS")
        BY <1>1, <2>2, <3>1, <3>2, <3>4, ScanOverrun
      <4> QED
        BY <3>1, <3>4, <4>1, ReturnsVInv
    <3> QED
      BY <3>1, <3>3, <3>4
  <2>4. CASE EmitAdditiveV
    <3> DEFINE n == RunLength(compiler)
    <3>1. PICK r : /\ Returns(r, "RUNNING") /\ Emitted(r, p + n, depth)
                   /\ p \in 1 .. Len(source) /\ TokenAt(source, p) \in Adds
                   /\ r.error \in WriteError
      BY <1>1, <2>2, <2>4, EmitAdds
    <3>2. n \in Nat \ {0} /\ IsRun(source, p, n)
      BY <1>1, <3>1, RunLengthFacts
    <3> HIDE DEF n, p, depth
    <3>3. TokenAt(source, p) \notin Moves
      BY <3>1 DEF Adds, Moves
    <3>4. Scanned(source, p + n, depth)
      BY <1>1, <2>2, <3>1, <3>2, <3>3, ScanRun
    <3> QED
      BY <3>1, <3>4, ReturnsVInv
  <2>5. CASE EmitWrite \/ EmitRead \/ EmitDebug
    <3>1. PICK r : /\ Returns(r, "RUNNING") /\ Emitted(r, p + 1, depth)
                   /\ TokenAt(source, p) \in Effects /\ r.error \in WriteError
      BY <2>2, <2>5, EmitEffects
    <3> HIDE DEF p, depth
    <3>2. Scanned(source, p + 1, depth)
      BY <1>1, <2>2, <3>1, ScanEffect
    <3> QED
      BY <3>1, <3>2, ReturnsVInv
  <2>6. CASE BeginLoop
    <3>1. PICK r : /\ Returns(r, "RUNNING") /\ Emitted(r, p + 1, depth + 1)
                   /\ TokenAt(source, p) = "a" /\ r.error \in WriteError
      BY <2>2, <2>6, EmitLoopStart
    <3> HIDE DEF p, depth
    <3>2. Scanned(source, p + 1, depth + 1)
      BY <1>1, <2>2, <3>1, ScanOpen
    <3> QED
      BY <3>1, <3>2, ReturnsVInv
  <2>7. CASE EndLoop
    <3>1. PICK r : /\ Returns(r, "RUNNING") /\ Emitted(r, p + 1, depth - 1)
                   /\ TokenAt(source, p) = "jet2"
                   /\ \/ compiler.loop_stack # <<>> /\ r.error \in WriteError \cup Fatal
                      \/ /\ compiler.loop_stack = <<>>
                         /\ r.error = "UNEXPECTED_LOOP_END" /\ r.c.token = p
      BY <2>2, <2>7, EmitLoopEnd
    <3>2. compiler.loop_stack \in Seq(Nat)
      BY <1>1, CompilerFacts
    <3>3. /\ compiler.loop_stack # <<>> => depth \in Nat \ {0}
          /\ compiler.loop_stack = <<>> => depth = 0
      BY <3>2, EmptySeq, LenProperties
    <3> HIDE DEF p, depth
    <3>4. CASE compiler.loop_stack # <<>> /\ r.error \in WriteError \cup Fatal
      <4>1. Scanned(source, p + 1, depth - 1)
        BY <1>1, <2>2, <3>1, <3>3, <3>4, ScanClose
      <4> QED
        BY <3>1, <3>4, <4>1, ReturnsVInv
    <3>5. CASE compiler.loop_stack = <<>> /\ r.error = "UNEXPECTED_LOOP_END" /\ r.c.token = p
      <4>1. IsVerdict(source, p, "UNEXPECTED_LOOP_END")
        BY <1>1, <2>2, <3>1, <3>3, <3>5, ScanClose
      <4> QED
        BY <3>1, <3>5, <4>1, ReturnsVInv
    <3> QED
      BY <3>1, <3>4, <3>5
  <2>8. CASE InvalidToken
    <3>1. PICK r : /\ Returns(r, "RUNNING") /\ Emitted(r, p, depth)
                   /\ TokenAt(source, p) = "INVALID"
                   /\ r.error = "INVALID_TOKEN" /\ r.c.token = p
      BY <2>2, <2>8, EmitInvalid
    <3> HIDE DEF p, depth
    <3>2. IsVerdict(source, p, "INVALID_TOKEN")
      BY <2>2, <3>1, ScanInvalid
    <3> QED
      BY <3>1, <3>2, ReturnsVInv
  <2> QED
    BY <1>3, <2>3, <2>4, <2>5, <2>6, <2>7, <2>8 DEF EmitToken
<1> QED
  BY <1>2, <1>3

LEMMA BeginFooterVInv == JInv /\ VInv /\ BeginFooter => VInv'
<1> SUFFICES ASSUME JInv, VInv, BeginFooter PROVE VInv'
  OBVIOUS
<1> DEFINE p     == compiler.token
           depth == Len(compiler.loop_stack)
<1>1. /\ IsSource(source) /\ compiler \in Compilers /\ Between(compiler)
      /\ Scanned(source, p, depth) /\ TokenAt(source, p) = "EOF"
  BY JitAssumption DEF JInv, TypeOK, JitAssumption, IsSource, VInv, Reading, BeginFooter
<1>2. compiler.loop_stack \in Seq(Nat) /\ depth \in Nat
  BY <1>1, CompilerFacts, LenProperties
<1>3. /\ compiler.loop_stack # <<>> => IsVerdict(source, p, "UNCLOSED_LOOPS")
      /\ compiler.loop_stack = <<>> => IsVerdict(source, p, "SUCCESS")
  <2>1. /\ compiler.loop_stack # <<>> => depth # 0
        /\ compiler.loop_stack = <<>> => depth = 0
    BY <1>2
  <2> HIDE DEF p, depth
  <2> QED
    BY <1>1, <1>2, <2>1, ScanEnd
<1>4. CASE Unclosed
  <2>1. Returns(Result(compiler, "UNCLOSED_LOOPS"), "LINKING")
    BY <1>4 DEF BeginFooter
  <2>2. outcome' = "UNCLOSED_LOOPS" /\ last_token' = p /\ source' = source
    BY <2>1 DEF Returns, Result
  <2> QED
    BY <1>3, <1>4, <2>2 DEF VInv, Reading, VerdictIsFirstFault, Unclosed
<1>5. CASE ~Unclosed
  <2>1. PICK r \in Then(WriteGroup(compiler, "success", 0),
                        LAMBDA d : WriteGroup(d, "exit", 0)) : Returns(r, "LINKING")
    BY <1>5 DEF BeginFooter
  <2>2. r.error \in WriteError /\ r.c.token = p
    BY <1>1, <2>1, FooterBegun DEF OtherFieldsSame
  <2>3. CASE r.error = "SUCCESS"
    <3>1. compiler' = r.c /\ outcome' = "LINKING" /\ source' = source
      BY <2>1, <2>3 DEF Returns
    <3> QED
      BY <1>3, <1>5, <2>2, <3>1 DEF VInv, Reading, VerdictIsFirstFault, Unclosed, Ended
  <2>4. CASE r.error # "SUCCESS"
    <3>1. outcome' \in {"MALLOC", "UNDEFINED"}
      BY <2>1, <2>2, <2>4 DEF Returns, WriteError
    <3> QED
      BY <3>1 DEF VInv, Reading, VerdictIsFirstFault
  <2> QED
    BY <2>3, <2>4
<1> QED
  BY <1>4, <1>5

LEMMA LinkJumpVInv == JInv /\ VInv /\ LinkJump => VInv'
<1> SUFFICES ASSUME JInv, VInv, LinkJump PROVE VInv'
  OBVIOUS
<1>1. PICK r : /\ Returns(r, "LINKING") /\ r.c \in Compilers
               /\ OtherFieldsSame(compiler, r.c)
               /\ \/ r.error = "UNDEFINED"
                  \/ r.error = "SUCCESS"
                  \/ r.error = "JUMP_TOO_LARGE" /\ r.c.dst.size > INT32_MAX
  BY LinkJumpCases
<1>2. IsVerdict(source, compiler.token, "SUCCESS") /\ r.c.token = compiler.token
      /\ source' = source
  BY <1>1 DEF VInv, Reading, LinkJump, OtherFieldsSame, Returns
<1>3. CASE r.error = "SUCCESS"
  <2>1. compiler' = r.c /\ outcome' = "LINKING"
    BY <1>1, <1>3 DEF Returns
  <2> QED
    BY <1>2, <2>1 DEF VInv, Reading, VerdictIsFirstFault, Ended
<1>4. CASE r.error # "SUCCESS"
  <2>1. compiler' = Closed(r.c) /\ outcome' = r.error
    BY <1>1, <1>4 DEF Returns, Closed
  <2>2. compiler'.dst = r.c.dst
    BY <1>1, <2>1, ClosedFacts
  <2> QED
    BY <1>1, <1>4, <2>1, <2>2 DEF VInv, Reading, VerdictIsFirstFault
<1> QED
  BY <1>3, <1>4

LEMMA NextVInv == JInv /\ VInv /\ [Next]_vars => VInv'
<1> SUFFICES ASSUME JInv, VInv, [Next]_vars PROVE VInv'
  OBVIOUS
<1>1. CASE UNCHANGED vars
  BY <1>1 DEF VInv, Reading, VerdictIsFirstFault, Ended, vars
<1>2. CASE CompilerInit
  <2>1. compiler \in Compilers
    BY DEF JInv
  <2>2. \/ outcome' = "HEADER" /\ compiler'.token = 1
        \/ outcome' = "MALLOC"
    BY <1>2, <2>1 DEF CompilerInit, Compilers
  <2> QED
    BY <2>2 DEF VInv, Reading, VerdictIsFirstFault, Ended
<1>3. CASE EndFooter
  BY <1>3 DEF EndFooter, VInv, Reading, VerdictIsFirstFault, Ended
<1> QED
  BY <1>1, <1>2, <1>3, EmitVInv, BeginFooterVInv, LinkJumpVInv DEF Next, EmitToken

-----------------------------------------------------------------------------
(* What a step does to the length of the program: behind an emit it is     *)
(* longer, but for a run of additions that wraps to nothing.               *)

Passed(p, q) == \A k \in p .. q - 1 : source[k] \in Adds

LEMMA EmitGrows ==
  ASSUME JInv, VInv, EmitHeader \/ EmitToken
  PROVE  \E r :
           /\ Returns(r, "RUNNING")
           /\ r.error \in (NbajhError \cup {"UNDEFINED"}) \ {"UNCLOSED_LOOPS"}
           /\ \/ Grown(r, compiler)
              \/ /\ outcome = "RUNNING"
                 /\ r.error = "SUCCESS" => /\ r.c.dst = compiler.dst
                                           /\ r.c.token >= compiler.token
                                           /\ Passed(compiler.token, r.c.token)
<1>1. TypeOK /\ (outcome = "RUNNING" => Between(compiler)) /\ IsSource(source)
  BY JitAssumption DEF JInv, TypeOK, JitAssumption, IsSource
<1>2. outcome = IF EmitHeader THEN "HEADER" ELSE "RUNNING"
  BY DEF EmitHeader, EmitToken, EmitAdditiveP, EmitAdditiveV, EmitWrite, EmitRead, EmitDebug,
         BeginLoop, EndLoop, InvalidToken, Emit
<1>0. "UNCLOSED_LOOPS" \notin WriteError \cup Fatal
  BY DEF WriteError, Fatal
<1>3. CASE EmitHeader
  BY <1>0, <1>3, EmitHead DEF Emitted
<1>4. CASE EmitAdditiveV /\ ~EmitHeader
  <2>1. PICK r :
           /\ Returns(r, "RUNNING")
           /\ Emitted(r, compiler.token + RunLength(compiler), Len(compiler.loop_stack))
           /\ compiler.token \in 1 .. Len(source)
           /\ TokenAt(source, compiler.token) \in Adds /\ r.error \in WriteError
           /\ Grown(r, compiler) \/ r.c.dst = compiler.dst
    BY <1>1, <1>2, <1>4, EmitAdds
  <2>2. RunLength(compiler) \in Nat \ {0} /\ IsRun(source, compiler.token, RunLength(compiler))
    BY <1>1, <2>1, RunLengthFacts
  <2>3. ASSUME r.error = "SUCCESS"
        PROVE  r.c.token >= compiler.token /\ Passed(compiler.token, r.c.token)
    <3>1. r.c.token = compiler.token + RunLength(compiler)
      BY <2>1, <2>3 DEF Emitted
    <3>2. \A k \in compiler.token .. compiler.token + RunLength(compiler) - 1 :
            TokenAt(source, k) \in Adds
      BY <2>1, <2>2 DEF IsRun
    <3>3. \A t \in Adds : t # "EOF"
      BY DEF Adds
    <3>4. \A k : TokenAt(source, k) \in Adds => source[k] \in Adds
      BY <3>3, Zenon DEF TokenAt
    <3>5. \A k \in compiler.token .. r.c.token - 1 : TokenAt(source, k) \in Adds
      BY <2>1, <2>2, <3>1, <3>2
    <3>6. Passed(compiler.token, r.c.token)
      BY <3>4, <3>5, Zenon DEF Passed
    <3> QED
      BY <2>1, <2>2, <3>1, <3>6
  <2> QED
    BY <1>0, <1>2, <1>4, <2>1, <2>3 DEF Emitted
<1>5. CASE EmitToken /\ ~EmitAdditiveV /\ ~EmitHeader
  <2>1. Between(compiler)
    BY <1>1, <1>2, <1>5
  <2>2. CASE EmitAdditiveP
    BY <1>1, <2>1, <1>0, <2>2, EmitMoves DEF Emitted
  <2>3. CASE EmitWrite \/ EmitRead \/ EmitDebug
    BY <2>1, <1>0, <2>3, EmitEffects DEF Emitted
  <2>4. CASE BeginLoop
    BY <2>1, <1>0, <2>4, EmitLoopStart DEF Emitted
  <2>5. CASE EndLoop
    BY <2>1, <1>0, <2>5, EmitLoopEnd DEF Emitted
  <2>6. CASE InvalidToken
    BY <2>1, <2>6, EmitInvalid DEF Emitted, Grown
  <2> QED
    BY <1>5, <2>2, <2>3, <2>4, <2>5, <2>6 DEF EmitToken
<1> QED
  BY <1>3, <1>4, <1>5 DEF EmitToken

(* How far the program is where the compiler goes on. *)
Progress ==
  /\ UNCHANGED source
  /\ outcome \in {"READY", "HEADER", "RUNNING", "LINKING"}
  /\ outcome' = "UNCLOSED_LOOPS" => outcome = "RUNNING" /\ last_token' = compiler.token
  /\ outcome' \in {"READY", "HEADER"} =>
       outcome = "READY" /\ outcome' = "HEADER" /\ compiler'.dst = compiler.dst
  /\ outcome' = "RUNNING" =>
       /\ outcome \in {"HEADER", "RUNNING"}
       /\ \/ compiler'.dst.size > compiler.dst.size
          \/ /\ outcome = "RUNNING" /\ compiler'.dst = compiler.dst
             /\ compiler'.token >= compiler.token
             /\ Passed(compiler.token, compiler'.token)
  /\ outcome' \in {"LINKING", "SUCCESS"} =>
       \/ /\ outcome' = "LINKING" /\ outcome = "RUNNING" /\ compiler'.token = compiler.token
          /\ TokenAt(source, compiler.token) = "EOF"
          /\ exit_offset' = compiler.dst.size + GroupSize.success
       \/ outcome = "LINKING" /\ UNCHANGED exit_offset

LEMMA StepProgress == JInv /\ VInv /\ Next => Progress
<1> SUFFICES ASSUME JInv, VInv, Next PROVE Progress
  OBVIOUS
<1>1. CASE CompilerInit
  <2>1. compiler \in Compilers
    BY DEF JInv
  <2>2. compiler'.dst = compiler.dst
    BY <1>1, <2>1 DEF CompilerInit, Compilers
  <2> QED
    BY <1>1, <2>2 DEF CompilerInit, Progress
<1>2. CASE EmitHeader \/ EmitToken
  <2>1. PICK r :
           /\ Returns(r, "RUNNING")
           /\ r.error \in (NbajhError \cup {"UNDEFINED"}) \ {"UNCLOSED_LOOPS"}
           /\ \/ Grown(r, compiler)
              \/ /\ outcome = "RUNNING"
                 /\ r.error = "SUCCESS" => /\ r.c.dst = compiler.dst
                                           /\ r.c.token >= compiler.token
                                           /\ Passed(compiler.token, r.c.token)
    BY <1>2, EmitGrows
  <2>2. outcome \in {"HEADER", "RUNNING"}
    BY <1>2 DEF EmitHeader, EmitToken, EmitAdditiveP, EmitAdditiveV, EmitWrite, EmitRead,
                EmitDebug, BeginLoop, EndLoop, InvalidToken, Emit
  <2>3. CASE r.error = "SUCCESS"
    BY <2>1, <2>2, <2>3 DEF Returns, Progress, Grown
  <2>4. CASE r.error # "SUCCESS"
    BY <2>1, <2>2, <2>4 DEF Returns, Progress, NbajhError, CompilerErrors, RunErrors
  <2> QED
    BY <2>3, <2>4
<1>3. CASE BeginFooter
  <2>1. /\ Between(compiler) /\ outcome = "RUNNING"
        /\ TokenAt(source, compiler.token) = "EOF"
        /\ exit_offset' = compiler.dst.size + GroupSize.success
    BY <1>3 DEF BeginFooter, JInv
  <2>2. CASE Unclosed
    <3>1. Returns(Result(compiler, "UNCLOSED_LOOPS"), "LINKING")
      BY <1>3, <2>2 DEF BeginFooter
    <3> QED
      BY <2>1, <3>1 DEF Returns, Result, Progress
  <2>3. CASE ~Unclosed
    <3>1. PICK r \in Then(WriteGroup(compiler, "success", 0),
                          LAMBDA d : WriteGroup(d, "exit", 0)) : Returns(r, "LINKING")
      BY <1>3, <2>3 DEF BeginFooter
    <3>2. r.error \in WriteError /\ r.c.token = compiler.token
      BY <2>1, <3>1, FooterBegun DEF OtherFieldsSame
    <3> QED
      BY <2>1, <3>1, <3>2 DEF Returns, Progress, WriteError
  <2> QED
    BY <2>2, <2>3
<1>4. CASE LinkJump
  <2>1. PICK r : /\ Returns(r, "LINKING")
                 /\ r.error \in {"UNDEFINED", "SUCCESS", "JUMP_TOO_LARGE"}
    BY <1>4, LinkJumpCases
  <2>2. outcome = "LINKING" /\ UNCHANGED exit_offset
    BY <1>4 DEF LinkJump
  <2> QED
    BY <2>1, <2>2 DEF Returns, Progress
<1>5. CASE EndFooter
  BY <1>5 DEF EndFooter, footer_vars, Progress
<1> QED
  BY <1>1, <1>2, <1>3, <1>4, <1>5 DEF Next, EmitToken

-----------------------------------------------------------------------------
(* The pages of the program: what is written is on them as long as nothing *)
(* undefined has happened, and the capacity is never less than they are.   *)

Paged(b) == b \in BufferRecord /\ b.alloc # 0 /\ b.alloc <= b.cap

Holds(c) == "dst" \in DOMAIN c /\ Paged(c.dst) /\ InStorage(c.dst)

Keeps(r) == /\ "dst" \in DOMAIN r.c /\ Paged(r.c.dst)
            /\ r.error # "UNDEFINED" => InStorage(r.c.dst)

LEMMA WriteGroupHolds ==
  ASSUME NEW c, Holds(c), NEW op \in GroupOp, NEW n, NEW r \in WriteGroup(c, op, n)
  PROVE  Keeps(r)
<1> DEFINE m == GroupSize[op]
           b == c.dst
<1>1. m \in Nat \ {0}
  BY SizeFacts
<1>2. /\ b \in BufferRecord /\ b.alloc # 0 /\ b.alloc <= b.cap
      /\ b.size \in Nat /\ b.cap \in Nat \ {0} /\ b.alloc \in Nat /\ InStorage(b)
      /\ b = [size |-> b.size, cap |-> b.cap, alloc |-> b.alloc]
  BY DEF Holds, Paged, BufferRecord
<1>3. PICK w \in Write(b, m) : /\ r.c.dst = w.buf /\ "dst" \in DOMAIN r.c
                               /\ r.error = ErrorOf(w)
  <2>1. PICK w \in Write(c.dst, GroupSize[op]) : \E p :
          r = Result([c EXCEPT !.dst = w.buf, !.code = p], ErrorOf(w))
    BY DEF WriteGroup
  <2>2. PICK p : r = Result([c EXCEPT !.dst = w.buf, !.code = p], ErrorOf(w))
    BY <2>1
  <2>3. r.c = [c EXCEPT !.dst = w.buf, !.code = p] /\ r.error = ErrorOf(w)
    BY <2>2 DEF Result
  <2>4. r.c.dst = w.buf /\ "dst" \in DOMAIN r.c
    BY <2>3 DEF Holds
  <2> QED
    BY <2>3, <2>4
<1> HIDE DEF m, b
<1> DEFINE cap == GrownCap(b.cap, m)
<1>4. cap \in Nat \ {0} /\ cap >= b.cap + m
  BY <1>1, <1>2, GrowthSuffices
<1> HIDE DEF cap
<1>5. \/ w = [buf |-> [b EXCEPT !.size = @ + m], error |-> "SUCCESS"]
      \/ w = [buf |-> [size |-> b.size + m, cap |-> cap, alloc |-> cap],
              error |-> "SUCCESS"]
      \/ w = [buf |-> [b EXCEPT !.cap = cap], error |-> "MALLOC"]
  BY DEF Write, cap
<1>6. CASE w = [buf |-> [b EXCEPT !.size = @ + m], error |-> "SUCCESS"]
  BY <1>1, <1>2, <1>3, <1>6 DEF Keeps, Paged, BufferRecord, ErrorOf
<1>7. CASE w = [buf |-> [size |-> b.size + m, cap |-> cap, alloc |-> cap],
                error |-> "SUCCESS"]
  BY <1>1, <1>2, <1>3, <1>4, <1>7 DEF Keeps, Paged, BufferRecord, ErrorOf
<1>8. CASE w = [buf |-> [b EXCEPT !.cap = cap], error |-> "MALLOC"]
  BY <1>1, <1>2, <1>3, <1>4, <1>8 DEF Keeps, Paged, BufferRecord, ErrorOf, InStorage
<1> QED
  BY <1>5, <1>6, <1>7, <1>8

(* What else the compiler writes is on its own buffers. *)
LEMMA OthersHold ==
  ASSUME NEW c, Holds(c)
  PROVE  /\ \A s : \A r \in RecordJump(c, s) : Keeps(r)
         /\ \A r \in PushLoop(c) : Keeps(r)
         /\ \A from, to, max : \A r \in SetRel(c, from, to, max) : Keeps(r)
         /\ \A n : Holds(Advanced(c, n))
         /\ \A e : Keeps(Result(c, e))
<1>1. ASSUME NEW d, NEW e, DOMAIN d = DOMAIN c, d.dst = c.dst
      PROVE  Keeps(Result(d, e)) /\ Holds(d)
  BY <1>1 DEF Holds, Keeps, Result
<1> USE DEF Holds
<1>2. ASSUME NEW s, NEW r \in RecordJump(c, s) PROVE Keeps(r)
  <2>1. PICK b, q, e : r = Result([c EXCEPT !.jumps_buf = b, !.jumps = q], e)
    BY <1>2 DEF RecordJump
  <2> DEFINE d == [c EXCEPT !.jumps_buf = b, !.jumps = q]
  <2>2. DOMAIN d = DOMAIN c /\ d.dst = c.dst
    OBVIOUS
  <2> HIDE DEF d
  <2>3. Keeps(Result(d, e))
    BY <1>1, <2>2
  <2> QED
    BY <2>1, <2>3 DEF d
<1>3. ASSUME NEW r \in PushLoop(c) PROVE Keeps(r)
  <2>1. PICK b, q, e : r = Result([c EXCEPT !.loop_buf = b, !.loop_stack = q], e)
    BY <1>3 DEF PushLoop
  <2> DEFINE d == [c EXCEPT !.loop_buf = b, !.loop_stack = q]
  <2>2. DOMAIN d = DOMAIN c /\ d.dst = c.dst
    OBVIOUS
  <2> HIDE DEF d
  <2>3. Keeps(Result(d, e))
    BY <1>1, <2>2
  <2> QED
    BY <2>1, <2>3 DEF d
<1>4. ASSUME NEW from, NEW to, NEW max, NEW r \in SetRel(c, from, to, max) PROVE Keeps(r)
  <2>1. PICK p, e : r = Result([c EXCEPT !.code = p], e) \/ r = Result(c, e)
    BY <1>4 DEF SetRel
  <2> DEFINE d == [c EXCEPT !.code = p]
  <2>2. DOMAIN d = DOMAIN c /\ d.dst = c.dst
    OBVIOUS
  <2> HIDE DEF d
  <2>3. Keeps(Result(d, e)) /\ Keeps(Result(c, e))
    BY <1>1, <2>2
  <2> QED
    BY <2>1, <2>3 DEF d
<1>5. ASSUME NEW n PROVE Holds(Advanced(c, n))
  BY DEF Advanced
<1> QED
  BY <1>1, <1>2, <1>3, <1>4, <1>5

LEMMA GoesOn ==
  ASSUME NEW r, Keeps(r), r.error = "SUCCESS"
  PROVE  Holds(r.c)
BY DEF Keeps, Holds

LEMMA MovedHolds ==
  ASSUME NEW c, Holds(c), NEW check \in GroupOp, NEW op \in GroupOp, NEW n,
         NEW r \in Moved(c, check, op, n)
  PROVE  Keeps(r)
<1>1. PICK q \in Then(WriteGroup(c, check, n), LAMBDA d : RecordJump(d, "oob")) :
        \/ q.error = "SUCCESS" /\ r \in WriteGroup(q.c, op, n)
        \/ q.error # "SUCCESS" /\ r = q
  BY DEF Moved, Then
<1>2. Keeps(q)
  <2>1. PICK p \in WriteGroup(c, check, n) :
          \/ p.error = "SUCCESS" /\ q \in RecordJump(p.c, "oob")
          \/ p.error # "SUCCESS" /\ q = p
    BY DEF Then
  <2> QED
    BY <2>1, WriteGroupHolds, OthersHold, GoesOn
<1> QED
  BY <1>1, <1>2, WriteGroupHolds, GoesOn

LEMMA ReadCharHolds ==
  ASSUME NEW c, Holds(c), NEW r \in ReadChar(c)
  PROVE  Keeps(r)
<1>1. PICK q \in Then(WriteGroup(c, "fgetc", 0), LAMBDA d : RecordJump(d, "ferror")) :
        \/ q.error = "SUCCESS" /\ r \in WriteGroup(q.c, "store", 0)
        \/ q.error # "SUCCESS" /\ r = q
  BY DEF ReadChar, Then
<1>2. "fgetc" \in GroupOp /\ "store" \in GroupOp
  BY DEF GroupOp, GroupSize
<1>3. Keeps(q)
  <2>1. PICK p \in WriteGroup(c, "fgetc", 0) :
          \/ p.error = "SUCCESS" /\ q \in RecordJump(p.c, "ferror")
          \/ p.error # "SUCCESS" /\ q = p
    BY DEF Then
  <2> QED
    BY <1>2, <2>1, WriteGroupHolds, OthersHold, GoesOn
<1> QED
  BY <1>1, <1>2, <1>3, WriteGroupHolds, GoesOn

LEMMA LoopStartHolds ==
  ASSUME NEW c, Holds(c), NEW r \in LoopStart(c)
  PROVE  Keeps(r)
<1>1. PICK q \in WriteGroup(c, "jz", 0) :
        \/ q.error = "SUCCESS" /\ r \in PushLoop(q.c)
        \/ q.error # "SUCCESS" /\ r = q
  BY DEF LoopStart, Then
<1>2. "jz" \in GroupOp
  BY DEF GroupOp, GroupSize
<1> QED
  BY <1>1, <1>2, WriteGroupHolds, OthersHold, GoesOn

LEMMA LoopEndHolds ==
  ASSUME NEW c, Holds(c), NEW r \in LoopEnd(c)
  PROVE  Keeps(r)
<1> DEFINE start == Top(c.loop_stack)
           popped(d) == [d EXCEPT !.loop_stack = SubSeq(@, 1, Len(@) - 1),
                                  !.loop_buf = PopSize(@)]
           back == Then(WriteGroup(c, "jnz", 0),
                        LAMBDA d : SetRel(popped(d), d.dst.size, start, INT32_MAX))
<1>1. PICK b \in back :
        \/ b.error = "SUCCESS" /\ r \in SetRel(b.c, start, b.c.dst.size, INT32_MAX)
        \/ b.error # "SUCCESS" /\ r = b
  <2>1. r \in Then(back, LAMBDA d : SetRel(d, start, d.dst.size, INT32_MAX))
    BY DEF LoopEnd
  <2> HIDE DEF back, start
  <2> QED
    BY <2>1 DEF Then
<1>2. PICK q \in WriteGroup(c, "jnz", 0) :
        \/ q.error = "SUCCESS" /\ b \in SetRel(popped(q.c), q.c.dst.size, start, INT32_MAX)
        \/ q.error # "SUCCESS" /\ b = q
  <2> HIDE DEF popped, start
  <2> QED
    BY DEF Then
<1>3. Keeps(q)
  <2>1. "jnz" \in GroupOp
    BY DEF GroupOp, GroupSize
  <2> QED
    BY <1>2, <2>1, WriteGroupHolds
<1>4. q.error = "SUCCESS" => Holds(popped(q.c))
  BY <1>3 DEF Keeps, Holds
<1> HIDE DEF popped, start, back
<1>5. Keeps(b)
  BY <1>2, <1>3, <1>4, OthersHold
<1> QED
  BY <1>1, <1>5, OthersHold, GoesOn

LEMMA NextTokenHolds ==
  ASSUME NEW results, \A q \in results : Keeps(q), NEW r \in NextToken(results)
  PROVE  Keeps(r)
<1>1. PICK q \in results :
        \/ q.error = "SUCCESS" /\ r = Result(Advanced(q.c, 1), "SUCCESS")
        \/ q.error # "SUCCESS" /\ r = q
  BY DEF NextToken, Then
<1> QED
  BY <1>1, OthersHold, GoesOn

LEMMA StubHolds ==
  ASSUME NEW c, Holds(c), NEW stub \in Stub, NEW r \in EmitStub(c, stub)
  PROVE  Keeps(r)
<1>1. {"oob", "io", "ferror", "eof", "handler"} \subseteq GroupOp
  BY DEF GroupOp, GroupSize
<1>2. ASSUME NEW d, Holds(d), NEW op \in GroupOp, NEW x \in Then(WriteGroup(d, op, 0), ToExit)
      PROVE  Keeps(x)
  <2>1. PICK q \in WriteGroup(d, op, 0) :
          \/ q.error = "SUCCESS" /\ x \in ToExit(q.c)
          \/ q.error # "SUCCESS" /\ x = q
    BY <1>2 DEF Then
  <2> QED
    BY <1>2, <2>1, WriteGroupHolds, OthersHold, GoesOn DEF ToExit
<1>3. CASE stub \in {"oob", "io"}
  <2>1. r \in Then(WriteGroup(c, stub, 0), ToExit)
    BY <1>3 DEF EmitStub
  <2> QED
    BY <1>1, <1>2, <1>3, <2>1
<1>4. CASE stub = "ferror"
  <2> DEFINE jne == Then(WriteGroup(c, "ferror", 0), ToExit)
             eof == Then(jne, LAMBDA d : WriteGroup(d, "eof", 0))
  <2>1. r \in Then(eof, ToExit)
    BY <1>4 DEF EmitStub
  <2>2. PICK q \in eof : \/ q.error = "SUCCESS" /\ r \in ToExit(q.c)
                         \/ q.error # "SUCCESS" /\ r = q
    <3> HIDE DEF eof
    <3> QED
      BY <2>1 DEF Then
  <2>3. PICK p \in jne : \/ p.error = "SUCCESS" /\ q \in WriteGroup(p.c, "eof", 0)
                         \/ p.error # "SUCCESS" /\ q = p
    <3> HIDE DEF jne
    <3> QED
      BY <2>2 DEF Then
  <2>4. Keeps(p)
    BY <1>1, <1>2, <2>3
  <2>5. Keeps(q)
    BY <1>1, <2>3, <2>4, WriteGroupHolds, GoesOn
  <2> QED
    BY <2>2, <2>5, OthersHold, GoesOn DEF ToExit
<1>5. CASE stub = "handler"
  BY <1>1, <1>5, WriteGroupHolds DEF EmitStub
<1> QED
  BY <1>3, <1>4, <1>5 DEF Stub

SInv == Keeps([c |-> compiler, error |-> outcome])

LEMMA ReturnsSInv ==
  ASSUME NEW r, NEW next, Keeps(r), Returns(r, next)
  PROVE  SInv'
<1>1. CASE r.error = "SUCCESS"
  BY <1>1 DEF Returns, SInv, Keeps
<1>2. CASE r.error # "SUCCESS"
  BY <1>2 DEF Returns, SInv, Keeps
<1> QED
  BY <1>1, <1>2

LEMMA EmitSInv == JInv /\ SInv /\ (EmitHeader \/ EmitToken) => SInv'
<1> SUFFICES ASSUME JInv, SInv, EmitHeader \/ EmitToken PROVE SInv'
  OBVIOUS
<1>1. outcome \in {"HEADER", "RUNNING"}
  BY DEF EmitHeader, EmitToken, EmitAdditiveP, EmitAdditiveV, EmitWrite, EmitRead, EmitDebug,
         BeginLoop, EndLoop, InvalidToken, Emit
<1>2. Holds(compiler)
  BY <1>1 DEF SInv, Keeps, Holds
<1> DEFINE c == compiler
<1>3. {"header", "above", "addp", "below", "subp", "addv", "subv", "fputc", "debug"}
        \subseteq GroupOp
  BY DEF GroupOp, GroupSize
<1>4. ASSUME NEW r \in AdditiveP(c) PROVE Keeps(r)
  BY <1>2, <1>3, <1>4, MovedHolds, OthersHold DEF AdditiveP
<1>5. ASSUME NEW r \in AdditiveV(c) PROVE Keeps(r)
  BY <1>2, <1>3, <1>5, WriteGroupHolds, OthersHold DEF AdditiveV
<1>6. ASSUME NEW r \in WriteChar(c) \cup Debug(c) PROVE Keeps(r)
  <2>1. PICK q : /\ q \in WriteGroup(c, "fputc", 0) \cup WriteGroup(c, "debug", 0)
                 /\ \/ q.error = "SUCCESS" /\ \E s : r \in RecordJump(q.c, s)
                    \/ q.error # "SUCCESS" /\ r = q
    <3>1. CASE r \in WriteChar(c)
      BY <3>1 DEF WriteChar, Then
    <3>2. CASE r \in Debug(c)
      BY <3>2 DEF Debug, Then
    <3> QED
      BY <1>6, <3>1, <3>2
  <2>2. Keeps(q)
    BY <1>2, <1>3, <2>1, WriteGroupHolds
  <2> QED
    BY <2>1, <2>2, OthersHold, GoesOn
<1> HIDE DEF c
<1>7. \A r \in NextToken(WriteChar(c)) \cup NextToken(Debug(c)) \cup NextToken(ReadChar(c))
             \cup NextToken(LoopStart(c)) \cup NextToken(LoopEnd(c)) : Keeps(r)
  <2>1. \A r \in ReadChar(c) \cup LoopStart(c) \cup LoopEnd(c) : Keeps(r)
    BY <1>2, ReadCharHolds, LoopStartHolds, LoopEndHolds DEF c
  <2> QED
    BY <1>6, <2>1, NextTokenHolds
<1>8. \E r : Keeps(r) /\ Returns(r, "RUNNING")
  <2>1. CASE EmitHeader
    BY <1>2, <1>3, <2>1, WriteGroupHolds DEF EmitHeader
  <2>2. CASE EmitAdditiveP
    BY <1>4, <2>2 DEF EmitAdditiveP, Emit, c
  <2>3. CASE EmitAdditiveV
    BY <1>5, <2>3 DEF EmitAdditiveV, Emit, c
  <2>4. CASE EmitWrite \/ EmitRead \/ EmitDebug \/ BeginLoop
    BY <1>7, <2>4 DEF EmitWrite, EmitRead, EmitDebug, BeginLoop, Emit, c
  <2>5. CASE EndLoop \/ InvalidToken
    BY <1>2, <1>7, <2>5, OthersHold DEF EndLoop, InvalidToken, Emit, c
  <2> QED
    BY <2>1, <2>2, <2>3, <2>4, <2>5 DEF EmitToken
<1> QED
  BY <1>8, ReturnsSInv

LEMMA NextSInv == JInv /\ SInv /\ [Next]_vars => SInv'
<1> SUFFICES ASSUME JInv, SInv, [Next]_vars PROVE SInv'
  OBVIOUS
<1>1. CASE UNCHANGED vars
  BY <1>1 DEF SInv, Keeps, vars
<1>2. outcome \in {"READY", "RUNNING", "LINKING"} => Holds(compiler)
  BY DEF SInv, Keeps, Holds
<1>3. CASE CompilerInit
  BY <1>2, <1>3 DEF CompilerInit, SInv, Keeps, Holds
<1>4. CASE EndFooter
  BY <1>2, <1>4 DEF EndFooter, SInv, Keeps, Holds
<1>5. CASE BeginFooter
  <2>1. Holds(compiler)
    BY <1>2, <1>5 DEF BeginFooter
  <2>2. CASE Unclosed
    <3>1. Returns(Result(compiler, "UNCLOSED_LOOPS"), "LINKING")
      BY <1>5, <2>2 DEF BeginFooter
    <3> QED
      BY <2>1, <3>1, OthersHold, ReturnsSInv
  <2>3. CASE ~Unclosed
    <3>1. PICK r \in Then(WriteGroup(compiler, "success", 0),
                          LAMBDA d : WriteGroup(d, "exit", 0)) : Returns(r, "LINKING")
      BY <1>5, <2>3 DEF BeginFooter
    <3>2. PICK q \in WriteGroup(compiler, "success", 0) :
            \/ q.error = "SUCCESS" /\ r \in WriteGroup(q.c, "exit", 0)
            \/ q.error # "SUCCESS" /\ r = q
      BY DEF Then
    <3>3. "success" \in GroupOp /\ "exit" \in GroupOp
      BY DEF GroupOp, GroupSize
    <3>4. Keeps(r)
      BY <2>1, <3>2, <3>3, WriteGroupHolds, GoesOn
    <3> QED
      BY <3>1, <3>4, ReturnsSInv
  <2> QED
    BY <2>2, <2>3
<1>6. CASE LinkJump
  <2> DEFINE jump  == compiler.jumps[linked + 1]
             known == jump_target_offsets[jump.to] # 0
             stubs == IF known THEN {Result(compiler, "SUCCESS")}
                      ELSE EmitStub(compiler, jump.to)
  <2>1. Holds(compiler) /\ jump.to \in Stub
    <3>1. linked + 1 \in 1 .. Len(compiler.jumps) /\ compiler.jumps \in Seq(Jump)
      BY <1>6, CompilerFacts DEF LinkJump, JInv, TypeOK
    <3>2. jump \in Jump
      BY <3>1
    <3> QED
      BY <1>2, <1>6, <3>2 DEF LinkJump, Jump
  <2>2. PICK s \in stubs :
          \E offset : \E r \in SetRel(s.c, jump.from, offset, INT32_MAX) :
            Returns(IF s.error = "UNDEFINED" THEN s ELSE r, "LINKING")
    BY <1>6 DEF LinkJump
  <2>3. Keeps(s)
    BY <2>1, <2>2, StubHolds, OthersHold
  <2>4. PICK r : /\ \E offset : r \in SetRel(s.c, jump.from, offset, INT32_MAX)
                 /\ Returns(IF s.error = "UNDEFINED" THEN s ELSE r, "LINKING")
    BY <2>2
  <2> HIDE DEF stubs, jump
  <2>5. CASE s.error = "UNDEFINED"
    BY <2>3, <2>4, <2>5, ReturnsSInv
  <2>6. CASE s.error # "UNDEFINED"
    <3>1. Holds(s.c)
      BY <2>3, <2>6 DEF Keeps, Holds
    <3>2. Keeps(r)
      BY <2>4, <3>1, OthersHold
    <3> QED
      BY <2>4, <2>6, <3>2, ReturnsSInv
  <2> QED
    BY <2>5, <2>6
<1> QED
  BY <1>1, <1>3, <1>4, <1>5, <1>6, EmitSInv DEF Next, EmitToken

-----------------------------------------------------------------------------
(* What a step adds to the program: groups that jump to the footer come    *)
(* from a token that is neither an addition nor the end of the source.     *)

Sized(c) ==
  /\ {"dst", "code"} \subseteq DOMAIN c
  /\ c.dst \in BufferRecord
  /\ DOMAIN c.code \subseteq Nat
  /\ \A o \in DOMAIN c.code : "op" \in DOMAIN c.code[o]

(* From c to d only groups of these kinds were added, behind the end of c. *)
Gains(c, d, ops) ==
  /\ Sized(d)
  /\ d.dst.size >= c.dst.size
  /\ \A o \in DOMAIN d.code :
       \/ o \in DOMAIN c.code /\ d.code[o].op = c.code[o].op
       \/ o >= c.dst.size /\ d.code[o].op \in ops

LEMMA GainsOn ==
  ASSUME NEW ops, NEW c, Sized(c), NEW d, Gains(c, d, ops), NEW e, Gains(d, e, ops)
  PROVE  Gains(c, e, ops)
<1>1. c.dst.size \in Nat /\ d.dst.size \in Nat /\ e.dst.size \in Nat
  BY DEF Sized, Gains, BufferRecord
<1>2. ASSUME NEW o \in DOMAIN e.code
      PROVE  \/ o \in DOMAIN c.code /\ e.code[o].op = c.code[o].op
             \/ o >= c.dst.size /\ e.code[o].op \in ops
  <2>1. o \in Nat
    BY DEF Sized, Gains
  <2> QED
    BY <1>1, <2>1 DEF Gains
<1> QED
  BY <1>1, <1>2 DEF Gains

LEMMA WriteGroupGains ==
  ASSUME NEW c, Sized(c), NEW ops, NEW op \in GroupOp, op \in ops, NEW n,
         NEW r \in WriteGroup(c, op, n)
  PROVE  Gains(c, r.c, ops)
<1> DEFINE m == GroupSize[op]
           g == [op |-> op, n |-> n, to |-> NOWHERE]
<1>1. m \in Nat \ {0} /\ g.op = op /\ "op" \in DOMAIN g
  BY SizeFacts
<1>2. PICK w \in Write(c.dst, m) :
        r.c = [c EXCEPT !.dst = w.buf,
                        !.code = IF w.error = "SUCCESS" THEN Wrote(c.code, c.dst.size, g)
                                 ELSE c.code]
  <2>1. PICK w \in Write(c.dst, GroupSize[op]) :
          r = Result([c EXCEPT !.dst = w.buf,
                               !.code = IF w.error = "SUCCESS"
                                        THEN Wrote(c.code, c.dst.size, g) ELSE c.code],
                     ErrorOf(w))
    BY DEF WriteGroup, Wrote
  <2> QED
    BY <2>1 DEF Result
<1> HIDE DEF g, m
<1>3. c.dst \in BufferRecord /\ c.dst.size \in Nat
  BY DEF Sized, BufferRecord
<1>4. /\ w.buf \in BufferRecord /\ w.buf.size \in Nat
      /\ w.buf.size >= c.dst.size
  <2>1. /\ w.buf \in BufferRecord
        /\ w.buf.size = IF w.error = "SUCCESS" THEN c.dst.size + m ELSE c.dst.size
    BY <1>1, <1>3, WriteFacts
  <2> QED
    BY <1>1, <1>3, <2>1
<1>5. /\ DOMAIN r.c = DOMAIN c /\ r.c.dst = w.buf
      /\ r.c.code = IF w.error = "SUCCESS" THEN Wrote(c.code, c.dst.size, g) ELSE c.code
  BY <1>2 DEF Sized
<1>6. ASSUME NEW o \in DOMAIN r.c.code
      PROVE  /\ o \in Nat /\ "op" \in DOMAIN r.c.code[o]
             /\ \/ o \in DOMAIN c.code /\ r.c.code[o].op = c.code[o].op
                \/ o >= c.dst.size /\ r.c.code[o].op \in ops
  BY <1>1, <1>3, <1>5, <1>6 DEF Wrote, Sized
<1> QED
  BY <1>4, <1>5, <1>6 DEF Gains, Sized

(* What else the compiler writes adds nothing. *)
LEMMA OthersGain ==
  ASSUME NEW ops, NEW c, Sized(c)
  PROVE  /\ Gains(c, c, ops)
         /\ \A s : \A r \in RecordJump(c, s) : Gains(c, r.c, ops)
         /\ \A r \in PushLoop(c) : Gains(c, r.c, ops)
         /\ \A from, to, max : \A r \in SetRel(c, from, to, max) : Gains(c, r.c, ops)
         /\ \A n : Gains(c, Advanced(c, n), ops)
<1>1. c.dst.size \in Nat
  BY DEF Sized, BufferRecord
<1>2. ASSUME NEW d, DOMAIN d = DOMAIN c, d.dst = c.dst, d.code = c.code
      PROVE  Gains(c, d, ops)
  BY <1>1, <1>2 DEF Gains, Sized
<1>3. ASSUME NEW s, NEW r \in RecordJump(c, s) PROVE Gains(c, r.c, ops)
  <2>1. PICK b, q, e : r = Result([c EXCEPT !.jumps_buf = b, !.jumps = q], e)
    BY <1>3 DEF RecordJump
  <2>2. r.c = [c EXCEPT !.jumps_buf = b, !.jumps = q]
    BY <2>1 DEF Result
  <2>3. DOMAIN r.c = DOMAIN c /\ r.c.dst = c.dst /\ r.c.code = c.code
    BY <2>2 DEF Sized
  <2> QED
    BY <1>2, <2>3
<1>4. ASSUME NEW r \in PushLoop(c) PROVE Gains(c, r.c, ops)
  <2>1. PICK b, q, e : r = Result([c EXCEPT !.loop_buf = b, !.loop_stack = q], e)
    BY <1>4 DEF PushLoop
  <2>2. r.c = [c EXCEPT !.loop_buf = b, !.loop_stack = q]
    BY <2>1 DEF Result
  <2>3. DOMAIN r.c = DOMAIN c /\ r.c.dst = c.dst /\ r.c.code = c.code
    BY <2>2 DEF Sized
  <2> QED
    BY <1>2, <2>3
<1>5. ASSUME NEW from, NEW to, NEW max, NEW r \in SetRel(c, from, to, max)
      PROVE  Gains(c, r.c, ops)
  <2>1. \/ r = Result([c EXCEPT !.code = Relinked(c.code, from, to)], "SUCCESS")
        \/ r = Result(c, "JUMP_TOO_LARGE")
    BY <1>5 DEF SetRel, Relinked
  <2>2. \/ r.c = [c EXCEPT !.code = Relinked(c.code, from, to)]
        \/ r.c = c
    BY <2>1 DEF Result
  <2>3. /\ DOMAIN Relinked(c.code, from, to) = DOMAIN c.code
        /\ \A o \in DOMAIN c.code :
              /\ "op" \in DOMAIN Relinked(c.code, from, to)[o]
              /\ Relinked(c.code, from, to)[o].op = c.code[o].op
    BY DEF Relinked, Sized
  <2>4. CASE r.c = [c EXCEPT !.code = Relinked(c.code, from, to)]
    <3>1. DOMAIN r.c = DOMAIN c /\ r.c.dst = c.dst
          /\ r.c.code = Relinked(c.code, from, to)
      BY <2>4 DEF Sized
    <3> QED
      BY <1>1, <2>3, <3>1 DEF Gains, Sized
  <2> QED
    BY <1>2, <2>2, <2>4
<1>6. ASSUME NEW n PROVE Gains(c, Advanced(c, n), ops)
  <2>1. /\ DOMAIN Advanced(c, n) = DOMAIN c
        /\ Advanced(c, n).dst = c.dst /\ Advanced(c, n).code = c.code
    BY DEF Advanced, Sized
  <2> QED
    BY <1>2, <2>1
<1> QED
  BY <1>2, <1>3, <1>4, <1>5, <1>6

(* One function behind another. *)
LEMMA ThenGains ==
  ASSUME NEW ops, NEW c, Sized(c), NEW q, Gains(c, q.c, ops),
         NEW r, \/ Gains(q.c, r.c, ops)
                \/ r = q
  PROVE  Gains(c, r.c, ops) /\ Sized(q.c) /\ Sized(r.c)
<1>1. Gains(c, r.c, ops)
  BY GainsOn
<1> QED
  BY <1>1 DEF Gains

LEMMA MovedGains ==
  ASSUME NEW c, Sized(c), NEW ops, NEW check \in GroupOp, NEW op \in GroupOp,
         {check, op} \subseteq ops, NEW n, NEW r \in Moved(c, check, op, n)
  PROVE  Gains(c, r.c, ops)
<1>1. PICK q \in Then(WriteGroup(c, check, n), LAMBDA d : RecordJump(d, "oob")) :
        \/ q.error = "SUCCESS" /\ r \in WriteGroup(q.c, op, n)
        \/ q.error # "SUCCESS" /\ r = q
  BY DEF Moved, Then
<1>2. PICK p \in WriteGroup(c, check, n) :
        \/ p.error = "SUCCESS" /\ q \in RecordJump(p.c, "oob")
        \/ p.error # "SUCCESS" /\ q = p
  BY DEF Then
<1>3. Gains(c, p.c, ops) /\ Sized(p.c)
  BY WriteGroupGains DEF Gains
<1>4. Gains(c, q.c, ops) /\ Sized(q.c)
  BY <1>2, <1>3, OthersGain, ThenGains
<1> QED
  BY <1>1, <1>4, WriteGroupGains, ThenGains

LEMMA ReadCharGains ==
  ASSUME NEW c, Sized(c), NEW r \in ReadChar(c)
  PROVE  Gains(c, r.c, GroupOp)
<1>1. PICK q \in Then(WriteGroup(c, "fgetc", 0), LAMBDA d : RecordJump(d, "ferror")) :
        \/ q.error = "SUCCESS" /\ r \in WriteGroup(q.c, "store", 0)
        \/ q.error # "SUCCESS" /\ r = q
  BY DEF ReadChar, Then
<1>2. PICK p \in WriteGroup(c, "fgetc", 0) :
        \/ p.error = "SUCCESS" /\ q \in RecordJump(p.c, "ferror")
        \/ p.error # "SUCCESS" /\ q = p
  BY DEF Then
<1>3. "fgetc" \in GroupOp /\ "store" \in GroupOp
  BY DEF GroupOp, GroupSize
<1>4. Gains(c, p.c, GroupOp) /\ Sized(p.c)
  BY <1>3, WriteGroupGains DEF Gains
<1>5. Gains(c, q.c, GroupOp) /\ Sized(q.c)
  BY <1>2, <1>4, OthersGain, ThenGains
<1> QED
  BY <1>1, <1>3, <1>5, WriteGroupGains, ThenGains

LEMMA LoopStartGains ==
  ASSUME NEW c, Sized(c), NEW r \in LoopStart(c)
  PROVE  Gains(c, r.c, GroupOp)
<1>1. PICK q \in WriteGroup(c, "jz", 0) :
        \/ q.error = "SUCCESS" /\ r \in PushLoop(q.c)
        \/ q.error # "SUCCESS" /\ r = q
  BY DEF LoopStart, Then
<1>2. "jz" \in GroupOp
  BY DEF GroupOp, GroupSize
<1>3. Gains(c, q.c, GroupOp) /\ Sized(q.c)
  BY <1>2, WriteGroupGains DEF Gains
<1> QED
  BY <1>1, <1>3, OthersGain, ThenGains

LEMMA LoopEndGains ==
  ASSUME NEW c, Sized(c), NEW r \in LoopEnd(c)
  PROVE  Gains(c, r.c, GroupOp)
<1> DEFINE start == Top(c.loop_stack)
           popped(d) == [d EXCEPT !.loop_stack = SubSeq(@, 1, Len(@) - 1),
                                  !.loop_buf = PopSize(@)]
           back == Then(WriteGroup(c, "jnz", 0),
                        LAMBDA d : SetRel(popped(d), d.dst.size, start, INT32_MAX))
<1>1. PICK b \in back :
        \/ b.error = "SUCCESS" /\ r \in SetRel(b.c, start, b.c.dst.size, INT32_MAX)
        \/ b.error # "SUCCESS" /\ r = b
  <2>1. r \in Then(back, LAMBDA d : SetRel(d, start, d.dst.size, INT32_MAX))
    BY DEF LoopEnd
  <2> HIDE DEF back, start
  <2> QED
    BY <2>1 DEF Then
<1>2. PICK q \in WriteGroup(c, "jnz", 0) :
        \/ q.error = "SUCCESS" /\ b \in SetRel(popped(q.c), q.c.dst.size, start, INT32_MAX)
        \/ q.error # "SUCCESS" /\ b = q
  <2> HIDE DEF popped, start
  <2> QED
    BY DEF Then
<1>3. Gains(c, q.c, GroupOp) /\ Sized(q.c)
  <2>1. "jnz" \in GroupOp
    BY DEF GroupOp, GroupSize
  <2> QED
    BY <2>1, WriteGroupGains DEF Gains
<1>4. Gains(q.c, popped(q.c), GroupOp) /\ Sized(popped(q.c))
  <2>1. /\ DOMAIN popped(q.c) = DOMAIN q.c
        /\ popped(q.c).dst = q.c.dst /\ popped(q.c).code = q.c.code
    BY <1>3 DEF Sized
  <2>2. q.c.dst.size \in Nat
    BY <1>3 DEF Sized, BufferRecord
  <2> HIDE DEF popped
  <2> QED
    BY <1>3, <2>1, <2>2 DEF Gains, Sized
<1> HIDE DEF popped, start, back
<1>5. Gains(c, b.c, GroupOp) /\ Sized(b.c)
  <2>1. Gains(c, popped(q.c), GroupOp)
    BY <1>3, <1>4, GainsOn
  <2>2. CASE b \in SetRel(popped(q.c), q.c.dst.size, start, INT32_MAX)
    <3>1. Gains(popped(q.c), b.c, GroupOp)
      BY <1>4, <2>2, OthersGain
    <3>2. Gains(c, b.c, GroupOp)
      BY <2>1, <3>1, GainsOn
    <3> QED
      BY <3>1, <3>2 DEF Gains
  <2> QED
    BY <1>2, <1>3, <2>2
<1> QED
  BY <1>1, <1>5, OthersGain, ThenGains

LEMMA NextTokenGains ==
  ASSUME NEW c, Sized(c), NEW results, \A q \in results : Gains(c, q.c, GroupOp),
         NEW r \in NextToken(results)
  PROVE  Gains(c, r.c, GroupOp)
<1>1. PICK q \in results :
        \/ q.error = "SUCCESS" /\ r = Result(Advanced(q.c, 1), "SUCCESS")
        \/ q.error # "SUCCESS" /\ r = q
  BY DEF NextToken, Then
<1>2. Gains(c, q.c, GroupOp) /\ Sized(q.c)
  BY DEF Gains
<1>3. CASE r = Result(Advanced(q.c, 1), "SUCCESS")
  <2>1. r.c = Advanced(q.c, 1)
    BY <1>3 DEF Result
  <2>2. Gains(q.c, Advanced(q.c, 1), GroupOp)
    BY <1>2, OthersGain
  <2> QED
    BY <1>2, <2>1, <2>2, GainsOn
<1> QED
  BY <1>1, <1>2, <1>3

Footers == {"success", "exit", "oob", "io", "ferror", "eof", "handler"}

LEMMA StubGains ==
  ASSUME NEW c, Sized(c), NEW stub \in Stub, NEW r \in EmitStub(c, stub)
  PROVE  Gains(c, r.c, Footers)
<1>1. Footers \subseteq GroupOp
  BY DEF Footers, GroupOp, GroupSize
<1>2. ASSUME NEW d, Sized(d), NEW op \in Footers, NEW x \in Then(WriteGroup(d, op, 0), ToExit)
      PROVE  Gains(d, x.c, Footers)
  <2>1. PICK q \in WriteGroup(d, op, 0) :
          \/ q.error = "SUCCESS" /\ x \in ToExit(q.c)
          \/ q.error # "SUCCESS" /\ x = q
    BY <1>2 DEF Then
  <2>2. Gains(d, q.c, Footers) /\ Sized(q.c)
    BY <1>1, <1>2, WriteGroupGains DEF Gains
  <2> QED
    BY <1>2, <2>1, <2>2, OthersGain, ThenGains DEF ToExit
<1>3. CASE stub \in {"oob", "io"}
  <2>1. r \in Then(WriteGroup(c, stub, 0), ToExit) /\ stub \in Footers
    BY <1>3 DEF EmitStub, Footers
  <2> QED
    BY <1>2, <2>1
<1>4. CASE stub = "ferror"
  <2> DEFINE jne == Then(WriteGroup(c, "ferror", 0), ToExit)
             eof == Then(jne, LAMBDA d : WriteGroup(d, "eof", 0))
  <2>1. r \in Then(eof, ToExit)
    BY <1>4 DEF EmitStub
  <2>2. PICK q \in eof : \/ q.error = "SUCCESS" /\ r \in ToExit(q.c)
                         \/ q.error # "SUCCESS" /\ r = q
    <3> HIDE DEF eof
    <3> QED
      BY <2>1 DEF Then
  <2>3. PICK p \in jne : \/ p.error = "SUCCESS" /\ q \in WriteGroup(p.c, "eof", 0)
                         \/ p.error # "SUCCESS" /\ q = p
    <3> HIDE DEF jne
    <3> QED
      BY <2>2 DEF Then
  <2>4. "ferror" \in Footers /\ "eof" \in Footers
    BY DEF Footers
  <2>5. Gains(c, p.c, Footers) /\ Sized(p.c)
    BY <1>2, <2>4 DEF Gains
  <2>6. Gains(c, q.c, Footers) /\ Sized(q.c)
    BY <1>1, <2>3, <2>4, <2>5, WriteGroupGains, ThenGains
  <2> QED
    BY <2>2, <2>6, OthersGain, ThenGains DEF ToExit
<1>5. CASE stub = "handler"
  <2>1. r \in WriteGroup(c, "handler", 0) /\ "handler" \in Footers
    BY <1>5 DEF EmitStub, Footers
  <2> QED
    BY <1>1, <2>1, WriteGroupGains
<1> QED
  BY <1>3, <1>4, <1>5 DEF Stub

(* All tokens but the additions and the end of the source. *)
NoAddition == Moves \cup {"nothing", "beats", "holiday", "a", "jet2", "INVALID"}

NewGroups ==
  \A o \in DOMAIN compiler'.code : compiler'.code[o].op \in DOMAIN StubOf =>
    \/ o \in DOMAIN code /\ code[o].op = compiler'.code[o].op
    \/ /\ outcome = "RUNNING" /\ o >= compiler.dst.size
       /\ TokenAt(source, compiler.token) \in NoAddition

(* What a call of the compiler's functions gains, the compiler keeps. *)
LEMMA ReturnsNew ==
  ASSUME NEW r, NEW next, NEW ops, Gains(compiler, r.c, ops), Returns(r, next),
         \/ ops \cap DOMAIN StubOf = {}
         \/ outcome = "RUNNING" /\ TokenAt(source, compiler.token) \in NoAddition
  PROVE  NewGroups
<1>1. compiler'.code = r.c.code
  BY DEF Returns, Gains, Sized
<1> QED
  BY <1>1 DEF Gains, NewGroups, code

LEMMA EmitNew == JInv /\ (EmitHeader \/ EmitToken) => NewGroups
<1> SUFFICES ASSUME JInv, EmitHeader \/ EmitToken PROVE NewGroups
  OBVIOUS
<1> DEFINE c == compiler
<1>1. c \in Compilers /\ Sized(c)
  BY CompilerFacts, CodeFacts DEF JInv, Sized, Compilers, Groups, Group
<1>2. /\ {"header", "above", "addp", "below", "subp", "addv", "subv", "fputc", "debug"}
           \subseteq GroupOp
      /\ {"header", "addv", "subv"} \cap DOMAIN StubOf = {}
  BY DEF GroupOp, GroupSize, StubOf
<1>3. ASSUME NEW r \in AdditiveP(c) PROVE Gains(c, r.c, GroupOp)
  <2>1. CASE r.c = Advanced(c, UINT16_MAX)
    BY <1>1, <2>1, OthersGain
  <2>2. CASE \E n : \E check \in {"above", "below"}, op \in {"addp", "subp"} :
               r \in Moved(Advanced(c, n), check, op, n)
    <3>1. PICK n, check, op :
            /\ check \in {"above", "below"} /\ op \in {"addp", "subp"}
            /\ r \in Moved(Advanced(c, n), check, op, n)
      BY <2>2
    <3>2. Gains(c, Advanced(c, n), GroupOp) /\ Sized(Advanced(c, n))
      BY <1>1, OthersGain DEF Gains
    <3>3. Gains(Advanced(c, n), r.c, GroupOp)
      BY <1>2, <3>1, <3>2, MovedGains
    <3> QED
      BY <1>1, <3>2, <3>3, GainsOn
  <2> QED
    BY <1>3, <2>1, <2>2 DEF AdditiveP, Result
<1>4. ASSUME NEW r \in AdditiveV(c) PROVE Gains(c, r.c, {"addv", "subv"})
  <2> DEFINE ops == {"addv", "subv"}
             d == Advanced(c, RunLength(c))
  <2>1. Gains(c, d, ops) /\ Sized(d)
    BY <1>1, OthersGain DEF Gains
  <2>2. \/ r.c = d
        \/ \E op \in ops : \E n : r \in WriteGroup(d, op, n)
    BY <1>4 DEF AdditiveV, Result
  <2> HIDE DEF d
  <2> QED
    BY <1>1, <1>2, <2>1, <2>2, WriteGroupGains, GainsOn
<1>5. ASSUME NEW r \in WriteChar(c) \cup Debug(c) PROVE Gains(c, r.c, GroupOp)
  <2>1. PICK q : /\ q \in WriteGroup(c, "fputc", 0) \cup WriteGroup(c, "debug", 0)
                 /\ \/ q.error = "SUCCESS" /\ \E s : r \in RecordJump(q.c, s)
                    \/ q.error # "SUCCESS" /\ r = q
    <3>1. CASE r \in WriteChar(c)
      BY <3>1 DEF WriteChar, Then
    <3>2. CASE r \in Debug(c)
      BY <3>2 DEF Debug, Then
    <3> QED
      BY <1>5, <3>1, <3>2
  <2>2. Gains(c, q.c, GroupOp) /\ Sized(q.c)
    BY <1>1, <1>2, <2>1, WriteGroupGains DEF Gains
  <2> QED
    BY <1>1, <2>1, <2>2, OthersGain, ThenGains
<1> HIDE DEF c
<1>6. \A r \in NextToken(WriteChar(c)) \cup NextToken(Debug(c)) \cup NextToken(ReadChar(c))
             \cup NextToken(LoopStart(c)) \cup NextToken(LoopEnd(c)) :
        Gains(c, r.c, GroupOp)
  <2>1. \A r \in ReadChar(c) \cup LoopStart(c) \cup LoopEnd(c) : Gains(c, r.c, GroupOp)
    BY <1>1, ReadCharGains, LoopStartGains, LoopEndGains
  <2> QED
    BY <1>1, <1>5, <2>1, NextTokenGains
<1>7. CASE EmitHeader
  <2>1. PICK r \in WriteGroup(c, "header", 0) : Returns(r, "RUNNING")
    BY <1>7 DEF EmitHeader, c
  <2>2. Gains(c, r.c, {"header"})
    BY <1>1, <1>2, WriteGroupGains
  <2> QED
    BY <1>2, <2>1, <2>2, ReturnsNew DEF c
<1>8. CASE EmitAdditiveV
  <2>1. PICK r \in AdditiveV(c) : Returns(r, "RUNNING")
    BY <1>8 DEF EmitAdditiveV, Emit, c
  <2>2. Gains(c, r.c, {"addv", "subv"})
    BY <1>4
  <2> QED
    BY <1>2, <2>1, <2>2, ReturnsNew DEF c
<1>9. CASE EmitToken /\ ~EmitAdditiveV
  <2>1. /\ outcome = "RUNNING" /\ TokenAt(source, compiler.token) \in NoAddition
        /\ \E r : Gains(c, r.c, GroupOp) /\ Returns(r, "RUNNING")
    <3>1. CASE EmitAdditiveP
      BY <1>3, <3>1 DEF EmitAdditiveP, Emit, NoAddition, c
    <3>2. CASE EmitWrite \/ EmitRead \/ EmitDebug \/ BeginLoop
      BY <1>6, <3>2 DEF EmitWrite, EmitRead, EmitDebug, BeginLoop, Emit, NoAddition, c
    <3>3. CASE EndLoop \/ InvalidToken
      BY <1>1, <1>6, <3>3, OthersGain DEF EndLoop, InvalidToken, Emit, Result, NoAddition, c
    <3> QED
      BY <1>9, <3>1, <3>2, <3>3 DEF EmitToken
  <2> QED
    BY <2>1, ReturnsNew DEF c
<1> QED
  BY <1>7, <1>8, <1>9

LEMMA StepNew == JInv /\ Next => NewGroups
<1> SUFFICES ASSUME JInv, Next PROVE NewGroups
  OBVIOUS
<1>1. compiler \in Compilers /\ Sized(compiler)
  BY CompilerFacts, CodeFacts DEF JInv, Sized, Compilers, Groups, Group
<1>2. Footers \cap DOMAIN StubOf = {}
  BY DEF Footers, StubOf
<1>3. CASE CompilerInit \/ EndFooter
  <2>1. compiler'.code = code
    BY <1>1, <1>3 DEF CompilerInit, EndFooter, Compilers, code
  <2> QED
    BY <2>1 DEF NewGroups
<1>4. CASE BeginFooter
  <2>1. PICK r : /\ Returns(r, "LINKING")
                 /\ \/ r = Result(compiler, "UNCLOSED_LOOPS")
                    \/ r \in Then(WriteGroup(compiler, "success", 0),
                                  LAMBDA d : WriteGroup(d, "exit", 0))
    BY <1>4 DEF BeginFooter
  <2>2. CASE r = Result(compiler, "UNCLOSED_LOOPS")
    <3>1. Gains(compiler, r.c, Footers)
      BY <1>1, <2>2, OthersGain DEF Result
    <3> QED
      BY <1>2, <2>1, <3>1, ReturnsNew
  <2>3. CASE r \in Then(WriteGroup(compiler, "success", 0),
                         LAMBDA d : WriteGroup(d, "exit", 0))
    <3>1. PICK q \in WriteGroup(compiler, "success", 0) :
            \/ q.error = "SUCCESS" /\ r \in WriteGroup(q.c, "exit", 0)
            \/ q.error # "SUCCESS" /\ r = q
      BY <2>3 DEF Then
    <3>2. {"success", "exit"} \subseteq GroupOp /\ {"success", "exit"} \subseteq Footers
      BY DEF GroupOp, GroupSize, Footers
    <3>3. Gains(compiler, q.c, Footers) /\ Sized(q.c)
      BY <1>1, <3>1, <3>2, WriteGroupGains DEF Gains
    <3>4. Gains(compiler, r.c, Footers)
      BY <1>1, <3>1, <3>2, <3>3, WriteGroupGains, ThenGains
    <3> QED
      BY <1>2, <2>1, <3>4, ReturnsNew
  <2> QED
    BY <2>1, <2>2, <2>3
<1>5. CASE LinkJump
  <2> DEFINE jump  == compiler.jumps[linked + 1]
             known == jump_target_offsets[jump.to] # 0
             stubs == IF known THEN {Result(compiler, "SUCCESS")}
                      ELSE EmitStub(compiler, jump.to)
  <2>1. jump.to \in Stub
    <3>1. linked + 1 \in 1 .. Len(compiler.jumps) /\ compiler.jumps \in Seq(Jump)
      BY <1>1, <1>5, CompilerFacts DEF LinkJump, JInv, TypeOK
    <3>2. jump \in Jump
      BY <3>1
    <3> QED
      BY <3>2 DEF Jump
  <2>2. PICK s \in stubs :
          \E offset : \E r \in SetRel(s.c, jump.from, offset, INT32_MAX) :
            Returns(IF s.error = "UNDEFINED" THEN s ELSE r, "LINKING")
    BY <1>5 DEF LinkJump
  <2>3. Gains(compiler, s.c, Footers) /\ Sized(s.c)
    <3>1. CASE known
      <4>1. s.c = compiler
        BY <2>2, <3>1 DEF Result
      <4> QED
        BY <1>1, <4>1, OthersGain
    <3>2. CASE ~known
      <4>1. s \in EmitStub(compiler, jump.to)
        BY <2>2, <3>2
      <4> QED
        BY <1>1, <2>1, <4>1, StubGains DEF Gains
    <3> QED
      BY <3>1, <3>2
  <2>4. PICK r : /\ \E offset : r \in SetRel(s.c, jump.from, offset, INT32_MAX)
                 /\ Returns(IF s.error = "UNDEFINED" THEN s ELSE r, "LINKING")
    BY <2>2
  <2> HIDE DEF stubs, jump
  <2>5. CASE s.error = "UNDEFINED"
    <3>1. Returns(s, "LINKING")
      BY <2>4, <2>5
    <3> QED
      BY <1>2, <2>3, <3>1, ReturnsNew
  <2>6. CASE s.error # "UNDEFINED"
    <3>1. Gains(s.c, r.c, Footers)
      BY <2>3, <2>4, OthersGain
    <3>2. Gains(compiler, r.c, Footers)
      BY <1>1, <2>3, <3>1, GainsOn
    <3>3. Returns(r, "LINKING")
      BY <2>4, <2>6
    <3> QED
      BY <1>2, <3>2, <3>3, ReturnsNew
  <2> QED
    BY <2>5, <2>6
<1> QED
  BY <1>3, <1>4, <1>5, EmitNew DEF Next, EmitToken

(***************************************************************************)
(* The compiler reports the first fault in source order, at its token, and *)
(* success only for a source without one, as the bytecode compiler does;   *)
(* JUMP_TOO_LARGE only of a program that a displacement may fail to span.  *)
(***************************************************************************)
THEOREM FirstFaultReportedByJit == Spec => []VerdictIsFirstFault
<1>1. Init => VInv
  BY DEF Init, VInv, Reading, VerdictIsFirstFault, Ended
<1>2. VInv => VerdictIsFirstFault
  BY DEF VInv
<1> QED
  BY <1>1, <1>2, NextVInv, InitInvariant, PTL DEF Spec

=============================================================================
