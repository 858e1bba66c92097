----------------------------- MODULE JitVM_proofs -----------------------------
(***************************************************************************)
(* What the machine code does with its registers, its stack and the        *)
(* context, for every well-formed program and every size of memory.        *)
(***************************************************************************)
EXTENDS JitVM, SequenceTheorems, TLAPS

(* The frame of the header: the caller's address and five saved registers. *)
Framed(s) == s[1] = Caller /\ \A i \in 1 .. 5 : s[i + 1] = Saved[i]

(* The stack in front of a group of kind `op': only the header runs before *)
(* there is a frame, only the handler above a return address, which is     *)
(* behind a call of it.                                                    *)
StackAt(op) ==
  CASE op = "header"  -> stack = <<Caller>> /\ kept = Registers
    [] op = "handler" ->
         /\ Len(stack) = 7 /\ Framed(stack)
         /\ stack[7].to \in DOMAIN code /\ code[stack[7].to].op \in Opening
         /\ \E o \in DOMAIN code : code[o].op = "debug" /\ stack[7].to = End(code, o)
    [] OTHER -> Len(stack) = 6 /\ Framed(stack)

(* A move has been checked: it does not leave the memory. *)
MoveIsSafe ==
  /\ group.op = "addp" => r14 + group.n \in Cell
  /\ group.op = "subp" => r14 - group.n \in Cell

(* The inductive invariant. *)
IInv ==
  /\ WellFormed(code)
  /\ TypeOK
  /\ status = "RUNNING" => rip \in DOMAIN code /\ StackAt(group.op) /\ MoveIsSafe
  /\ status \in Error => stack = <<>> /\ kept = Registers
  /\ status = "UNDEFINED" => rip \in DOMAIN code /\ group.op = "ferror"

-----------------------------------------------------------------------------

(* What a well-formed program says of one of its groups. *)
LEMMA GroupFacts ==
  ASSUME WellFormed(code), NEW o \in DOMAIN code
  PROVE  /\ o \in Nat
         /\ code[o].op \in GroupOp
         /\ code[o].n \in Nat
         /\ code[o].to \in Nat
         /\ code[o].op = "header" <=> o = 0
         /\ code[o].op \in {"addv", "subv"} => code[o].n \in Byte
         /\ LeadsRight(code, o)
  BY DEF WellFormed, IsGroup, Group

(* The displacement of a group that jumps has been written. *)
LEMMA TargetIsTo ==
  ASSUME WellFormed(code), NEW o \in DOMAIN code,
         code[o].to \in DOMAIN code, code[code[o].to].op # "header"
  PROVE  Target(code, o) = code[o].to
  BY GroupFacts DEF Target, NOWHERE, WellFormed


(* Where control falls to. *)
LEMMA FallsOn ==
  ASSUME IInv, status = "RUNNING", group.op \notin Leaves
  PROVE  /\ End(code, rip) \in DOMAIN code
         /\ Follows(group, code[End(code, rip)])
  BY GroupFacts DEF IInv, LeadsRight, group

(* Where a displacement leads. *)
LEMMA LeadsTo ==
  ASSUME IInv, status = "RUNNING"
  PROVE  /\ group.op \in {"jz", "jnz"} =>
              Target(code, rip) \in DOMAIN code /\ code[Target(code, rip)].op \in Opening
         /\ group.op \in DOMAIN StubOf =>
              Target(code, rip) \in DOMAIN code
                /\ code[Target(code, rip)].op = StubOf[group.op]
         /\ group.op \in {"oob", "io", "ferror", "eof"} =>
              Target(code, rip) \in DOMAIN code /\ code[Target(code, rip)].op = "exit"
<1>1. rip \in DOMAIN code /\ WellFormed(code) /\ LeadsRight(code, rip)
  BY GroupFacts DEF IInv
<1>2. CASE group.op \in {"jz", "jnz"}
  <2>1. group.to \in DOMAIN code /\ code[group.to].op \in Opening
    BY <1>1, <1>2 DEF LeadsRight, group
  <2>2. Target(code, rip) = group.to
    BY <1>1, <2>1, TargetIsTo DEF group, Opening
  <2>3. QED
    BY <1>2, <2>1, <2>2 DEF StubOf
<1>3. CASE group.op \in DOMAIN StubOf
  <2>1. group.to \in DOMAIN code /\ code[group.to].op = StubOf[group.op]
    BY <1>1, <1>3 DEF LeadsRight, group
  <2>2. StubOf[group.op] \in Stub
    BY <1>3 DEF StubOf, Stub
  <2>3. Target(code, rip) = group.to
    BY <1>1, <2>1, <2>2, TargetIsTo DEF group, Stub
  <2>4. QED
    BY <1>3, <2>1, <2>3 DEF StubOf
<1>4. CASE group.op \in {"oob", "io", "ferror", "eof"}
  <2>1. group.to \in DOMAIN code /\ code[group.to].op = "exit"
    BY <1>1, <1>4 DEF LeadsRight, group
  <2>2. Target(code, rip) = group.to
    BY <1>1, <2>1, TargetIsTo DEF group
  <2>3. QED
    BY <1>4, <2>1, <2>2 DEF StubOf
<1>5. QED
  BY <1>2, <1>3, <1>4

(* Between groups that neither make nor use a frame the stack is the same. *)
LEMMA FrameKept ==
  ASSUME IInv, status = "RUNNING", group.op \notin {"header", "handler"},
         UNCHANGED <<code, stack, kept>>, code[rip'].op \notin {"header", "handler"}
  PROVE  StackAt(group.op)'
  BY DEF IInv, StackAt, Framed, group

(* A step to a group that is no move needs no check. *)
LEMMA NoMove ==
  ASSUME UNCHANGED code, code[rip'].op \notin {"addp", "subp"}
  PROVE  MoveIsSafe'
  BY DEF MoveIsSafe, group

-----------------------------------------------------------------------------

LEMMA InitIInv == Init => IInv
<1>1. SUFFICES ASSUME Init PROVE IInv
  OBVIOUS
<1>2. /\ rip = 0 /\ ctx_ip = 0 /\ r14 \in Cell /\ ctx_dp = 0 /\ al = 0 /\ eax \in Error
      /\ memory = [c \in Cell |-> 0] /\ in = "ok" /\ event = NoEvent
      /\ stack = <<Caller>> /\ kept = Registers /\ status = "RUNNING"
  BY <1>1 DEF Init, ContextInit, Call
<1>3. WellFormed(code)
  BY <1>1 DEF Init
<1>4. TypeOK
  <2>1. stack \in Seq(StackWord)
    BY <1>2 DEF Caller, Word, StackWord
  <2>2. 0 \in Cell /\ 0 \in Byte
    BY WidthAssumption DEF Cell, Byte
  <2>3. memory \in [Cell -> Byte]
    BY <1>2, <2>2
  <2>4. event \in Event
    BY <1>2, <2>2 DEF NoEvent, Event
  <2>5. QED
    BY <1>2, <2>1, <2>2, <2>3, <2>4 DEF TypeOK, Error
<1>5. rip \in DOMAIN code /\ group.op = "header"
  BY <1>2, <1>3 DEF WellFormed, group
<1>6. StackAt(group.op) /\ MoveIsSafe
  BY <1>2, <1>5 DEF StackAt, MoveIsSafe
<1>7. QED
  BY <1>2, <1>3, <1>4, <1>5, <1>6 DEF IInv, Error

(* The caller's registers are pushed above the caller's address. *)
LEMMA HeaderPushes ==
  ASSUME stack = <<Caller>>
  PROVE  /\ stack \o Saved \in Seq(StackWord)
         /\ Len(stack \o Saved) = 6
         /\ Framed(stack \o Saved)
<1>1. Saved \in Seq(StackWord) /\ Len(Saved) = 5
  <2>1. Saved \in [1 .. 5 -> StackWord]
    BY DEF Saved, CalleeSaved, Word, StackWord, Registers
  <2>2. QED
    BY <2>1, IsASeq, LenProperties DEF Saved
<1>2. stack \in Seq(StackWord) /\ Len(stack) = 1 /\ stack[1] = Caller
  BY DEF Caller, Word, StackWord
<1>3. /\ stack \o Saved \in Seq(StackWord)
      /\ Len(stack \o Saved) = Len(stack) + Len(Saved)
      /\ \A i \in 1 .. Len(stack) + Len(Saved) :
           (stack \o Saved)[i] = IF i <= Len(stack) THEN stack[i]
                                 ELSE Saved[i - Len(stack)]
  BY <1>1, <1>2, ConcatProperties
<1>4. (stack \o Saved)[1] = Caller
  BY <1>1, <1>2, <1>3
<1>5. ASSUME NEW i \in 1 .. 5 PROVE (stack \o Saved)[i + 1] = Saved[i]
  <2>1. i + 1 \in 1 .. 6 /\ ~(i + 1 <= 1) /\ (i + 1) - 1 = i
    OBVIOUS
  <2>2. QED
    BY <1>1, <1>2, <1>3, <2>1
<1>6. QED
  BY <1>1, <1>2, <1>3, <1>4, <1>5 DEF Framed

LEMMA HeaderKeeps == IInv /\ RunHeader => IInv'
<1>1. SUFFICES ASSUME IInv, RunHeader PROVE IInv'
  OBVIOUS
<1>2. /\ status = "RUNNING" /\ status' = "RUNNING" /\ code' = code
      /\ rip \in DOMAIN code /\ group.op = "header" /\ rip' = End(code, rip)
      /\ stack' = stack \o Saved /\ kept' = {} /\ stack = <<Caller>>
  BY <1>1 DEF IInv, RunHeader, At, FallThrough, StackAt
<1>3. rip' \in DOMAIN code /\ code[rip'].op \in Opening
  BY <1>1, <1>2, FallsOn DEF Leaves, Follows
<1>4. stack' \in Seq(StackWord) /\ Len(stack') = 6 /\ Framed(stack')
  BY <1>2, HeaderPushes
<1>5. TypeOK'
  BY <1>1, <1>2, <1>3, <1>4, GroupFacts
     DEF IInv, TypeOK, RunHeader, context, outside
<1>6. StackAt(group.op)' /\ MoveIsSafe'
  <2>1. group'.op \in Opening
    BY <1>2, <1>3 DEF group
  <2>2. QED
    BY <1>4, <2>1 DEF StackAt, Framed, MoveIsSafe, Opening
<1>7. QED
  BY <1>1, <1>2, <1>3, <1>5, <1>6 DEF IInv, Error

(* A check that lets a move pass has found it within the memory. *)
LEMMA CheckKeeps == IInv /\ RunCheck => IInv'
<1>1. SUFFICES ASSUME IInv, RunCheck PROVE IInv'
  OBVIOUS
<1>2. /\ status = "RUNNING" /\ status' = "RUNNING" /\ code' = code
      /\ rip \in DOMAIN code /\ group.op \in {"above", "below"} /\ group.n \in Nat
      /\ r14' = r14 /\ r14 \in Cell /\ UNCHANGED <<stack, kept>>
  BY <1>1, GroupFacts DEF IInv, TypeOK, RunCheck, At, group
<1>3. /\ rip' \in DOMAIN code
      /\ code[rip'].op \notin {"header", "handler"}
      /\ MoveIsSafe'
  <2>1. CASE LeavesMemory
    <3>1. rip' \in DOMAIN code /\ code[rip'].op = "oob"
      BY <1>1, <1>2, <2>1, LeadsTo DEF RunCheck, JumpIf, StubOf
    <3>2. QED
      BY <1>2, <3>1, NoMove
  <2>2. CASE ~LeavesMemory
    <3>1. rip' \in DOMAIN code /\ Follows(group, code[rip'])
      BY <1>1, <1>2, <2>2, FallsOn DEF RunCheck, JumpIf, Leaves
    <3>2. CASE group.op = "above"
      <4>1. code[rip'].op = "addp" /\ code[rip'].n = group.n
        BY <3>1, <3>2 DEF Follows
      <4>2. r14 + group.n \in Cell
        BY <1>2, <2>2, <3>2, WidthAssumption DEF LeavesMemory, Cell
      <4>3. QED
        BY <1>2, <3>1, <4>1, <4>2 DEF MoveIsSafe, group
    <3>3. CASE group.op = "below"
      <4>1. code[rip'].op = "subp" /\ code[rip'].n = group.n
        BY <3>1, <3>3 DEF Follows
      <4>2. r14 - group.n \in Cell
        BY <1>2, <2>2, <3>3, WidthAssumption DEF LeavesMemory, Cell
      <4>3. QED
        BY <1>2, <3>1, <4>1, <4>2 DEF MoveIsSafe, group
    <3>4. QED
      BY <1>2, <3>2, <3>3
  <2>3. QED
    BY <2>1, <2>2
<1>4. TypeOK'
  BY <1>1, <1>2, <1>3, GroupFacts DEF IInv, TypeOK, RunCheck, context, outside
<1>5. StackAt(group.op)'
  BY <1>1, <1>2, <1>3, FrameKept
<1>6. QED
  BY <1>1, <1>2, <1>3, <1>4, <1>5 DEF IInv, Error

(* What is left to show of a step that neither makes nor uses a frame and  *)
(* does not lead to a move.                                                *)
LEMMA Resumes ==
  ASSUME IInv, status = "RUNNING", status' = "RUNNING",
         group.op \notin {"header", "handler"},
         UNCHANGED <<code, stack, kept>>, rip' \in DOMAIN code,
         code[rip'].op \notin {"header", "handler", "addp", "subp"}, TypeOK'
  PROVE  IInv'
<1>1. StackAt(group.op)' /\ MoveIsSafe'
  BY FrameKept, NoMove
<1>2. QED
  BY <1>1 DEF IInv, Error

LEMMA MoveKeeps == IInv /\ RunMove => IInv'
<1>1. SUFFICES ASSUME IInv, RunMove PROVE IInv'
  OBVIOUS
<1>2. /\ status = "RUNNING" /\ status' = "RUNNING" /\ UNCHANGED <<code, stack, kept>>
      /\ rip \in DOMAIN code /\ group.op \in {"addp", "subp"} /\ rip' = End(code, rip)
  BY <1>1 DEF IInv, RunMove, At, FallThrough
<1>3. rip' \in DOMAIN code /\ code[rip'].op \in Opening
  BY <1>1, <1>2, FallsOn DEF Leaves, Follows
<1>4. r14' \in Cell
  BY <1>1, <1>2 DEF IInv, MoveIsSafe, RunMove
<1>5. TypeOK'
  BY <1>1, <1>2, <1>3, <1>4, GroupFacts DEF IInv, TypeOK, RunMove, context, outside
<1>6. QED
  BY <1>1, <1>2, <1>3, <1>5, Resumes DEF Opening

LEMMA ModuloRange ==
  ASSUME NEW a \in Int, NEW n \in Nat \ {0}
  PROVE  a % n \in 0 .. n - 1
  OBVIOUS

(* Arithmetic of a byte wraps to a byte. *)
LEMMA ByteWraps ==
  ASSUME NEW a \in Int
  PROVE  a % (UINT8_MAX + 1) \in Byte
<1> DEFINE n == UINT8_MAX + 1
<1>1. n \in Nat \ {0} /\ Byte = 0 .. n - 1
  BY WidthAssumption DEF Byte
<1> HIDE DEF n
<1>2. a % n \in 0 .. n - 1
  BY <1>1, ModuloRange
<1>3. QED
  BY <1>1, <1>2 DEF n

LEMMA AddKeeps == IInv /\ RunAdd => IInv'
<1>1. SUFFICES ASSUME IInv, RunAdd PROVE IInv'
  OBVIOUS
<1>2. /\ status = "RUNNING" /\ status' = "RUNNING" /\ UNCHANGED <<code, stack, kept>>
      /\ rip \in DOMAIN code /\ group.op \in {"addv", "subv"} /\ group.n \in Byte
      /\ rip' = End(code, rip) /\ Value \in Byte /\ r14 \in Cell
      /\ memory \in [Cell -> Byte]
  BY <1>1, GroupFacts DEF IInv, TypeOK, RunAdd, At, FallThrough, Value, group
<1>3. rip' \in DOMAIN code /\ code[rip'].op \in Opening
  BY <1>1, <1>2, FallsOn DEF Leaves, Follows
<1>4. Sum \in Byte
  <2>1. Value + group.n \in Int /\ Value + (UINT8_MAX + 1) - group.n \in Int
    BY <1>2, WidthAssumption DEF Byte
  <2>2. /\ (Value + group.n) % (UINT8_MAX + 1) \in Byte
        /\ (Value + (UINT8_MAX + 1) - group.n) % (UINT8_MAX + 1) \in Byte
    BY <2>1, ByteWraps
  <2>3. CASE group.op = "addv"
    BY <2>2, <2>3, Zenon DEF Sum
  <2>4. CASE group.op # "addv"
    BY <2>2, <2>4, Zenon DEF Sum
  <2>5. QED
    BY <2>3, <2>4
<1>5. memory' \in [Cell -> Byte]
  BY <1>1, <1>2, <1>4 DEF RunAdd
<1>6. TypeOK'
  BY <1>1, <1>2, <1>3, <1>5, GroupFacts DEF IInv, TypeOK, RunAdd, outside
<1>7. QED
  BY <1>1, <1>2, <1>3, <1>6, Resumes DEF Opening

(* Both ways out of a call of the library lead to groups of the program. *)
LEMMA CallResumes ==
  ASSUME IInv, status = "RUNNING", group.op \in {"fputc", "fgetc"},
         NEW taken \in BOOLEAN, JumpIf(taken)
  PROVE  /\ rip' \in DOMAIN code
         /\ code[rip'].op \notin {"header", "handler", "addp", "subp"}
<1>1. CASE taken
  BY <1>1, LeadsTo DEF JumpIf, StubOf
<1>2. CASE ~taken
  BY <1>2, FallsOn DEF JumpIf, Leaves, Follows, Opening
<1>3. QED
  BY <1>1, <1>2

(* What the outside sees of a character is an event. *)
LEMMA CharacterEvent ==
  ASSUME NEW k \in {"write", "read"}, NEW v \in Byte
  PROVE  [kind |-> k, dp |-> 0, value |-> v] \in Event
<1>1. 0 \in Cell
  BY WidthAssumption DEF Cell
<1>2. QED
  BY <1>1 DEF Event

LEMMA FputcKeeps == IInv /\ RunFputc => IInv'
<1>1. SUFFICES ASSUME IInv, RunFputc PROVE IInv'
  OBVIOUS
<1>2. /\ status = "RUNNING" /\ status' = "RUNNING" /\ UNCHANGED <<code, stack, kept>>
      /\ group.op = "fputc" /\ Value \in Byte
  BY <1>1 DEF IInv, TypeOK, RunFputc, At, context, Value
<1>3. /\ rip' \in DOMAIN code
      /\ code[rip'].op \notin {"header", "handler", "addp", "subp"}
  BY <1>1, <1>2, CallResumes DEF RunFputc
<1>4. event' \in Event
  BY <1>1, <1>2, CharacterEvent DEF IInv, TypeOK, RunFputc
<1>5. TypeOK'
  BY <1>1, <1>2, <1>3, <1>4, GroupFacts DEF IInv, TypeOK, RunFputc, context
<1>6. QED
  BY <1>1, <1>2, <1>3, <1>5, Resumes

LEMMA FgetcKeeps == IInv /\ RunFgetc => IInv'
<1>1. SUFFICES ASSUME IInv, RunFgetc PROVE IInv'
  OBVIOUS
<1>2. /\ status = "RUNNING" /\ status' = "RUNNING" /\ UNCHANGED <<code, stack, kept>>
      /\ group.op = "fgetc"
  BY <1>1 DEF IInv, RunFgetc, At, context
<1>3. /\ rip' \in DOMAIN code
      /\ code[rip'].op \notin {"header", "handler", "addp", "subp"}
  BY <1>1, <1>2, CallResumes DEF RunFgetc
<1>4. event' \in Event /\ al' \in Byte /\ in' \in {"ok", "eof", "error"}
  BY <1>1, <1>2, CharacterEvent DEF IInv, TypeOK, RunFgetc
<1>5. TypeOK'
  BY <1>1, <1>2, <1>3, <1>4, GroupFacts DEF IInv, TypeOK, RunFgetc, context
<1>6. QED
  BY <1>1, <1>2, <1>3, <1>5, Resumes

LEMMA StoreKeeps == IInv /\ RunStore => IInv'
<1>1. SUFFICES ASSUME IInv, RunStore PROVE IInv'
  OBVIOUS
<1>2. /\ status = "RUNNING" /\ status' = "RUNNING" /\ UNCHANGED <<code, stack, kept>>
      /\ group.op = "store" /\ rip' = End(code, rip)
  BY <1>1 DEF IInv, RunStore, At, FallThrough
<1>3. rip' \in DOMAIN code /\ code[rip'].op \in Opening
  BY <1>1, <1>2, FallsOn DEF Leaves, Follows
<1>4. memory' \in [Cell -> Byte]
  BY <1>1 DEF IInv, TypeOK, RunStore
<1>5. TypeOK'
  BY <1>1, <1>2, <1>3, <1>4, GroupFacts DEF IInv, TypeOK, RunStore, outside
<1>6. QED
  BY <1>1, <1>2, <1>3, <1>5, Resumes DEF Opening

LEMMA LoopKeeps == IInv /\ RunLoop => IInv'
<1>1. SUFFICES ASSUME IInv, RunLoop PROVE IInv'
  OBVIOUS
<1>2. /\ status = "RUNNING" /\ status' = "RUNNING" /\ UNCHANGED <<code, stack, kept>>
      /\ group.op \in {"jz", "jnz"} /\ JumpIf(LoopJumps)
  BY <1>1 DEF IInv, RunLoop, At
<1>3. rip' \in DOMAIN code /\ code[rip'].op \in Opening
  <2>1. CASE LoopJumps
    BY <1>1, <1>2, <2>1, LeadsTo DEF JumpIf
  <2>2. CASE ~LoopJumps
    BY <1>1, <1>2, <2>2, FallsOn DEF JumpIf, Leaves, Follows
  <2>3. QED
    BY <2>1, <2>2
<1>4. TypeOK'
  BY <1>1, <1>2, <1>3, GroupFacts DEF IInv, TypeOK, RunLoop, context, outside
<1>5. QED
  BY <1>1, <1>2, <1>3, <1>4, Resumes DEF Opening

(* Popping what is on a frame. *)
LEMMA Dropped ==
  ASSUME NEW S, NEW s \in Seq(S), Len(s) = 7
  PROVE  /\ SubSeq(s, 1, 6) \in Seq(S)
         /\ Len(SubSeq(s, 1, 6)) = 6
         /\ \A i \in 1 .. 6 : SubSeq(s, 1, 6)[i] = s[i]
<1>1. ASSUME NEW i \in 1 .. 6 PROVE s[i] \in S
  <2>1. i \in 1 .. Len(s)
    OBVIOUS
  <2>2. QED
    BY <2>1, ElementOfSeq, Zenon
<1>2. /\ SubSeq(s, 1, 6) \in Seq(S)
      /\ Len(SubSeq(s, 1, 6)) = IF 1 <= 6 THEN 6 - 1 + 1 ELSE 0
      /\ \A i \in 1 .. 6 - 1 + 1 : SubSeq(s, 1, 6)[i] = s[1 + i - 1]
  BY <1>1, SubSeqProperties
<1>3. QED
  BY <1>2

(* A call of the handler pushes where to go on: the handler finds it. *)
LEMMA CallKeeps == IInv /\ RunCall => IInv'
<1>1. SUFFICES ASSUME IInv, RunCall PROVE IInv'
  OBVIOUS
<1> DEFINE w == Word("return", ReturnAddress)
<1>2. /\ status = "RUNNING" /\ status' = "RUNNING" /\ UNCHANGED <<code, kept>>
      /\ rip \in DOMAIN code /\ group.op = "debug" /\ rip' = Target(code, rip)
      /\ stack' = Append(stack, w)
  BY <1>1 DEF IInv, RunCall, At
<1>3. rip' \in DOMAIN code /\ code[rip'].op = "handler"
  BY <1>1, <1>2, LeadsTo DEF StubOf
<1>4. ReturnAddress \in DOMAIN code /\ code[ReturnAddress].op \in Opening
  BY <1>1, <1>2, FallsOn DEF ReturnAddress, Leaves, Follows
<1>5. stack \in Seq(StackWord) /\ Len(stack) = 6 /\ Framed(stack)
  BY <1>1, <1>2 DEF IInv, TypeOK, StackAt
<1>6. w \in StackWord /\ w.to = ReturnAddress
  BY <1>1, <1>4, GroupFacts DEF IInv, Word, StackWord
<1> HIDE DEF w
<1>7. /\ stack' \in Seq(StackWord) /\ Len(stack') = 7
      /\ \A i \in 1 .. 6 : stack'[i] = stack[i]
      /\ stack'[7] = w
  <2>1. stack \in Seq(StackWord) /\ w \in StackWord
    BY <1>5, <1>6
  <2>2. /\ Append(stack, w) \in Seq(StackWord)
        /\ Len(Append(stack, w)) = Len(stack) + 1
        /\ \A i \in 1 .. Len(stack) : Append(stack, w)[i] = stack[i]
        /\ Append(stack, w)[Len(stack) + 1] = w
    BY <2>1, AppendProperties
  <2>3. 6 + 1 = 7
    OBVIOUS
  <2>4. QED
    BY <1>2, <1>5, <2>2, <2>3, Zenon
<1>8. Framed(stack')
  <2>1. \A i \in 1 .. 5 : i + 1 \in 1 .. 6
    OBVIOUS
  <2>2. QED
    BY <1>5, <1>7, <2>1 DEF Framed
<1>9. StackAt(group.op)' /\ MoveIsSafe'
  <2>1. group'.op = "handler"
    BY <1>2, <1>3 DEF group
  <2>2. \E o \in DOMAIN code : code[o].op = "debug" /\ w.to = End(code, o)
    BY <1>2, <1>6 DEF ReturnAddress, group
  <2>3. QED
    BY <1>2, <1>4, <1>6, <1>7, <1>8, <2>1, <2>2 DEF StackAt, Framed, MoveIsSafe, End
<1>10. TypeOK'
  BY <1>1, <1>2, <1>3, <1>7, GroupFacts DEF IInv, TypeOK, RunCall, context, outside
<1>11. QED
  BY <1>1, <1>2, <1>3, <1>9, <1>10 DEF IInv, Error

(* The handler pops it again and goes on behind the call. *)
LEMMA HandlerKeeps == IInv /\ RunHandler => IInv'
<1>1. SUFFICES ASSUME IInv, RunHandler PROVE IInv'
  OBVIOUS
<1>2. /\ status = "RUNNING" /\ status' = "RUNNING" /\ UNCHANGED <<code, kept>>
      /\ rip \in DOMAIN code /\ group.op = "handler"
      /\ Len(stack) = 7 /\ Framed(stack) /\ stack \in Seq(StackWord)
      /\ stack[7].to \in DOMAIN code /\ code[stack[7].to].op \in Opening
      /\ memory \in [Cell -> Byte] /\ r14 \in Cell
  BY <1>1 DEF IInv, TypeOK, RunHandler, At, StackAt
<1>3. /\ ctx_ip' = stack[7].to /\ rip' = stack[7].to
      /\ ctx_dp' = r14 /\ r14' = r14 /\ memory' = memory
      /\ event' = [kind |-> "debug", dp |-> r14, value |-> memory[r14]]
  BY <1>1, <1>2 DEF RunHandler, StoredDp
<1>4. /\ stack' \in Seq(StackWord) /\ Len(stack') = 6
      /\ \A i \in 1 .. 6 : stack'[i] = stack[i]
  <2>1. stack' = SubSeq(stack, 1, 6)
    BY <1>1, <1>2 DEF RunHandler, Popped, Pop
  <2>2. QED
    BY <1>2, <2>1, Dropped
<1>5. Framed(stack')
  <2>1. \A i \in 1 .. 5 : i + 1 \in 1 .. 6
    OBVIOUS
  <2>2. QED
    BY <1>2, <1>4, <2>1 DEF Framed
<1>6. StackAt(group.op)' /\ MoveIsSafe'
  <2>1. group'.op \in Opening
    BY <1>2, <1>3 DEF group
  <2>2. QED
    BY <1>4, <1>5, <2>1 DEF StackAt, Framed, MoveIsSafe, Opening
<1>7. event' \in Event
  BY <1>2, <1>3 DEF Event
<1>8. TypeOK'
  <2>1. rip' \in Nat /\ ctx_ip' \in Nat
    BY <1>1, <1>2, <1>3, GroupFacts DEF IInv
  <2>2. QED
    BY <1>1, <1>2, <1>3, <1>4, <1>7, <2>1 DEF IInv, TypeOK, RunHandler
<1>9. QED
  BY <1>1, <1>2, <1>3, <1>6, <1>8 DEF IInv, Error

LEMMA SuccessKeeps == IInv /\ RunSuccess => IInv'
<1>1. SUFFICES ASSUME IInv, RunSuccess PROVE IInv'
  OBVIOUS
<1>2. /\ status = "RUNNING" /\ status' = "RUNNING" /\ UNCHANGED <<code, stack, kept>>
      /\ group.op = "success" /\ rip' = End(code, rip)
  BY <1>1 DEF IInv, RunSuccess, At, FallThrough
<1>3. rip' \in DOMAIN code /\ code[rip'].op = "exit"
  BY <1>1, <1>2, FallsOn DEF Leaves, Follows
<1>4. TypeOK'
  BY <1>1, <1>2, <1>3, GroupFacts
     DEF IInv, TypeOK, RunSuccess, context, outside, Error
<1>5. QED
  BY <1>1, <1>2, <1>3, <1>4, Resumes

LEMMA StubKeeps == IInv /\ RunStub => IInv'
<1>1. SUFFICES ASSUME IInv, RunStub PROVE IInv'
  OBVIOUS
<1>2. /\ status = "RUNNING" /\ status' = "RUNNING" /\ UNCHANGED <<code, stack, kept>>
      /\ group.op \in {"oob", "io", "eof"} /\ rip' = Target(code, rip)
  BY <1>1 DEF IInv, RunStub, At, StubError
<1>3. rip' \in DOMAIN code /\ code[rip'].op = "exit"
  BY <1>1, <1>2, LeadsTo
<1>4. eax' \in Error
  BY <1>1, <1>2 DEF RunStub, StubError, Error
<1>5. TypeOK'
  BY <1>1, <1>2, <1>3, <1>4, GroupFacts DEF IInv, TypeOK, RunStub, context, outside
<1>6. QED
  BY <1>1, <1>2, <1>3, <1>5, Resumes

(* Either it goes on behind itself, or it is where control is lost. *)
LEMMA FerrorKeeps == IInv /\ RunFerror => IInv'
<1>1. SUFFICES ASSUME IInv, RunFerror PROVE IInv'
  OBVIOUS
<1>2. /\ status = "RUNNING" /\ UNCHANGED <<code, stack, kept>>
      /\ rip \in DOMAIN code /\ group.op = "ferror"
  BY <1>1 DEF IInv, RunFerror, At
<1>3. CASE IsRegisterOperand
  <2>1. status' = "RUNNING" /\ rip' = End(code, rip)
    BY <1>1, <1>2, <1>3 DEF RunFerror, FallThrough
  <2>2. rip' \in DOMAIN code /\ code[rip'].op = "eof"
    BY <1>1, <1>2, <2>1, FallsOn DEF Leaves, Follows
  <2>3. TypeOK'
    BY <1>1, <1>2, <2>1, <2>2, GroupFacts
       DEF IInv, TypeOK, RunFerror, context, outside, Error
  <2>4. QED
    BY <1>1, <1>2, <2>1, <2>2, <2>3, Resumes
<1>4. CASE ~IsRegisterOperand
  <2>1. status' = "UNDEFINED" /\ rip' = rip
    BY <1>1, <1>4 DEF RunFerror
  <2>2. TypeOK'
    BY <1>1, <1>2, <2>1 DEF IInv, TypeOK, RunFerror, context, outside, Error
  <2>3. QED
    BY <1>1, <1>2, <2>1, <2>2 DEF IInv, Error, group
<1>5. QED
  BY <1>3, <1>4

(* The exit finds the frame, and leaves nothing of it. *)
LEMMA ExitKeeps == IInv /\ RunExit => IInv'
<1>1. SUFFICES ASSUME IInv, RunExit PROVE IInv'
  OBVIOUS
<1>2. /\ status = "RUNNING" /\ code' = code /\ rip' = rip
      /\ group.op = "exit" /\ Len(stack) = 6 /\ Framed(stack)
      /\ stack \in Seq(StackWord) /\ eax \in Error
  BY <1>1 DEF IInv, TypeOK, RunExit, At, StackAt
<1>3. stack' = <<>>
  <2>1. stack' = SubSeq(stack, 1, 0)
    BY <1>1, <1>2 DEF RunExit, Pop
  <2>2. QED
    BY <1>2, <2>1
<1>4. kept' = Registers
  <2>1. \A k \in 1 .. 5 : stack[1 + k] = Saved[k]
    BY <1>2 DEF Framed
  <2>2. kept' = {CalleeSaved[i] : i \in {k \in 1 .. 5 : stack[1 + k] = Saved[k]}}
    BY <1>1, <1>2 DEF RunExit
  <2>3. kept' = {CalleeSaved[i] : i \in 1 .. 5}
    BY <2>1, <2>2
  <2>4. QED
    BY <2>3 DEF CalleeSaved, Registers
<1>5. status' = eax
  BY <1>1, <1>2 DEF RunExit, Framed
<1>6. TypeOK'
  <2>1. stack' \in Seq(StackWord)
    BY <1>3
  <2>2. QED
    BY <1>1, <1>2, <1>4, <1>5, <2>1 DEF IInv, TypeOK, RunExit, context, outside
<1>7. QED
  BY <1>1, <1>2, <1>3, <1>4, <1>5, <1>6 DEF IInv, Error

-----------------------------------------------------------------------------

LEMMA StepIInv == IInv /\ [Next]_vars => IInv'
<1>1. SUFFICES ASSUME IInv, [Next]_vars PROVE IInv'
  OBVIOUS
<1>2. ASSUME UNCHANGED vars PROVE IInv'
  BY <1>1, <1>2
     DEF IInv, TypeOK, StackAt, Framed, MoveIsSafe, vars, registers, context, outside, group
<1>3. QED
  BY <1>1, <1>2, HeaderKeeps, CheckKeeps, MoveKeeps, AddKeeps, FputcKeeps,
     FgetcKeeps, StoreKeeps, LoopKeeps, CallKeeps, HandlerKeeps, SuccessKeeps,
     StubKeeps, FerrorKeeps, ExitKeeps, Zenon DEF Next

(* No step leaves what the machine code relies on. *)
THEOREM Invariance == Spec => []IInv
<1>1. QED
  BY InitIInv, StepIInv, PTL DEF Spec

(* The data pointer, the registers and the stack of the machine code have  *)
(* their types in every state: dp never leaves the working memory.         *)
THEOREM TypeCorrect == Spec => []TypeOK
<1>1. IInv => TypeOK
  BY DEF IInv
<1>2. QED
  BY <1>1, Invariance, PTL

(* C code is called with an aligned stack, and whatever the machine code   *)
(* did, it returns to its caller with the caller's registers.              *)
THEOREM AbiIsKept == Spec => []AbiKept
<1>1. IInv => AbiKept
  <2>1. SUFFICES ASSUME IInv PROVE AbiKept
    OBVIOUS
  <2>2. At({"fputc", "fgetc", "ferror"}) => Len(stack) % 2 = 0
    <3>1. At({"fputc", "fgetc", "ferror"}) => Len(stack) = 6
      BY <2>1 DEF IInv, At, StackAt
    <3>2. 6 % 2 = 0
      OBVIOUS
    <3>3. QED
      BY <3>1, <3>2, Zenon
  <2>3. At({"handler"}) => Len(stack) % 2 = 1
    <3>1. At({"handler"}) => Len(stack) = 7
      BY <2>1 DEF IInv, At, StackAt
    <3>2. 7 % 2 = 1
      OBVIOUS
    <3>3. QED
      BY <3>1, <3>2, Zenon
  <2>4. QED
    BY <2>1, <2>2, <2>3 DEF AbiKept, Returned, IInv
<1>2. QED
  BY <1>1, Invariance, PTL

(* From code that is well-formed control is lost behind ferror or not at   *)
(* all.                                                                    *)
THEOREM ControlKept == Spec => []AstrayOnlyAtFerror
<1>1. IInv => AstrayOnlyAtFerror
  BY DEF IInv, AstrayOnlyAtFerror
<1>2. QED
  BY <1>1, Invariance, PTL

(* ip and dp of the context change in the debugging handler only, and then *)
(* to the address behind a call of it and the data pointer.                *)
THEOREM ContextIsTheHandlers == Spec => ContextOnlyAtHandler
<1>1. IInv /\ [Next]_vars => [ContextUpdate]_vars
  <2>1. SUFFICES ASSUME IInv, Next PROVE ContextUpdate
    OBVIOUS
  <2>2. CASE RunHandler
    <3>1. /\ Len(stack) = 7
          /\ \E o \in DOMAIN code : code[o].op = "debug" /\ stack[7].to = End(code, o)
      BY <2>1, <2>2 DEF IInv, RunHandler, At, StackAt
    <3>2. /\ ctx_ip' = stack[7].to /\ ctx_dp' = r14
          /\ event'.kind = "debug" /\ event'.dp = r14
      BY <2>2, <3>1 DEF RunHandler, StoredDp
    <3>3. QED
      BY <3>1, <3>2 DEF ContextUpdate
  <2>3. CASE ~RunHandler
    <3>1. ctx_ip' = ctx_ip /\ ctx_dp' = ctx_dp
      BY <2>1, <2>3
         DEF Next, RunHeader, RunCheck, RunMove, RunAdd, RunFputc, RunFgetc, RunStore,
             RunLoop, RunCall, RunSuccess, RunStub, RunFerror, RunExit, context
    <3>2. QED
      BY <3>1 DEF ContextUpdate
  <2>4. QED
    BY <2>2, <2>3
<1>2. QED
  BY <1>1, Invariance, PTL DEF Spec, ContextOnlyAtHandler

=============================================================================
