----------------------- MODULE CompileAndRunJit_proofs -----------------------
(***************************************************************************)
(* compile_and_run with the JIT target, for any sources, any widths, any   *)
(* sizes of pages and any reach of a long jump.  What the compiler and the *)
(* machine code guarantee on their own is taken from their modules of      *)
(* proofs, instantiated here: CP and VP are the two of them together with  *)
(* the facts proved about them.                                            *)
(***************************************************************************)
EXTENDS CompileAndRunJit, Compilers_proofs

CP == INSTANCE JitCompiler_proofs
VP == INSTANCE JitVM_proofs

-----------------------------------------------------------------------------

(***************************************************************************)
(* CP!Next and Compiler!Next are two instances of one definition; so are   *)
(* the helpers.  Unfolded, the two sides of each fact are the same.        *)
(***************************************************************************)

LEMMA SameBuffers ==
  /\ \A b, n : CP!Write(b, n) = Write(b, n) /\ Compiler!Write(b, n) = Write(b, n)
  /\ CP!BufferRecord = BufferRecord
  /\ CP!FreshBuffer = FreshBuffer
  /\ CP!Freed = Compiler!Freed
  /\ CP!FreshJit = Compiler!FreshJit
  /\ \A b : CP!InStorage(b) <=> InStorage(b)
<1>1. \A b, n : CP!Write(b, n) = Write(b, n)
  BY DEF CP!Write, Write, CP!GrownCap, GrownCap, CP!GROWTH_FACTOR, GROWTH_FACTOR
<1>2. \A b, n : Compiler!Write(b, n) = Write(b, n)
  BY DEF Compiler!Write, Write, Compiler!GrownCap, GrownCap, Compiler!GROWTH_FACTOR,
         GROWTH_FACTOR
<1> QED
  BY <1>1, <1>2
  DEF CP!BufferRecord, BufferRecord, CP!FreshBuffer, FreshBuffer, CP!Freed, Compiler!Freed,
      CP!FreshJit, Compiler!FreshJit, CP!InStorage, InStorage

LEMMA SameFaults ==
  /\ \A s, i, e : CP!IsVerdict(s, i, e) <=> IsVerdict(s, i, e)
  /\ \A s, i : CP!TokenAt(s, i) = TokenAt(s, i)
  /\ CP!Adds = Adds
  /\ CP!Keyword = Keyword
<1>1. \A s, i, e : CP!IsVerdict(s, i, e) <=> IsVerdict(s, i, e)
  BY DEF CP!IsVerdict, IsVerdict, CP!FaultAt, FaultAt, CP!TokenAt, TokenAt, CP!Balance,
         Balance, CP!Moves, Moves, CP!Faultless, Faultless
<1>2. \A s, i : CP!TokenAt(s, i) = TokenAt(s, i)
  BY DEF CP!TokenAt, TokenAt
<1>3. CP!Keyword = Keyword
  BY DEF CP!Keyword, Keyword, CP!Moves, Moves, CP!Adds, Adds, CP!Effects, Effects
<1> QED
  BY <1>1, <1>2, <1>3 DEF CP!Adds, Adds

(* Programs of groups, as the machine sees them. *)
LEMMA SameGroups ==
  /\ CP!GroupSize = GroupSize /\ VP!GroupSize = GroupSize
  /\ \A g : (CP!IsGroup(g) <=> IsGroup(g)) /\ (VP!IsGroup(g) <=> IsGroup(g))
  /\ \A p, o : CP!End(p, o) = End(p, o) /\ VP!End(p, o) = End(p, o)
  /\ \A p, o : VP!Target(p, o) = Target(p, o)
  /\ \A g, h : (CP!Follows(g, h) <=> Follows(g, h)) /\ (VP!Follows(g, h) <=> Follows(g, h))
  /\ \A p : (CP!WellFormed(p) <=> WellFormed(p)) /\ (VP!WellFormed(p) <=> WellFormed(p))
  /\ CP!Opening = Opening /\ VP!Opening = Opening
  /\ CP!StubOf = StubOf /\ CP!Stub = Stub
  /\ VP!Byte = Byte /\ VP!Cell = Cell
<1>1. /\ CP!GroupSize = GroupSize /\ VP!GroupSize = GroupSize
      /\ CP!Opening = Opening /\ VP!Opening = Opening
      /\ CP!StubOf = StubOf /\ VP!StubOf = StubOf /\ CP!Stub = Stub
      /\ CP!Byte = Byte /\ VP!Byte = Byte /\ VP!Cell = Cell
      /\ CP!Leaves = Leaves /\ VP!Leaves = Leaves
      /\ VP!NOWHERE = NOWHERE
  BY DEF CP!GroupSize, VP!GroupSize, GroupSize, CP!Opening, VP!Opening, Opening,
         CP!StubOf, VP!StubOf, StubOf, CP!Stub, Stub, CP!Byte, VP!Byte, Byte, VP!Cell, Cell,
         CP!Leaves, VP!Leaves, Leaves, VP!NOWHERE, NOWHERE
<1>2. \A g : (CP!IsGroup(g) <=> IsGroup(g)) /\ (VP!IsGroup(g) <=> IsGroup(g))
  BY <1>1 DEF CP!IsGroup, VP!IsGroup, IsGroup, CP!Group, VP!Group, Group,
              CP!GroupOp, VP!GroupOp, GroupOp
<1>3. \A p, o : CP!End(p, o) = End(p, o) /\ VP!End(p, o) = End(p, o)
  BY <1>1 DEF CP!End, VP!End, End
<1>4. \A p, o : VP!Target(p, o) = Target(p, o)
  BY <1>1, <1>3 DEF VP!Target, Target
<1>5. \A g, h : (CP!Follows(g, h) <=> Follows(g, h)) /\ (VP!Follows(g, h) <=> Follows(g, h))
  BY DEF CP!Follows, VP!Follows, Follows, CP!Opening, VP!Opening, Opening
<1>6. \A p : (CP!WellFormed(p) <=> WellFormed(p)) /\ (VP!WellFormed(p) <=> WellFormed(p))
  BY <1>1, <1>2, <1>3, <1>5
  DEF CP!WellFormed, VP!WellFormed, WellFormed, CP!LeadsRight, VP!LeadsRight, LeadsRight
<1> QED
  BY <1>1, <1>2, <1>3, <1>4, <1>5, <1>6

LEMMA SameCompiler == Compiler!Next <=> CP!Next
<1> USE DEF Compiler!Freed, CP!Freed, Compiler!FreshBuffer, CP!FreshBuffer,
            Compiler!Write, CP!Write, Compiler!GrownCap, CP!GrownCap,
            Compiler!GROWTH_FACTOR, CP!GROWTH_FACTOR, Compiler!Result, CP!Result,
            Compiler!InStorage, CP!InStorage, Compiler!ErrorOf, CP!ErrorOf,
            Compiler!Then, CP!Then, Compiler!GroupSize, CP!GroupSize,
            Compiler!NOWHERE, CP!NOWHERE, Compiler!WriteGroup, CP!WriteGroup,
            Compiler!JUMP_STRUCT, CP!JUMP_STRUCT, Compiler!RecordJump, CP!RecordJump,
            Compiler!End, CP!End, Compiler!SetRel, CP!SetRel,
            Compiler!Advanced, CP!Advanced, Compiler!NextToken, CP!NextToken,
            Compiler!TokenAt, CP!TokenAt, Compiler!Returns, CP!Returns, Compiler!Emit, CP!Emit,
            Compiler!footer_vars, CP!footer_vars, Compiler!Moves, CP!Moves,
            Compiler!Adds, CP!Adds, Compiler!IsRun, CP!IsRun, Compiler!RunLength, CP!RunLength
<1>1. Compiler!CompilerInit <=> CP!CompilerInit
  BY DEF Compiler!CompilerInit, CP!CompilerInit
<1>2. Compiler!EmitHeader <=> CP!EmitHeader
  BY DEF Compiler!EmitHeader, CP!EmitHeader
<1>3. Compiler!EmitAdditiveP <=> CP!EmitAdditiveP
  BY DEF Compiler!EmitAdditiveP, CP!EmitAdditiveP, Compiler!AdditiveP, CP!AdditiveP,
         Compiler!TooLong, CP!TooLong, Compiler!Moved, CP!Moved
<1>4. Compiler!EmitAdditiveV <=> CP!EmitAdditiveV
  BY DEF Compiler!EmitAdditiveV, CP!EmitAdditiveV, Compiler!AdditiveV, CP!AdditiveV,
         Compiler!Wrapped, CP!Wrapped
<1>5. Compiler!EmitWrite <=> CP!EmitWrite
  BY DEF Compiler!EmitWrite, CP!EmitWrite, Compiler!WriteChar, CP!WriteChar
<1>6. Compiler!EmitRead <=> CP!EmitRead
  BY DEF Compiler!EmitRead, CP!EmitRead, Compiler!ReadChar, CP!ReadChar
<1>7. Compiler!EmitDebug <=> CP!EmitDebug
  BY DEF Compiler!EmitDebug, CP!EmitDebug, Compiler!Debug, CP!Debug
<1>8. Compiler!BeginLoop <=> CP!BeginLoop
  BY DEF Compiler!BeginLoop, CP!BeginLoop, Compiler!LoopStart, CP!LoopStart,
         Compiler!PushLoop, CP!PushLoop
<1>9. Compiler!EndLoop <=> CP!EndLoop
  BY DEF Compiler!EndLoop, CP!EndLoop, Compiler!LoopEnd, CP!LoopEnd, Compiler!Top, CP!Top,
         Compiler!PopSize, CP!PopSize
<1>10. Compiler!InvalidToken <=> CP!InvalidToken
  BY DEF Compiler!InvalidToken, CP!InvalidToken
<1>11. Compiler!BeginFooter <=> CP!BeginFooter
  BY DEF Compiler!BeginFooter, CP!BeginFooter, Compiler!Unclosed, CP!Unclosed
<1>12. Compiler!LinkJump <=> CP!LinkJump
  BY DEF Compiler!LinkJump, CP!LinkJump, Compiler!StubOffset, CP!StubOffset,
         Compiler!EmitStub, CP!EmitStub, Compiler!ToExit, CP!ToExit
<1>13. Compiler!EndFooter <=> CP!EndFooter
  BY DEF Compiler!EndFooter, CP!EndFooter
<1> QED
  BY <1>1, <1>2, <1>3, <1>4, <1>5, <1>6, <1>7, <1>8, <1>9, <1>10, <1>11, <1>12, <1>13
  DEF Compiler!Next, CP!Next

LEMMA SameVM == (VM!Next <=> VP!Next) /\ (VM!TypeOK <=> VP!TypeOK)
<1> USE DEF VM!At, VP!At, VM!group, VP!group, VM!FallThrough, VP!FallThrough,
            VM!End, VP!End, VM!GroupSize, VP!GroupSize, VM!JumpIf, VP!JumpIf,
            VM!Target, VP!Target, VM!NOWHERE, VP!NOWHERE, VM!context, VP!context,
            VM!outside, VP!outside, VM!Value, VP!Value, VM!Byte, VP!Byte,
            VM!Word, VP!Word, VM!OUTSIDE, VP!OUTSIDE, VM!Saved, VP!Saved,
            VM!CalleeSaved, VP!CalleeSaved, VM!Pop, VP!Pop, VM!Caller, VP!Caller
<1>1. VM!RunHeader <=> VP!RunHeader
  BY DEF VM!RunHeader, VP!RunHeader
<1>2. VM!RunCheck <=> VP!RunCheck
  BY DEF VM!RunCheck, VP!RunCheck, VM!LeavesMemory, VP!LeavesMemory
<1>3. VM!RunMove <=> VP!RunMove
  BY DEF VM!RunMove, VP!RunMove
<1>4. VM!RunAdd <=> VP!RunAdd
  BY DEF VM!RunAdd, VP!RunAdd, VM!Sum, VP!Sum
<1>5. VM!RunFputc <=> VP!RunFputc
  BY DEF VM!RunFputc, VP!RunFputc
<1>6. VM!RunFgetc <=> VP!RunFgetc
  BY DEF VM!RunFgetc, VP!RunFgetc
<1>7. VM!RunStore <=> VP!RunStore
  BY DEF VM!RunStore, VP!RunStore
<1>8. VM!RunLoop <=> VP!RunLoop
  BY DEF VM!RunLoop, VP!RunLoop, VM!LoopJumps, VP!LoopJumps
<1>9. VM!RunCall <=> VP!RunCall
  BY DEF VM!RunCall, VP!RunCall, VM!ReturnAddress, VP!ReturnAddress
<1>10. VM!RunHandler <=> VP!RunHandler
  BY DEF VM!RunHandler, VP!RunHandler, VM!Popped, VP!Popped, VM!StoredDp, VP!StoredDp
<1>11. VM!RunSuccess <=> VP!RunSuccess
  BY DEF VM!RunSuccess, VP!RunSuccess
<1>12. VM!RunStub <=> VP!RunStub
  BY DEF VM!RunStub, VP!RunStub, VM!StubError, VP!StubError
<1>13. VM!RunFerror <=> VP!RunFerror
  BY DEF VM!RunFerror, VP!RunFerror, VM!IsRegisterOperand, VP!IsRegisterOperand,
         VM!Rel8, VP!Rel8
<1>14. VM!RunExit <=> VP!RunExit
  BY DEF VM!RunExit, VP!RunExit
<1>15. VM!TypeOK <=> VP!TypeOK
  BY DEF VM!TypeOK, VP!TypeOK, VM!Cell, VP!Cell, VM!Error, VP!Error, VM!StackWord,
         VP!StackWord, VM!Registers, VP!Registers, VM!Event, VP!Event
<1> QED
  BY <1>1, <1>2, <1>3, <1>4, <1>5, <1>6, <1>7, <1>8, <1>9, <1>10, <1>11, <1>12, <1>13,
     <1>14, <1>15
  DEF VM!Next, VP!Next

(* The invariants of the compiler and of the machine code, for their       *)
(* instances here; whether a state is one now or after a step.             *)
CompilerInv == CP!JInv /\ CP!VInv /\ CP!SInv

LEMMA CompilerInvariant ==
  /\ CP!Init => CompilerInv
  /\ CompilerInv /\ (Compiler!Next \/ UNCHANGED compiling) => CompilerInv'
  /\ CompilerInv /\ Compiler!Next => CP!Progress /\ CP!NewGroups
<1> USE WidthAssumption, BufferAssumption, JitAssumption DEF CP!Keyword, Keyword,
        CP!Moves, Moves, CP!Adds, Adds, CP!Effects, Effects
<1>1. CP!Init => CP!JInv
  BY CP!InitJInv
<1>2. CP!JInv /\ (CP!Next \/ UNCHANGED compiling) => CP!JInv'
  BY CP!NextJInv DEF CP!vars, compiling
<1>3. CP!JInv /\ CP!VInv /\ (CP!Next \/ UNCHANGED compiling) => CP!VInv'
  BY CP!NextVInv DEF CP!vars, compiling
<1>4. CP!JInv /\ CP!SInv /\ (CP!Next \/ UNCHANGED compiling) => CP!SInv'
  BY CP!NextSInv DEF CP!vars, compiling
<1>5. CP!JInv /\ CP!VInv /\ CP!Next => CP!Progress /\ CP!NewGroups
  BY CP!StepProgress, CP!StepNew
<1>6. CP!Init => CP!VInv
  BY DEF CP!Init, CP!VInv, CP!Reading, CP!VerdictIsFirstFault, CP!Ended
<1>7. CP!Init => CP!SInv
  BY SameBuffers DEF CP!Init, CP!SInv, CP!Keeps, CP!Paged, CP!BufferRecord, CP!FreshJit,
                     CP!InStorage
<1> QED
  BY <1>1, <1>2, <1>3, <1>4, <1>5, <1>6, <1>7, SameCompiler DEF CompilerInv

LEMMA MachineInvariant ==
  /\ VP!Init => VP!IInv
  /\ VP!IInv /\ (VM!Next \/ UNCHANGED <<code, running>>) => VP!IInv'
<1>1. VP!Init => VP!IInv
  BY VP!InitIInv, WidthAssumption
<1>2. VP!IInv /\ (VP!Next \/ UNCHANGED <<code, running>>) => VP!IInv'
  BY VP!StepIInv, WidthAssumption
  DEF VP!vars, VP!registers, VP!context, VP!outside, running
<1> QED
  BY <1>1, <1>2, SameVM

LEMMA InvariantsStart ==
  /\ CP!Init' => CompilerInv'
  /\ VP!Init' => VP!IInv'
  BY CompilerInvariant, MachineInvariant, PTL

-----------------------------------------------------------------------------

(***************************************************************************)
(* What is known of a program that was handed out, also if stubs of it     *)
(* were lost: where control goes on from each of its groups.               *)
(***************************************************************************)
GoesRight(o) ==
  LET g == code[o]
  IN  /\ o \in Nat
      /\ g.op \in GroupOp /\ g.n \in Nat /\ g.to \in Nat
      /\ g.op \in {"addv", "subv"} => g.n \in Byte
      /\ g.op = "header" <=> o = 0
      /\ g.op = "exit" <=> o = exit_offset
      /\ g.op \in {"oob", "io", "ferror", "eof", "handler"} <=> o > exit_offset
      /\ o < exit_offset => /\ End(code, o) \in DOMAIN code
                            /\ Follows(g, code[End(code, o)])
      /\ End(code, o) \in Nat /\ End(code, o) > o
      /\ g.op \in {"jz", "jnz"} =>
           Target(code, o) \in DOMAIN code /\ code[Target(code, o)].op \in Opening
      /\ g.op \in DOMAIN StubOf => Target(code, o) \in Nat /\ Target(code, o) > exit_offset
      /\ g.op \in {"oob", "io", "ferror", "eof"} => Target(code, o) = exit_offset

HandedOut ==
  /\ exit_offset \in Nat \ {0}
  /\ {0, exit_offset} \subseteq DOMAIN code
  /\ \A o \in DOMAIN code : GoesRight(o)

LEMMA SuccessHandsOut == CP!JInv /\ outcome = "SUCCESS" => HandedOut
<1> SUFFICES ASSUME CP!JInv, outcome = "SUCCESS" PROVE HandedOut
  OBVIOUS
<1>1. CP!CompleteUpToExit /\ CP!TypeOK
  BY DEF CP!JInv, CP!Ended
<1>2. CP!code = code
  BY DEF CP!code, code
<1>3. exit_offset \in Nat /\ {0, exit_offset} \subseteq DOMAIN code
  BY <1>1, <1>2 DEF CP!CompleteUpToExit, CP!TypeOK
<1>4. \A o \in DOMAIN code :
        LET g == code[o]
        IN  /\ o \in Nat /\ IsGroup(g)
            /\ g.op = "header" <=> o = 0
            /\ g.op = "exit" <=> o = exit_offset
            /\ g.op \in {"oob", "io", "ferror", "eof", "handler"} <=> o > exit_offset
            /\ o < exit_offset => End(code, o) \in DOMAIN code
                                  /\ Follows(g, code[End(code, o)])
            /\ g.op \in {"jz", "jnz"} => g.to \in DOMAIN code /\ code[g.to].op \in Opening
            /\ g.op \in DOMAIN StubOf => g.to > exit_offset
            /\ g.op \in {"oob", "io", "ferror", "eof"} => g.to = exit_offset
  BY <1>1, <1>2, SameGroups DEF CP!CompleteUpToExit, CP!TypeOK
<1>5. exit_offset # 0
  BY <1>3, <1>4
<1>6. ASSUME NEW o \in DOMAIN code PROVE GoesRight(o)
  <2> DEFINE g == code[o]
  <2>1. /\ o \in Nat /\ g.op \in GroupOp /\ g.n \in Nat /\ g.to \in Nat
        /\ g.op \in {"addv", "subv"} => g.n \in Byte
    BY <1>4 DEF IsGroup, Group
  <2>2. GroupSize[g.op] \in Nat \ {0}
    BY <2>1 DEF GroupOp, GroupSize
  <2>3. End(code, o) \in Nat /\ End(code, o) > o
    BY <2>1, <2>2 DEF End
  <2>4. g.op \in {"jz", "jnz"} =>
          Target(code, o) \in DOMAIN code /\ code[Target(code, o)].op \in Opening
    <3>1. g.op \in {"jz", "jnz"} => g.to \in DOMAIN code /\ code[g.to].op \in Opening
      BY <1>4
    <3>2. g.op \in {"jz", "jnz"} => g.to # 0
      BY <1>4, <3>1 DEF Opening
    <3> QED
      BY <3>1, <3>2 DEF Target, NOWHERE
  <2>5. g.op \in DOMAIN StubOf => Target(code, o) \in Nat /\ Target(code, o) > exit_offset
    <3>1. g.op \in DOMAIN StubOf => g.to > exit_offset
      BY <1>4
    <3> QED
      BY <1>3, <2>1, <3>1 DEF Target, NOWHERE
  <2>6. g.op \in {"oob", "io", "ferror", "eof"} => Target(code, o) = exit_offset
    <3>1. g.op \in {"oob", "io", "ferror", "eof"} => g.to = exit_offset
      BY <1>4
    <3> QED
      BY <1>5, <3>1 DEF Target, NOWHERE
  <2> QED
    BY <1>4, <2>1, <2>3, <2>4, <2>5, <2>6 DEF GoesRight
<1> QED
  BY <1>3, <1>5, <1>6 DEF HandedOut

-----------------------------------------------------------------------------

(***************************************************************************)
(* The machine in any program that was handed out.  If a stub was lost,    *)
(* control may come to another stub, or to none.  But it comes to the      *)
(* footer with the frame of the header, or with an address above it that   *)
(* can be gone on at; so what is lost is lost there: the handler called    *)
(* without such an address leaves the program, and the exit reached with   *)
(* one does not find the caller.                                           *)
(***************************************************************************)
Sited ==
  rip \in DOMAIN code =>
    /\ VP!MoveIsSafe
    /\ IF rip = 0 THEN stack = <<VP!Caller>>
       ELSE Len(stack) \in {6, 7} /\ VP!Framed(stack)
    /\ rip # 0 /\ Len(stack) = 7 =>
         rip >= exit_offset /\ stack[7].to \in DOMAIN code /\ code[stack[7].to].op \in Opening

Contained == VP!TypeOK /\ (status = "RUNNING" => Sited)

(* Control is at a group that may jump to the footer, or in the footer.    *)
Failing == rip > exit_offset \/ code[rip].op \in DOMAIN StubOf

(* The exit is reached without an error from the end of the program only,  *)
(* and success is returned from there only; the footer is reached from     *)
(* groups that jump to it only, and errors are returned from there only.   *)
ThroughTheEnd ==
  /\ status' = "RUNNING" /\ rip' = exit_offset /\ eax' = "SUCCESS" => rip + 2 = exit_offset
  /\ status' \in VP!Error => rip = exit_offset /\ rip' = rip /\ eax = status'
  /\ status' = "RUNNING" /\ (rip' > exit_offset \/ (rip' = exit_offset /\ eax' # "SUCCESS")) =>
       Failing

StepKept == Contained' /\ ThroughTheEnd

Stays == UNCHANGED <<code, exit_offset>>

(* The next group, when there is one where control has gone. *)
LEMMA AtGroup ==
  ASSUME HandedOut, Contained, Stays, status = "RUNNING", rip \in DOMAIN code
  PROVE  /\ rip \in Nat /\ GoesRight(rip)
         /\ VP!group = code[rip] /\ (code' = code) /\ (exit_offset' = exit_offset)
         /\ exit_offset \in Nat \ {0}
         /\ rip = 0 => stack = <<VP!Caller>>
         /\ rip # 0 => Len(stack) \in {6, 7} /\ VP!Framed(stack)
         /\ rip # 0 /\ rip < exit_offset => Len(stack) = 6
BY DEF HandedOut, Contained, Sited, GoesRight, Stays, VP!group

(* A step that leaves the frame alone. *)
LEMMA Resumes ==
  ASSUME HandedOut, Contained, Stays, status = "RUNNING", rip \in DOMAIN code, rip # 0,
         status' = "RUNNING", UNCHANGED stack, VP!TypeOK',
         Failing \/ rip' < exit_offset \/ (rip' = exit_offset /\ eax' = "SUCCESS"),
         \/ /\ rip < exit_offset /\ rip' \in DOMAIN code /\ rip' \notin {0, exit_offset}
            /\ code[rip'].op \in {"addp", "subp"} => VP!MoveIsSafe'
         \/ rip' \in Int /\ rip' > exit_offset
         \/ rip' = exit_offset /\ (eax' # "SUCCESS" \/ rip + 2 = exit_offset)
  PROVE  StepKept
<1>1. /\ rip \in Nat /\ code' = code /\ exit_offset' = exit_offset /\ exit_offset \in Nat \ {0}
      /\ Len(stack) \in {6, 7} /\ VP!Framed(stack)
      /\ rip < exit_offset => Len(stack) = 6
  BY AtGroup
<1>2. rip' # 0
  BY <1>1
<1>3. VP!Framed(stack') /\ Len(stack') \in {6, 7}
  BY <1>1 DEF VP!Framed
<1>4. rip' \in DOMAIN code => VP!MoveIsSafe'
  <2>1. CASE rip' \in DOMAIN code /\ code[rip'].op \notin {"addp", "subp"}
    BY <1>1, <2>1 DEF VP!MoveIsSafe, VP!group
  <2>2. rip' \in DOMAIN code /\ rip' >= exit_offset => code[rip'].op \notin {"addp", "subp"}
    BY <1>1 DEF HandedOut, GoesRight
  <2> QED
    BY <1>1, <2>1, <2>2
<1>5. Len(stack') = 7 =>
        rip' >= exit_offset /\ stack'[7].to \in DOMAIN code /\ code[stack'[7].to].op \in Opening
  BY <1>1 DEF Contained, Sited
<1>6. Sited'
  BY <1>1, <1>2, <1>3, <1>4, <1>5 DEF Sited, VP!Framed, VP!Caller, VP!Word, VP!OUTSIDE,
     VP!Saved, VP!CalleeSaved
<1>7. "RUNNING" \notin VP!Error
  BY DEF VP!Error
<1>8. rip' \in Int
  BY <1>1 DEF HandedOut, GoesRight
<1> QED
  BY <1>1, <1>6, <1>7, <1>8 DEF StepKept, Contained, ThroughTheEnd

(* Where control falls to in front of the exit. *)
LEMMA FallsOn ==
  ASSUME HandedOut, NEW o \in DOMAIN code, o < exit_offset
  PROVE  /\ End(code, o) \in DOMAIN code /\ End(code, o) \in Nat /\ End(code, o) # 0
         /\ code[o].op = "above" => code[End(code, o)].op = "addp"
                                      /\ code[End(code, o)].n = code[o].n
         /\ code[o].op = "below" => code[End(code, o)].op = "subp"
                                      /\ code[End(code, o)].n = code[o].n
         /\ code[o].op = "fgetc" => code[End(code, o)].op = "store"
         /\ code[o].op = "success" => End(code, o) = exit_offset
         /\ code[o].op \notin {"above", "below", "fgetc", "success"} =>
              code[End(code, o)].op \in Opening
         /\ code[o].op # "success" => End(code, o) # exit_offset
<1>1. GoesRight(o) /\ exit_offset \in Nat
  BY DEF HandedOut
<1>2. End(code, o) \in DOMAIN code /\ Follows(code[o], code[End(code, o)])
  BY <1>1 DEF GoesRight
<1>3. code[o].op # "ferror"
  BY <1>1 DEF GoesRight
<1>4. code[End(code, o)].op = "exit" <=> End(code, o) = exit_offset
  BY <1>2 DEF HandedOut, GoesRight
<1>5. End(code, o) \in Nat /\ End(code, o) # 0
  BY <1>1 DEF GoesRight
<1> DEFINE g == code[o]
           h == code[End(code, o)]
<1> HIDE DEF g, h
<1>6. /\ g.op = "above" => h.op = "addp" /\ h.n = g.n
      /\ g.op = "below" => h.op = "subp" /\ h.n = g.n
      /\ g.op = "fgetc" => h.op = "store"
      /\ g.op = "success" => h.op = "exit"
      /\ g.op \notin {"above", "below", "fgetc", "success"} => h.op \in Opening
  <2>1. Follows(g, h) /\ g.op # "ferror"
    BY <1>2, <1>3 DEF g, h
  <2> QED
    BY <2>1 DEF Follows
<1>7. g.op # "success" => h.op # "exit"
  BY <1>6 DEF Opening
<1> QED
  BY <1>2, <1>4, <1>5, <1>6, <1>7 DEF g, h

LEMMA OpeningIsInside ==
  ASSUME HandedOut, NEW o \in DOMAIN code, code[o].op \in Opening
  PROVE  o \in Nat /\ o \notin {0, exit_offset} /\ o < exit_offset
         /\ code[o].op \notin {"addp", "subp"}
BY DEF HandedOut, GoesRight, Opening

LEMMA HeaderStep ==
  ASSUME HandedOut, Contained, Stays, VP!RunHeader
  PROVE  StepKept
<1>1. /\ status = "RUNNING" /\ status' = "RUNNING" /\ rip \in DOMAIN code
      /\ VP!group.op = "header" /\ rip' = End(code, rip)
      /\ stack' = stack \o VP!Saved /\ kept' = {} /\ r14' = ctx_dp
      /\ UNCHANGED <<al, eax, ctx_ip, ctx_dp, memory, in, event>>
  BY SameGroups DEF VP!RunHeader, VP!At, VP!FallThrough, VP!context, VP!outside
<1>2. rip = 0 /\ code' = code /\ exit_offset' = exit_offset /\ stack = <<VP!Caller>>
      /\ rip < exit_offset /\ code[rip].op = "header"
  BY <1>1, AtGroup DEF GoesRight
<1>3. /\ rip' \in DOMAIN code /\ rip' \in Nat /\ rip' # 0 /\ code[rip'].op \in Opening
      /\ rip' < exit_offset /\ exit_offset \in Nat /\ code[rip'].op \notin {"addp", "subp"}
  BY <1>1, <1>2, FallsOn, OpeningIsInside DEF HandedOut
<1>4. stack' \in Seq(VP!StackWord) /\ Len(stack') = 6 /\ VP!Framed(stack')
  BY <1>1, <1>2, VP!HeaderPushes, WidthAssumption
<1>5. VP!TypeOK'
  BY <1>1, <1>3, <1>4 DEF Contained, VP!TypeOK
<1>6. Sited'
  BY <1>2, <1>3, <1>4 DEF Sited, VP!MoveIsSafe, VP!group, VP!Framed, VP!Caller, VP!Word,
     VP!OUTSIDE, VP!Saved, VP!CalleeSaved
<1> QED
  BY <1>1, <1>2, <1>3, <1>5, <1>6 DEF StepKept, Contained, ThroughTheEnd, VP!Error

LEMMA CheckStep ==
  ASSUME HandedOut, Contained, Stays, VP!RunCheck
  PROVE  StepKept
<1>1. /\ status = "RUNNING" /\ status' = "RUNNING" /\ rip \in DOMAIN code
      /\ VP!group.op \in {"above", "below"}
      /\ rip' = IF VP!LeavesMemory THEN Target(code, rip) ELSE End(code, rip)
      /\ UNCHANGED <<r14, al, eax, stack, kept, ctx_ip, ctx_dp, memory, in, event>>
  BY SameGroups DEF VP!RunCheck, VP!At, VP!JumpIf, VP!context, VP!outside
<1>2. /\ rip \in Nat /\ GoesRight(rip) /\ VP!group = code[rip] /\ code' = code
      /\ exit_offset' = exit_offset /\ exit_offset \in Nat \ {0}
  BY <1>1, AtGroup
<1>3. rip # 0 /\ rip < exit_offset /\ code[rip].op \in {"above", "below"}
  BY <1>1, <1>2 DEF GoesRight
<1>4. Target(code, rip) \in Nat /\ Target(code, rip) > exit_offset
  BY <1>2, <1>3 DEF GoesRight, StubOf
<1>5. /\ End(code, rip) \in DOMAIN code /\ End(code, rip) \in Nat
      /\ End(code, rip) \notin {0, exit_offset}
  BY <1>3, FallsOn, <1>1
<1>6. VP!TypeOK'
  BY <1>1, <1>4, <1>5 DEF Contained, VP!TypeOK
<1>7. ASSUME ~VP!LeavesMemory PROVE VP!MoveIsSafe'
  <2>1. r14 \in Cell /\ code[rip].n \in Nat
    BY <1>2, SameGroups DEF Contained, VP!TypeOK, GoesRight
  <2>2. rip' = End(code, rip) /\ r14' = r14
    BY <1>1, <1>7
  <2>3. CASE code[rip].op = "above"
    <3>1. code[rip'].op = "addp" /\ code[rip'].n = code[rip].n
      BY <1>1, <1>3, <2>2, <2>3, FallsOn
    <3>2. r14 + code[rip].n \in Cell
      BY <1>2, <1>7, <2>1, <2>3, WidthAssumption DEF VP!LeavesMemory, Cell, WidthAssumption
    <3> QED
      BY <1>2, <2>2, <3>1, <3>2, SameGroups DEF VP!MoveIsSafe, VP!group
  <2>4. CASE code[rip].op = "below"
    <3>1. code[rip'].op = "subp" /\ code[rip'].n = code[rip].n
      BY <1>1, <1>3, <2>2, <2>4, FallsOn
    <3>2. r14 - code[rip].n \in Cell
      BY <1>2, <1>7, <2>1, <2>4, WidthAssumption DEF VP!LeavesMemory, Cell, WidthAssumption
    <3> QED
      BY <1>2, <2>2, <3>1, <3>2, SameGroups DEF VP!MoveIsSafe, VP!group
  <2> QED
    BY <1>3, <2>3, <2>4
<1>8. Failing
  BY <1>3 DEF Failing, StubOf
<1>9. CASE VP!LeavesMemory
  BY <1>1, <1>2, <1>3, <1>4, <1>6, <1>8, <1>9, Resumes
<1>10. CASE ~VP!LeavesMemory
  BY <1>1, <1>2, <1>3, <1>5, <1>6, <1>7, <1>8, <1>10, Resumes
<1> QED
  BY <1>9, <1>10

(* Groups that are followed by the beginning of another. *)
LEMMA FallsStep ==
  ASSUME HandedOut, Contained, Stays, status = "RUNNING", status' = "RUNNING",
         rip \in DOMAIN code, rip' = End(code, rip), UNCHANGED stack,
         code[rip].op \notin {"header", "above", "below", "fgetc", "success", "exit", "oob",
                              "io", "ferror", "eof", "handler"},
         rip' \in Nat => VP!TypeOK'
  PROVE  StepKept
<1>1. /\ rip \in Nat /\ GoesRight(rip) /\ exit_offset \in Nat \ {0}
  BY AtGroup
<1>2. rip # 0 /\ rip < exit_offset
  BY <1>1 DEF GoesRight
<1>3. rip' \in DOMAIN code /\ rip' \in Nat /\ code[rip'].op \in Opening
  BY <1>2, FallsOn
<1>4. /\ rip' \notin {0, exit_offset} /\ rip' < exit_offset
      /\ code[rip'].op \notin {"addp", "subp"}
  BY <1>3, OpeningIsInside
<1> QED
  BY <1>2, <1>3, <1>4, Resumes

LEMMA MoveStep ==
  ASSUME HandedOut, Contained, Stays, VP!RunMove
  PROVE  StepKept
<1>1. /\ status = "RUNNING" /\ status' = "RUNNING" /\ rip \in DOMAIN code
      /\ VP!group.op \in {"addp", "subp"} /\ rip' = End(code, rip)
      /\ UNCHANGED <<al, eax, stack, kept, ctx_ip, ctx_dp, memory, in, event>>
  BY SameGroups DEF VP!RunMove, VP!At, VP!FallThrough, VP!context, VP!outside
<1>2. VP!group = code[rip]
  BY <1>1, AtGroup
<1>3. r14' \in VP!Cell
  BY <1>1 DEF Contained, Sited, VP!MoveIsSafe, VP!RunMove
<1>4. rip' \in Nat => VP!TypeOK'
  BY <1>1, <1>3 DEF Contained, VP!TypeOK
<1> QED
  BY <1>1, <1>2, <1>4, FallsStep

LEMMA AddStep ==
  ASSUME HandedOut, Contained, Stays, VP!RunAdd
  PROVE  StepKept
<1>1. /\ status = "RUNNING" /\ status' = "RUNNING" /\ rip \in DOMAIN code
      /\ VP!group.op \in {"addv", "subv"} /\ rip' = End(code, rip)
      /\ memory' = [memory EXCEPT ![r14] = VP!Sum]
      /\ UNCHANGED <<r14, al, eax, stack, kept, ctx_ip, ctx_dp, in, event>>
  BY SameGroups DEF VP!RunAdd, VP!At, VP!FallThrough, VP!outside
<1>2. /\ VP!group = code[rip] /\ VP!group.n \in VP!Byte
      /\ memory \in [VP!Cell -> VP!Byte] /\ r14 \in VP!Cell /\ VP!Value \in VP!Byte
  BY <1>1, AtGroup, SameGroups DEF GoesRight, Contained, VP!TypeOK, VP!Value
<1>3. VP!Sum \in VP!Byte
  <2>1. /\ VP!Value + VP!group.n \in Int
        /\ VP!Value + (UINT8_MAX + 1) - VP!group.n \in Int
    BY <1>2, WidthAssumption DEF VP!Byte, WidthAssumption
  <2>2. /\ (VP!Value + VP!group.n) % (UINT8_MAX + 1) \in VP!Byte
        /\ (VP!Value + (UINT8_MAX + 1) - VP!group.n) % (UINT8_MAX + 1) \in VP!Byte
    BY <2>1, VP!ByteWraps, WidthAssumption
  <2>3. CASE VP!group.op = "addv"
    BY <2>2, <2>3, Zenon DEF VP!Sum
  <2>4. CASE VP!group.op # "addv"
    BY <2>2, <2>4, Zenon DEF VP!Sum
  <2> QED
    BY <2>3, <2>4
<1>4. memory' \in [VP!Cell -> VP!Byte]
  BY <1>1, <1>2, <1>3
<1>5. rip' \in Nat => VP!TypeOK'
  BY <1>1, <1>4 DEF Contained, VP!TypeOK
<1> QED
  BY <1>1, <1>2, <1>5, FallsStep

LEMMA StoreStep ==
  ASSUME HandedOut, Contained, Stays, VP!RunStore
  PROVE  StepKept
<1>1. /\ status = "RUNNING" /\ status' = "RUNNING" /\ rip \in DOMAIN code
      /\ VP!group.op = "store" /\ rip' = End(code, rip)
      /\ memory' = [memory EXCEPT ![r14] = al]
      /\ UNCHANGED <<r14, al, eax, stack, kept, ctx_ip, ctx_dp, in, event>>
  BY SameGroups DEF VP!RunStore, VP!At, VP!FallThrough, VP!outside
<1>2. VP!group = code[rip]
  BY <1>1, AtGroup
<1>3. rip' \in Nat => VP!TypeOK'
  BY <1>1 DEF Contained, VP!TypeOK
<1> QED
  BY <1>1, <1>2, <1>3, FallsStep

(* The displacement of a jump to the footer leads there or on. *)
LEMMA CallStep ==
  ASSUME HandedOut, Contained, Stays, status = "RUNNING", status' = "RUNNING",
         rip \in DOMAIN code, UNCHANGED stack,
         code[rip].op \in {"fputc", "fgetc"}, NEW taken \in BOOLEAN,
         rip' = IF taken THEN Target(code, rip) ELSE End(code, rip),
         rip' \in Nat => VP!TypeOK'
  PROVE  StepKept
<1>1. /\ rip \in Nat /\ GoesRight(rip) /\ exit_offset \in Nat \ {0} /\ code' = code
  BY AtGroup
<1>2. rip # 0 /\ rip < exit_offset /\ Failing
  BY <1>1 DEF GoesRight, Failing, StubOf
<1>3. CASE taken
  <2>1. rip' \in Nat /\ rip' > exit_offset
    BY <1>1, <1>3 DEF GoesRight, StubOf
  <2> QED
    BY <1>2, <2>1, Resumes
<1>4. CASE ~taken
  <2>1. rip' = End(code, rip) /\ rip' \in DOMAIN code /\ rip' \in Nat
        /\ rip' \notin {0, exit_offset}
    BY <1>2, <1>4, FallsOn
  <2>2. code[rip'].op \in Opening \cup {"store"}
    BY <1>2, <2>1, FallsOn
  <2>3. code[rip'].op \notin {"addp", "subp"}
    BY <2>2 DEF Opening
  <2> QED
    BY <1>2, <2>1, <2>3, Resumes
<1> QED
  BY <1>3, <1>4

LEMMA FputcStep ==
  ASSUME HandedOut, Contained, Stays, VP!RunFputc
  PROVE  StepKept
<1>1. /\ status = "RUNNING" /\ status' = "RUNNING" /\ rip \in DOMAIN code
      /\ VP!group.op = "fputc"
      /\ UNCHANGED <<r14, al, eax, stack, kept, ctx_ip, ctx_dp, memory, in>>
  BY DEF VP!RunFputc, VP!At, VP!context
<1>2. PICK taken \in BOOLEAN :
        /\ rip' = IF taken THEN Target(code, rip) ELSE End(code, rip)
        /\ event' \in {event, [kind |-> "write", dp |-> 0, value |-> VP!Value]}
  BY SameGroups DEF VP!RunFputc, VP!JumpIf
<1>3. VP!group = code[rip] /\ VP!Value \in VP!Byte
  BY <1>1, AtGroup DEF Contained, VP!TypeOK, VP!Value
<1>4. event' \in VP!Event
  BY <1>2, <1>3, VP!CharacterEvent, WidthAssumption DEF Contained, VP!TypeOK
<1>5. rip' \in Nat => VP!TypeOK'
  BY <1>1, <1>4 DEF Contained, VP!TypeOK
<1> QED
  BY <1>1, <1>2, <1>3, <1>5, CallStep

LEMMA FgetcStep ==
  ASSUME HandedOut, Contained, Stays, VP!RunFgetc
  PROVE  StepKept
<1>1. /\ status = "RUNNING" /\ status' = "RUNNING" /\ rip \in DOMAIN code
      /\ VP!group.op = "fgetc"
      /\ UNCHANGED <<r14, eax, stack, kept, ctx_ip, ctx_dp, memory>>
  BY DEF VP!RunFgetc, VP!At, VP!context
<1>2. PICK taken \in BOOLEAN :
        rip' = IF taken THEN Target(code, rip) ELSE End(code, rip)
  BY SameGroups DEF VP!RunFgetc, VP!JumpIf
<1>3. VP!group = code[rip]
  BY <1>1, AtGroup
<1>4. event' \in VP!Event /\ al' \in VP!Byte /\ in' \in {"ok", "eof", "error"}
  BY VP!CharacterEvent, WidthAssumption DEF Contained, VP!TypeOK, VP!RunFgetc
<1>5. rip' \in Nat => VP!TypeOK'
  BY <1>1, <1>4 DEF Contained, VP!TypeOK
<1> QED
  BY <1>1, <1>2, <1>3, <1>5, CallStep

LEMMA LoopStep ==
  ASSUME HandedOut, Contained, Stays, VP!RunLoop
  PROVE  StepKept
<1>1. /\ status = "RUNNING" /\ status' = "RUNNING" /\ rip \in DOMAIN code
      /\ VP!group.op \in {"jz", "jnz"}
      /\ rip' = IF VP!LoopJumps THEN Target(code, rip) ELSE End(code, rip)
      /\ UNCHANGED <<r14, al, eax, stack, kept, ctx_ip, ctx_dp, memory, in, event>>
  BY SameGroups DEF VP!RunLoop, VP!At, VP!JumpIf, VP!context, VP!outside
<1>2. /\ rip \in Nat /\ GoesRight(rip) /\ VP!group = code[rip] /\ exit_offset \in Nat \ {0}
  BY <1>1, AtGroup
<1>3. rip # 0 /\ rip < exit_offset
  BY <1>1, <1>2 DEF GoesRight
<1>4. rip' \in DOMAIN code /\ code[rip'].op \in Opening
  BY <1>1, <1>2, <1>3, FallsOn DEF GoesRight
<1>5. /\ rip' \in Nat /\ rip' \notin {0, exit_offset} /\ rip' < exit_offset
      /\ code[rip'].op \notin {"addp", "subp"}
  BY <1>4, OpeningIsInside
<1>6. VP!TypeOK'
  BY <1>1, <1>5 DEF Contained, VP!TypeOK
<1> QED
  BY <1>1, <1>3, <1>4, <1>5, <1>6, Resumes

LEMMA SuccessStep ==
  ASSUME HandedOut, Contained, Stays, VP!RunSuccess
  PROVE  StepKept
<1>1. /\ status = "RUNNING" /\ status' = "RUNNING" /\ rip \in DOMAIN code
      /\ VP!group.op = "success" /\ rip' = End(code, rip) /\ eax' = "SUCCESS"
      /\ UNCHANGED <<r14, al, stack, kept, ctx_ip, ctx_dp, memory, in, event>>
  BY SameGroups DEF VP!RunSuccess, VP!At, VP!FallThrough, VP!context, VP!outside
<1>2. /\ rip \in Nat /\ GoesRight(rip) /\ VP!group = code[rip] /\ exit_offset \in Nat \ {0}
  BY <1>1, AtGroup
<1>3. rip # 0 /\ rip < exit_offset
  BY <1>1, <1>2 DEF GoesRight
<1>4. rip' = exit_offset /\ rip + 2 = exit_offset
  BY <1>1, <1>2, <1>3, FallsOn DEF End, GroupSize
<1>5. VP!TypeOK'
  BY <1>1, <1>2, <1>4 DEF Contained, VP!TypeOK, VP!Error
<1> QED
  BY <1>1, <1>3, <1>4, <1>5, Resumes

LEMMA StubStep ==
  ASSUME HandedOut, Contained, Stays, VP!RunStub
  PROVE  StepKept
<1>1. /\ status = "RUNNING" /\ status' = "RUNNING" /\ rip \in DOMAIN code
      /\ VP!group.op \in {"oob", "io", "eof"} /\ rip' = Target(code, rip)
      /\ eax' = VP!StubError[VP!group.op]
      /\ UNCHANGED <<r14, al, stack, kept, ctx_ip, ctx_dp, memory, in, event>>
  BY SameGroups DEF VP!RunStub, VP!At, VP!context, VP!outside, VP!StubError
<1>2. /\ rip \in Nat /\ GoesRight(rip) /\ VP!group = code[rip] /\ exit_offset \in Nat \ {0}
  BY <1>1, AtGroup
<1>3. rip # 0 /\ rip' = exit_offset /\ Failing
  BY <1>1, <1>2 DEF GoesRight, Failing
<1>4. eax' \in VP!Error /\ eax' # "SUCCESS"
  BY <1>1 DEF VP!StubError, VP!Error
<1>5. VP!TypeOK'
  BY <1>1, <1>2, <1>3, <1>4 DEF Contained, VP!TypeOK
<1> QED
  BY <1>1, <1>3, <1>4, <1>5, Resumes

LEMMA FerrorStep ==
  ASSUME HandedOut, Contained, Stays, VP!RunFerror
  PROVE  StepKept
<1>1. /\ status = "RUNNING" /\ rip \in DOMAIN code
      /\ VP!group.op = "ferror" /\ eax' = "IO"
      /\ UNCHANGED <<r14, al, stack, kept, ctx_ip, ctx_dp, memory, in, event>>
  BY DEF VP!RunFerror, VP!At, VP!context, VP!outside
<1>2. /\ rip \in Nat /\ GoesRight(rip) /\ VP!group = code[rip] /\ exit_offset \in Nat \ {0}
  BY <1>1, AtGroup
<1>3. rip # 0 /\ rip > exit_offset /\ End(code, rip) \in Nat /\ End(code, rip) > rip
      /\ Failing
  BY <1>1, <1>2 DEF GoesRight, Failing
<1>4. CASE status' = "RUNNING" /\ rip' = End(code, rip)
  <2>1. VP!TypeOK'
    BY <1>1, <1>3, <1>4 DEF Contained, VP!TypeOK, VP!Error
  <2>2. rip' \in Int /\ rip' > exit_offset
    BY <1>2, <1>3, <1>4
  <2> QED
    BY <1>1, <1>3, <1>4, <2>1, <2>2, Resumes
<1>5. CASE status' = "UNDEFINED" /\ rip' = rip
  <2>1. VP!TypeOK'
    BY <1>1, <1>5 DEF Contained, VP!TypeOK, VP!Error
  <2> QED
    BY <1>5, <2>1 DEF StepKept, Contained, ThroughTheEnd, VP!Error
<1> QED
  BY <1>1, <1>4, <1>5, SameGroups DEF VP!RunFerror, VP!FallThrough

(* A debugging call leaves the address to go on at above the frame. *)
LEMMA DebugStep ==
  ASSUME HandedOut, Contained, Stays, VP!RunCall
  PROVE  StepKept
<1> DEFINE w == VP!Word("return", End(code, rip))
<1>1. /\ status = "RUNNING" /\ status' = "RUNNING" /\ rip \in DOMAIN code
      /\ VP!group.op = "debug" /\ rip' = Target(code, rip) /\ stack' = Append(stack, w)
      /\ UNCHANGED <<r14, al, eax, kept, ctx_ip, ctx_dp, memory, in, event>>
  BY SameGroups DEF VP!RunCall, VP!At, VP!context, VP!outside, VP!ReturnAddress
<1>2. /\ rip \in Nat /\ GoesRight(rip) /\ VP!group = code[rip] /\ exit_offset \in Nat \ {0}
      /\ code' = code /\ exit_offset' = exit_offset
  BY <1>1, AtGroup
<1>3. rip # 0 /\ rip < exit_offset /\ Len(stack) = 6 /\ VP!Framed(stack)
  BY <1>1, <1>2, AtGroup DEF GoesRight
<1>4. rip' \in Nat /\ rip' > exit_offset
  BY <1>1, <1>2 DEF GoesRight, StubOf
<1>5. End(code, rip) \in DOMAIN code /\ End(code, rip) \in Nat
      /\ code[End(code, rip)].op \in Opening
  BY <1>1, <1>2, <1>3, FallsOn
<1>6. w \in VP!StackWord /\ w.to = End(code, rip)
  BY <1>5 DEF VP!Word, VP!StackWord
<1> HIDE DEF w
<1>7. /\ stack' \in Seq(VP!StackWord) /\ Len(stack') = 7
      /\ \A i \in 1 .. 6 : stack'[i] = stack[i]
      /\ stack'[7] = w
  <2>1. stack \in Seq(VP!StackWord)
    BY DEF Contained, VP!TypeOK
  <2>2. /\ Append(stack, w) \in Seq(VP!StackWord)
        /\ Len(Append(stack, w)) = Len(stack) + 1
        /\ \A i \in 1 .. Len(stack) : Append(stack, w)[i] = stack[i]
        /\ Append(stack, w)[Len(stack) + 1] = w
    BY <1>6, <2>1, AppendProperties
  <2>3. 6 + 1 = 7
    OBVIOUS
  <2> QED
    BY <1>1, <1>3, <2>2, <2>3, Zenon
<1>8. VP!Framed(stack')
  <2>1. \A i \in 1 .. 5 : i + 1 \in 1 .. 6
    OBVIOUS
  <2> QED
    BY <1>3, <1>7, <2>1 DEF VP!Framed
<1>9. rip' \in DOMAIN code => VP!MoveIsSafe'
  <2>1. rip' \in DOMAIN code => code[rip'].op \notin {"addp", "subp"}
    BY <1>2, <1>4 DEF HandedOut, GoesRight
  <2> QED
    BY <1>2, <2>1 DEF VP!MoveIsSafe, VP!group
<1>10. Sited'
  BY <1>2, <1>4, <1>5, <1>6, <1>7, <1>8, <1>9
  DEF Sited, VP!Framed, VP!Caller, VP!Word, VP!OUTSIDE, VP!Saved, VP!CalleeSaved
<1>11. VP!TypeOK'
  BY <1>1, <1>4, <1>7 DEF Contained, VP!TypeOK
<1>12. Failing /\ status' \notin VP!Error
  BY <1>1, <1>2 DEF Failing, StubOf, VP!Error
<1> QED
  BY <1>1, <1>2, <1>4, <1>10, <1>11, <1>12 DEF StepKept, Contained, ThroughTheEnd

(* The handler goes on at that address; without one it takes a register    *)
(* for it and leaves the program.                                          *)
LEMMA HandlerStep ==
  ASSUME HandedOut, Contained, Stays, VP!RunHandler
  PROVE  StepKept
<1>1. /\ status = "RUNNING" /\ status' = "RUNNING" /\ rip \in DOMAIN code
      /\ VP!group.op = "handler" /\ ctx_ip' = stack[Len(stack)].to /\ rip' = ctx_ip'
      /\ stack' = SubSeq(stack, 1, Len(stack) - 1) /\ ctx_dp' = r14 /\ r14' = r14
      /\ event' = [kind |-> "debug", dp |-> r14, value |-> memory[r14]]
      /\ UNCHANGED <<al, eax, kept, memory, in>>
  BY DEF VP!RunHandler, VP!At, VP!StoredDp, VP!Popped, VP!Pop
<1>2. /\ rip \in Nat /\ GoesRight(rip) /\ VP!group = code[rip] /\ exit_offset \in Nat \ {0}
      /\ code' = code /\ exit_offset' = exit_offset
  BY <1>1, AtGroup
<1>3. /\ rip # 0 /\ Len(stack) \in {6, 7} /\ VP!Framed(stack)
      /\ Failing /\ status' \notin VP!Error
  BY <1>1, <1>2, AtGroup DEF GoesRight, Failing, VP!Error
<1>4. /\ stack \in Seq(VP!StackWord) /\ memory \in [VP!Cell -> VP!Byte] /\ r14 \in VP!Cell
  BY DEF Contained, VP!TypeOK
<1>5. event' \in VP!Event
  BY <1>1, <1>4 DEF VP!Event
<1>6. CASE Len(stack) = 7
  <2>1. rip' = stack[7].to /\ rip' \in DOMAIN code /\ code[rip'].op \in Opening
    BY <1>1, <1>3, <1>6 DEF Contained, Sited
  <2>2. rip' \in Nat /\ rip' \notin {0, exit_offset} /\ code[rip'].op \notin {"addp", "subp"}
    BY <2>1, OpeningIsInside
  <2>3. stack' = SubSeq(stack, 1, 6)
    BY <1>1, <1>6
  <2>4. /\ stack' \in Seq(VP!StackWord) /\ Len(stack') = 6
        /\ \A i \in 1 .. 6 : stack'[i] = stack[i]
    BY <1>4, <1>6, <2>3, VP!Dropped, WidthAssumption
  <2>5. VP!Framed(stack')
    <3>1. \A i \in 1 .. 5 : i + 1 \in 1 .. 6
      OBVIOUS
    <3> QED
      BY <1>3, <2>4, <3>1 DEF VP!Framed
  <2>6. Sited'
    BY <1>2, <2>1, <2>2, <2>4, <2>5
    DEF Sited, VP!MoveIsSafe, VP!group, VP!Framed, VP!Caller, VP!Word, VP!OUTSIDE,
        VP!Saved, VP!CalleeSaved
  <2>7. VP!TypeOK'
    BY <1>1, <1>4, <1>5, <2>2, <2>4 DEF Contained, VP!TypeOK
  <2> QED
    BY <1>1, <1>2, <1>3, <2>2, <2>6, <2>7 DEF StepKept, Contained, ThroughTheEnd
<1>7. CASE Len(stack) = 6
  <2>1. stack[6] = VP!Saved[5]
    <3>1. 5 \in 1 .. 5 /\ 5 + 1 = 6
      OBVIOUS
    <3> QED
      BY <1>3, <3>1 DEF VP!Framed
  <2>2. rip' = VP!OUTSIDE
    BY <1>1, <1>7, <2>1 DEF VP!Saved, VP!Word
  <2>3. rip' = -1 /\ rip' \notin DOMAIN code
    BY <2>2 DEF VP!OUTSIDE, HandedOut, GoesRight
  <2>4. stack' \in Seq(VP!StackWord)
    <3>1. stack # <<>>
      BY <1>7
    <3> QED
      BY <1>1, <1>4, <3>1, PopFacts
  <2>5. VP!TypeOK'
    BY <1>1, <1>4, <1>5, <2>2, <2>4 DEF Contained, VP!TypeOK
  <2> QED
    BY <1>1, <1>2, <1>3, <2>3, <2>5 DEF StepKept, Contained, Sited, ThroughTheEnd
<1> QED
  BY <1>3, <1>6, <1>7

(* The exit returns to the caller, or it is not known where. *)
LEMMA ExitStep ==
  ASSUME HandedOut, Contained, Stays, VP!RunExit
  PROVE  StepKept
<1>1. /\ status = "RUNNING" /\ rip \in DOMAIN code /\ VP!group.op = "exit"
      /\ status' \in {eax, "UNDEFINED"} /\ stack' = SubSeq(stack, 1, Len(stack) - 6)
      /\ kept' \subseteq {VP!CalleeSaved[i] : i \in 1 .. 5}
      /\ UNCHANGED <<rip, r14, al, eax, ctx_ip, ctx_dp, memory, in, event>>
  BY DEF VP!RunExit, VP!At, VP!Pop, VP!context, VP!outside
<1>2. /\ rip \in Nat /\ GoesRight(rip) /\ VP!group = code[rip] /\ exit_offset \in Nat \ {0}
  BY <1>1, AtGroup
<1>3. rip = exit_offset /\ rip # 0 /\ Len(stack) \in {6, 7}
  BY <1>1, <1>2, AtGroup DEF GoesRight
<1>4. eax \in VP!Error /\ stack \in Seq(VP!StackWord) /\ VP!TypeOK
  BY DEF Contained, VP!TypeOK
<1>5. stack' \in Seq(VP!StackWord)
  <2>1. CASE Len(stack) = 6
    BY <1>1, <1>4, <2>1
  <2>2. CASE Len(stack) = 7
    <3>1. stack' = SubSeq(stack, 1, 1) /\ 1 \in 1 .. Len(stack)
      BY <1>1, <2>2
    <3> QED
      BY <1>4, <3>1, SubSeqProperties, ElementOfSeq
  <2> QED
    BY <1>3, <2>1, <2>2
<1>6. kept' \subseteq VP!Registers
  BY <1>1 DEF VP!CalleeSaved, VP!Registers
<1>7. VP!TypeOK' /\ status' # "RUNNING"
  BY <1>1, <1>4, <1>5, <1>6 DEF VP!TypeOK, VP!Error
<1> QED
  BY <1>1, <1>3, <1>4, <1>7 DEF StepKept, Contained, ThroughTheEnd, VP!Error

LEMMA MachineStep ==
  ASSUME HandedOut, Contained, Stays, VM!Next
  PROVE  StepKept
BY HeaderStep, CheckStep, MoveStep, AddStep, FputcStep, FgetcStep, StoreStep, LoopStep,
   DebugStep, HandlerStep, SuccessStep, StubStep, FerrorStep, ExitStep, SameVM, Zenon
DEF VP!Next

-----------------------------------------------------------------------------

(***************************************************************************)
(* The invariant.  Flow is where compile_and_run is and what it has in     *)
(* hand there.  Traced is why a run that returns successfully has executed *)
(* all of the source: behind the last token with a group of its own there  *)
(* have only been runs that wrapped to nothing, and the end of the program *)
(* is just behind that group.  It is also why a run that returns an error  *)
(* has not: groups that jump to the footer come from tokens that do more   *)
(* than add.  Ran is the machine, in a program that has lost no stub and   *)
(* in any.                                                                 *)
(***************************************************************************)

(* The pages of the program have been had. *)
Begun == compiler.dst.alloc # 0

(* What the compiler will find when it is called, but for the pages. *)
Bare(dst) ==
  [token |-> 0, jumps |-> <<>>, jumps_buf |-> Compiler!Freed,
   loop_stack |-> <<>>, loop_buf |-> Compiler!Freed,
   dst |-> dst, code |-> [o \in {} |-> 0]]

Untouched ==
  /\ source \in Sources
  /\ compiler = Bare(Compiler!Freed)
  /\ exit_offset = 0
  /\ jump_target_offsets = [s \in Stub |-> 0]
  /\ linked = 0
  /\ last_token = 0
  /\ outcome = "READY"

(* What the program will find when it is called. *)
Idle ==
  /\ status = "READY"
  /\ al = 0 /\ eax = "SUCCESS" /\ kept = VM!Registers
  /\ in = "ok" /\ event = VM!NoEvent
  /\ at = 1

Done == outcome \notin {"READY", "HEADER", "RUNNING", "LINKING", "UNDEFINED"}

Flow ==
  /\ stage \in IF Begun THEN {"compile", "context", "run", "fini", "exited"}
               ELSE {"fopen", "init", "exited"}
  /\ ~Begun => Untouched
  /\ stage = "fopen" => file = "closed"
  /\ stage \in {"context", "run", "fini"} => file = "closed" /\ Done
  /\ stage \in {"context", "run"} => outcome = "SUCCESS"
  /\ stage = "exited" => file = "closed" /\ (Begun => Done)
  /\ stage \in {"fini", "exited"} => exit_status \in {"SUCCESS", "FAILURE"}
  /\ stage \notin {"fini", "exited"} => exit_status = "none"
  /\ stage \in {"fopen", "init", "compile", "context"} => Idle
  /\ stage = "run" => status # "READY"
  /\ status # "READY" => outcome = "SUCCESS" /\ Begun
  /\ stage # "exited" \/ ~Begun => released = 0
  /\ stage = "exited" /\ Begun => released = compiler.dst.cap

Compiling == Begun => CompilerInv

AllAdds(first, last) == \A k \in first .. last : source[k] \in Adds

(* Something is still to be done from here on. *)
Fails(p) == \E k \in p .. Len(source) : source[k] \notin Adds

JumpsTraced ==
  \A o \in DOMAIN code : code[o].op \in DOMAIN StubOf =>
    o \in DOMAIN origin /\ Fails(origin[o])

Traced ==
  /\ 0 \in DOMAIN origin /\ origin[0] = 1
  /\ outcome \in {"READY", "HEADER", "RUNNING", "LINKING", "SUCCESS"} => JumpsTraced
  /\ outcome \in {"READY", "HEADER", "RUNNING"} =>
       /\ DOMAIN origin \subseteq 0 .. compiler.dst.size
       /\ compiler.dst.size \in DOMAIN origin /\ origin[compiler.dst.size] \in Nat
       /\ outcome = "RUNNING" => /\ origin[compiler.dst.size] <= compiler.token
                                 /\ AllAdds(origin[compiler.dst.size], compiler.token - 1)
  /\ outcome \in {"LINKING", "SUCCESS"} =>
       /\ DOMAIN origin \subseteq 0 .. exit_offset - 2
       /\ exit_offset - 2 \in DOMAIN origin
       /\ AllAdds(origin[exit_offset - 2], Len(source))

Succeeds ==
  \/ status = "SUCCESS"
  \/ status = "RUNNING" /\ rip = exit_offset /\ eax = "SUCCESS"

HasFailed ==
  \/ status \in VP!Error \ {"SUCCESS"}
  \/ status = "RUNNING" /\ rip > exit_offset
  \/ status = "RUNNING" /\ rip = exit_offset /\ eax # "SUCCESS"

Ran ==
  status # "READY" =>
    /\ Contained
    /\ ~StubLost => VP!IInv
    /\ rip \in DOMAIN origin => at = origin[rip]
    /\ Succeeds => at = origin[exit_offset - 2]
    /\ HasFailed => Fails(at)

Told ==
  stage \in {"fini", "exited"} =>
    /\ status \in VP!Error \cup {"READY"}
    /\ exit_status = "SUCCESS" <=> status = "SUCCESS"

IInv == Flow /\ Compiling /\ Traced /\ Ran /\ Told

LEMMA InitIInv == Init => IInv
<1> SUFFICES ASSUME Init PROVE IInv
  OBVIOUS
<1>1. /\ Untouched /\ Idle /\ stage = "fopen" /\ file = "closed" /\ exit_status = "none"
      /\ origin = [o \in {0} |-> 1] /\ released = 0
  BY DEF Init, CommandInit, Untouched, Bare, Idle
<1>2. compiler.dst.alloc = 0 /\ compiler.dst.size = 0
  BY <1>1 DEF Untouched, Bare, Compiler!Freed
<1>3. Flow
  BY <1>1, <1>2 DEF Flow, Begun, Idle
<1>4. Traced
  <2>1. DOMAIN code = {}
    BY <1>1 DEF Untouched, Bare, code
  <2> QED
    BY <1>1, <1>2, <2>1 DEF Traced, JumpsTraced, Untouched
<1> QED
  BY <1>1, <1>2, <1>3, <1>4 DEF IInv, Compiling, Begun, Ran, Told, Idle

(* The compiler's invariant has the pages. *)
LEMMA PagesHeld ==
  CompilerInv =>
    /\ Begun
    /\ compiler.dst \in BufferRecord /\ compiler.dst.size \in Nat
    /\ compiler.dst.alloc <= compiler.dst.cap
    /\ outcome # "UNDEFINED" => InStorage(compiler.dst)
    /\ source \in Sources /\ compiler.token \in Nat /\ exit_offset \in Nat
<1> SUFFICES ASSUME CompilerInv
             PROVE  /\ Begun
                    /\ compiler.dst \in BufferRecord /\ compiler.dst.size \in Nat
                    /\ compiler.dst.alloc <= compiler.dst.cap
                    /\ outcome # "UNDEFINED" => InStorage(compiler.dst)
                    /\ source \in Sources /\ compiler.token \in Nat /\ exit_offset \in Nat
  OBVIOUS
<1>1. /\ CP!Paged(compiler.dst)
      /\ outcome # "UNDEFINED" => CP!InStorage(compiler.dst)
  BY DEF CompilerInv, CP!SInv, CP!Keeps
<1>2. CP!TypeOK
  BY DEF CompilerInv, CP!JInv
<1> QED
  BY <1>1, <1>2, SameBuffers DEF Begun, CP!Paged, BufferRecord, CP!TypeOK

(* The same after a step. *)
Sized == Begun /\ compiler.dst.size \in Nat /\ compiler.token \in Nat

LEMMA PagesKept ==
  CompilerInv' =>
    Begun' /\ compiler'.dst.size \in Nat /\ compiler'.token \in Nat
<1>1. CompilerInv => Sized
  BY PagesHeld DEF Sized
<1>2. CompilerInv' => Sized'
  BY <1>1, PTL
<1> QED
  BY <1>2 DEF Sized

-----------------------------------------------------------------------------

LEMMA OpenSourceKeepsIInv == IInv /\ OpenSource => IInv'
<1> SUFFICES ASSUME IInv, OpenSource PROVE IInv'
  OBVIOUS
<1>1. /\ Fopen /\ stage = "fopen"
      /\ UNCHANGED <<origin, at, source, compiler, exit_offset, jump_target_offsets, linked,
                     last_token, outcome, rip, r14, al, eax, stack, kept, ctx_ip, ctx_dp,
                     memory, in, event, status, released>>
  BY DEF OpenSource, Fopen, ghosts, compiling, running
<1>2. ~Begun /\ ~Begun' /\ Untouched' /\ Idle' /\ status = "READY" /\ exit_status = "none"
      /\ file = "closed" /\ released = 0 /\ outcome = "READY"
  BY <1>1 DEF IInv, Flow, Begun, Untouched, Idle
<1>3. Flow'
  BY <1>1, <1>2 DEF Flow, Fopen, Exit, Idle, Untouched
<1>4. Traced'
  BY <1>1 DEF IInv, Traced, AllAdds, JumpsTraced, Fails, code
<1> QED
  BY <1>1, <1>2, <1>3, <1>4 DEF IInv, Compiling, Ran, Told, Fopen, Exit

LEMMA InitProgramKeepsIInv == IInv /\ InitProgram => IInv'
<1> SUFFICES ASSUME IInv, InitProgram PROVE IInv'
  OBVIOUS
<1>1. /\ stage = "init"
      /\ UNCHANGED <<origin, at, source, exit_offset, jump_target_offsets, linked,
                     last_token, outcome, rip, r14, al, eax, stack, kept, ctx_ip, ctx_dp,
                     memory, in, event, status, released>>
  BY DEF InitProgram, HaveProgram, NoProgram, ghosts, running
<1>2. ~Begun /\ Untouched /\ Idle /\ Idle' /\ status = "READY" /\ exit_status = "none"
      /\ released = 0 /\ outcome = "READY"
  BY <1>1 DEF IInv, Flow, Untouched, Idle
<1>3. compiler = Bare(Compiler!Freed) /\ compiler.dst.size = 0
  BY <1>2 DEF Untouched, Bare, Compiler!Freed
<1>4. CASE HaveProgram /\ compiler' = [compiler EXCEPT !.dst = Compiler!FreshJit]
  <2>1. compiler' = Bare(Compiler!FreshJit)
    BY <1>3, <1>4 DEF Bare
  <2>2. CP!Init'
    BY <1>1, <1>2, <2>1, SameBuffers, SameGroups DEF CP!Init, Untouched, Bare
  <2>3. CompilerInv'
    BY <2>2, InvariantsStart
  <2>4. compiler'.dst.size = 0
    BY <2>1 DEF Bare, Compiler!FreshJit
  <2>5. Begun'
    BY <2>3, PagesKept
  <2>6. Flow'
    BY <1>1, <1>2, <1>4, <2>5 DEF Flow, HaveProgram, Idle
  <2>7. Traced'
    BY <1>1, <1>2, <1>3, <2>4 DEF IInv, Traced, AllAdds, JumpsTraced, Fails, code
  <2> QED
    BY <1>1, <1>2, <1>4, <2>3, <2>6, <2>7 DEF IInv, Compiling, Ran, Told, HaveProgram
<1>5. CASE NoProgram /\ UNCHANGED compiler
  <2>1. ~Begun' /\ Untouched'
    BY <1>1, <1>2, <1>5 DEF Begun, Untouched
  <2>2. Flow'
    BY <1>1, <1>2, <1>5, <2>1 DEF Flow, NoProgram, Exit, Idle
  <2>3. Traced'
    BY <1>1, <1>5 DEF IInv, Traced, AllAdds, JumpsTraced, Fails, code
  <2> QED
    BY <1>1, <1>2, <1>5, <2>1, <2>2, <2>3 DEF IInv, Compiling, Ran, Told, NoProgram, Exit
<1> QED
  BY <1>4, <1>5 DEF InitProgram

(* While the program is compiled all of its groups are in front of its end. *)
InFront ==
  outcome = "RUNNING" => \A o \in DOMAIN code : o \in Nat /\ o < compiler.dst.size

LEMMA GroupsInFront == CompilerInv => InFront
<1> SUFFICES ASSUME CompilerInv, outcome = "RUNNING", NEW o \in DOMAIN code
             PROVE  o \in Nat /\ o < compiler.dst.size
  BY DEF InFront
<1>1. compiler \in CP!Compilers /\ CP!Tiled(compiler)
  BY DEF CompilerInv, CP!JInv, CP!Between, CP!Body
<1>2. \A d \in CP!Compilers : CP!Tiled(d) => \A q \in DOMAIN d.code :
        /\ q \in Nat /\ CP!End(d.code, q) \in Nat
        /\ q < CP!End(d.code, q) /\ CP!End(d.code, q) <= d.dst.size
  BY CP!EndFacts, WidthAssumption, BufferAssumption, JitAssumption
  DEF CP!Keyword, Keyword, CP!Moves, Moves, CP!Adds, Adds, CP!Effects, Effects
<1>3. compiler.dst.size \in Nat
  BY PagesHeld
<1> QED
  BY <1>1, <1>2, <1>3 DEF code

LEMMA GroupsKept ==
  CompilerInv' /\ outcome' = "RUNNING" =>
    \A o \in DOMAIN code' : o \in Nat /\ o < compiler'.dst.size
<1>1. CompilerInv' => InFront'
  BY GroupsInFront, PTL
<1> QED
  BY <1>1 DEF InFront

LEMMA CompileTraced ==
  ASSUME Traced, CompilerInv, CompilerInv', CP!Progress, CP!NewGroups,
         origin' = IF outcome' = "RUNNING" THEN Origin ELSE origin
  PROVE  Traced'
<1> DEFINE before == compiler.dst.size
           after  == compiler'.dst.size
<1>1. /\ before \in Nat /\ after \in Nat /\ source' = source
      /\ compiler.token \in Nat /\ compiler'.token \in Nat
      /\ source \in Sources
  BY PagesHeld, PagesKept DEF CP!Progress
<1>2. ASSUME NEW o \in DOMAIN code', code'[o].op \in DOMAIN StubOf
      PROVE  \/ o \in DOMAIN code /\ code[o].op = code'[o].op
             \/ /\ outcome = "RUNNING" /\ o >= before
                /\ compiler.token \in 1 .. Len(source) /\ source[compiler.token] \notin Adds
  <2>1. SUFFICES ASSUME outcome = "RUNNING", TokenAt(source, compiler.token) \in CP!NoAddition
                 PROVE  /\ compiler.token \in 1 .. Len(source)
                        /\ source[compiler.token] \notin Adds
    BY <1>2, SameFaults, SameGroups DEF CP!NewGroups, CP!code, code
  <2>2. compiler.token \in 1 .. Len(source) + 1
    BY <2>1 DEF CompilerInv, CP!VInv, CP!Reading, CP!Scanned
  <2>3. "EOF" \notin CP!NoAddition /\ Adds \cap CP!NoAddition = {}
    BY DEF CP!NoAddition, CP!Moves, Adds
  <2>4. IsSource(source)
    BY <1>1, JitAssumption DEF IsSource, JitAssumption
  <2>5. compiler.token \in 1 .. Len(source)
    BY <2>1, <2>2, <2>3, <2>4, SourceFacts DEF TokenAt
  <2> QED
    BY <2>1, <2>3, <2>5 DEF TokenAt
<1>3. ASSUME outcome \in {"READY", "HEADER", "RUNNING", "LINKING"}, outcome # "RUNNING",
             UNCHANGED origin
      PROVE  JumpsTraced'
  BY <1>2, <1>1, <1>3 DEF Traced, JumpsTraced, Fails
<1>4. CASE outcome' \in {"READY", "HEADER"}
  <2>1. outcome = "READY" /\ outcome' = "HEADER" /\ after = before /\ origin' = origin
    BY <1>4 DEF CP!Progress
  <2> QED
    BY <1>1, <1>3, <2>1 DEF Traced, AllAdds
<1>5. CASE outcome' = "RUNNING"
  <2>1. /\ outcome \in {"HEADER", "RUNNING"}
        /\ \/ after > before
           \/ /\ outcome = "RUNNING" /\ after = before
              /\ compiler'.token >= compiler.token
              /\ AllAdds(compiler.token, compiler'.token - 1)
    BY <1>1, <1>5, SameFaults DEF CP!Progress, CP!Passed, AllAdds
  <2>2. /\ DOMAIN origin \subseteq 0 .. before /\ before \in DOMAIN origin
        /\ origin[before] \in Nat /\ 0 \in DOMAIN origin /\ origin[0] = 1
        /\ outcome = "RUNNING" => /\ origin[before] <= compiler.token
                                  /\ AllAdds(origin[before], compiler.token - 1)
        /\ JumpsTraced
    BY <2>1 DEF Traced
  <2> DEFINE groups == {o \in DOMAIN compiler'.code : o >= before}
  <2>3. groups \subseteq 0 .. after /\ after \notin groups
    BY <1>1, <1>5, GroupsKept DEF code
  <2>4. origin' = [o \in DOMAIN origin \cup groups \cup {after} |->
                     IF o \in DOMAIN origin THEN origin[o]
                     ELSE IF o = after \/ compiler'.code[o].op = "store" THEN compiler'.token
                     ELSE origin[before]]
    BY <1>5 DEF Origin
  <2>5. JumpsTraced'
    <3> SUFFICES ASSUME NEW o \in DOMAIN code', code'[o].op \in DOMAIN StubOf
                 PROVE  o \in DOMAIN origin' /\ \E k \in origin'[o] .. Len(source) :
                                                  source[k] \notin Adds
      BY <1>1 DEF JumpsTraced, Fails
    <3>1. CASE o \in DOMAIN code /\ code[o].op = code'[o].op
      <4>1. o \in DOMAIN origin /\ Fails(origin[o])
        BY <2>2, <3>1 DEF JumpsTraced
      <4> QED
        BY <1>1, <2>4, <4>1 DEF Fails
    <3>2. CASE /\ outcome = "RUNNING" /\ o >= before
               /\ compiler.token \in 1 .. Len(source) /\ source[compiler.token] \notin Adds
      <4>1. o \in groups /\ o # after /\ code'[o].op # "store"
        BY <2>3, <3>2 DEF code, StubOf
      <4>2. origin'[o] = origin[before] /\ o \in DOMAIN origin'
        BY <1>1, <2>2, <2>3, <2>4, <3>2, <4>1 DEF code
      <4>3. Len(source) \in Nat
        BY <3>2
      <4>4. compiler.token \in origin[before] .. Len(source)
        BY <1>1, <2>2, <3>2, <4>3
      <4> QED
        BY <1>1, <3>2, <4>2, <4>4 DEF Fails
    <3> QED
      BY <1>2, <3>1, <3>2
  <2> HIDE DEF groups
  <2>6. /\ DOMAIN origin' \subseteq 0 .. after /\ after \in DOMAIN origin'
        /\ 0 \in DOMAIN origin' /\ origin'[0] = 1
        /\ origin'[after] = IF after \in DOMAIN origin THEN origin[after] ELSE compiler'.token
    BY <1>1, <2>1, <2>2, <2>3, <2>4
  <2>7. /\ origin'[after] \in Nat /\ origin'[after] <= compiler'.token
        /\ AllAdds(origin'[after], compiler'.token - 1)
    <3>1. CASE after > before
      <4>1. origin'[after] = compiler'.token
        BY <1>1, <2>2, <2>6, <3>1
      <4>2. compiler'.token .. compiler'.token - 1 = {}
        BY <1>1
      <4> QED
        BY <1>1, <4>1, <4>2 DEF AllAdds
    <3>2. CASE outcome = "RUNNING" /\ after = before
      <4>1. origin'[after] = origin[before]
        BY <2>2, <2>6, <3>2
      <4>2. /\ AllAdds(origin[before], compiler.token - 1)
            /\ AllAdds(compiler.token, compiler'.token - 1)
        BY <1>1, <2>1, <2>2, <3>2
      <4> DEFINE b == origin[before]
                 p == compiler.token
                 q == compiler'.token
      <4>3. b \in Nat /\ p \in Nat /\ q \in Nat
        BY <1>1, <2>2
      <4> HIDE DEF b, p, q
      <4>4. AllAdds(b, p - 1) /\ AllAdds(p, q - 1)
        BY <4>2 DEF b, p, q
      <4>5. AllAdds(b, q - 1)
        BY <4>3, <4>4 DEF AllAdds
      <4>6. b <= q
        BY <1>1, <2>1, <2>2, <3>2, <4>3 DEF b, p, q
      <4> QED
        BY <4>1, <4>3, <4>5, <4>6 DEF b, q
    <3> QED
      BY <2>1, <3>1, <3>2
  <2> QED
    BY <1>1, <1>5, <2>6, <2>7, <2>5 DEF Traced, AllAdds
<1>6. CASE outcome' \in {"LINKING", "SUCCESS"}
  <2>1. origin' = origin
    BY <1>6
  <2>2. CASE /\ outcome = "RUNNING" /\ TokenAt(source, compiler.token) = "EOF"
             /\ exit_offset' = before + 2
    <3>1. /\ DOMAIN origin \subseteq 0 .. before /\ before \in DOMAIN origin
          /\ origin[before] \in Nat /\ AllAdds(origin[before], compiler.token - 1)
          /\ 0 \in DOMAIN origin /\ origin[0] = 1
      BY <2>2 DEF Traced
    <3>2. exit_offset' - 2 = before
      BY <1>1, <2>2
    <3>3. compiler.token \in Nat /\ Len(source) \in Nat /\ compiler.token - 1 >= Len(source)
      <4>1. IsSource(source)
        BY <1>1, JitAssumption DEF IsSource, JitAssumption
      <4>2. compiler.token \in 1 .. Len(source) + 1
        BY <2>2 DEF CompilerInv, CP!VInv, CP!Reading, CP!Scanned
      <4>3. compiler.token \notin 1 .. Len(source)
        <5>1. \A i \in 1 .. Len(source) : TokenAt(source, i) # "EOF"
          BY <4>1, SourceFacts DEF Keyword, Moves, Adds, Effects
        <5> QED
          BY <2>2, <5>1
      <4> QED
        BY <1>1, <4>1, <4>2, <4>3, SourceFacts
    <3>4. AllAdds(origin[before], Len(source))
      BY <3>1, <3>3 DEF AllAdds
    <3>5. JumpsTraced'
      <4>1. \A o \in DOMAIN code' : code'[o].op \in DOMAIN StubOf =>
              o \in DOMAIN code /\ code[o].op = code'[o].op
        BY <1>2, <3>3
      <4> QED
        BY <1>1, <2>1, <2>2, <4>1 DEF Traced, JumpsTraced, Fails
    <3> QED
      BY <1>1, <1>6, <2>1, <3>1, <3>2, <3>4, <3>5 DEF Traced, AllAdds
  <2>3. CASE outcome = "LINKING" /\ UNCHANGED exit_offset
    BY <1>1, <1>6, <1>3, <2>1, <2>3 DEF Traced, AllAdds
  <2> QED
    BY <1>6, <2>2, <2>3, SameFaults, SameGroups DEF CP!Progress, GroupSize
<1>7. CASE outcome' \notin {"READY", "HEADER", "RUNNING", "LINKING", "SUCCESS"}
  BY <1>7 DEF Traced
<1> QED
  BY <1>4, <1>5, <1>6, <1>7

LEMMA CompileKeepsIInv == IInv /\ Compile => IInv'
<1> SUFFICES ASSUME IInv, Compile PROVE IInv'
  OBVIOUS
<1>1. /\ stage = "compile" /\ Compiler!Next
      /\ origin' = IF outcome' = "RUNNING" THEN Origin ELSE origin
      /\ UNCHANGED <<stage, file, exit_status, at, rip, r14, al, eax, stack, kept, ctx_ip,
                     ctx_dp, memory, in, event, status, released>>
  BY DEF Compile, command, running
<1>2. Begun /\ CompilerInv /\ Idle /\ exit_status = "none" /\ released = 0
  BY <1>1 DEF IInv, Flow, Compiling
<1>3. CompilerInv' /\ CP!Progress /\ CP!NewGroups
  BY <1>1, <1>2, CompilerInvariant
<1>4. Begun'
  BY <1>3, PagesKept
<1>5. Flow'
  BY <1>1, <1>2, <1>4 DEF Flow, Idle
<1>6. Traced'
  BY <1>1, <1>2, <1>3, CompileTraced DEF IInv
<1> QED
  BY <1>1, <1>2, <1>3, <1>5, <1>6 DEF IInv, Compiling, Ran, Told, Idle

LEMMA CloseSourceKeepsIInv == IInv /\ CloseSource => IInv'
<1> SUFFICES ASSUME IInv, CloseSource PROVE IInv'
  OBVIOUS
<1>1. /\ stage = "compile" /\ Compiled(outcome) /\ Done
      /\ UNCHANGED <<origin, at, compiling, running, released>>
  BY DEF CloseSource, Compiled, Done, ghosts
<1>2. /\ UNCHANGED <<origin, at, source, compiler, exit_offset, jump_target_offsets, linked,
                     last_token, outcome, rip, r14, al, eax, stack, kept, ctx_ip, ctx_dp,
                     memory, in, event, status, released>>
  BY <1>1 DEF compiling, running
<1>3. Begun /\ Begun' /\ Idle /\ exit_status = "none" /\ released = 0
  BY <1>1, <1>2 DEF IInv, Flow, Begun
<1>4. CompilerInv'
  BY <1>1, <1>3, CompilerInvariant DEF IInv, Compiling
<1>5. Flow'
  BY <1>1, <1>2, <1>3 DEF Flow, Compiled, Done, Idle
<1>6. Traced'
  BY <1>2 DEF IInv, Traced, AllAdds, JumpsTraced, Fails, code
<1> QED
  BY <1>1, <1>2, <1>3, <1>4, <1>5, <1>6 DEF IInv, Compiling, Ran, Told, Idle, Compiled

(* The header finds the machine as a call of it begins. *)
LEMMA CallContained ==
  ASSUME HandedOut, Stays, Idle, StartRun
  PROVE  Contained'
<1>1. /\ rip' = 0 /\ ctx_ip' = 0 /\ ctx_dp' = 0 /\ memory' = [c \in Cell |-> 0]
      /\ r14' \in Cell /\ stack' = <<VM!Caller>> /\ status' = "RUNNING"
      /\ al' = 0 /\ eax' = "SUCCESS" /\ kept' = VM!Registers /\ in' = "ok"
      /\ event' = VM!NoEvent
  BY DEF StartRun, Idle
<1>2. 0 \in Cell /\ 0 \in Byte
  BY WidthAssumption DEF WidthAssumption, Cell, Byte
<1>3. <<VM!Caller>> \in Seq(VP!StackWord) /\ VM!Caller = VP!Caller
  BY DEF VM!Caller, VM!Word, VM!OUTSIDE, VP!Caller, VP!Word, VP!OUTSIDE, VP!StackWord
<1>4. VM!NoEvent \in VP!Event
  BY <1>2, SameGroups DEF VM!NoEvent, VP!Event
<1>5. memory' \in [VP!Cell -> VP!Byte]
  BY <1>1, <1>2, SameGroups
<1>6. VP!TypeOK'
  BY <1>1, <1>2, <1>3, <1>4, <1>5, SameGroups
  DEF VP!TypeOK, VP!Error, VM!Registers, VP!Registers
<1>7. code[0].op = "header" /\ 0 \in DOMAIN code /\ code' = code
  BY DEF HandedOut, GoesRight, Stays
<1>8. VP!MoveIsSafe'
  BY <1>1, <1>7 DEF VP!MoveIsSafe, VP!group
<1>9. stack' = <<VP!Caller>>
  BY <1>1, <1>3
<1>10. Sited'
  BY <1>1, <1>8, <1>9 DEF Sited, VP!Caller, VP!Word, VP!OUTSIDE
<1> QED
  BY <1>6, <1>10 DEF Contained

(* What is there of a program that the compiler handed out. *)
LEMMA RunsComplete ==
  ASSUME CompilerInv, outcome = "SUCCESS"
  PROVE  HandedOut /\ (~StubLost => WellFormed(code))
<1>1. CP!JInv /\ CP!SuccessIsComplete
  BY DEF CompilerInv, CP!JInv, CP!Ended
<1> QED
  BY <1>1, SuccessHandsOut, SameGroups DEF CP!SuccessIsComplete, StubLost, code, CP!code

LEMMA StartRunKeepsIInv == IInv /\ StartRun => IInv'
<1> SUFFICES ASSUME IInv, StartRun PROVE IInv'
  OBVIOUS
<1>1. /\ Started /\ stage = "context"
      /\ UNCHANGED <<origin, at, source, compiler, exit_offset, jump_target_offsets, linked,
                     last_token, outcome, al, eax, kept, in, event, released>>
      /\ UNCHANGED compiling
  BY DEF StartRun, Started, ghosts, compiling
<1>2. /\ Begun /\ CompilerInv /\ Idle /\ outcome = "SUCCESS" /\ exit_status = "none"
      /\ released = 0 /\ file = "closed"
  BY <1>1 DEF IInv, Flow, Compiling
<1>3. HandedOut /\ (~StubLost => WellFormed(code)) /\ Stays
  BY <1>1, <1>2, RunsComplete DEF Stays, code
<1>4. Contained'
  BY <1>2, <1>3, CallContained
<1>5. rip' = 0 /\ status' = "RUNNING" /\ at' = 1
  BY <1>1, <1>2 DEF StartRun, Idle
<1>6. ~StubLost' => VP!IInv'
  <2> SUFFICES ASSUME ~StubLost PROVE VP!IInv'
    BY <1>1 DEF StubLost
  <2>1. WellFormed(code')
    BY <1>3 DEF Stays
  <2>2. VP!WellFormed(code')
    BY <2>1, SameGroups
  <2>3. 0 \in Cell /\ VP!Cell = Cell
    BY SameGroups, WidthAssumption DEF WidthAssumption, Cell
  <2>4. VP!ContextInit'
    BY <1>2, <2>3 DEF StartRun, Idle, VP!ContextInit, VM!NoEvent, VP!NoEvent
  <2>5. VP!Call'
    BY <1>2, <2>3
    DEF StartRun, Idle, VP!Call, VP!Error, VM!Registers, VP!Registers, VM!Caller, VM!Word,
        VM!OUTSIDE, VP!Caller, VP!Word, VP!OUTSIDE
  <2>6. VP!Init'
    BY <2>2, <2>4, <2>5 DEF VP!Init
  <2> QED
    BY <2>6, InvariantsStart
<1>7. exit_offset' # 0 /\ exit_offset' = exit_offset
  BY <1>1, <1>3 DEF HandedOut
<1>8. Ran'
  BY <1>1, <1>4, <1>5, <1>6, <1>7 DEF Ran, IInv, Traced
<1>9. Flow'
  BY <1>1, <1>2, <1>5 DEF Flow, Started, Begun, Done
<1>10. Compiling'
  BY <1>1, <1>2, CompilerInvariant DEF Compiling
<1>11. Traced'
  BY <1>1 DEF IInv, Traced, AllAdds, JumpsTraced, Fails, code
<1>12. Told'
  BY <1>1, <1>2 DEF Told, Started
<1> QED
  BY <1>8, <1>9, <1>10, <1>11, <1>12 DEF IInv

LEMMA RunKeepsIInv == IInv /\ Run => IInv'
<1> SUFFICES ASSUME IInv, Run PROVE IInv'
  OBVIOUS
<1>1. /\ stage = "run" /\ VM!Next
      /\ at' = IF rip' \in DOMAIN origin THEN origin[rip'] ELSE at
      /\ UNCHANGED <<stage, file, exit_status, origin, source, compiler, exit_offset,
                     jump_target_offsets, linked, last_token, outcome, released>>
      /\ UNCHANGED compiling
  BY DEF Run, command, compiling
<1>2. /\ Begun /\ CompilerInv /\ outcome = "SUCCESS" /\ exit_status = "none"
      /\ released = 0 /\ file = "closed" /\ status # "READY"
  BY <1>1 DEF IInv, Flow, Compiling
<1>3. HandedOut /\ Stays
  BY <1>1, <1>2, RunsComplete DEF Stays, code
<1>4. Contained /\ (~StubLost => VP!IInv) /\ (rip \in DOMAIN origin => at = origin[rip])
      /\ (Succeeds => at = origin[exit_offset - 2]) /\ (HasFailed => Fails(at))
  BY <1>2 DEF IInv, Ran
<1>5. Contained' /\ ThroughTheEnd
  BY <1>1, <1>3, <1>4, MachineStep DEF StepKept
<1>6. ~StubLost' => VP!IInv'
  BY <1>1, <1>4, MachineInvariant DEF StubLost
<1>7. status' # "READY"
  BY <1>5 DEF Contained, VP!TypeOK, VP!Error
<1>8. /\ DOMAIN origin \subseteq 0 .. exit_offset - 2 /\ exit_offset - 2 \in DOMAIN origin
      /\ exit_offset \in Nat /\ exit_offset \notin DOMAIN origin
  <2>1. /\ DOMAIN origin \subseteq 0 .. exit_offset - 2 /\ exit_offset - 2 \in DOMAIN origin
    BY <1>2 DEF IInv, Traced
  <2>2. exit_offset \in Nat
    BY <1>3 DEF HandedOut
  <2> QED
    BY <2>1, <2>2
<1>9. /\ status = "RUNNING" /\ rip \in DOMAIN code /\ rip \in Nat
      /\ "SUCCESS" \in VP!Error /\ "RUNNING" \notin VP!Error
  <2>1. status = "RUNNING" /\ rip \in DOMAIN code
    BY <1>1 DEF VM!Next, VM!RunHeader, VM!RunCheck, VM!RunMove, VM!RunAdd, VM!RunFputc,
      VM!RunFgetc, VM!RunStore, VM!RunLoop, VM!RunCall, VM!RunHandler, VM!RunSuccess,
      VM!RunStub, VM!RunFerror, VM!RunExit, VM!At
  <2> QED
    BY <1>3, <2>1 DEF HandedOut, GoesRight, VP!Error
<1>10. Succeeds' => at' = origin[exit_offset - 2]
  <2>1. CASE status' = "SUCCESS"
    <3>1. rip = exit_offset /\ rip' = rip /\ eax = "SUCCESS"
      BY <1>5, <1>9, <2>1 DEF ThroughTheEnd
    <3> QED
      BY <1>1, <1>4, <1>8, <1>9, <3>1 DEF Succeeds
  <2>2. CASE status' = "RUNNING" /\ rip' = exit_offset /\ eax' = "SUCCESS"
    <3>1. rip + 2 = exit_offset
      BY <1>5, <2>2 DEF ThroughTheEnd
    <3>2. rip = exit_offset - 2
      BY <1>8, <1>9, <3>1
    <3>3. at' = at
      BY <1>1, <1>8, <2>2
    <3> QED
      BY <1>4, <1>8, <3>2, <3>3
  <2> QED
    BY <1>1, <2>1, <2>2 DEF Succeeds
<1>11. HasFailed' => Fails(at)'
  <2>1. JumpsTraced
    BY <1>2 DEF IInv, Traced
  <2>2. CASE status' \in VP!Error \ {"SUCCESS"}
    <3>1. rip = exit_offset /\ rip' = rip /\ eax # "SUCCESS"
      BY <1>5, <2>2 DEF ThroughTheEnd
    <3>2. Fails(at) /\ at' = at
      BY <1>1, <1>4, <1>8, <1>9, <3>1 DEF HasFailed
    <3> QED
      BY <1>1, <3>2 DEF Fails
  <2>3. CASE status' = "RUNNING" /\ (rip' > exit_offset \/ (rip' = exit_offset /\ eax' # "SUCCESS"))
    <3>1. Failing
      BY <1>5, <2>3 DEF ThroughTheEnd
    <3>2. Fails(at)
      BY <1>4, <1>9, <2>1, <3>1 DEF Failing, HasFailed, JumpsTraced
    <3>3. at' = at
      <4>1. rip' \in Nat \cup {-1}
        BY <1>5 DEF Contained, VP!TypeOK, VP!OUTSIDE
      <4>2. rip' \notin DOMAIN origin
        BY <1>8, <2>3, <4>1
      <4> QED
        BY <1>1, <4>2
    <3> QED
      BY <1>1, <3>2, <3>3 DEF Fails
  <2> QED
    BY <1>1, <2>2, <2>3 DEF HasFailed
<1>12. Ran'
  BY <1>1, <1>5, <1>6, <1>10, <1>11 DEF Ran
<1>13. Flow'
  BY <1>1, <1>2, <1>7 DEF Flow, Begun, Done
<1>14. Compiling'
  BY <1>1, <1>2, CompilerInvariant DEF Compiling
<1>15. Traced'
  BY <1>1 DEF IInv, Traced, AllAdds, JumpsTraced, Fails, code
<1>16. Told'
  BY <1>1, <1>2 DEF Told
<1> QED
  BY <1>12, <1>13, <1>14, <1>15, <1>16 DEF IInv

LEMMA RunAstrayKeepsIInv == IInv /\ RunAstray => IInv'
<1> SUFFICES ASSUME IInv, RunAstray PROVE IInv'
  OBVIOUS
<1>1. /\ stage = "run" /\ status = "RUNNING" /\ status' = "UNDEFINED"
      /\ rip \notin DOMAIN code
      /\ UNCHANGED <<stage, file, exit_status, origin, at, source, compiler, exit_offset,
                     jump_target_offsets, linked, last_token, outcome, released, rip, r14, al,
                     eax, stack, kept, ctx_ip, ctx_dp, memory, in, event>>
      /\ UNCHANGED compiling
  BY DEF RunAstray, command, ghosts, compiling
<1>2. /\ Begun /\ CompilerInv /\ outcome = "SUCCESS" /\ exit_status = "none"
      /\ released = 0 /\ file = "closed" /\ status # "READY"
  BY <1>1 DEF IInv, Flow, Compiling
<1>3. StubLost
  BY <1>1, <1>2 DEF IInv, Ran, VP!IInv
<1>4. Contained'
  BY <1>1 DEF IInv, Ran, Contained, VP!TypeOK
<1>5. ~Succeeds' /\ ~HasFailed'
  BY <1>1 DEF Succeeds, HasFailed, VP!Error
<1>6. Ran'
  BY <1>1, <1>3, <1>4, <1>5 DEF IInv, Ran, StubLost
<1>7. Flow'
  BY <1>1, <1>2 DEF Flow, Begun, Done
<1>8. Compiling'
  BY <1>1, <1>2, CompilerInvariant DEF Compiling
<1>9. Traced'
  BY <1>1 DEF IInv, Traced, AllAdds, JumpsTraced, Fails, code
<1> QED
  BY <1>1, <1>2, <1>7, <1>8, <1>9, <1>6 DEF IInv, Told

(* Steps that leave compiler and machine alone. *)
LEMMA MachineRests ==
  ASSUME IInv, UNCHANGED <<origin, at, compiling, running>>
  PROVE  Compiling' /\ Traced' /\ Ran'
<1>1. UNCHANGED <<origin, at, source, compiler, exit_offset, jump_target_offsets, linked,
                  last_token, outcome, rip, r14, al, eax, stack, kept, ctx_ip, ctx_dp,
                  memory, in, event, status>>
  BY DEF compiling, running
<1>2. Compiling'
  BY <1>1, CompilerInvariant DEF IInv, Compiling, Begun
<1>3. Traced'
  BY <1>1 DEF IInv, Traced, AllAdds, JumpsTraced, Fails, code
<1>4. ASSUME status # "READY" PROVE Contained' /\ (~StubLost' => VP!IInv')
  <2>1. Contained /\ (~StubLost => VP!IInv)
    BY <1>4 DEF IInv, Ran
  <2>2. UNCHANGED <<code, running>>
    BY <1>1 DEF code
  <2>3. ~StubLost' => VP!IInv'
    BY <1>1, <2>1, <2>2, MachineInvariant DEF StubLost
  <2>4. VP!TypeOK'
    BY <1>1, <2>1 DEF Contained, VP!TypeOK
  <2>5. Sited <=> Sited'
    BY <1>1 DEF Sited, VP!MoveIsSafe, VP!group, VP!Framed, VP!Caller, VP!Word, VP!OUTSIDE,
                VP!Saved, VP!CalleeSaved, code
  <2> QED
    BY <1>1, <2>1, <2>3, <2>4, <2>5 DEF Contained
<1>5. Ran'
  BY <1>1, <1>4 DEF IInv, Ran, Succeeds, HasFailed, Fails, VP!Error
<1> QED
  BY <1>2, <1>3, <1>5

LEMMA EndRunKeepsIInv == IInv /\ EndRun => IInv'
<1> SUFFICES ASSUME IInv, EndRun PROVE IInv'
  OBVIOUS
<1>1. /\ stage = "run" /\ Ended(status)
      /\ UNCHANGED <<origin, at, compiling, running, released>>
  BY DEF EndRun, Ended, ghosts
<1>2. UNCHANGED <<source, compiler, exit_offset, jump_target_offsets, linked, last_token,
                  outcome, status, released>>
  BY <1>1 DEF compiling, running
<1>3. /\ Begun /\ outcome = "SUCCESS" /\ released = 0 /\ file = "closed"
      /\ status # "READY"
  BY <1>1 DEF IInv, Flow
<1>4. Flow'
  BY <1>1, <1>2, <1>3 DEF Flow, Begun, Done, Ended
<1>5. status \in VP!Error
  BY DEF EndRun, VM!Returned, VM!Error, VP!Error
<1>6. Told'
  BY <1>1, <1>2, <1>5 DEF Told, Ended
<1> QED
  BY <1>1, <1>4, <1>6, MachineRests DEF IInv

LEMMA FiniProgramKeepsIInv == IInv /\ FiniProgram => IInv'
<1> SUFFICES ASSUME IInv, FiniProgram PROVE IInv'
  OBVIOUS
<1>1. /\ stage = "fini" /\ Released /\ released' = compiler.dst.cap
      /\ UNCHANGED <<origin, at, compiling, running>>
  BY DEF FiniProgram, Released, ghosts
<1>2. UNCHANGED <<source, compiler, exit_offset, jump_target_offsets, linked, last_token,
                  outcome, status>>
  BY <1>1 DEF compiling, running
<1>3. /\ Begun /\ Done /\ file = "closed" /\ exit_status \in {"SUCCESS", "FAILURE"}
      /\ status # "READY" => outcome = "SUCCESS"
  BY <1>1 DEF IInv, Flow
<1>4. Flow'
  BY <1>1, <1>2, <1>3 DEF Flow, Begun, Done, Released
<1>5. Told'
  BY <1>1, <1>2 DEF IInv, Told, Released
<1> QED
  BY <1>1, <1>4, <1>5, MachineRests DEF IInv

LEMMA StutterKeepsIInv == IInv /\ UNCHANGED vars => IInv'
<1> SUFFICES ASSUME IInv, UNCHANGED vars PROVE IInv'
  OBVIOUS
<1>1. UNCHANGED <<stage, file, exit_status, origin, at, compiling, running, released>>
  BY DEF vars, command, ghosts
<1>2. UNCHANGED <<source, compiler, exit_offset, jump_target_offsets, linked, last_token,
                  outcome, al, eax, kept, in, event, status>>
  BY <1>1 DEF compiling, running
<1>3. Flow'
  BY <1>1, <1>2 DEF IInv, Flow, Begun, Untouched, Idle, Done
<1>4. Told'
  BY <1>1, <1>2 DEF IInv, Told
<1> QED
  BY <1>1, <1>3, <1>4, MachineRests DEF IInv

LEMMA NextIInv == IInv /\ [Next]_vars => IInv'
  BY OpenSourceKeepsIInv, InitProgramKeepsIInv, CompileKeepsIInv, CloseSourceKeepsIInv,
     StartRunKeepsIInv, RunKeepsIInv, RunAstrayKeepsIInv, EndRunKeepsIInv,
     FiniProgramKeepsIInv, StutterKeepsIInv
  DEF Next

(* compile_and_run never leaves the states its parts rely on. *)
THEOREM Invariance == Spec => []IInv
  BY InitIInv, NextIInv, PTL DEF Spec

(* Registers, stack and context keep their types in any program that the   *)
(* compiler hands out, also where stubs of it were lost: the data pointer  *)
(* never leaves the working memory, and no word is popped that is not      *)
(* there.                                                                  *)
THEOREM TypeCorrect == Spec => []TypeOK
<1>1. IInv => TypeOK
  BY SameVM DEF IInv, Ran, Contained, TypeOK
<1> QED
  BY <1>1, Invariance, PTL

(* The programs nbajh_compile_jit_x86_64 hands out complete lose control   *)
(* at one place, the jump behind ferror, and nowhere else.                 *)
THEOREM ControlIsKept == Spec => []AstrayOnlyAtFerror
<1>1. IInv => AstrayOnlyAtFerror
  <2> SUFFICES ASSUME IInv, ~StubLost PROVE VM!AstrayOnlyAtFerror
    BY DEF AstrayOnlyAtFerror
  <2>1. status \in {"RUNNING", "UNDEFINED"} => VP!IInv
    BY DEF IInv, Ran
  <2> QED
    BY <2>1 DEF VP!IInv, VM!AstrayOnlyAtFerror, VM!group, VP!group
<1> QED
  BY <1>1, Invariance, PTL

(* Whatever way compile_and_run takes out, the source file is closed, the  *)
(* compiler's buffers are given back and at least the pages of the program *)
(* are unmapped, and none of them before; the program is run from pages    *)
(* that hold all of it.                                                    *)
THEOREM ResourcesAreBalanced == Spec => []ResourcesBalanced
<1>1. IInv => ResourcesBalanced
  <2> SUFFICES ASSUME IInv PROVE ResourcesBalanced
    OBVIOUS
  <2>1. CASE ~Begun
    <3>1. /\ stage \in {"fopen", "init", "exited"} /\ released = 0
          /\ stage = "exited" => file = "closed" /\ exit_status \in {"SUCCESS", "FAILURE"}
          /\ compiler = Bare(Compiler!Freed)
      BY <2>1 DEF IInv, Flow, Untouched
    <3>2. /\ compiler.loop_buf = Compiler!Freed /\ compiler.jumps_buf = Compiler!Freed
          /\ compiler.dst.alloc = 0
      BY <3>1 DEF Bare, Compiler!Freed
    <3> QED
      BY <3>1, <3>2 DEF ResourcesBalanced
  <2>2. CASE Begun
    <3>1. /\ CompilerInv
          /\ stage \in {"compile", "context", "run", "fini", "exited"}
          /\ stage # "compile" => Done
          /\ stage \in {"context", "run"} => file = "closed" /\ outcome = "SUCCESS"
          /\ stage = "exited" => /\ file = "closed" /\ released = compiler.dst.cap
                                 /\ exit_status \in {"SUCCESS", "FAILURE"}
          /\ stage # "exited" => released = 0
      BY <2>2 DEF IInv, Flow, Compiling
    <3>2. /\ compiler.dst.alloc <= compiler.dst.cap
          /\ compiler.dst.alloc \in Nat /\ compiler.dst.cap \in Nat
          /\ compiler.dst.size \in Nat
          /\ outcome # "UNDEFINED" => InStorage(compiler.dst)
      BY <3>1, PagesHeld DEF BufferRecord
    <3>3. Done => /\ compiler.loop_buf = Compiler!Freed
                  /\ compiler.dst.size > 0 => compiler.jumps_buf = Compiler!Freed
      BY <3>1, SameBuffers DEF CompilerInv, CP!JInv, CP!Ended, CP!BuffersSound, Done
    <3>4. /\ stage = "exited" => /\ file = "closed" /\ exit_status # "none"
                                  /\ released >= compiler.dst.alloc
          /\ stage # "exited" => released = 0
          /\ stage \in {"context", "run"} => file = "closed" /\ InStorage(compiler.dst)
      BY <3>1, <3>2
    <3>5. /\ compiler.loop_buf # Compiler!Freed => stage = "compile"
          /\ compiler.jumps_buf # Compiler!Freed => stage = "compile" \/ compiler.dst.size = 0
      BY <3>1, <3>2, <3>3
    <3> QED
      BY <3>4, <3>5 DEF ResourcesBalanced
  <2> QED
    BY <2>1, <2>2
<1> QED
  BY <1>1, Invariance, PTL

(***************************************************************************)
(* The process says that all went well if and only if the source was       *)
(* compiled and its run got to the end of it, also if stubs of the program *)
(* were lost; then the source has no fault.  Only machine code handed out  *)
(* with success is run, and it is complete unless a stub was lost.         *)
(***************************************************************************)
THEOREM ExitStatusIsTruthful == Spec => []ExitStatusTruthful
<1>1. IInv => ExitStatusTruthful
  <2> SUFFICES ASSUME IInv PROVE ExitStatusTruthful
    OBVIOUS
  <2>1. ASSUME outcome = "SUCCESS", Begun
        PROVE  /\ IsVerdict(source, Len(source) + 1, "SUCCESS")
               /\ ~StubLost => WellFormed(code)
    <3>1. CompilerInv
      BY <2>1 DEF IInv, Compiling
    <3>2. IsVerdict(source, last_token, "SUCCESS")
      BY <2>1, <3>1, SameFaults DEF CompilerInv, CP!VInv, CP!VerdictIsFirstFault, CP!Ended
    <3> QED
      BY <2>1, <3>1, <3>2, RunsComplete DEF IsVerdict
  <2>2. exit_status = "SUCCESS" => stage \in {"fini", "exited"}
    BY DEF IInv, Flow
  <2>3. stage = "run" => outcome = "SUCCESS" /\ Begun
    BY DEF IInv, Flow
  <2>4. ASSUME stage \in {"fini", "exited"}, exit_status = "SUCCESS"
        PROVE  outcome = "SUCCESS" /\ Begun /\ RanToTheEnd
    <3>1. status = "SUCCESS" /\ outcome = "SUCCESS" /\ Begun
      BY <2>4 DEF IInv, Flow, Told
    <3>2. at = origin[exit_offset - 2] /\ AllAdds(origin[exit_offset - 2], Len(source))
      BY <3>1 DEF IInv, Ran, Succeeds, Traced
    <3> QED
      BY <3>1, <3>2 DEF RanToTheEnd, AllAdds
  <2>5. ASSUME stage \in {"fini", "exited"}, RanToTheEnd
        PROVE  exit_status = "SUCCESS"
    <3>1. status \in VP!Error /\ (exit_status = "SUCCESS" <=> status = "SUCCESS")
      BY <2>5 DEF IInv, Told, RanToTheEnd
    <3>2. status # "READY" /\ ~Fails(at)
      BY <2>5 DEF RanToTheEnd, Fails
    <3>3. ~HasFailed
      BY <3>2 DEF IInv, Ran
    <3> QED
      BY <3>1, <3>3 DEF HasFailed
  <2> QED
    BY <2>1, <2>2, <2>3, <2>4, <2>5 DEF ExitStatusTruthful
<1> QED
  BY <1>1, Invariance, PTL

=============================================================================
