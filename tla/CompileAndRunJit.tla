-------------------------- MODULE CompileAndRunJit --------------------------
(***************************************************************************)
(* compile_and_run (cmd/compile_and_run.c) with the JIT target, as built   *)
(* with NBAJH_USE_JIT: module Command with JitCompiler, JitVM and          *)
(* executable pages for the program.                                       *)
(*                                                                         *)
(* `origin' and `at' are not in the code.  `origin' remembers for the      *)
(* groups of the program, not those of the footer, which token control is  *)
(* at in front of them, `at' the token that is being executed, also while  *)
(* control is in the footer.                                               *)
(***************************************************************************)
EXTENDS Command, Faults, Buffer, JitCode

CONSTANTS Sources, PAGE_SIZE, INT8_MAX, INT32_MAX

ASSUME JitAssumption == \* what JitCompiler supposes
  /\ Sources \subseteq Seq(Keyword \cup {"INVALID"})
  /\ PAGE_SIZE \in Nat \ {0}
  /\ INT8_MAX \in Nat /\ INT8_MAX >= 78
  /\ INT32_MAX \in Nat

VARIABLES
  origin, at,
  source, compiler, exit_offset, jump_target_offsets, linked, last_token, outcome,
  rip, r14, al, eax, stack, kept, ctx_ip, ctx_dp, memory, in, event, status,
  released     \* bytes that fini_jit unmapped

Compiler == INSTANCE JitCompiler
code     == compiler.code
VM       == INSTANCE JitVM

compiling == <<source, compiler, exit_offset, jump_target_offsets, linked,
               last_token, outcome>>
running   == <<rip, r14, al, eax, stack, kept, ctx_ip, ctx_dp, memory, in, event, status>>
ghosts    == <<origin, at>>
vars      == <<command, ghosts, compiling, running, released>>

Init ==
  /\ CommandInit
  /\ origin = [o \in {0} |-> 1]
  /\ at = 1
  /\ source \in Sources
  /\ compiler = [token |-> 0, jumps |-> <<>>, jumps_buf |-> Compiler!Freed,
                 loop_stack |-> <<>>, loop_buf |-> Compiler!Freed,
                 dst |-> Compiler!Freed, code |-> [o \in {} |-> 0]]
  /\ exit_offset = 0
  /\ jump_target_offsets = [s \in Stub |-> 0]
  /\ linked = 0
  /\ last_token = 0
  /\ outcome = "READY"
  /\ rip = 0
  /\ r14 = 0
  /\ al = 0
  /\ eax = "SUCCESS"
  /\ stack = <<>>
  /\ kept = VM!Registers
  /\ ctx_ip = 0
  /\ ctx_dp = 0
  /\ memory = [c \in Cell |-> 0]
  /\ in = "ok"
  /\ event = VM!NoEvent
  /\ status = "READY"
  /\ released = 0

OpenSource == Fopen /\ UNCHANGED <<ghosts, compiling, running, released>>

(* nbajh_buffer_init_jit *)
InitProgram ==
  /\ \/ HaveProgram /\ compiler' = [compiler EXCEPT !.dst = Compiler!FreshJit]
     \/ NoProgram /\ UNCHANGED compiler
  /\ UNCHANGED <<ghosts, source, exit_offset, jump_target_offsets, linked, last_token,
                 outcome, running, released>>

(* What the groups an emit has added come from. *)
Origin ==
  LET before == compiler.dst.size
      after  == compiler'.dst.size
      groups == {o \in DOMAIN compiler'.code : o >= before}
  IN  [o \in DOMAIN origin \cup groups \cup {after} |->
         IF o \in DOMAIN origin THEN origin[o]
         ELSE IF o = after \/ compiler'.code[o].op = "store" THEN compiler'.token
         ELSE origin[before]]

(* One step of the compiler. *)
Compile ==
  /\ stage = "compile"
  /\ Compiler!Next
  /\ origin' = IF outcome' = "RUNNING" THEN Origin ELSE origin
  /\ UNCHANGED <<command, at, running, released>>

(* The compiler has returned; undefined behaviour is not followed further. *)
CloseSource ==
  /\ outcome \notin {"READY", "HEADER", "RUNNING", "LINKING", "UNDEFINED"}
  /\ Compiled(outcome)
  /\ UNCHANGED <<ghosts, compiling, running, released>>

(* nbajh_context_init; the call of the program, with any value in r14. *)
StartRun ==
  /\ Started
  /\ ctx_ip' = 0
  /\ ctx_dp' = 0
  /\ memory' = [c \in Cell |-> 0]
  /\ rip' = ctx_ip'
  /\ r14' \in Cell
  /\ stack' = <<VM!Caller>>
  /\ status' = "RUNNING"
  /\ UNCHANGED <<ghosts, compiling, al, eax, kept, in, event, released>>

(* One group of the program. *)
Run ==
  /\ stage = "run"
  /\ UNCHANGED <<command, origin, compiling, released>>
  /\ VM!Next
  /\ at' = IF rip' \in DOMAIN origin THEN origin[rip'] ELSE at

(* Bytes that are no group of the program are executed: behind its end,    *)
(* where a lost stub was meant to be.                                      *)
RunAstray ==
  /\ stage = "run"
  /\ status = "RUNNING" /\ rip \notin DOMAIN code
  /\ status' = "UNDEFINED"
  /\ UNCHANGED <<command, ghosts, compiling, released,
                 rip, r14, al, eax, stack, kept, ctx_ip, ctx_dp, memory, in, event>>

EndRun ==
  /\ VM!Returned
  /\ Ended(status)
  /\ UNCHANGED <<ghosts, compiling, running, released>>

(* nbajh_buffer_fini_jit unmaps as many bytes as the buffer believes to have. *)
FiniProgram ==
  /\ Released
  /\ released' = compiler.dst.cap
  /\ UNCHANGED <<ghosts, compiling, running>>

Next ==
  \/ OpenSource \/ InitProgram \/ Compile \/ CloseSource
  \/ StartRun \/ Run \/ RunAstray \/ EndRun \/ FiniProgram

Spec == Init /\ [][Next]_vars

(* One thread; the calls of the C library are taken to return. *)
FairSpec == Spec /\ WF_vars(Next)

-----------------------------------------------------------------------------

(* The program was handed out although a stub of it could not be written. *)
StubLost == outcome = "SUCCESS" /\ compiler.dst.cap # compiler.dst.alloc

(* The context and the registers keep their types. *)
TypeOK == status = "READY" \/ VM!TypeOK

(* As JitVM states it of well-formed programs, of those the compiler hands *)
(* out complete: there is one place where control is lost.                 *)
AstrayOnlyAtFerror == StubLost \/ VM!AstrayOnlyAtFerror

(***************************************************************************)
(* Machine code and source agree: what the program does to memory, pointer *)
(* and the outside is what the tokens say, and it returns what they say,   *)
(* through merged runs, checks, jumps and stubs.  A character that fgetc   *)
(* gave is in memory as soon as it is in al; the data pointer is in the    *)
(* context until the header has loaded it.  Nothing is said of a program   *)
(* with a lost stub, nor of what happens behind an undefined instruction.  *)
(***************************************************************************)
Machine ==
  [pc     |-> at,
   dp     |-> IF rip = 0 THEN ctx_dp ELSE r14,
   memory |-> IF status = "RUNNING" /\ rip \in DOMAIN code /\ code[rip].op = "store"
              THEN [memory EXCEPT ![r14] = al] ELSE memory,
   event  |-> event,
   status |-> CASE outcome \in CompilerErrors -> outcome
                [] status = "UNDEFINED"       -> "RUNNING"
                [] OTHER                      -> status]

NotRun == [pc |-> 1, dp |-> 0, memory |-> [c \in Cell |-> 0], event |-> VM!NoEvent,
           status |-> "READY"]

Seen == IF StubLost THEN NotRun ELSE Machine

Lang == INSTANCE Language WITH
  pc <- Seen.pc, dp <- Seen.dp, memory <- Seen.memory, event <- Seen.event,
  status <- Seen.status

ImplementsLanguage == Lang!Spec

(***************************************************************************)
(* Every way out gives back what was taken: nothing is open or allocated   *)
(* or mapped at the end, the pages are there until the program has ended,  *)
(* and the compiler's buffers only in the compiler.  (But the table of     *)
(* jumps is lost if the compiler's init fails at its second buffer.)       *)
(***************************************************************************)
ResourcesBalanced ==
  /\ stage = "exited" => /\ file = "closed" /\ exit_status # "none"
                         /\ released >= compiler.dst.alloc
  /\ stage # "exited" => released = 0
  /\ stage \in {"context", "run"} => file = "closed" /\ InStorage(compiler.dst)
  /\ compiler.loop_buf # Compiler!Freed => stage = "compile"
  /\ compiler.jumps_buf # Compiler!Freed => stage = "compile" \/ compiler.dst.size = 0

(* As in CompileAndRun; nothing behind at but runs that wrap to nothing.   *)
RanToTheEnd ==
  /\ status \notin {"READY", "RUNNING"}
  /\ \A k \in at .. Len(source) : source[k] \in Adds

(***************************************************************************)
(* The process reports success exactly if the source was compiled and its  *)
(* run got to the end of it, also if a stub of the program was lost.  A    *)
(* success also means that the source has no fault.  What is run has been  *)
(* handed out with success, and is complete unless a stub was lost.        *)
(***************************************************************************)
ExitStatusTruthful ==
  /\ stage \in {"fini", "exited"} => (exit_status = "SUCCESS" <=> RanToTheEnd)
  /\ exit_status = "SUCCESS" => IsVerdict(source, Len(source) + 1, "SUCCESS")
  /\ stage = "run" => outcome = "SUCCESS" /\ (StubLost \/ WellFormed(code))

(* The process ends, unless the source itself has a loop that is entered   *)
(* and never left: then it passes the end of a loop again and again.       *)
HangsOnlyInLoops ==
  \/ <>(stage = "exited" \/ "UNDEFINED" \in {outcome, status})
  \/ []<>VM!At({"jnz"})

(***************************************************************************)
(* "mov eax, NBAJH_ERROR_IO / jne .exit" (jit_x86_64_compile.c:301-304):   *)
(* only what is no read error is reported as the end of the input.         *)
(***************************************************************************)
ReadErrorsTold == status = "END_OF_INPUT_FILE" => in = "eof"

(***************************************************************************)
(* "Frees the allocated storage capacity." (buffer.h:88-89): nothing but   *)
(* pages of the program is unmapped.                                       *)
(***************************************************************************)
ReleasesOnlyItsPages == released <= compiler.dst.alloc

=============================================================================
