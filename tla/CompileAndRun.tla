--------------------------- MODULE CompileAndRun ---------------------------
(***************************************************************************)
(* compile_and_run (cmd/compile_and_run.c) with the bytecode target: the   *)
(* source file is opened, the program buffer initialised, the source       *)
(* compiled, the file closed, the program run and freed.  Module Command   *)
(* has the steps of compile_and_run itself; the compiler and the           *)
(* interpreter are the modules of those names, their steps taken while     *)
(* compile_and_run is in the call.                                         *)
(*                                                                         *)
(* `origin' is not in the code.  It remembers for each offset at which an  *)
(* instruction starts which token the compiler was at, so that the run can *)
(* be compared with the meaning of the source (module Language).           *)
(***************************************************************************)
EXTENDS Command, Faults, Buffer, Bytecode

CONSTANT Sources

ASSUME SourcesAssumption == Sources \subseteq Seq(Keyword \cup {"INVALID"})

VARIABLES
  origin,
  source, pos, dst, code, loop_stack, loop_buf, last_token, outcome,
  ip, dp, memory, event, status

Compiler == INSTANCE BytecodeCompiler
VM       == INSTANCE BytecodeVM WITH program <- code

compiling == <<source, pos, dst, code, loop_stack, loop_buf, last_token, outcome>>
running   == <<ip, dp, memory, event, status>>
vars      == <<command, origin, compiling, running>>

Init ==
  /\ CommandInit
  /\ origin = [o \in {0} |-> 1]
  /\ source \in Sources
  /\ pos = 0
  /\ dst = Compiler!Freed
  /\ code = [o \in {} |-> [op |-> "ret", operand |-> 0]]
  /\ loop_stack = <<>>
  /\ loop_buf = Compiler!Freed
  /\ last_token = 0
  /\ outcome = "READY"
  /\ ip = 0
  /\ dp = 0
  /\ memory = [c \in Cell |-> 0]
  /\ event = VM!NoEvent
  /\ status = "READY"

OpenSource == Fopen /\ UNCHANGED <<origin, compiling, running>>

(* nbajh_buffer_init *)
InitProgram ==
  /\ \/ HaveProgram /\ dst' = FreshBuffer
     \/ NoProgram /\ UNCHANGED dst
  /\ UNCHANGED <<origin, source, pos, code, loop_stack, loop_buf, last_token,
                 outcome, running>>

(* One step of the compiler. *)
Compile ==
  /\ stage = "compile"
  /\ Compiler!Next
  /\ origin' = IF dst'.size = dst.size THEN origin
               ELSE [o \in DOMAIN origin \cup {dst'.size} |->
                       IF o = dst'.size THEN pos' ELSE origin[o]]
  /\ UNCHANGED <<command, running>>

(* The compiler has returned; undefined behaviour is not followed further. *)
CloseSource ==
  /\ outcome \notin {"READY", "RUNNING", "UNDEFINED"}
  /\ Compiled(outcome)
  /\ UNCHANGED <<origin, compiling, running>>

(* nbajh_context_init *)
StartRun ==
  /\ Started
  /\ ip' = 0
  /\ dp' = 0
  /\ memory' = [c \in Cell |-> 0]
  /\ event' = VM!NoEvent
  /\ status' = "RUNNING"
  /\ UNCHANGED <<origin, compiling>>

(* One turn of the interpreter's loop. *)
Run ==
  /\ stage = "run"
  /\ VM!Next
  /\ UNCHANGED <<command, origin, compiling>>

EndRun ==
  /\ status # "RUNNING"
  /\ Ended(status)
  /\ UNCHANGED <<origin, compiling, running>>

(* nbajh_buffer_fini *)
FiniProgram ==
  /\ Released
  /\ dst' = Compiler!Freed
  /\ UNCHANGED <<origin, source, pos, code, loop_stack,
                 loop_buf, last_token, outcome, running>>

Next ==
  \/ OpenSource \/ InitProgram \/ Compile \/ CloseSource
  \/ StartRun \/ Run \/ EndRun \/ FiniProgram

Spec == Init /\ [][Next]_vars

(* One thread; the calls of the C library are taken to return. *)
FairSpec == Spec /\ WF_vars(Next)

-----------------------------------------------------------------------------

(***************************************************************************)
(* The run and the source agree: whatever the compiler merges, wraps away  *)
(* or turns into jumps, the program does to memory, pointer and the        *)
(* outside what the tokens say, fails where they say, and is not run at    *)
(* all if the source has a fault.  While an instruction runs the token is  *)
(* the one it comes from; after the return, the one of the last opcode.    *)
(***************************************************************************)
Rejected == outcome \in CompilerErrors

Lang == INSTANCE Language WITH
  pc <- CASE status = "READY"   -> 1
          [] status = "RUNNING" -> origin[ip]
          [] OTHER              -> origin[ip - 1],
  status <- IF Rejected THEN outcome ELSE status

ImplementsLanguage == Lang!Spec

(***************************************************************************)
(* Every way out gives back what was taken, once: nothing is open or       *)
(* allocated at the end, the program exists exactly from its               *)
(* initialisation to its release, and the loop stack only in the compiler. *)
(***************************************************************************)
ResourcesBalanced ==
  /\ stage = "exited" => file = "closed" /\ exit_status # "none"
  /\ dst # Compiler!Freed <=> stage \in {"compile", "context", "run", "fini"}
  /\ loop_buf # Compiler!Freed => stage = "compile" /\ outcome = "RUNNING"
  /\ stage \in {"context", "run"} => file = "closed"

(* The program was run, and the instruction that ended it is behind the    *)
(* last command that comes to anything.                                    *)
RanToTheEnd ==
  /\ status \notin {"READY", "RUNNING"}
  /\ \A k \in origin[ip - 1] .. Len(source) : source[k] \in Adds

(***************************************************************************)
(* The process reports success exactly if the source was compiled and its  *)
(* run got to the end of it: not if a run ended before, nor failure if it  *)
(* did not.  A success also means that the source has no fault, and the    *)
(* interpreter sees only complete programs.                                *)
(***************************************************************************)
ExitStatusTruthful ==
  /\ stage \in {"fini", "exited"} => (exit_status = "SUCCESS" <=> RanToTheEnd)
  /\ exit_status = "SUCCESS" => IsVerdict(source, Len(source) + 1, "SUCCESS")
  /\ stage = "run" => outcome = "SUCCESS" /\ WellFormedCode(code)

(* The process ends, unless the source itself has a loop that is entered   *)
(* and never left: then it passes a jmpnz again and again.                 *)
HangsOnlyInLoops ==
  \/ <>(stage = "exited" \/ outcome = "UNDEFINED")
  \/ []<>(status = "RUNNING" /\ code[ip].op = "jmpnz")

=============================================================================
