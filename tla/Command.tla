------------------------------ MODULE Command ------------------------------
(***************************************************************************)
(* compile_and_run (cmd/compile_and_run.c), as far as it is the same for   *)
(* both targets: how far it has got, the source file and its result.  The  *)
(* modules that extend this one add the program buffer, the compiler and   *)
(* the runner that nbajh_target_is_jit, nbajh_compile and nbajh_run choose *)
(* for their target.                                                       *)
(***************************************************************************)

VARIABLES
  stage,      \* "fopen", "init", "compile", "context", "run", "fini", "exited"
  file,       \* the source file: "open" or "closed"
  exit_status \* what compile_and_run returned

command == <<stage, file, exit_status>>

CommandInit ==
  /\ stage = "fopen"
  /\ file = "closed"
  /\ exit_status = "none"

Exit(s) == stage' = "exited" /\ exit_status' = s

Fopen ==
  /\ stage = "fopen"
  /\ \/ stage' = "init" /\ file' = "open" /\ UNCHANGED exit_status
     \/ Exit("FAILURE") /\ UNCHANGED file

(* nbajh_buffer_init_maybe_jit has succeeded. *)
HaveProgram == stage = "init" /\ stage' = "compile" /\ UNCHANGED <<file, exit_status>>

(* Mutant: the source file stays open if there is no buffer. *)
NoProgramLeaking == stage = "init" /\ Exit("FAILURE") /\ UNCHANGED file

(* nbajh_buffer_init_maybe_jit has failed. *)
NoProgram == stage = "init" /\ Exit("FAILURE") /\ file' = "closed"

(* nbajh_compile has returned. *)
Compiled(outcome) ==
  /\ stage = "compile"
  /\ file' = "closed"
  /\ stage' = IF outcome = "SUCCESS" THEN "context" ELSE "fini"
  /\ exit_status' = IF outcome = "SUCCESS" THEN exit_status ELSE "FAILURE"

(* nbajh_context_init, and nbajh_run is called. *)
Started == stage = "context" /\ stage' = "run" /\ UNCHANGED <<file, exit_status>>

(* Mutant: the error of nbajh_run is only printed. *)
EndedIgnoring(status) ==
  stage = "run" /\ stage' = "fini" /\ exit_status' = "SUCCESS" /\ UNCHANGED file

(* nbajh_run has returned. *)
Ended(status) ==
  /\ stage = "run"
  /\ stage' = "fini"
  /\ exit_status' = IF status = "SUCCESS" THEN "SUCCESS" ELSE "FAILURE"
  /\ UNCHANGED file

(* nbajh_buffer_fini_maybe_jit, and back to main. *)
Released == stage = "fini" /\ stage' = "exited" /\ UNCHANGED <<file, exit_status>>

=============================================================================
