------------------------------- MODULE JitCode -------------------------------
(***************************************************************************)
(* The machine code of the JIT target, between its compiler and its run.   *)
(*                                                                         *)
(* The unit is the group of instructions that one call of                  *)
(* nbajh_buffer_write_jit appends.  Every group has at most one            *)
(* displacement to be written later, always in its last bytes, so `from'   *)
(* in the C code is the end of a group.  A program maps the offset of each *)
(* group to the group, a record of its kind, its operand (0 for none) and  *)
(* where its displacement leads.                                           *)
(***************************************************************************)
EXTENDS Widths

(* The bytes of each group.  The first operand of the checks is r14 - r15, *)
(* the data pointer as an index.                                           *)
GroupSize ==
  [header |-> 40,
   above  |-> 18, addp |-> 7,  \* jae .oob; add r14, n
   below  |-> 18, subp |-> 7,  \* jb .oob; sub r14, n
   addv   |-> 4,  subv |-> 4,
   fputc  |-> 22,              \* je .io
   fgetc  |-> 18, store |-> 3, \* je .ferror; mov [r14], al
   jz     |-> 10, jnz |-> 10,  \* the two ends of a loop
   debug  |-> 5,               \* call .handler
   success |-> 2, exit |-> 10,
   oob    |-> 7, io |-> 7,     \* jmp .exit
   ferror |-> 29, eof |-> 7,   \* jne .exit; jmp .exit
   handler |-> 19]

GroupOp == DOMAIN GroupSize

Group == [op : GroupOp, n : Nat, to : Nat]

IsGroup(g) == /\ g \in Group
              /\ g.n \in IF g.op \in {"addv", "subv"} THEN Byte ELSE 0 .. UINT16_MAX

(* enum nbajh_jit_x86_64_jump_target, by the group a stub starts with, and *)
(* the stub that each group with a jump to the footer means.               *)
Stub   == {"oob", "io", "ferror", "handler"}
StubOf == [above |-> "oob", below |-> "oob", fputc |-> "io",
           fgetc |-> "ferror", debug |-> "handler"]

NOWHERE == 0 \* a displacement not written yet

End(code, o) == o + GroupSize[code[o].op]

(* Mutant: the displacement is counted from the beginning of the group. *)
TargetFromStart(code, o) ==
  IF code[o].to = NOWHERE THEN End(code, o) ELSE code[o].to + GroupSize[code[o].op]

(* A displacement not written is 0: it leads to the end of its group. *)
Target(code, o) == IF code[o].to = NOWHERE THEN End(code, o) ELSE code[o].to

-----------------------------------------------------------------------------

(* The groups an emit of a token, or of the end of the program, starts with. *)
Opening == {"above", "below", "addv", "subv", "fputc", "fgetc", "jz", "jnz",
            "debug", "success"}

(* What control goes on with behind a group g, for the others it leaves. *)
Leaves == {"exit", "oob", "io", "eof", "handler"}

Follows(g, h) ==
  CASE g.op = "above"   -> h.op = "addp" /\ h.n = g.n
    [] g.op = "below"   -> h.op = "subp" /\ h.n = g.n
    [] g.op = "fgetc"   -> h.op = "store"
    [] g.op = "success" -> h.op = "exit"
    [] g.op = "ferror"  -> h.op = "eof"
    [] OTHER            -> h.op \in Opening

(* Where control and displacements of a group lead is what the group means. *)
LeadsRight(code, o) ==
  LET g == code[o]
  IN  /\ g.op \notin Leaves => End(code, o) \in DOMAIN code /\ Follows(g, code[End(code, o)])
      /\ g.op \in {"jz", "jnz"} => g.to \in DOMAIN code /\ code[g.to].op \in Opening
      /\ g.op \in DOMAIN StubOf => g.to \in DOMAIN code /\ code[g.to].op = StubOf[g.op]
      /\ g.op \in {"oob", "io", "ferror", "eof"} =>
           g.to \in DOMAIN code /\ code[g.to].op = "exit"

(* Code that can be run: what the machine needs and never checks. *)
WellFormed(code) ==
  /\ DOMAIN code \subseteq Nat
  /\ 0 \in DOMAIN code
  /\ \A o \in DOMAIN code : /\ IsGroup(code[o])
                            /\ code[o].op = "header" <=> o = 0
                            /\ LeadsRight(code, o)

=============================================================================
