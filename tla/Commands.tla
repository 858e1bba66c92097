------------------------------ MODULE Commands ------------------------------
(***************************************************************************)
(* The commands of the language, on configurations [pc, dp, memory] of a   *)
(* source: next token, data pointer, working memory.                       *)
(***************************************************************************)
EXTENDS Faults

Here(source, c) == TokenAt(source, c.pc)
Onward(c)       == [c EXCEPT !.pc = @ + 1]

(* Between an `a' and its `jet2' lie as many of one as of the other. *)
Matching(source, i, j) ==
  /\ i < j /\ source[i] = "a" /\ source[j] = "jet2"
  /\ Balance(source, i) = Balance(source, j) + 1
  /\ \A k \in i .. j - 1 : Balance(source, k) >= Balance(source, i)

ClosedAt(source, i) == CHOOSE j \in DOMAIN source : Matching(source, i, j)
OpenedAt(source, j) == CHOOSE i \in DOMAIN source : Matching(source, i, j)

MovedTo(source, c) == IF Here(source, c) = "darling" THEN c.dp + 1 ELSE c.dp - 1

(* Commands that nobody outside can see and that cannot fail here. *)
IsSilent(source, c) ==
  \/ Here(source, c) \in Adds \cup {"a", "jet2"}
  \/ Here(source, c) \in Moves /\ MovedTo(source, c) \in Cell

Silent(source, c) ==
  CASE Here(source, c) \in Moves -> [Onward(c) EXCEPT !.dp = MovedTo(source, c)]
    [] Here(source, c) = "my"    -> [Onward(c) EXCEPT
         !.memory[c.dp] = IF @ = UINT8_MAX THEN 0 ELSE @ + 1]
    [] Here(source, c) = "hand"  -> [Onward(c) EXCEPT
         !.memory[c.dp] = IF @ = 0 THEN UINT8_MAX ELSE @ - 1]
    [] Here(source, c) = "a"     -> IF c.memory[c.dp] = 0
                                    THEN [c EXCEPT !.pc = ClosedAt(source, @) + 1]
                                    ELSE Onward(c)
    [] Here(source, c) = "jet2"  -> IF c.memory[c.dp] # 0
                                    THEN [c EXCEPT !.pc = OpenedAt(source, @) + 1]
                                    ELSE Onward(c)

(* The configurations up to as many silent commands ahead as there are tokens. *)
Ahead(source, c) ==
  LET after[n \in 0 .. Len(source)] ==
        IF n = 0 THEN c
        ELSE IF IsSilent(source, after[n - 1]) THEN Silent(source, after[n - 1])
        ELSE after[n - 1]
  IN  {after[n] : n \in 0 .. Len(source)}

(* A run of moves that leaves the working memory fails as a whole. *)
LeavesMemory(source, c) ==
  \E n \in 1 .. MEMORY_SIZE :
    /\ \A k \in c.pc .. c.pc + n - 1 : TokenAt(source, k) = Here(source, c)
    /\ (IF Here(source, c) = "darling" THEN c.dp + n ELSE c.dp - n) \notin Cell

(* Where a program can end, and how. *)
Ends(source, c, s) ==
  CASE s = "SUCCESS"           -> Here(source, c) = "EOF"
    [] s = "DP_OUT_OF_BOUNDS"  -> Here(source, c) \in Moves /\ LeavesMemory(source, c)
    [] s = "IO"                -> Here(source, c) \in {"nothing", "beats"}
    [] s = "END_OF_INPUT_FILE" -> Here(source, c) = "beats"

=============================================================================
