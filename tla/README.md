# A verification project for nothing-beats-a-jet2-holiday

The repository holds an interpreter for a small language with nine keywords
(`darling`, `hold` move the data pointer; `my`, `hand` change the cell; `nothing`
writes it, `beats` reads it, `a` … `jet2` is a loop, `holiday` calls a debugging
handler), as a library with two targets, bytecode and x86-64 machine code, and a
command that compiles and runs a file. This directory models it in TLA+, checks
the models with TLC and proves the main invariants with TLAPS.

## Inventory

| Component | Source | State | Operations | What makes it correct |
|---|---|---|---|---|
| Lexer | `lib/src/lexer.c` | file, line, column | next_token | the tokens and positions of the text, whatever surrounds them; end of file is sticky |
| Growable buffer | `lib/src/buffer.c` | size, cap, storage | init, write, pop_size, fini, each for heap and executable pages | writes land in storage; storage is released by the size it has |
| Bytecode compiler | `lib/src/targets/bytecode_compile.c` | token, loop stack, program buffer | init, one emit per token run, end | code is never damaged by patching; jumps pair; first fault reported at its token; runnable on success |
| Bytecode interpreter | `lib/src/targets/bytecode_run.c`, `context.c` | ip, dp, memory | ten opcodes | ip at instructions, dp in memory, failures have no effect and are reported where they happened |
| JIT compiler | `lib/src/targets/jit_x86_64_compile.c` | token, loop stack, table of jumps, code pages | as above, plus footer stubs and displacement patching | every jump lands on the stub or instruction meant; nothing handed out incomplete |
| JIT runner | `lib/src/targets/jit_x86_64_run.c` and the code the compiler emitted | registers, stack, context | call of the code; checks, moves, additions, input, output, loops, debugging calls, error exits | same meaning as the bytecode; the ABI is kept on every path; the context is right when the handler sees it |
| Target dispatch | `lib/src/targets.c` | none | compile, run, is_jit | the same target for buffer, compiler and runner |
| Command | `cmd/` | file, program buffer, exit status | compile_and_run | everything given back; exit status tells the truth |
| Examples | `examples/` | – | consumers of the library | what they assume of the library holds |

Everything runs in one thread. The compilers pull tokens from the lexer on
demand, so a token is read before it is known whether the call it ends succeeds;
they write to a buffer that the command owns, and keep a second one as loop stack.
The interpreter works on a context that the command initialises with the program's
address and shares with the debugging handler. What is hard is therefore not
concurrency but long histories: code patched long after its room was reserved,
counters that wrap or must not, allocations that fail half-way, an instruction
pointer that is never checked against a length, and machine code that pushes, calls and
jumps along paths no C compiler has checked. `PROJECT.json` lists these hazards by line.

## Modules

| Module | What it is |
|---|---|
| `Tokens` | token types, the token stream, error codes |
| `Lexer` | `nbajh_lexer_next_token`, one turn of its loop per step, and the words of a text (reference) |
| `Widths` | the widths of the C types as constants, with their assumption |
| `Faults` | what is wrong with a source, token by token (reference) |
| `Buffer` | the arithmetic of `struct nbajh_buffer`; operators used by its owners |
| `Bytecode` | opcodes, instruction sizes, what code can be run (`WellFormedCode`) |
| `BytecodeCompiler` | `nbajh_compile_bytecode`, one `nbajh_bytecode_emit` per step |
| `BytecodeVM` | `nbajh_run_bytecode`, one turn of its loop per step |
| `JitCode` | groups of machine instructions with their sizes, what code can be run (`WellFormed`) |
| `JitCompiler` | `nbajh_compile_jit_x86_64`, one `nbajh_jit_x86_64_emit` or one turn of the footer's loop per step |
| `JitVM` | `nbajh_run_jit_x86_64` and the machine code, one group per step |
| `Commands` | what the commands of a source do, one by one and silently ahead (reference) |
| `Language` | the meaning of a source: the abstract specification |
| `Command` | what `compile_and_run` does whichever the target |
| `CompileAndRun` | `Command` with the bytecode compiler and the interpreter; refines `Language` |
| `CompileAndRunJit` | `Command` with the JIT compiler, its code and executable pages; refines `Language` |
| `MC…` | instances for TLC |
| `…_proofs` | theorems |

### State and actions

`Lexer`: `rest` is what `fgetc` still delivers, so that `ungetc` prepends to it. A
comment and a keyword are consumed in one step each. The nested switches accept a
character as long as what was read is the beginning of some keyword (`Matched`),
then compare what follows; no keyword is the beginning of another. A read error
ends a text like the end of file does, as in the code. The callers stop at an
invalid token, so what the lexer consumed with it is not observed.

`BytecodeCompiler`: `source` and `pos` stand for the lexer and `compiler->token`.
A run of equal moves or additions is consumed in one step, as in the loops of the
`emit_additive` functions; `Emit` is the `NBAJH_BUFFER_WRITE` they end with. `dst`
is the size, capacity and (a ghost) the true allocation of the program buffer,
`code` its contents by offset. Instructions are written whole, so bytes are not
modelled; the room `begin_loop` reserves is the gap between `dst.size` and the
domain of `code`. `Returns` is the part of `nbajh_compile_bytecode` that follows
every emit. A write outside the allocated storage is undefined behaviour; the model
ends there with outcome `UNDEFINED` and makes no claim about what follows.

`BytecodeVM`: offsets instead of pointers; `event` is the last thing the outside
saw. `fputc` may fail, `fgetc` may give any byte, end of file or an error at each
call. The debugging handler is the one of `cmd/`, which only prints.

`JitCompiler`: machine code is a function from offsets to *groups*, the instructions
one `nbajh_buffer_write_jit` appends. Sizes of groups are the real ones, since
displacements depend on them; encodings are left out. A group has at most one
displacement to be written later, in its last bytes, so that `jump->from`, an offset
on the loop stack and the `from` of `set_rel8` and `set_rel32` are ends of groups.
The emit functions write up to three times and may fail between writes: they are
operators that return the set of their results, chained with `Then` for the
early returns. `emit_footer` is a step for its beginning, one for each turn of its loop and
one for its end; its locals are the variables `exit_offset`, `jump_target_offsets`
and `linked`. `nbajh_buffer_write_jit` has the arithmetic of `nbajh_buffer_write`.

`JitVM`: one step executes one group. `rip` and the return address on the stack are
offsets in the program, `r14` (the data pointer) is an index of the memory, `OUTSIDE` is
what is neither. The carry of an unsigned comparison is the comparison; `al` and `eax`
are two parts of `rax` that never hold something at the same time. The stack is a
sequence of words, each the caller's return address, the caller's value of one
register, or a return address in the program, so that an exit that pops the wrong words
shows in `kept`, the registers that hold the caller's values. The handler stub pops the
return address into `ctx->ip`, stores `dp`, calls the handler and jumps through
`ctx->ip`; the handler is the one of `cmd/`, which changes nothing. `RunFerror`
executes what the bytes say: `0F 75`, meant as `jne rel8`, is `pcmpeqw`, the
displacement is its operand byte, and whether the next group is reached depends on the
value of that byte.

`Command`, `CompileAndRun`, `CompileAndRunJit`: `stage` is the program counter of
`compile_and_run`; `Command` has its guards, early returns and exit status, the two
compositions say what happens to the program buffer and join the steps of their
components, which happen in stages `compile` and `run`. The choice that `targets.c`
makes between the targets is the choice of the composition. `origin` is a ghost that
relates code offsets to tokens; with the JIT a second one, `at`, remembers the token
also while control is in the footer. `r14` is arbitrary when the program is called,
and `released` is what `fini_jit` unmaps. Bytes that are no group of the program, which
a lost stub leads to, may do anything (`RunAstray`).

`Language`: one step executes silent commands and then at most one visible command
(or stops). How far a step may run ahead is bounded by the length of the source. A
target is thus free to merge, drop or reorder invisible work, and must agree on
memory, pointer and source position whenever it makes a step. `ImplementsLanguage`
maps the interpreter's `ip` through `origin` to a source position; a run that wrapped
to nothing is executed by `Language` together with the instruction behind it. For
machine code the data pointer is in the context until the header has loaded it, and a
character read is taken to be in memory while it is in `al`: that is the mapping
`Machine`. Both targets implement the same `Language`, so they agree with each other as
far as it determines what a source does. It leaves open whether a `beats` that cannot
read returns `IO` or `END_OF_INPUT_FILE`, and there the targets do differ: that is the
finding of `ReadErrorsTold`.

Definitions marked *Mutant* are plausible mistakes in the definition below them.
They are not part of a specification; `PROJECT.json` names for each property the
mutant that it must refute.

## Runs

| Run | Checks |
|---|---|
| `lexer` | all texts of ≤ 5 characters over `a`, `m`, `y`, `;`, new line and space, and two words out of all keywords, whole, cut short or with a letter too many, with each kind of separator or none: the k-th token is the k-th word, at its line and column (`TokensAreWords`) |
| `last_line` | expected to fail: see below |
| `compiler` | all token sequences of length ≤ 5 over one token of each kind, and four longer ones; every allocation may fail. Back-patching keeps the code tiled (`CodeTiles`), jumps pair, a success is runnable, the verdict is the first fault of the source at its token, the loop stack stays in storage and is freed, compilation ends |
| `jit_compiler` | all token sequences of length ≤ 4 over one token for each kind of group, and six longer ones; every allocation may fail. Every displacement is remembered once (`DisplacementsRemembered`), ends of loops lead to each other, a success is complete (`SuccessIsComplete`) and, if a stub was lost, still complete up to its exit (`CompleteUpToExit`), the verdict is the first fault, buffers are sound and freed |
| `jit_lost_stub` | expected to fail: see below |
| `jit_machine` | all well-formed machine code of ≤ 3 tokens' groups, loops jumping from anywhere to anywhere, the stub for `fgetc` in front of or behind the others: memory is never left, the ABI (`AbiKept`), control (`AstrayOnlyAtFerror`), the context (`ContextOnlyAtHandler`) |
| `compile_and_run_jit` | all sources of length ≤ 4 over one token for each kind of group and eleven longer ones, from `fopen` to exit, `r14` arbitrary: implements `Language`, control (`AstrayOnlyAtFerror`), resources, hanging only in loops, and success told if and only if the run got to the end of the source (`ExitStatusTruthful`) |
| `jit_read_errors`, `jit_release` | expected to fail: see below |
| `interpreter` | all well-formed programs of ≤ 4 instructions, including jumps no compiler makes and an invalid opcode |
| `compile_and_run` | all sources of length ≤ 5 over six commands and nine longer ones, from `fopen` to exit: implements `Language`, resources, hanging only in loops, and success told if and only if the run got to the end of the source (`ExitStatusTruthful`) |
| `deep_loops` | real widths, expected to fail: see below |

Bounds. `UINT16_MAX = 2`, `UINT8_MAX = 1` or `2`, memory of 3 cells and
`SIZE_T = 1` make overflow of the move operand, wrapping of the value operand to
zero and to one, and both ends of the memory reachable within five tokens. The
capacities 4 and 6 make both buffers grow, and fail to grow, within such sources.
For `jit_compiler`, groups and `INT8_MAX = 127` are real; pages of 64 bytes and buffers
of 16 make every buffer grow, the pages also in the footer, and `INT32_MAX = 100` puts
some jumps out of reach. The short jumps of the stubs to the exit are at most 79 bytes
long, whichever stubs a program needs and in whichever order: `SuccessIsComplete` checks it.
`compile_and_run_jit` has pages of 64 bytes, so that nearly every program needs several
and each growth may fail. `INT32_MAX` is large there: jumps out of reach are the
business of `jit_compiler`. The longer sources have `beats` behind what needs
enough other stubs for the displacement behind ferror to name no register, moves that end at and one
behind the last cell, and handler calls in and around loops.
The code uses the widths only in comparisons and modular arithmetic, which the
proofs confirm for the properties they cover by leaving the widths arbitrary.
Deadlock is not checked in runs where the modelled call returns and nothing follows.

Fairness. `Termination` and `HangsOnlyInLoops` assume weak fairness of the whole
next-state relation: the code is one thread that is never blocked except in calls
of the C library, which are taken to return.

### What the code does not keep

`nbajh_bytecode_begin_loop` reserves room by raising `dst->size` without growing the
buffer, and `nbajh_buffer_write` computes the new capacity without looking at `size`.
Fifteen `a` in a row followed by a command write behind the storage
(`WritesLandInStorage`, run `deep_loops`). In all other runs the outcome `UNDEFINED`
is excluded from the properties it makes meaningless, and from no other.

`nbajh_jit_x86_64_emit_footer` ignores the error of `emit_jump_target`. If the pages
for a stub cannot be had, the program is handed out with success and a jump behind its
end (`ErrorsAreReturned`, run `jit_lost_stub`); a stub written after that goes behind the
mapped pages (outcome `UNDEFINED`). `SuccessIsComplete` is the same property for
programs whose pages could be had; `CompleteUpToExit` is what remains of it for the others. The table of jumps is lost when the loop stack of the
JIT compiler cannot be allocated (`CompilerInit`); `BuffersSound` leaves that way out aside.

`fini_jit` unmaps `cap` bytes. After a growth that failed, `cap` is more than was mapped
(`nbajh_buffer_write` raises it before it asks for the pages), and pages behind the
program that belong to something else are unmapped (`ReleasesOnlyItsPages`, run
`jit_release`).

The jump behind ferror is encoded as `pcmpeqw`. It never jumps, so that a read error is
reported as the end of the input (`ReadErrorsTold`, run `jit_read_errors`); and if the
operand byte, which is the distance back to the exit, is below 192, it
reads memory at an address made from the bytes that follow: a program whose stubs in
between are long enough (26 bytes or more, for example those of `nothing` and
`holiday`) does not survive the end of its input. In the model
that is the step of `RunFerror` to the status `UNDEFINED`, which `jit_machine` and
`compile_and_run_jit` reach; `AstrayOnlyAtFerror` says that control is lost nowhere else.
Programs with a lost stub are set aside in the properties of the composition
(`StubLost`): what they do is the finding above, not a second one.

A comment that ends with the file instead of its line adds a line to the position of
the end of file (`EndOfFileOnLastLine`, run `last_line`), where an unclosed loop is
reported. Types and positions of all other tokens are right.

## Proofs

All theorems hold for every value of the constants allowed by `WidthAssumption`,
`BufferAssumption`, `JitAssumption`, `SourcesAssumption` and `TextsAssumption`: widths,
memory, capacities, pages, sources and texts are arbitrary. `JitAssumption` has the one
number the code depends on: the short jumps of the stubs need `INT8_MAX ≥ 78`, because
the exit is followed by the stubs of `nothing`, `beats` and `holiday` in any order, and the
last jump back to it spans at most 78 bytes.

* `Lexer_proofs` (`TypeCorrect`, `TokensAreTheWords`, for texts of any length).
  `Reading(p)` says that the stream is the text behind position `p`, that the line is one
  more than the line ends in front of it, the column the distance to the last of them (one
  more behind a comment, whose line end is pushed back), and that the tokens are the
  words that start up to `p`; `p` is neither in a comment nor in the middle of a word. A comment that
  ends with the file leaves a line end that is in no text, which is `Finished`. The
  reference definition of the type of a word and the nested switches (`Matched`) are
  brought together once, in `TypeOfWord`. The least and greatest elements that the module takes by `CHOOSE` exist
  because `<` is well-founded.
* `Compilers_proofs`, what both compilers use, and what comparing a target with `Language`
  needs (see `CompileAndRun_proofs`). Bounds of `Balance`, and how `Scanned` (no
  fault so far, and the balance is the number of open loops) grows by a run of tokens. The
  growth formula is enough for any write to a buffer with `size ≤ cap`, and
  `nbajh_buffer_write` preserves that. This is the contract `begin_loop` breaks for the
  program buffer and keeps for the loop stack.
* `BytecodeCompiler_proofs`. `Tiles` says that a function from offsets to sizes covers
  `0 .. end-1`. Stored code and reserved rooms together are such a function, with the
  loop stack strictly increasing (so that popping frees exactly one room). `TilesGrow`
  (append a piece) is the only lemma about tilings; `StoreTiles`, `ReserveTiles` and
  `PatchTiles` reduce the three ways in which the program grows to it. Pairing of jumps
  is separate (`StorePaired`, `PatchPaired`). When no loop is open the tiling consists of
  instructions only, so fall-through and jump targets are instructions: that is
  `SuccessIsRunnable`, the assumption of `BytecodeVM`. `FirstFaultReported` has its own
  invariant `VInv`: while compiling, the tokens in front of `pos` are `Scanned`.
* `BytecodeVM_proofs`. The inductive invariant is the conjunction of the checked
  invariants with the well-formedness of the program. `IpAtInstruction` alone is not
  inductive: that the *next* fetch is from an instruction needs to know where
  instructions fall through and jump to. `AdvanceKeepsIp` and `ReturnKeepsIInv` are
  shared by the actions.
* `JitCompiler_proofs`. `JInv` says of the four phases what is true of the program: in the
  `Body`, groups tile it and the displacements not yet written are exactly those of the
  jumps in the table and of the open loops (`DisplacementsRemembered`), each known once;
  `Between` the writes of an emit the rest of a piece is still missing; in the `Footer`
  stubs are appended and the table is worked off, and the offset of the exit is the one
  the stubs jump back to; `Lost` is what is left of that once a stub could not be written.
  `CompleteOnSuccess` needs that `Lost` cannot look like success with all its pages:
  a growth that failed has doubled the capacity the buffer believes to have, so that no
  stub after it asks for pages again, and `cap` stays different from `alloc`.
  `CompleteToTheExit` needs none of that: `Spine` says what the program is up to its exit,
  which the footer's loop leaves alone. `FirstFaultReportedByJit` uses `Scanned` as above.
  `StepNew` says which groups a step adds to the program, from lemmas about what each
  piece `Gains`: a group that jumps to the footer is written for no addition.
* `JitVM_proofs`. `WellFormed` says of each group what is behind it and where its
  displacement leads; `FallsOn` and `LeadsTo` turn that into the next group. The
  invariant `IInv` says what the stack is in front of each kind of group (`StackAt`: the
  header's frame everywhere, nothing before it, a return address above it in the handler
  only) and that a move in front of control has been checked (`MoveIsSafe`: the check and
  the move are two groups, so that `r14` stays in memory is not inductive without it).
  `Resumes` is what the steps that leave the stack alone have in common. It follows that
  the ABI is kept, that control is lost behind ferror only, and what changes the context.
  The assumption, that the program is `WellFormed`, is `CompleteOnSuccess`.
* `CompileAndRun_proofs`. The proof modules of the compiler and the interpreter are
  instantiated, so that their invariants hold of the composition while their component runs
  (`Compiling`, `Running`). `Flow` says where `compile_and_run` is and what is open there,
  `Storage` which buffers are allocated. `ResourcesAreBalanced` follows.
  `ExitStatusIsTruthful` is an equivalence: `Told` says that the exit status is success if
  and only if the status of the run is. `Traced` says that only `ret` is reached from
  behind the last command that is not an addition, which is that a success was told at
  the end of the source. The converse, that a run that got there was not told to have
  failed, is `SuccessIsTheEnd`: every instruction but `ret` stands for a token that is
  still to be done. It needs what instructions stand for, below.

  The second half is the refinement of `Language`, `ImplementsTheLanguage`. Its invariant
  `MInv` says by `Translated` what every stored instruction `StandsFor`: the tokens from
  the one that `origin` has at its offset to the one `origin` has behind it are some that
  come to nothing (`Skips`) and then the run or the command it was made of; and the tokens
  that a pair of jumps comes from match (`Closes`). While a loop is open, `OpenSince` is
  what will make that true when its end is found: the balance has not been below the
  loop's since its beginning. `CompilerShapes` shows that every step of the compiler keeps
  this (`EmitShapes` for a single instruction, `EndLoopShapes` for the pair), and for
  every instruction there is a lemma (`MoveRefines`, `AddRefines`, `JumpRefines`, ...) that
  a turn of the interpreter is one step of `Language`: silent commands and at most one that
  is seen. Those rest on `Compilers_proofs`: silent commands one after the other are
  `Ahead` (`LeadsAhead`), a run of moves or of additions does what its
  instruction does in one go (`MoveRun`, `AddRun`, with the laws of `%` it needs), and the
  token that belongs to a loop's is unique (`MatchingIsUnique`). A run that fails needs
  none of the moves in it to be done (`LeavesMemory`).
* `CompileAndRunJit_proofs`, the same composition for the JIT (`TypeCorrect`,
  `ControlIsKept`, `ResourcesAreBalanced`, `ExitStatusIsTruthful`). The two components need
  more of each other here, because a program that lost a stub is run too and is not
  `WellFormed`, so that nothing follows from `JitVM_proofs`. `HandedOut` is what
  `CompleteUpToExit` leaves of any program; `Contained` is an invariant of running one: the
  types, and that between groups there is the frame of the header, above it at most one
  return address into the program, and that only at the exit or behind it. It is kept by
  every group (`HeaderStep` to `ExitStep`, `MachineStep`), whatever stub or gap a
  jump to the footer meets; what is lost is lost in the handler called
  without an address (it takes a register for one) or at the exit reached with one.
  Beside it is kept how a step gets to the exit (`ThroughTheEnd`): without an error from
  the end of the program only, with one from the footer only, the footer from
  groups that jump to it only (`Failing`); and the exit returns what it was reached with.
  `Traced` says that behind the last token with a group of its own there have only been
  runs that wrapped to nothing, and `JumpsTraced` that a group that jumps to the footer is
  at a token that `Fails`, which is no addition (`StepNew` of the compiler). So success
  is returned at the end of the source, and nothing else is: that is both directions of
  `ExitStatusIsTruthful`, for programs with and without all their stubs (only that the
  program run is `WellFormed` is not said of one that lost a stub). `ControlIsKept` is about the latter and comes from `JitVM_proofs`. From the compiler,
  `Progress` says how far the program grows in a step and `SInv` that what is written is
  on mapped pages and `cap` is never less than they are, so that `fini_jit` unmaps all
  of them. The ghost `at` is right because no group of the footer is in the
  domain of `origin`.

Induction is used in its set form (`SetInduction`: a set of numbers that has 0 and with
every number the next has all of them), which follows from `<` being well-founded. The
function that `Ahead` takes its configurations from is recursive; `LeadsAhead` proves by
such an induction that it exists and has the values that its equations give.

Only model-checked:

* `ImplementsLanguage` for the JIT: the refinement mapping is checked on every source of
  the run `compile_and_run_jit`;
* `Termination` and `HangsOnlyInLoops`: liveness under fairness is out of the prover's
  reach.

## Not modelled, and the plan

Every safety invariant and action property of the runs is proved, and the refinement of
`Language` by the bytecode target. What is left of the plan is the same refinement by the
JIT: what a group stands for, and that the mapping `Machine` of the registers to pointer
and memory is kept by every group. The lemmas of `Compilers_proofs` about commands are
those it will need.

Left out for good: option parsing and messages (`cmd/main.c`, `cmd/log.h`), the name
tables (`token.c`, `errors.c`, `bytecode.c`), the branch of `targets.c` for a target
that does not exist (the command cannot ask for it), the examples, and the build files.
A read error of the source is the end of the text to the lexer; that a truncated
program is then compiled and run is listed as a hazard, but no line of the repository
promises otherwise.
