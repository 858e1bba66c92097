------------------------------- MODULE Buffer -------------------------------
(***************************************************************************)
(* struct nbajh_buffer (buffer.h, buffer.c): the arithmetic of its size    *)
(* and capacity.  `alloc' is not a field of the C struct: it is the number *)
(* of bytes the allocator really gave for `data'.  The code believes in    *)
(* `cap'; the two part company when a growth fails.  Contents are kept by  *)
(* the modules that use a buffer.                                          *)
(***************************************************************************)
EXTENDS Widths

CONSTANT DEFAULT_CAP \* NBAJH_BUFFER_DEFAULT_CAP, 64

ASSUME BufferAssumption == DEFAULT_CAP \in Nat \ {0}

GROWTH_FACTOR == 2

BufferRecord == [size : Nat, cap : Nat \ {0}, alloc : Nat]

(* nbajh_buffer_init, when malloc succeeds. *)
FreshBuffer == [size |-> 0, cap |-> DEFAULT_CAP, alloc |-> DEFAULT_CAP]

(* buffer->cap *= (buffer->cap + n - 1) / buffer->cap * GROWTH_FACTOR *)
GrownCap(cap, n) == cap * (((cap + n - 1) \div cap) * GROWTH_FACTOR)

(***************************************************************************)
(* The outcomes of nbajh_buffer_write of n bytes.  Growth may fail; then   *)
(* `cap' has been raised already and keeps its new value while the storage *)
(* is the old one.                                                         *)
(***************************************************************************)
Write(b, n) ==
  IF b.size + n <= b.cap
  THEN {[buf |-> [b EXCEPT !.size = @ + n], error |-> "SUCCESS"]}
  ELSE LET cap == GrownCap(b.cap, n)
       IN  {[buf   |-> [size |-> b.size + n, cap |-> cap, alloc |-> cap],
             error |-> "SUCCESS"],
            [buf |-> [b EXCEPT !.cap = cap], error |-> "MALLOC"]}

(* nbajh_buffer_pop_size: the value popped is the caller's to look up. *)
PopSize(b) == [b EXCEPT !.size = @ - SIZE_T]

(* Everything below `size' lies in allocated storage. *)
InStorage(b) == b.size <= b.alloc

=============================================================================
