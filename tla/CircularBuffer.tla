---------------------------- MODULE CircularBuffer ----------------------------
(***************************************************************************)
(* CBUF.h, the ring buffer between an interrupt handler and the main loop  *)
(* in every firmware of the repository.  Two free-running indices of one   *)
(* unsigned type; the entry of an index is its low bits.  A buffer is a    *)
(* record [get, put, entry].  The macros that step an index and touch an   *)
(* entry are given in halves, because nothing makes them atomic.           *)
(***************************************************************************)
EXTENDS Naturals, Sequences

CONSTANTS
  Size,        \* entries, xxx_SIZE
  IndexRange   \* values of the index type: 2^8 for uint8_t

\* 256 entries with 8-bit indices on the CM boards, 128 on the gateway.
ASSUME SizeAssumption == Size \in Nat \ {0, 1} /\ IndexRange \in {Size, 2 * Size}

Index == 0 .. IndexRange - 1
Slots == 0 .. Size - 1
BufferOf(Elem) == [get : Index, put : Index, entry : [Slots -> Elem]]

\* CBUF_Init, over entries that hold e.
EmptyBuffer(e) == [get |-> 0, put |-> 0, entry |-> [s \in Slots |-> e]]

\* Mutant of Inc: the index does not wrap.
IncNoWrap(i) == i + 1

Inc(i) == IF i + 1 = IndexRange THEN 0 ELSE i + 1
Dec(i) == IF i = 0 THEN IndexRange - 1 ELSE i - 1

\* i & (SIZE - 1)
Slot(i) == IF i < Size THEN i ELSE i - Size

\* CBUF_Len, in the index type.
Used(b) == IF b.get <= b.put THEN b.put - b.get ELSE b.put + IndexRange - b.get

IsEmpty(b) == Used(b) = 0

\* The two halves of CBUF_Push: the entry of index i, the step of put.
Stored(b, i, e) == [b EXCEPT !.entry[Slot(i)] = e]
Advanced(b) == [b EXCEPT !.put = Inc(@)]

\* The two halves of CBUF_Pop: the entry of index i, the step of get.
Entry(b, i) == b.entry[Slot(i)]
Popped(b) == [b EXCEPT !.get = Inc(@)]

\* How many entries can wait: with as many entries as index values a full
\* buffer has put = get, and passes for an empty one.
Capacity == IF IndexRange = Size THEN Size - 1 ELSE Size
=============================================================================
