--------------------------- MODULE Rs485Port_proofs ---------------------------
(***************************************************************************)
(* What holds of the port for every buffer size, index type, set of        *)
(* packets and bound, whichever half of a push or a pop the compiler puts  *)
(* first: the order of the bytes in both directions, and what keeps the    *)
(* bus driven.                                                             *)
(***************************************************************************)
EXTENDS Rs485Port, SequenceTheorems, TLAPS

-----------------------------------------------------------------------------
(* The ring buffer.                                                        *)

\* The index k places after i.
Plus(i, k) == IF i + k < IndexRange THEN i + k ELSE i + k - IndexRange

\* Buffer b holds what is in the sequence in and not yet in out; what is in out
\* is right, but for the places odd.
Carries(b, in, out, odd) ==
  /\ Len(out) <= Len(in)
  /\ Len(in) - Len(out) <= Capacity
  /\ b.put = Plus(b.get, Len(in) - Len(out))
  /\ \A k \in 1 .. Len(out) : out[k] = in[k] \/ k \in odd
  /\ \A k \in 1 .. Len(in) - Len(out) :
       Entry(b, Plus(b.get, k - 1)) = in[Len(out) + k]

\* There is room for a byte.
Room(in, out) == Len(in) - Len(out) < Capacity

LEMMA SizesType == /\ Size \in Nat /\ Size >= 2
                   /\ IndexRange \in Nat
                   /\ IndexRange = Size \/ IndexRange = 2 * Size
                   /\ Capacity \in Nat /\ Capacity <= Size /\ Capacity < IndexRange
                   /\ IndexRange = Size => Capacity = Size - 1
  BY SizeAssumption DEF Capacity

LEMMA SlotType == ASSUME NEW i \in Index PROVE Slot(i) \in Slots
  BY SizesType DEF Index, Slots, Slot

LEMMA PlusType ==
  ASSUME NEW i \in Index, NEW k \in Nat, k <= Size
  PROVE  Plus(i, k) \in Index
  BY SizesType DEF Index, Plus

\* The entries of fewer than Size consecutive indices are different entries.
LEMMA SlotsApart ==
  ASSUME NEW i \in Index, NEW j \in Nat, NEW k \in Nat, j < k, k < Size
  PROVE  Slot(Plus(i, j)) # Slot(Plus(i, k))
  BY SizesType DEF Index, Plus, Slot

LEMMA IncIsPlus == ASSUME NEW i \in Index PROVE Inc(i) = Plus(i, 1) /\ Inc(i) \in Index
  BY SizesType DEF Index, Inc, Plus

LEMMA PlusInc ==
  ASSUME NEW i \in Index, NEW k \in Nat, k < Size
  PROVE  /\ Plus(Inc(i), k) = Plus(i, k + 1)
         /\ Inc(Plus(i, k)) = Plus(i, k + 1)
  BY SizesType DEF Index, Inc, Plus

LEMMA StepTypes ==
  ASSUME NEW Elem, NEW b \in BufferOf(Elem)
  PROVE  Advanced(b) \in BufferOf(Elem) /\ Popped(b) \in BufferOf(Elem)
  BY IncIsPlus DEF BufferOf, Advanced, Popped

LEMMA EntryTypes ==
  ASSUME NEW Elem, NEW b \in BufferOf(Elem), NEW i \in Index
  PROVE  /\ Entry(b, i) \in Elem
         /\ \A e \in Elem : Stored(b, i, e) \in BufferOf(Elem)
  BY SlotType DEF BufferOf, Stored, Entry

\* CBUF_Len sees whether there is anything in the buffer.
LEMMA EmptyMeansAllOut ==
  ASSUME NEW Elem, NEW b \in BufferOf(Elem),
         NEW in \in Seq(Elem), NEW out \in Seq(Elem), NEW odd, Carries(b, in, out, odd)
  PROVE  IsEmpty(b) <=> Len(in) = Len(out)
<1> DEFINE n == Len(in) - Len(out)
<1>1. n \in Nat /\ n <= Capacity
  BY SizesType DEF Carries
<1>2. b.get \in Index /\ b.put = Plus(b.get, n)
  BY DEF Carries, BufferOf
<1>3. Used(b) = n
  BY <1>1, <1>2, SizesType DEF Used, Plus, Index
<1>4. QED
  BY <1>3 DEF IsEmpty

\* Storing the entry of put, with room, disturbs nothing that waits.
LEMMA StoreKeeps ==
  ASSUME NEW Elem, NEW b \in BufferOf(Elem), NEW e \in Elem,
         NEW in \in Seq(Elem), NEW out \in Seq(Elem), NEW odd, Carries(b, in, out, odd), Room(in, out)
  PROVE  /\ Carries(Stored(b, b.put, e), in, out, odd)
         /\ Entry(Stored(b, b.put, e), b.put) = e
<1> DEFINE n == Len(in) - Len(out)  c == Stored(b, b.put, e)
<1>1. n \in Nat /\ n < Size /\ b.get \in Index /\ b.put \in Index /\ b.put = Plus(b.get, n)
  BY SizesType DEF Carries, Room, BufferOf
<1>2. c.get = b.get /\ c.put = b.put
  BY DEF Stored, BufferOf
<1>3. \A i \in Index : Entry(c, i) = IF Slot(i) = Slot(b.put) THEN e ELSE Entry(b, i)
  BY <1>1, SlotType DEF Stored, Entry, BufferOf
<1>4. ASSUME NEW k \in 1 .. n PROVE Entry(c, Plus(b.get, k - 1)) = Entry(b, Plus(b.get, k - 1))
  <2>1. k - 1 \in Nat /\ k - 1 < n
    BY <1>1
  <2>2. Slot(Plus(b.get, k - 1)) # Slot(b.put)
    BY <1>1, <2>1, SlotsApart
  <2>3. Plus(b.get, k - 1) \in Index
    BY <1>1, <2>1, PlusType, SizesType
  <2>4. QED
    BY <1>3, <2>2, <2>3
<1>5. QED
  BY <1>1, <1>2, <1>3, <1>4 DEF Carries

\* Stepping put adds the byte that was stored there.
LEMMA StepAdds ==
  ASSUME NEW Elem, NEW b \in BufferOf(Elem), NEW e \in Elem,
         NEW in \in Seq(Elem), NEW out \in Seq(Elem), NEW odd, Carries(b, in, out, odd), Room(in, out),
         Entry(b, b.put) = e
  PROVE  Carries(Advanced(b), Append(in, e), out, odd)
<1> DEFINE n == Len(in) - Len(out)  c == Advanced(b)  more == Append(in, e)
<1>1. n \in Nat /\ n < Capacity /\ n < Size /\ b.get \in Index /\ b.put = Plus(b.get, n)
  BY SizesType DEF Carries, Room, BufferOf
<1>2. c.get = b.get /\ c.put = Inc(b.put) /\ c.entry = b.entry
  BY DEF Advanced, BufferOf
<1>3. c.put = Plus(b.get, n + 1)
  BY <1>1, <1>2, PlusInc
<1>4. Len(more) = Len(in) + 1 /\ more[Len(in) + 1] = e
      /\ \A k \in 1 .. Len(in) : more[k] = in[k]
  OBVIOUS
<1>5. ASSUME NEW k \in 1 .. n + 1 PROVE Entry(c, Plus(c.get, k - 1)) = more[Len(out) + k]
  <2>1. CASE k = n + 1
    BY <1>1, <1>2, <1>4, <2>1 DEF Entry, Carries
  <2>2. CASE k \in 1 .. n
    BY <1>1, <1>2, <1>4, <2>2 DEF Entry, Carries
  <2>3. QED
    BY <1>1, <2>1, <2>2
<1>6. Len(out) <= Len(more) /\ Len(more) - Len(out) = n + 1 /\ n + 1 <= Capacity
  BY <1>1, <1>4, SizesType DEF Carries
<1>7. \A k \in 1 .. Len(out) : out[k] = more[k] \/ k \in odd
  BY <1>4 DEF Carries
<1>8. c.put = Plus(c.get, Len(more) - Len(out))
  BY <1>2, <1>3, <1>6
<1>9. \A k \in 1 .. Len(more) - Len(out) : Entry(c, Plus(c.get, k - 1)) = more[Len(out) + k]
  BY <1>5, <1>6
<1> QED
  BY <1>6, <1>7, <1>8, <1>9, SizesType DEF Carries

\* Taking the entry of get and stepping get moves the oldest byte on; another
\* byte in its place makes an odd one.
LEMMA TakeMoves ==
  ASSUME NEW Elem, NEW b \in BufferOf(Elem),
         NEW in \in Seq(Elem), NEW out \in Seq(Elem), NEW odd, Carries(b, in, out, odd),
         Len(in) # Len(out), NEW e \in Elem, NEW odder, odd \subseteq odder,
         e = Entry(b, b.get) \/ Len(out) + 1 \in odder
  PROVE  Carries(Popped(b), in, Append(out, e), odder)
<1> DEFINE n == Len(in) - Len(out)  c == Popped(b)  more == Append(out, e)
<1>1. n \in Nat /\ 1 <= n /\ n <= Capacity /\ n <= Size
      /\ b.get \in Index /\ b.put = Plus(b.get, n)
  BY SizesType DEF Carries, BufferOf
<1>2. c.get = Inc(b.get) /\ c.put = b.put /\ c.entry = b.entry
  BY DEF Popped, BufferOf
<1>3. c.put = Plus(c.get, n - 1)
  <2>1. n - 1 \in Nat /\ n - 1 < Size /\ (n - 1) + 1 = n
    BY <1>1, SizesType
  <2>2. QED
    BY <1>1, <1>2, <2>1, PlusInc
<1>4. Plus(b.get, 0) = b.get
  BY <1>1, SizesType DEF Plus, Index
<1>5. e = in[Len(out) + 1] \/ Len(out) + 1 \in odder
  BY <1>1, <1>4 DEF Carries
<1>6. Len(more) = Len(out) + 1 /\ more[Len(out) + 1] = e
      /\ \A k \in 1 .. Len(out) : more[k] = out[k]
  OBVIOUS
<1>7. ASSUME NEW k \in 1 .. n - 1 PROVE Entry(c, Plus(c.get, k - 1)) = in[Len(more) + k]
  <2>1. Plus(c.get, k - 1) = Plus(b.get, k)
    <3>1. k - 1 \in Nat /\ k - 1 < Size /\ (k - 1) + 1 = k
      BY <1>1, SizesType
    <3>2. QED
      BY <1>1, <1>2, <3>1, PlusInc
  <2>2. Entry(b, Plus(b.get, (k + 1) - 1)) = in[Len(out) + (k + 1)]
    <3>1. \A j \in 1 .. n : Entry(b, Plus(b.get, j - 1)) = in[Len(out) + j]
      BY DEF Carries
    <3>2. k + 1 \in 1 .. n
      BY <1>1
    <3> HIDE DEF n
    <3> QED
      BY <3>1, <3>2
  <2>3. QED
    BY <1>1, <1>2, <1>6, <2>1, <2>2 DEF Entry
<1>8. \A k \in 1 .. Len(more) : more[k] = in[k] \/ k \in odder
  BY <1>1, <1>5, <1>6 DEF Carries
<1>9. Len(more) \in Nat /\ Len(in) \in Nat /\ Len(in) - Len(more) = n - 1
  BY <1>6
<1>10. QED
  BY <1>1, <1>3, <1>7, <1>8, <1>9, SizesType DEF Carries
-----------------------------------------------------------------------------
(* Type correctness.                                                       *)

LEMMA InitTypeOK == Init => TypeOK
<1> SUFFICES ASSUME Init PROVE TypeOK
  OBVIOUS
<1>1. 0 \in Index
  BY SizesType DEF Index
<1>2. \A b \in Byte : EmptyBuffer(b) \in BufferOf(Byte)
  BY <1>1 DEF EmptyBuffer, BufferOf
<1>3. PICK b \in Byte : tx = EmptyBuffer(b) /\ rx = EmptyBuffer(b)
  BY DEF Init
<1>4. tx \in BufferOf(Byte) /\ rx \in BufferOf(Byte)
  BY <1>2, <1>3
<1>5. /\ entryFirst \in Builds /\ udrie \in BOOLEAN /\ txc \in BOOLEAN
      /\ txFull \in BOOLEAN /\ rxFull \in BOOLEAN
  BY Zenon DEF Init
<1>6. /\ pc = "idle" /\ msg = <<>> /\ pushed = <<>> /\ taken = <<>> /\ early = {}
      /\ arrived = <<>> /\ got = <<>> /\ writes = 0
      /\ udr = None /\ shift = None /\ driver = "RXD"
  BY Zenon DEF Init
<1>7. QED
  BY <1>4, <1>5, <1>6 DEF TypeOK, RegisterOf, Places

LEMMA DecType == ASSUME NEW i \in Index PROVE Dec(i) \in Index
  BY SizesType DEF Index, Dec

LEMMA NextPushTypes ==
  ASSUME TypeOK, msg # <<>>, NEW half, NextPush(half)
  PROVE  /\ pc' \in Places /\ msg' \in Seq(Byte) /\ txFull' \in BOOLEAN
         /\ (pc' \in {"push1", "push2"} => msg' # <<>>)
<1>1. msg \in Seq(Byte) /\ txFull \in BOOLEAN
  BY DEF TypeOK
<1>2. CASE half = 1
  <2>1. pc' = "push2" /\ msg' = msg
        /\ txFull' = (txFull \/ Len(pushed) - Len(taken) >= Capacity)
    BY <1>2, Zenon DEF NextPush
  <2>2. txFull' \in BOOLEAN
    BY <2>1, Zenon
  <2>3. QED
    BY <1>1, <2>1, <2>2 DEF Places
<1>3. CASE half # 1
  <2>1. pc' = (IF EachByte \/ Len(msg) = 1 THEN "enable" ELSE "push1")
        /\ msg' = Tail(msg) /\ txFull' = txFull
    BY <1>3 DEF NextPush
  <2>2. Tail(msg) \in Seq(Byte) /\ Len(Tail(msg)) = Len(msg) - 1 /\ Len(msg) \in Nat
    BY <1>1
  <2>3. pc' \in {"push1", "push2"} => msg' # <<>>
    <3>1. pc' \in {"push1", "push2"} => Len(msg) # 1
      BY <2>1
    <3>2. Len(msg) # 1 => Len(Tail(msg)) # 0
      BY <2>2
    <3>3. Len(msg) # 1 => Tail(msg) # <<>>
      BY <3>2
    <3>4. QED
      BY <2>1, <3>1, <3>3
  <2>4. pc' \in Places
    BY <2>1 DEF Places
  <2>5. QED
    BY <1>1, <2>1, <2>2, <2>3, <2>4
<1>4. QED
  BY <1>2, <1>3

LEMMA MainTypeOK == TypeOK /\ Main => TypeOK'
<1> SUFFICES ASSUME TypeOK, Main PROVE TypeOK'
  OBVIOUS
<1> USE DEF TypeOK, Places, RegisterOf, buffers, uart, sending, hearing
<1>0. tx.put \in Index /\ rx.get \in Index /\ tx.get \in Index /\ rx.put \in Index
  BY DEF BufferOf
<1>1. ASSUME NEW m \in Messages, Write(m) PROVE TypeOK'
  BY <1>1, ByteAssumption DEF Write
<1>2. CASE StoreEntry
  <2>1. msg # <<>> /\ Head(msg) \in Byte /\ Tail(msg) \in Seq(Byte)
    BY <1>2 DEF StoreEntry
  <2>2. tx' \in BufferOf(Byte)
    <3>1. Dec(tx.put) \in Index
      BY <1>0, DecType
    <3>2. QED
      BY <1>0, <1>2, <2>1, <3>1, EntryTypes DEF StoreEntry
  <2>3. /\ pc' \in Places /\ msg' \in Seq(Byte) /\ txFull' \in BOOLEAN
        /\ (pc' \in {"push1", "push2"} => msg' # <<>>)
    <3>1. NextPush(EntryHalf("push"))
      BY <1>2 DEF StoreEntry
    <3>2. QED
      BY <2>1, <3>1, NextPushTypes
  <2>4. QED
    BY <1>2, <2>2, <2>3 DEF StoreEntry
<1>3. CASE StepPut
  <2>1. msg # <<>> /\ Head(msg) \in Byte /\ Tail(msg) \in Seq(Byte)
    BY <1>3 DEF StepPut
  <2>2. tx' \in BufferOf(Byte)
    BY <1>3, StepTypes DEF StepPut
  <2>3. /\ pc' \in Places /\ msg' \in Seq(Byte) /\ txFull' \in BOOLEAN
        /\ (pc' \in {"push1", "push2"} => msg' # <<>>)
    <3>1. NextPush(IndexHalf("push"))
      BY <1>3 DEF StepPut
    <3>2. QED
      BY <2>1, <3>1, NextPushTypes
  <2>4. QED
    BY <1>3, <2>1, <2>2, <2>3 DEF StepPut
<1>4. CASE Enable
  BY <1>4 DEF Enable
<1>5. CASE GetChar
  BY <1>5 DEF GetChar
<1>6. CASE TakeEntry
  <2>1. got' \in Seq(Byte)
    <3>1. Dec(rx.get) \in Index
      BY <1>0, DecType
    <3>2. Entry(rx, rx.get) \in Byte /\ Entry(rx, Dec(rx.get)) \in Byte
      BY <1>0, <3>1, SlotType DEF Entry, BufferOf
    <3>3. QED
      BY <1>6, <3>2 DEF TakeEntry
  <2>2. QED
    BY <1>6, <2>1 DEF TakeEntry, NextPop
<1>7. CASE StepGet
  <2>1. rx' \in BufferOf(Byte)
    BY <1>7, <1>0, IncIsPlus DEF StepGet, Popped, BufferOf
  <2>2. QED
    BY <1>7, <2>1 DEF StepGet, NextPop
<1>8. QED
  BY <1>1, <1>2, <1>3, <1>4, <1>5, <1>6, <1>7 DEF Main

LEMMA UartTypeOK == TypeOK /\ (Handlers \/ Transmitter) => TypeOK'
<1> SUFFICES ASSUME TypeOK, Handlers \/ Transmitter PROVE TypeOK'
  OBVIOUS
<1> USE DEF TypeOK, Places, RegisterOf, buffers, uart, main, sending, hearing
<1>0. tx.put \in Index /\ rx.get \in Index /\ tx.get \in Index /\ rx.put \in Index
  BY DEF BufferOf
<1>1. CASE UdreIsr
  <2>1. Popped(tx) \in BufferOf(Byte) /\ Entry(tx, tx.get) \in Byte
    BY <1>0, IncIsPlus, SlotType DEF Popped, Entry, BufferOf
  <2>2. CASE IsEmpty(tx)
    BY <1>1, <2>2 DEF UdreIsr
  <2>3. CASE ~ IsEmpty(tx)
    <3>1. /\ driver' = "TXD" /\ udr' = Entry(tx, tx.get) /\ tx' = Popped(tx)
          /\ taken' = Append(taken, Entry(tx, tx.get)) /\ udrie' = udrie
          /\ early' = early \cup Unstored
          /\ UNCHANGED <<entryFirst, rx, txc, shift, main, pushed, txFull, hearing>>
      BY <1>1, <2>3, Zenon DEF UdreIsr
    <3>2. tx' \in BufferOf(Byte) /\ taken' \in Seq(Byte) /\ early' \subseteq Nat
      <4>1. tx' \in BufferOf(Byte) /\ taken' \in Seq(Byte)
        BY <2>1, <3>1
      <4>2. Unstored \subseteq Nat /\ early \subseteq Nat
        BY DEF Unstored
      <4>3. early' \subseteq Nat
        BY <3>1, <4>2
      <4> QED
        BY <4>1, <4>3
    <3>3. QED
      BY <2>1, <3>1, <3>2
  <2>4. QED
    BY <2>2, <2>3
<1>2. CASE TxIsr
  BY <1>2 DEF TxIsr
<1>3. ASSUME NEW b \in Byte, RxIsr(b) PROVE TypeOK'
  <2>1. Stored(rx, rx.put, b) \in BufferOf(Byte)
    BY <1>0, EntryTypes
  <2>2. rx' \in BufferOf(Byte)
    BY <1>3, <2>1, StepTypes DEF RxIsr
  <2>3. QED
    BY <1>3, <2>2 DEF RxIsr
<1>4. CASE Load
  BY <1>4 DEF Load
<1>5. CASE ShiftOut
  BY <1>5 DEF ShiftOut
<1>6. QED
  BY <1>1, <1>2, <1>3, <1>4, <1>5 DEF Handlers, Transmitter

\* Every variable keeps its type; the indices stay in their range.
THEOREM TypeCorrect == Spec => []TypeOK
<1>1. TypeOK /\ [Next]_vars => TypeOK'
  <2>1. TypeOK /\ UNCHANGED vars => TypeOK'
    BY DEF TypeOK, vars, buffers, uart, main, sending, hearing
  <2>2. QED
    BY <2>1, MainTypeOK, UartTypeOK DEF Next
<1>2. QED
  BY InitTypeOK, <1>1, PTL DEF Spec

-----------------------------------------------------------------------------
(* The order of the bytes.                                                 *)

\* The tx buffer as it will be when a push that stepped the index has stored
\* its entry.
TxView == IF pc = "push2" /\ ~ entryFirst["push"]
          THEN Stored(tx, Dec(tx.put), Head(msg)) ELSE tx

\* Until a byte is pushed without room, the tx buffer holds what is pushed and
\* not yet taken, also between the two halves of a push.
TxInv ==
  ~ txFull => /\ Carries(TxView, pushed, taken, early)
              /\ (pc = "push2" /\ entryFirst["push"]
                    => Room(pushed, taken) /\ Entry(tx, tx.put) = Head(msg))

\* The handler finds an entry that is not stored only where the index comes first.
EarlyInv == entryFirst["push"] => early = {}

\* A buffer before its last pop.
Unpopped(b) == [b EXCEPT !.get = Dec(@)]

\* The rx buffer as it was, or will be, when the byte read is the one counted.
RxView == IF pc # "pop2" THEN rx
          ELSE IF entryFirst["pop"] THEN Popped(rx) ELSE Unpopped(rx)

\* The rx buffer likewise; between the halves of a pop the index is late, or early.
RxInv ==
  ~ rxFull => /\ Carries(RxView, arrived, got, {})
              /\ (pc = "pop1" \/ (pc = "pop2" /\ ~ entryFirst["pop"])
                    => Len(arrived) # Len(got))

\* With TX pending the transmitter is empty and its interrupt off; a byte in
\* it is sent with the bus driven.
DriveInv ==
  /\ (txc => ~ udrie /\ udr = None /\ shift = None)
  /\ (shift # None \/ udr # None => driver = "TXD")

LEMMA CarriesPrefix ==
  ASSUME NEW Elem, NEW b \in BufferOf(Elem),
         NEW in \in Seq(Elem), NEW out \in Seq(Elem), Carries(b, in, out, {})
  PROVE  IsPrefix(out, in)
<1>1. Len(out) \in Nat /\ Len(in) \in Nat /\ Len(out) <= Len(in)
      /\ \A k \in 1 .. Len(out) : out[k] = in[k]
  BY DEF Carries
<1>2. SubSeq(in, 1, Len(out)) = out
  BY <1>1
<1>3. SubSeq(out, 1, Len(out)) = out
  BY <1>1
<1>4. QED
  BY <1>1, <1>2, <1>3 DEF IsPrefix

LEMMA DecInc ==
  ASSUME NEW i \in Index PROVE Dec(Inc(i)) = i /\ Inc(Dec(i)) = i /\ Dec(i) \in Index
  BY SizesType DEF Index, Inc, Dec

\* A push at one end and a pop at the other may be swapped.
LEMMA PopThenPush ==
  ASSUME NEW Elem, NEW b \in BufferOf(Elem), NEW i \in Index, NEW e \in Elem
  PROVE  /\ Popped(b).put = b.put
         /\ Popped(Advanced(Stored(b, i, e))) = Advanced(Stored(Popped(b), i, e))
         /\ Popped(Stored(b, i, e)) = Stored(Popped(b), i, e)
  BY DEF Popped, Advanced, Stored, BufferOf

\* So may a push and the step back of get.
LEMMA BackThenPush ==
  ASSUME NEW Elem, NEW b \in BufferOf(Elem), NEW i \in Index, NEW e \in Elem
  PROVE  /\ Unpopped(b) \in BufferOf(Elem) /\ Unpopped(b).get = Dec(b.get)
         /\ Unpopped(b).put = b.put /\ Unpopped(b).entry = b.entry
         /\ Popped(Unpopped(b)) = b /\ Unpopped(Popped(b)) = b
         /\ Unpopped(Advanced(Stored(b, i, e))) = Advanced(Stored(Unpopped(b), i, e))
<1>1. b.get \in Index /\ Dec(b.get) \in Index /\ Inc(Dec(b.get)) = b.get /\ Dec(Inc(b.get)) = b.get
  BY DecInc DEF BufferOf
<1>2. /\ Unpopped(b) \in BufferOf(Elem) /\ Unpopped(b).get = Dec(b.get)
      /\ Unpopped(b).put = b.put /\ Unpopped(b).entry = b.entry
  BY <1>1 DEF Unpopped, BufferOf
<1>3. Popped(Unpopped(b)) = b /\ Unpopped(Popped(b)) = b
  BY <1>1 DEF Unpopped, Popped, BufferOf
<1>4. Unpopped(Advanced(Stored(b, i, e))) = Advanced(Stored(Unpopped(b), i, e))
  BY DEF Unpopped, Advanced, Stored, BufferOf
<1> QED
  BY <1>2, <1>3, <1>4

LEMMA EmptyCarries ==
  ASSUME NEW b, NEW odd PROVE Carries(EmptyBuffer(b), <<>>, <<>>, odd)
<1>1. Plus(0, 0) = 0
  BY SizesType DEF Plus
<1>2. QED
  BY <1>1, SizesType DEF Carries, EmptyBuffer

\* A whole push, in either order: store, then step, or step, then store.
LEMMA PushAdds ==
  ASSUME NEW Elem, NEW b \in BufferOf(Elem), NEW e \in Elem,
         NEW in \in Seq(Elem), NEW out \in Seq(Elem), NEW odd,
         Carries(b, in, out, odd), Room(in, out)
  PROVE  /\ Carries(Advanced(Stored(b, b.put, e)), Append(in, e), out, odd)
         /\ Stored(Advanced(b), Dec(Advanced(b).put), e) = Advanced(Stored(b, b.put, e))
<1>1. b.put \in Index /\ Dec(Inc(b.put)) = b.put
  BY DecInc DEF BufferOf
<1>2. Stored(b, b.put, e) \in BufferOf(Elem) /\ Stored(b, b.put, e).put = b.put
  BY <1>1, EntryTypes DEF Stored, BufferOf
<1>3. Carries(Stored(b, b.put, e), in, out, odd) /\ Entry(Stored(b, b.put, e), b.put) = e
  BY StoreKeeps
<1>4. Stored(Advanced(b), Dec(Advanced(b).put), e) = Advanced(Stored(b, b.put, e))
  BY <1>1 DEF Stored, Advanced, BufferOf
<1>5. QED
  BY <1>2, <1>3, <1>4, StepAdds

\* The entry that a push has yet to store is not the one of get, unless it is
\* the only one.
LEMMA LastApart ==
  ASSUME NEW Elem, NEW b \in BufferOf(Elem), NEW e \in Elem,
         NEW in \in Seq(Elem), NEW out \in Seq(Elem), NEW odd,
         Carries(Stored(b, Dec(b.put), e), in, out, odd), Len(in) # Len(out), Len(in) # Len(out) + 1
  PROVE  Entry(Stored(b, Dec(b.put), e), b.get) = Entry(b, b.get)
<1> DEFINE n == Len(in) - Len(out)
<1>1. b.get \in Index /\ b.put \in Index /\ Dec(b.put) \in Index
  BY DecInc DEF BufferOf
<1>2. n \in Nat /\ n > 1 /\ n <= Size /\ b.put = Plus(b.get, n)
  BY SizesType DEF Carries, Stored, BufferOf
<1>3. Dec(b.put) = Plus(b.get, n - 1)
  <2>1. n - 1 \in Nat /\ n - 1 < Size /\ (n - 1) + 1 = n
    BY <1>2, SizesType
  <2>2. Inc(Plus(b.get, n - 1)) = b.put
    BY <1>1, <1>2, <2>1, PlusInc
  <2>3. Plus(b.get, n - 1) \in Index
    <3> HIDE DEF n
    <3>1. n - 1 <= Size
      BY <2>1, SizesType
    <3> QED
      BY <1>1, <2>1, <3>1, PlusType
  <2> QED
    BY <2>2, <2>3, DecInc
<1>4. Plus(b.get, 0) = b.get
  BY <1>1, SizesType DEF Plus, Index
<1>5. Slot(b.get) # Slot(Dec(b.put))
  <2>1. n - 1 \in Nat /\ 0 < n - 1 /\ n - 1 < Size
    BY <1>2, SizesType
  <2> QED
    BY <1>1, <1>3, <1>4, <2>1, SlotsApart
<1>6. Slot(b.get) \in Slots /\ Slot(Dec(b.put)) \in Slots
  BY <1>1, SlotType
<1> QED
  BY <1>5, <1>6 DEF Entry, Stored, BufferOf

LEMMA ViewType ==
  ASSUME TypeOK
  PROVE  /\ TxView \in BufferOf(Byte) /\ TxView.get = tx.get /\ TxView.put = tx.put
         /\ RxView \in BufferOf(Byte)
<1>0. /\ tx \in BufferOf(Byte) /\ rx \in BufferOf(Byte) /\ msg \in Seq(Byte)
      /\ (pc = "push2" => msg # <<>>)
  BY DEF TypeOK
<1>1. Dec(tx.put) \in Index /\ Dec(rx.get) \in Index
  BY <1>0, DecInc DEF BufferOf
<1>2. TxView \in BufferOf(Byte) /\ TxView.get = tx.get /\ TxView.put = tx.put
  <2>1. CASE pc = "push2" /\ ~ entryFirst["push"]
    <3>1. Head(msg) \in Byte /\ TxView = Stored(tx, Dec(tx.put), Head(msg))
      BY <1>0, <2>1 DEF TxView
    <3>2. TxView \in BufferOf(Byte)
      BY <1>0, <1>1, <3>1, EntryTypes
    <3> QED
      BY <1>0, <3>1, <3>2 DEF Stored, BufferOf
  <2>2. CASE ~ (pc = "push2" /\ ~ entryFirst["push"])
    BY <1>0, <2>2 DEF TxView
  <2> QED
    BY <2>1, <2>2
<1>3. RxView \in BufferOf(Byte)
  <2>1. Popped(rx) \in BufferOf(Byte) /\ Unpopped(rx) \in BufferOf(Byte)
    BY <1>0, <1>1, StepTypes DEF BufferOf, Unpopped
  <2> QED
    BY <1>0, <2>1 DEF RxView
<1> QED
  BY <1>2, <1>3

\* CBUF_Len sees the same, wherever the push is.
LEMMA TxCount ==
  ASSUME TypeOK, TxInv, ~ txFull
  PROVE  Len(taken) <= Len(pushed) /\ (IsEmpty(tx) <=> Len(pushed) = Len(taken))
<1>1. Carries(TxView, pushed, taken, early)
  BY DEF TxInv
<1>2. IsEmpty(TxView) <=> Len(pushed) = Len(taken)
  BY <1>1, ViewType, EmptyMeansAllOut DEF TypeOK
<1>3. IsEmpty(TxView) <=> IsEmpty(tx)
  BY ViewType DEF IsEmpty, Used
<1> QED
  BY <1>1, <1>2, <1>3 DEF Carries

\* The halves of a push, the entry first.
LEMMA TxEntryFirst ==
  ASSUME TypeOK, TxInv, entryFirst["push"] = TRUE, entryFirst' = entryFirst,
         StoreEntry \/ StepPut
  PROVE  TxInv'
<1> SUFFICES ASSUME ~ txFull' PROVE
      /\ Carries(tx, pushed, taken, early)'
      /\ (pc' = "push2" => Room(pushed, taken)' /\ Entry(tx, tx.put)' = Head(msg)')
  BY DEF TxInv, TxView
<1>0. /\ tx \in BufferOf(Byte) /\ tx.put \in Index /\ tx.get \in Index
      /\ pushed \in Seq(Byte) /\ taken \in Seq(Byte) /\ msg \in Seq(Byte)
      /\ (pc \in {"push1", "push2"} => msg # <<>>)
  BY DEF TypeOK, BufferOf
<1>h. EntryHalf("push") = 1 /\ IndexHalf("push") = 2 /\ TxView = tx
  BY DEF EntryHalf, IndexHalf, TxView
<1>1. CASE StoreEntry
  <2>1. /\ pc = "push1" /\ pc' = "push2" /\ tx' = Stored(tx, tx.put, Head(msg))
        /\ msg' = msg /\ pushed' = pushed /\ taken' = taken /\ early' = early
        /\ txFull' = (txFull \/ Len(pushed) - Len(taken) >= Capacity)
    BY <1>1, <1>h, Zenon DEF StoreEntry, NextPush
  <2>2. ~ txFull /\ ~ (Len(pushed) - Len(taken) >= Capacity)
    BY <2>1, Zenon
  <2>3. Room(pushed, taken)
    BY <1>0, <2>2, SizesType DEF Room
  <2>4. Head(msg) \in Byte /\ Carries(tx, pushed, taken, early)
    BY <1>0, <1>h, <2>1, <2>2 DEF TxInv
  <2>5. Carries(tx', pushed, taken, early) /\ Entry(tx', tx.put) = Head(msg)
    BY <1>0, <2>1, <2>3, <2>4, StoreKeeps
  <2>6. tx'.put = tx.put
    BY <1>0, <2>1 DEF Stored, BufferOf
  <2>7. QED
    BY <2>1, <2>3, <2>5, <2>6 DEF Room, Carries, Entry
<1>2. CASE StepPut
  <2>1. /\ pc = "push2" /\ pc' # "push2" /\ tx' = Advanced(tx) /\ early' = early
        /\ pushed' = Append(pushed, Head(msg)) /\ taken' = taken /\ txFull' = txFull
    BY <1>2, <1>h DEF StepPut, NextPush
  <2>2. /\ Carries(tx, pushed, taken, early) /\ Room(pushed, taken)
        /\ Entry(tx, tx.put) = Head(msg) /\ Head(msg) \in Byte
    BY <1>0, <1>h, <2>1 DEF TxInv
  <2>3. Carries(Advanced(tx), Append(pushed, Head(msg)), taken, early)
    BY <1>0, <2>2, StepAdds
  <2>4. QED
    BY <2>1, <2>3 DEF Carries, Entry
<1> QED
  BY <1>1, <1>2

\* The halves of a push, the index first.
LEMMA TxIndexFirst ==
  ASSUME TypeOK, TxInv, entryFirst["push"] = FALSE, entryFirst' = entryFirst,
         StoreEntry \/ StepPut
  PROVE  TxInv'
<1> SUFFICES ASSUME ~ txFull' PROVE Carries(TxView, pushed, taken, early)'
  BY DEF TxInv
<1>0. /\ tx \in BufferOf(Byte) /\ pushed \in Seq(Byte) /\ taken \in Seq(Byte) /\ msg \in Seq(Byte)
      /\ (pc \in {"push1", "push2"} => msg # <<>>)
  BY DEF TypeOK, BufferOf
<1>h. EntryHalf("push") = 2 /\ IndexHalf("push") = 1
  BY DEF EntryHalf, IndexHalf
<1>1. CASE StoreEntry
  <2>1. /\ pc = "push2" /\ pc' # "push2" /\ tx' = Stored(tx, Dec(tx.put), Head(msg))
        /\ pushed' = pushed /\ taken' = taken /\ early' = early /\ txFull' = txFull
    BY <1>1, <1>h DEF StoreEntry, NextPush
  <2>2. TxView' = TxView
    BY <2>1 DEF TxView
  <2> QED
    BY <2>1, <2>2, Zenon DEF TxInv, Carries
<1>2. CASE StepPut
  <2>1. /\ pc = "push1" /\ pc' = "push2" /\ tx' = Advanced(tx) /\ msg' = msg
        /\ pushed' = Append(pushed, Head(msg)) /\ taken' = taken /\ early' = early
        /\ txFull' = (txFull \/ Len(pushed) - Len(taken) >= Capacity)
    BY <1>2, <1>h, Zenon DEF StepPut, NextPush
  <2>2. ~ txFull /\ ~ (Len(pushed) - Len(taken) >= Capacity)
    BY <2>1, Zenon
  <2>3. Room(pushed, taken)
    BY <1>0, <2>2, SizesType DEF Room
  <2>4. Head(msg) \in Byte /\ Carries(tx, pushed, taken, early)
    BY <1>0, <2>1, <2>2 DEF TxInv, TxView
  <2>5. TxView' = Stored(Advanced(tx), Dec(Advanced(tx).put), Head(msg))
    BY <2>1 DEF TxView
  <2>6. Carries(TxView', Append(pushed, Head(msg)), taken, early)
    BY <1>0, <2>3, <2>4, <2>5, PushAdds
  <2> QED
    BY <2>1, <2>6 DEF Carries, Entry
<1> QED
  BY <1>1, <1>2

\* The handler takes a byte: the oldest, or the one that is not stored yet.
LEMMA TxTaken ==
  ASSUME TypeOK, TxInv, UdreIsr, ~ IsEmpty(tx)
  PROVE  TxInv'
<1> SUFFICES ASSUME ~ txFull' PROVE TxInv'
  BY DEF TxInv
<1>0. /\ tx \in BufferOf(Byte) /\ tx.put \in Index /\ tx.get \in Index /\ Dec(tx.put) \in Index
      /\ pushed \in Seq(Byte) /\ taken \in Seq(Byte) /\ msg \in Seq(Byte)
      /\ (pc = "push2" => msg # <<>>)
  BY DecInc DEF TypeOK, BufferOf
<1>1. /\ tx' = Popped(tx) /\ taken' = Append(taken, Entry(tx, tx.get)) /\ early' = early \cup Unstored
      /\ pushed' = pushed /\ txFull' = txFull /\ pc' = pc /\ msg' = msg /\ entryFirst' = entryFirst
  BY Zenon DEF UdreIsr, main
<1>2. Carries(TxView, pushed, taken, early) /\ Len(pushed) # Len(taken)
  BY <1>1, TxCount DEF TxInv
<1>3. Entry(tx, tx.get) \in Byte /\ Len(taken') = Len(taken) + 1
  <2>1. Entry(tx, tx.get) \in Byte
    BY <1>0, EntryTypes
  <2> QED
    BY <1>0, <1>1, <2>1
<1>4. Entry(tx, tx.get) = Entry(TxView, TxView.get) \/ Len(taken) + 1 \in early'
  <2>1. CASE pc = "push2" /\ ~ entryFirst["push"]
    <3>1. TxView = Stored(tx, Dec(tx.put), Head(msg)) /\ Head(msg) \in Byte
      BY <1>0, <2>1 DEF TxView
    <3>2. CASE Len(taken) + 1 = Len(pushed)
      BY <1>1, <2>1, <3>2 DEF Unstored
    <3>3. CASE Len(taken) + 1 # Len(pushed)
      <4>1. Carries(Stored(tx, Dec(tx.put), Head(msg)), pushed, taken, early)
            /\ Len(pushed) # Len(taken) + 1
        BY <1>2, <3>1, <3>3
      <4>2. Entry(Stored(tx, Dec(tx.put), Head(msg)), tx.get) = Entry(tx, tx.get)
        BY <1>0, <1>2, <3>1, <4>1, LastApart
      <4> QED
        BY <3>1, <4>2, ViewType
    <3> QED
      BY <3>2, <3>3
  <2>2. CASE ~ (pc = "push2" /\ ~ entryFirst["push"])
    BY <2>2 DEF TxView
  <2> QED
    BY <2>1, <2>2
<1>5. Carries(Popped(TxView), pushed, Append(taken, Entry(tx, tx.get)), early')
  <2>1. early \subseteq early'
    BY <1>1
  <2> QED
    BY <1>0, <1>2, <1>3, <1>4, <2>1, ViewType, TakeMoves
<1>6. TxView' = Popped(TxView)
  <2>1. CASE pc = "push2" /\ ~ entryFirst["push"]
    <3>1. TxView' = Stored(Popped(tx), Dec(tx.put), Head(msg)) /\ Head(msg) \in Byte
      BY <1>0, <1>1, <2>1, PopThenPush DEF TxView, Popped, BufferOf
    <3> QED
      BY <1>0, <2>1, <3>1, PopThenPush DEF TxView
  <2>2. CASE ~ (pc = "push2" /\ ~ entryFirst["push"])
    BY <1>1, <2>2 DEF TxView
  <2> QED
    BY <2>1, <2>2
<1>7. Carries(TxView, pushed, taken, early)'
  BY <1>1, <1>5, <1>6 DEF Carries, Entry
<1>8. ASSUME pc' = "push2", entryFirst'["push"]
      PROVE  Room(pushed, taken)' /\ Entry(tx, tx.put)' = Head(msg)'
  <2>1. Room(pushed, taken) /\ Entry(tx, tx.put) = Head(msg)
    BY <1>1, <1>8 DEF TxInv
  <2>2. tx'.put = tx.put /\ tx'.entry = tx.entry
    BY <1>0, <1>1 DEF Popped, BufferOf
  <2> QED
    BY <1>0, <1>1, <1>3, <2>1, <2>2, SizesType DEF Room, Entry
<1> QED
  BY <1>7, <1>8 DEF TxInv

LEMMA TxOrder ==
  ASSUME TypeOK, TxInv, Next
  PROVE  TxInv'
<1>h. entryFirst' = entryFirst
  <2>1. ASSUME NEW m \in Messages, Write(m) PROVE entryFirst' = entryFirst
    BY <2>1 DEF Write
  <2>2. ASSUME NEW b \in Byte, RxIsr(b) PROVE entryFirst' = entryFirst
    BY <2>2 DEF RxIsr
  <2> QED
    BY <2>1, <2>2 DEF Next, Main, Handlers, Transmitter, StoreEntry, StepPut, Enable, GetChar,
                      TakeEntry, StepGet, UdreIsr, TxIsr, Load, ShiftOut
<1>1. CASE StoreEntry \/ StepPut
  <2>1. entryFirst["push"] \in BOOLEAN
    BY VariantAssumption DEF TypeOK
  <2> QED
    BY <1>1, <1>h, <2>1, TxEntryFirst, TxIndexFirst
<1>3. CASE UdreIsr /\ ~ IsEmpty(tx)
  BY <1>3, TxTaken
<1>4. CASE pc # "push2" /\ pc' # "push2" /\ UNCHANGED <<tx, pushed, taken, early, txFull>>
  BY <1>4 DEF TxInv, TxView, Carries, Entry
<1>5. CASE UNCHANGED <<tx, pushed, taken, early, txFull, pc, msg>>
  BY <1>h, <1>5 DEF TxInv, TxView, Carries, Entry, Room
<1>6. QED
  <2>1. ASSUME NEW m \in Messages, Write(m)
        PROVE  pc # "push2" /\ pc' # "push2" /\ UNCHANGED <<tx, pushed, taken, early, txFull>>
    BY <2>1 DEF Write, buffers, sending
  <2>2. Enable \/ GetChar \/ TakeEntry \/ StepGet
          => pc # "push2" /\ pc' # "push2" /\ UNCHANGED <<tx, pushed, taken, early, txFull>>
    BY DEF Enable, GetChar, TakeEntry, StepGet, NextPop, buffers, sending
  <2>3. UdreIsr /\ IsEmpty(tx) => UNCHANGED <<tx, pushed, taken, early, txFull, pc, msg>>
    BY Zenon DEF UdreIsr, main
  <2>4. TxIsr \/ Load \/ ShiftOut => UNCHANGED <<tx, pushed, taken, early, txFull, pc, msg>>
    BY DEF TxIsr, Load, ShiftOut, buffers, main, sending
  <2>5. ASSUME NEW b \in Byte, RxIsr(b) PROVE UNCHANGED <<tx, pushed, taken, early, txFull, pc, msg>>
    BY <2>5 DEF RxIsr, main, sending
  <2>6. QED
    BY <1>1, <1>3, <1>4, <1>5, <2>1, <2>2, <2>3, <2>4, <2>5
       DEF Next, Main, Handlers, Transmitter

LEMMA EarlyNext ==
  ASSUME EarlyInv, TypeOK, [Next]_vars
  PROVE  EarlyInv'
<1>1. CASE UNCHANGED <<entryFirst, early>>
  BY <1>1 DEF EarlyInv
<1>2. CASE entryFirst' = entryFirst /\ early' = early \cup Unstored
  BY <1>2 DEF EarlyInv, Unstored
<1> QED
  <2>1. ASSUME NEW m \in Messages, Write(m) PROVE UNCHANGED <<entryFirst, early>>
    BY <2>1 DEF Write, sending
  <2>2. StoreEntry \/ StepPut \/ Enable \/ GetChar \/ TakeEntry \/ StepGet \/ TxIsr \/ Load \/ ShiftOut
          => UNCHANGED <<entryFirst, early>>
    BY DEF StoreEntry, StepPut, Enable, GetChar, TakeEntry, StepGet, TxIsr, Load, ShiftOut, sending
  <2>3. UdreIsr => UNCHANGED <<entryFirst, early>> \/ (entryFirst' = entryFirst /\ early' = early \cup Unstored)
    BY Zenon DEF UdreIsr
  <2>4. ASSUME NEW b \in Byte, RxIsr(b) PROVE UNCHANGED <<entryFirst, early>>
    BY <2>4 DEF RxIsr, sending
  <2>5. UNCHANGED vars => UNCHANGED <<entryFirst, early>>
    BY DEF vars, sending
  <2> QED
    BY <1>1, <1>2, <2>1, <2>2, <2>3, <2>4, <2>5 DEF Next, Main, Handlers, Transmitter

LEMMA RxOrder ==
  ASSUME TypeOK, RxInv, Next
  PROVE  RxInv'
<1> DEFINE Late == pc = "pop1" \/ (pc = "pop2" /\ ~ entryFirst["pop"])
<1> SUFFICES ASSUME ~ rxFull' PROVE
      /\ Carries(RxView, arrived, got, {})'
      /\ (Late' => Len(arrived)' # Len(got)')
  BY DEF RxInv
<1>0. /\ rx \in BufferOf(Byte) /\ rx.put \in Index /\ rx.get \in Index
      /\ arrived \in Seq(Byte) /\ got \in Seq(Byte)
      /\ entryFirst["pop"] \in BOOLEAN
  BY VariantAssumption DEF TypeOK, BufferOf
<1>h. /\ entryFirst["pop"] => EntryHalf("pop") = 1 /\ IndexHalf("pop") = 2
      /\ ~ entryFirst["pop"] => EntryHalf("pop") = 2 /\ IndexHalf("pop") = 1
  BY DEF EntryHalf, IndexHalf
<1>t. Entry(rx, rx.get) \in Byte
  BY <1>0, EntryTypes
<1>b. /\ Unpopped(rx) \in BufferOf(Byte) /\ Popped(rx) \in BufferOf(Byte)
      /\ Unpopped(rx).get = Dec(rx.get) /\ Unpopped(rx).entry = rx.entry
      /\ Popped(Unpopped(rx)) = rx /\ Unpopped(Popped(rx)) = rx
  BY <1>0, <1>t, BackThenPush, StepTypes
<1>1. CASE GetChar
  <2>1. /\ pc = "idle" /\ pc' = "pop1" /\ ~ IsEmpty(rx)
        /\ rx' = rx /\ arrived' = arrived /\ got' = got /\ rxFull' = rxFull
    BY <1>1 DEF GetChar, buffers, hearing
  <2>2. Carries(rx, arrived, got, {})
    BY <2>1 DEF RxInv, RxView
  <2>3. Len(arrived) # Len(got)
    BY <1>0, <2>1, <2>2, EmptyMeansAllOut
  <2>4. QED
    BY <2>1, <2>2, <2>3 DEF Carries, Entry, RxView
<1>2. CASE TakeEntry /\ entryFirst["pop"]
  <2>1. /\ pc = "pop1" /\ pc' = "pop2" /\ rx' = rx /\ arrived' = arrived /\ entryFirst' = entryFirst
        /\ rxFull' = rxFull /\ got' = Append(got, Entry(rx, rx.get))
    BY <1>2, <1>h DEF TakeEntry, NextPop, buffers
  <2>2. Carries(rx, arrived, got, {}) /\ Len(arrived) # Len(got)
    BY <2>1 DEF RxInv, RxView
  <2>3. Carries(Popped(rx), arrived, Append(got, Entry(rx, rx.get)), {})
    BY <1>0, <1>t, <2>2, TakeMoves
  <2>4. QED
    BY <1>2, <2>1, <2>3 DEF Carries, Entry, Popped, RxView
<1>3. CASE StepGet /\ entryFirst["pop"]
  <2>1. /\ pc = "pop2" /\ pc' = "idle" /\ rx' = Popped(rx) /\ entryFirst' = entryFirst
        /\ arrived' = arrived /\ got' = got /\ rxFull' = rxFull
    BY <1>3, <1>h DEF StepGet, NextPop, hearing
  <2>2. Carries(Popped(rx), arrived, got, {})
    BY <1>3, <2>1 DEF RxInv, RxView
  <2>3. QED
    BY <2>1, <2>2 DEF Carries, Entry, RxView
<1>8. CASE StepGet /\ ~ entryFirst["pop"]
  <2>1. /\ pc = "pop1" /\ pc' = "pop2" /\ rx' = Popped(rx) /\ entryFirst' = entryFirst
        /\ arrived' = arrived /\ got' = got /\ rxFull' = rxFull
    BY <1>8, <1>h DEF StepGet, NextPop, hearing
  <2>2. Carries(rx, arrived, got, {}) /\ Len(arrived) # Len(got)
    BY <2>1 DEF RxInv, RxView
  <2>3. RxView' = Unpopped(Popped(rx))
    BY <1>8, <2>1 DEF RxView
  <2>4. QED
    BY <1>b, <2>1, <2>2, <2>3 DEF Carries, Entry
<1>9. CASE TakeEntry /\ ~ entryFirst["pop"]
  <2>1. /\ pc = "pop2" /\ pc' = "idle" /\ rx' = rx /\ arrived' = arrived /\ entryFirst' = entryFirst
        /\ rxFull' = rxFull /\ got' = Append(got, Entry(rx, Dec(rx.get)))
    BY <1>9, <1>h DEF TakeEntry, NextPop, buffers
  <2>2. Carries(Unpopped(rx), arrived, got, {}) /\ Len(arrived) # Len(got)
    BY <1>9, <2>1 DEF RxInv, RxView
  <2>3. Entry(Unpopped(rx), Unpopped(rx).get) = Entry(rx, Dec(rx.get))
    BY <1>b DEF Entry
  <2>4. Entry(Unpopped(rx), Unpopped(rx).get) \in Byte
    BY <1>b, EntryTypes DEF BufferOf
  <2>5. Carries(rx, arrived, Append(got, Entry(rx, Dec(rx.get))), {})
    BY <1>0, <1>b, <2>2, <2>3, <2>4, TakeMoves
  <2>6. QED
    BY <2>1, <2>5 DEF Carries, Entry, RxView
<1>4. ASSUME NEW b \in Byte, RxIsr(b) PROVE RxInv'
  <2>1. /\ rx' = Advanced(Stored(rx, rx.put, b)) /\ arrived' = Append(arrived, b)
        /\ rxFull' = (rxFull \/ Len(arrived) - Len(got) >= Capacity)
        /\ got' = got /\ pc' = pc /\ entryFirst' = entryFirst
    BY <1>4 DEF RxIsr, main
  <2>2. ~ rxFull /\ ~ (Len(arrived) - Len(got) >= Capacity)
    BY <2>1, Zenon
  <2>3. Room(arrived, got)
    BY <1>0, <2>2, SizesType DEF Room
  <2>4. RxView \in BufferOf(Byte) /\ Carries(RxView, arrived, got, {})
    BY <2>2, ViewType DEF RxInv
  <2>5. RxView' = Advanced(Stored(RxView, RxView.put, b))
    <3>1. CASE pc # "pop2"
      BY <2>1, <3>1 DEF RxView
    <3>2. CASE pc = "pop2" /\ entryFirst["pop"]
      <4>1. RxView = Popped(rx) /\ RxView' = Popped(Advanced(Stored(rx, rx.put, b)))
        BY <2>1, <3>2 DEF RxView
      <4> QED
        BY <1>0, <4>1, PopThenPush
    <3>3. CASE pc = "pop2" /\ ~ entryFirst["pop"]
      <4>1. RxView = Unpopped(rx) /\ RxView' = Unpopped(Advanced(Stored(rx, rx.put, b)))
        BY <2>1, <3>3 DEF RxView
      <4>2. Unpopped(rx).put = rx.put
            /\ Unpopped(Advanced(Stored(rx, rx.put, b))) = Advanced(Stored(Unpopped(rx), rx.put, b))
        BY <1>0, BackThenPush
      <4> QED
        BY <4>1, <4>2
    <3> QED
      BY <3>1, <3>2, <3>3
  <2>6. Carries(RxView', arrived', got, {})
    BY <1>0, <2>1, <2>3, <2>4, <2>5, PushAdds
  <2>7. Len(arrived') # Len(got)
    BY <1>0, <2>1, <2>4 DEF Carries
  <2>8. QED
    BY <2>1, <2>6, <2>7 DEF RxInv, Carries, Entry
<1>5. CASE /\ pc \notin {"pop1", "pop2"} /\ pc' \notin {"pop1", "pop2"}
           /\ UNCHANGED <<rx, arrived, got, rxFull>>
  BY <1>5 DEF RxInv, RxView, Carries, Entry
<1>6. CASE UNCHANGED <<rx, arrived, got, rxFull, pc, entryFirst>>
  BY <1>6 DEF RxInv, RxView, Carries, Entry, Popped
<1>7. QED
  <2>1. ASSUME NEW m \in Messages, Write(m)
        PROVE  /\ pc \notin {"pop1", "pop2"} /\ pc' \notin {"pop1", "pop2"}
               /\ UNCHANGED <<rx, arrived, got, rxFull>>
    BY <2>1 DEF Write, buffers, hearing
  <2>2. ASSUME StoreEntry \/ StepPut \/ Enable
        PROVE  /\ pc \notin {"pop1", "pop2"} /\ pc' \notin {"pop1", "pop2"}
               /\ UNCHANGED <<rx, arrived, got, rxFull>>
    BY <2>2 DEF StoreEntry, StepPut, Enable, NextPush, buffers, hearing
  <2>3. UdreIsr \/ TxIsr \/ Load \/ ShiftOut => UNCHANGED <<rx, arrived, got, rxFull, pc, entryFirst>>
    BY DEF UdreIsr, TxIsr, Load, ShiftOut, buffers, main, hearing
  <2>4. QED
    BY <1>1, <1>2, <1>3, <1>4, <1>5, <1>6, <1>8, <1>9, <2>1, <2>2, <2>3
       DEF Next, Main, Handlers, Transmitter, RxInv

OrderInv == TypeOK /\ TxInv /\ EarlyInv /\ RxInv

LEMMA OrderAlways == Spec => []OrderInv
<1>1. Init => OrderInv
  <2> SUFFICES ASSUME Init PROVE TxInv /\ EarlyInv /\ RxInv
    BY InitTypeOK DEF OrderInv
  <2>2. PICK b \in Byte : tx = EmptyBuffer(b) /\ rx = EmptyBuffer(b)
    BY DEF Init
  <2>3. /\ pc = "idle" /\ pushed = <<>> /\ taken = <<>> /\ arrived = <<>> /\ got = <<>>
        /\ early = {}
    BY Zenon DEF Init
  <2>4. QED
    BY <2>2, <2>3, EmptyCarries DEF TxInv, EarlyInv, RxInv, TxView, RxView
<1>2. OrderInv /\ [Next]_vars => OrderInv'
  <2>1. CASE Next
    BY <2>1, MainTypeOK, UartTypeOK, TxOrder, EarlyNext, RxOrder DEF OrderInv, Next
  <2>2. CASE UNCHANGED vars
    BY <2>2 DEF OrderInv, TypeOK, TxInv, EarlyInv, RxInv, TxView, RxView, Carries, Entry, Room,
                Popped, vars, buffers, uart, main, sending, hearing
  <2>3. QED
    BY <2>1, <2>2
<1>3. QED
  BY <1>1, <1>2, PTL DEF Spec

\* Bytes leave in the order they were written and are read in the order they
\* arrived, for every size of the buffers and whichever half the compiler puts
\* first, as long as none is pushed into a full buffer; a byte the handler takes
\* before it is stored spoils none but itself.
THEOREM OrderKept == Spec => []BytesInOrder
<1>1. OrderInv => BytesInOrder
  <2>1. SUFFICES ASSUME OrderInv PROVE BytesInOrder
    OBVIOUS
  <2>2. TypeOK /\ TxInv /\ EarlyInv /\ RxInv
    BY <2>1 DEF OrderInv
  <2>3. SentInOrder
    <3>1. CASE ~ txFull
      <4>1. Carries(TxView, pushed, taken, early) /\ taken \in Seq(Byte)
        BY <2>2, <3>1 DEF TxInv, TypeOK
      <4> QED
        BY <2>2, <4>1 DEF Carries, EarlyInv, SentInOrder
    <3> QED
      BY <3>1 DEF SentInOrder
  <2>5. HeardInOrder
    BY <2>2, ViewType, CarriesPrefix DEF TypeOK, RxInv, HeardInOrder
  <2>6. QED
    BY <2>3, <2>5 DEF BytesInOrder
<1>2. QED
  BY <1>1, OrderAlways, PTL

-----------------------------------------------------------------------------
(* The direction of the transceiver.                                       *)

\* The bus is driven as long as a byte is being shifted out, whatever the
\* order of the two halves of a push.
THEOREM NeverCutOff == Spec => []DrivenWhileSending
<1>1. Init => DriveInv
  BY DEF Init, DriveInv
<1>2. DriveInv /\ [Next]_vars => DriveInv'
  <2> SUFFICES ASSUME DriveInv, [Next]_vars PROVE DriveInv'
    OBVIOUS
  <2>2. CASE UNCHANGED <<udrie, txc, udr, shift, driver>>
    BY <2>2, Zenon DEF DriveInv
  <2>3. CASE Enable
    BY <2>3, Zenon DEF Enable, Undisturbed, DriveInv
  <2>4. CASE UdreIsr
    BY <2>4 DEF UdreIsr, UdrePending, DriveInv
  <2>5. CASE TxIsr
    BY <2>5 DEF TxIsr, DriveInv
  <2>6. CASE Load
    BY <2>6 DEF Load, DriveInv
  <2>7. CASE ShiftOut
    BY <2>7 DEF ShiftOut, UdrePending, DriveInv
  <2>8. QED
    <3>1. ASSUME NEW m \in Messages, Write(m) PROVE UNCHANGED uart
      BY <3>1 DEF Write
    <3>2. StoreEntry \/ StepPut \/ GetChar \/ TakeEntry \/ StepGet => UNCHANGED uart
      BY DEF StoreEntry, StepPut, GetChar, TakeEntry, StepGet
    <3>3. ASSUME NEW b \in Byte, RxIsr(b) PROVE UNCHANGED uart
      BY <3>3 DEF RxIsr
    <3>4. QED
      BY <2>2, <2>3, <2>4, <2>5, <2>6, <2>7, <3>1, <3>2, <3>3
         DEF Next, Main, Handlers, Transmitter, vars, uart
<1>3. DriveInv => DrivenWhileSending
  BY DEF DriveInv, DrivenWhileSending
<1>4. QED
  BY <1>1, <1>2, <1>3, PTL DEF Spec

-----------------------------------------------------------------------------
(* The hand-over between the main loop and the transmit interrupt.         *)

\* While there is something in the buffer the interrupt is on, or the main
\* loop is still on its way to switching it on.
THEOREM NothingForgotten == Spec => []NoByteForgotten
<1> DEFINE Busy == {"push1", "push2", "enable"}
<1>1. Init => NoByteForgotten
  BY DEF Init, NoByteForgotten
<1>2. OrderInv /\ NoByteForgotten /\ [Next]_vars => NoByteForgotten'
  <2> SUFFICES ASSUME OrderInv, NoByteForgotten, [Next]_vars PROVE NoByteForgotten'
    OBVIOUS
  <2>1. CASE StoreEntry \/ StepPut
    <3>1. pc' \in Busy
      BY <2>1 DEF StoreEntry, StepPut, NextPush
    <3>2. QED
      BY <3>1 DEF NoByteForgotten
  <2>2. CASE Enable
    BY <2>2 DEF Enable, NoByteForgotten
  <2>3. CASE UdreIsr /\ IsEmpty(tx)
    <3>1. pushed' = pushed /\ taken' = taken /\ txFull' = txFull
      BY <2>3, Zenon DEF UdreIsr
    <3>2. ~ txFull => Len(pushed) = Len(taken)
      BY <2>3, TxCount DEF OrderInv
    <3>3. Len(taken) \in Nat
      BY DEF OrderInv, TypeOK
    <3>4. ~ (~ txFull /\ Len(taken) < Len(pushed))
      BY <3>2, <3>3
    <3>5. QED
      BY <3>1, <3>4 DEF NoByteForgotten
  <2>4. CASE UdreIsr /\ ~ IsEmpty(tx)
    <3>1. udrie /\ udrie' = udrie
      BY <2>4, Zenon DEF UdreIsr, UdrePending
    <3>2. QED
      BY <3>1, Zenon DEF NoByteForgotten
  <2>5. CASE /\ UNCHANGED <<pushed, taken, txFull, udrie>>
             /\ (pc \in Busy => pc' \in Busy)
    BY <2>5 DEF NoByteForgotten
  <2>6. QED
    <3>1. ASSUME NEW m \in Messages, Write(m)
          PROVE  pc' \in Busy
      BY <3>1 DEF Write
    <3>2. ASSUME GetChar \/ TakeEntry \/ StepGet
          PROVE  pc \notin Busy /\ UNCHANGED <<pushed, taken, txFull, udrie>>
      BY <3>2 DEF GetChar, TakeEntry, StepGet, uart, sending
    <3>3. ASSUME TxIsr \/ Load \/ ShiftOut
          PROVE  pc' = pc /\ UNCHANGED <<pushed, taken, txFull, udrie>>
      BY <3>3 DEF TxIsr, Load, ShiftOut, main, sending
    <3>4. ASSUME NEW b \in Byte, RxIsr(b)
          PROVE  pc' = pc /\ UNCHANGED <<pushed, taken, txFull, udrie>>
      BY <3>4 DEF RxIsr, main, uart, sending
    <3>5. ASSUME UNCHANGED vars PROVE pc' = pc /\ UNCHANGED <<pushed, taken, txFull, udrie>>
      BY <3>5 DEF vars, main, uart, sending
    <3>6. pc' \in Busy => NoByteForgotten'
      BY DEF NoByteForgotten
    <3>7. QED
      BY <2>1, <2>2, <2>3, <2>4, <2>5, <3>1, <3>2, <3>3, <3>4, <3>5, <3>6
         DEF Next, Main, Handlers, Transmitter
<1>3. QED
  BY <1>1, <1>2, OrderAlways, PTL DEF Spec

\* Something is on its way that ends with the TX handler: a byte in one of the
\* registers, the interrupt itself, or a byte in the buffer that will be sent.
OnItsWay ==
  \/ shift # None \/ udr # None \/ txc
  \/ Len(taken) < Len(pushed) /\ (udrie \/ pc \in {"push1", "push2", "enable"})

\* As long as the bus is driven there is a byte that leads to its release: the
\* handler that finds a new byte and keeps the bus does not keep it for good.
\* Nothing is said once a byte was pushed into a full buffer: it may pass for an
\* empty one.
THEOREM DrivenForAByte ==
  Spec => [](driver = "TXD" /\ ~ txFull => OnItsWay)
<1> DEFINE Left == driver = "TXD" /\ ~ txFull =>
                     shift # None \/ udr # None \/ txc \/ Len(taken) < Len(pushed)
<1>1. Init => Left
  BY DEF Init
<1>2. OrderInv /\ Left /\ [Next]_vars => Left'
  <2> SUFFICES ASSUME OrderInv, Left, [Next]_vars PROVE Left'
    OBVIOUS
  <2>1. /\ Len(taken) \in Nat /\ Len(pushed) \in Nat
        /\ ~ txFull => Len(taken) <= Len(pushed) /\ (IsEmpty(tx) <=> Len(pushed) = Len(taken))
    <3>1. pushed \in Seq(Byte) /\ taken \in Seq(Byte)
      BY DEF OrderInv, TypeOK
    <3> QED
      BY <3>1, TxCount DEF OrderInv
  <2>2. CASE UdreIsr
    <3>1. CASE IsEmpty(tx)
      <4>1. UNCHANGED <<driver, txFull, shift, udr, txc, taken, pushed>>
        BY <2>2, <3>1, Zenon DEF UdreIsr
      <4> QED
        BY <4>1
    <3>2. CASE ~ IsEmpty(tx)
      <4>1. udr' = Entry(tx, tx.get)
        BY <2>2, <3>2, Zenon DEF UdreIsr
      <4>2. Entry(tx, tx.get) \in Byte
        BY EntryTypes DEF OrderInv, TypeOK, BufferOf
      <4> QED
        BY <4>1, <4>2, ByteAssumption
    <3> QED
      BY <3>1, <3>2
  <2>3. CASE TxIsr
    <3>1. /\ driver' = (IF IsEmpty(tx) THEN "RXD" ELSE driver)
          /\ UNCHANGED <<txFull, taken, pushed>>
      BY <2>3 DEF TxIsr, sending
    <3> QED
      BY <2>1, <3>1
  <2>4. CASE Load
    BY <2>4 DEF Load
  <2>5. CASE ShiftOut
    BY <2>5 DEF ShiftOut, sending
  <2>6. CASE StepPut
    <3>1. /\ UNCHANGED <<driver, shift, udr, txc, taken>>
          /\ pushed' = Append(pushed, Head(msg)) /\ (txFull => txFull')
      BY <2>6 DEF StepPut, NextPush, uart, sending
    <3>2. Len(pushed') = Len(pushed) + 1
      BY <3>1 DEF OrderInv, TypeOK
    <3> QED
      BY <2>1, <3>1, <3>2
  <2>7. CASE /\ UNCHANGED <<driver, shift, udr, txc, taken, pushed>> /\ (txFull => txFull')
    BY <2>7
  <2> QED
    <3>1. ASSUME NEW m \in Messages, Write(m)
          PROVE  UNCHANGED <<driver, shift, udr, txc, taken, pushed>> /\ (txFull => txFull')
      BY <3>1 DEF Write, uart, sending
    <3>2. ASSUME Enable \/ GetChar \/ TakeEntry \/ StepGet
          PROVE  UNCHANGED <<driver, shift, udr, txc, taken, pushed>> /\ (txFull => txFull')
      BY <3>2 DEF Enable, GetChar, TakeEntry, StepGet, uart, sending
    <3>5. ASSUME StoreEntry
          PROVE  UNCHANGED <<driver, shift, udr, txc, taken, pushed>> /\ (txFull => txFull')
      <4>1. NextPush(EntryHalf("push")) /\ UNCHANGED <<uart, pushed, taken>>
        BY <3>5 DEF StoreEntry
      <4>2. txFull => txFull'
        BY <4>1, Zenon DEF NextPush
      <4> QED
        BY <4>1, <4>2 DEF uart
    <3>3. ASSUME NEW b \in Byte, RxIsr(b)
          PROVE  UNCHANGED <<driver, shift, udr, txc, taken, pushed>> /\ (txFull => txFull')
      BY <3>3 DEF RxIsr, uart, sending
    <3>4. ASSUME UNCHANGED vars
          PROVE  UNCHANGED <<driver, shift, udr, txc, taken, pushed>> /\ (txFull => txFull')
      BY <3>4 DEF vars, uart, sending
    <3> QED
      BY <2>2, <2>3, <2>4, <2>5, <2>6, <2>7, <3>1, <3>2, <3>3, <3>4, <3>5
         DEF Next, Main, Handlers, Transmitter
<1>3. Left /\ NoByteForgotten => (driver = "TXD" /\ ~ txFull => OnItsWay)
  BY DEF NoByteForgotten, OnItsWay
<1> QED
  BY <1>1, <1>2, <1>3, OrderAlways, NothingForgotten, PTL DEF Spec
=============================================================================
