------------------------------- MODULE Rs485Port -------------------------------
(***************************************************************************)
(* The serial port of a servo bus (rs485.c): the main loop of the firmware,*)
(* the three interrupt handlers of the UART, and the transmitter.          *)
(*                                                                         *)
(*   main:  rs485_putstrn -> tx buffer -> UDRE handler -> data register    *)
(*          -> shift register -> bus;   TX handler: the bus is released    *)
(*   main:  rs485_getchar <- rx buffer <- RX handler <- bus                *)
(*                                                                         *)
(* A handler runs with interrupts off: it is one step.  The main loop can  *)
(* be interrupted between any two accesses to a buffer or to the control   *)
(* register, so each of them is a step; it goes on only when no interrupt  *)
(* is pending.  The handler that refills the data register is assumed to   *)
(* run before the byte in the shift register has left it (10 us).          *)
(***************************************************************************)
EXTENDS CircularBuffer, SequencesExt

CONSTANTS
  Byte,
  None,        \* an empty register
  Messages,    \* what the main loop may write: packets
  Builds,      \* the orders of the two halves of a push and of a pop that a
               \* compiler may choose: is the entry touched before the index is stepped
  EachByte,    \* putstrn enables the interrupt per byte (gateway) or per packet
  MaxWrites,   \* bound: packets written
  MaxHeard     \* bound: bytes that arrive

ASSUME ByteAssumption == None \notin Byte /\ Messages \subseteq Seq(Byte) \ {<<>>}
ASSUME VariantAssumption == Builds \subseteq [{"push", "pop"} -> BOOLEAN] /\ EachByte \in BOOLEAN
ASSUME BoundAssumption == MaxWrites \in Nat /\ MaxHeard \in Nat

VARIABLES
  entryFirst,      \* the build
  tx, rx,          \* uart0_putbuf, uart0_getbuf
  udrie,           \* UDRIE0: interrupt when the data register is empty
  txc,             \* TXC0: a TX interrupt is pending
  udr, shift,      \* data and shift register of the transmitter
  driver,          \* direction of the transceiver
  pc, msg,         \* main: where it is, and the bytes it has yet to write
  writes,          \* history: packets written
  pushed, taken,   \* history: bytes put in tx, and taken from it
  arrived, got,    \* history: bytes put in rx, and taken from it
  early,           \* history: the bytes the handler took before they were stored
  txFull, rxFull   \* history: a byte was pushed when there was no room

buffers == <<tx, rx>>
uart    == <<udrie, txc, udr, shift, driver>>
main    == <<pc, msg, writes>>
sending == <<pushed, taken, early, txFull>>
hearing == <<arrived, got, rxFull>>
vars    == <<entryFirst, buffers, uart, main, sending, hearing>>

Places == {"idle", "push1", "push2", "enable", "pop1", "pop2"}

\* rs485_init, once the 0xFF it gives the transmitter is shifted out: that byte
\* never reaches the bus, whose driver is off.
Init ==
  /\ entryFirst \in Builds
  /\ \E b \in Byte : tx = EmptyBuffer(b) /\ rx = EmptyBuffer(b)
  /\ udrie = FALSE /\ txc = FALSE
  /\ udr = None /\ shift = None
  /\ driver = "RXD"
  /\ pc = "idle" /\ msg = <<>> /\ writes = 0
  /\ pushed = <<>> /\ taken = <<>> /\ early = {} /\ txFull = FALSE
  /\ arrived = <<>> /\ got = <<>> /\ rxFull = FALSE

-----------------------------------------------------------------------------
(* The main loop.                                                          *)

UdrePending == udrie /\ udr = None
Undisturbed == ~ UdrePending /\ ~ txc

\* The half of a push or a pop that touches the entry, and the other one: the
\* language does not say which comes first in m_entry[i++ & mask].
EntryHalf(op) == IF entryFirst[op] THEN 1 ELSE 2
IndexHalf(op) == 3 - EntryHalf(op)

\* rs485_putstrn is called.
Write(m) ==
  /\ pc = "idle" /\ writes < MaxWrites
  /\ pc' = "push1" /\ msg' = m /\ writes' = writes + 1
  /\ UNCHANGED <<entryFirst, buffers, uart, sending, hearing>>

\* After the first half of a push comes the second; after the second the
\* interrupt is enabled, or the next byte pushed.
NextPush(half) ==
  IF half = 1
  THEN /\ pc' = "push2"
       /\ txFull' = (txFull \/ Len(pushed) - Len(taken) >= Capacity)
       /\ UNCHANGED msg
  ELSE /\ pc' = IF EachByte \/ Len(msg) = 1 THEN "enable" ELSE "push1"
       /\ msg' = Tail(msg)
       /\ UNCHANGED txFull

\* m_entry[i & mask] = elem, i being put before it was stepped.
StoreEntry ==
  /\ pc = (IF EntryHalf("push") = 1 THEN "push1" ELSE "push2") /\ Undisturbed
  /\ tx' = Stored(tx, IF EntryHalf("push") = 1 THEN tx.put ELSE Dec(tx.put), Head(msg))
  /\ NextPush(EntryHalf("push"))
  /\ UNCHANGED <<entryFirst, rx, uart, writes, pushed, taken, early, hearing>>

\* m_putIdx++
StepPut ==
  /\ pc = (IF IndexHalf("push") = 1 THEN "push1" ELSE "push2") /\ Undisturbed
  /\ tx' = Advanced(tx)
  /\ pushed' = Append(pushed, Head(msg))
  /\ NextPush(IndexHalf("push"))
  /\ UNCHANGED <<entryFirst, rx, uart, writes, taken, early, hearing>>

\* UCSR0B |= _BV(UDRIE0): the other bits of the register never change, so the
\* store sets this one whatever a handler did since the load.
Enable ==
  /\ pc = "enable" /\ Undisturbed
  /\ udrie' = TRUE
  /\ pc' = IF msg = <<>> THEN "idle" ELSE "push1"
  /\ UNCHANGED <<entryFirst, buffers, txc, udr, shift, driver, msg, writes, sending, hearing>>

\* rs485_getchar finds a byte; an empty buffer is EOF and changes nothing.
GetChar ==
  /\ pc = "idle" /\ Undisturbed /\ ~ IsEmpty(rx)
  /\ pc' = "pop1"
  /\ UNCHANGED <<entryFirst, buffers, uart, msg, writes, sending, hearing>>

NextPop(half) == pc' = IF half = 1 THEN "pop2" ELSE "idle"

\* m_entry[i & mask], i being get before it was stepped.
TakeEntry ==
  /\ pc = (IF EntryHalf("pop") = 1 THEN "pop1" ELSE "pop2") /\ Undisturbed
  /\ got' = Append(got, Entry(rx, IF EntryHalf("pop") = 1 THEN rx.get ELSE Dec(rx.get)))
  /\ NextPop(EntryHalf("pop"))
  /\ UNCHANGED <<entryFirst, buffers, uart, msg, writes, sending, arrived, rxFull>>

\* m_getIdx++
StepGet ==
  /\ pc = (IF IndexHalf("pop") = 1 THEN "pop1" ELSE "pop2") /\ Undisturbed
  /\ rx' = Popped(rx)
  /\ NextPop(IndexHalf("pop"))
  /\ UNCHANGED <<entryFirst, tx, uart, msg, writes, sending, hearing>>

Main ==
  \/ \E m \in Messages : Write(m)
  \/ StoreEntry \/ StepPut \/ Enable
  \/ GetChar \/ TakeEntry \/ StepGet

-----------------------------------------------------------------------------
(* The handlers.                                                           *)

\* The byte whose index has been stepped and whose entry has not been stored, if it
\* is the next to be taken.
Unstored == {k \in {Len(pushed)} : /\ pc = "push2" /\ ~ entryFirst["push"]
                                  /\ Len(taken) + 1 = k}

\* Mutant of UdreIsr: the interrupt is switched off with every byte.
UdreIsrOneShot ==
  /\ UdrePending
  /\ udrie' = FALSE
  /\ IF IsEmpty(tx)
     THEN UNCHANGED <<tx, udr, driver, taken, early>>
     ELSE /\ driver' = "TXD"
          /\ udr' = Entry(tx, tx.get)
          /\ tx' = Popped(tx)
          /\ taken' = Append(taken, Entry(tx, tx.get))
          /\ early' = early \cup Unstored
  /\ UNCHANGED <<entryFirst, rx, txc, shift, main, pushed, txFull, hearing>>

\* Mutant of UdreIsr: it releases the bus when it finds the buffer empty.
UdreIsrReleases ==
  /\ UdrePending
  /\ IF IsEmpty(tx)
     THEN udrie' = FALSE /\ driver' = "RXD" /\ UNCHANGED <<tx, udr, taken, early>>
     ELSE /\ driver' = "TXD"
          /\ udr' = Entry(tx, tx.get)
          /\ tx' = Popped(tx)
          /\ taken' = Append(taken, Entry(tx, tx.get))
          /\ early' = early \cup Unstored
          /\ UNCHANGED udrie
  /\ UNCHANGED <<entryFirst, rx, txc, shift, main, pushed, txFull, hearing>>

\* USART0_UDRE_vect
UdreIsr ==
  /\ UdrePending
  /\ IF IsEmpty(tx)
     THEN udrie' = FALSE /\ UNCHANGED <<tx, udr, driver, taken, early>>
     ELSE /\ driver' = "TXD"
          /\ udr' = Entry(tx, tx.get)
          /\ tx' = Popped(tx)
          /\ taken' = Append(taken, Entry(tx, tx.get))
          /\ early' = early \cup Unstored
          /\ UNCHANGED udrie
  /\ UNCHANGED <<entryFirst, rx, txc, shift, main, pushed, txFull, hearing>>

\* Mutant of TxIsr: the bus is released only while the other interrupt is on.
TxIsrWhileOn ==
  /\ txc /\ ~ UdrePending
  /\ txc' = FALSE
  /\ driver' = IF IsEmpty(tx) /\ udrie THEN "RXD" ELSE driver
  /\ UNCHANGED <<entryFirst, buffers, udrie, udr, shift, main, sending, hearing>>

\* USART0_TX_vect; the UDRE vector comes before it.
TxIsr ==
  /\ txc /\ ~ UdrePending
  /\ txc' = FALSE
  /\ driver' = IF IsEmpty(tx) THEN "RXD" ELSE driver
  /\ UNCHANGED <<entryFirst, buffers, udrie, udr, shift, main, sending, hearing>>

\* Mutant of RxIsr: the index is stepped before it is used.
RxIsrPreIncrement(b) ==
  /\ driver = "RXD" /\ Len(arrived) < MaxHeard
  /\ rx' = Advanced(Stored(rx, Inc(rx.put), b))
  /\ arrived' = Append(arrived, b)
  /\ rxFull' = (rxFull \/ Len(arrived) - Len(got) >= Capacity)
  /\ UNCHANGED <<entryFirst, tx, uart, main, sending, got>>

\* USART0_RX_vect, on a byte from the bus: both halves of the push at once.
RxIsr(b) ==
  /\ driver = "RXD" /\ Len(arrived) < MaxHeard
  /\ rx' = Advanced(Stored(rx, rx.put, b))
  /\ arrived' = Append(arrived, b)
  /\ rxFull' = (rxFull \/ Len(arrived) - Len(got) >= Capacity)
  /\ UNCHANGED <<entryFirst, tx, uart, main, sending, got>>

Handlers == UdreIsr \/ TxIsr \/ (\E b \in Byte : RxIsr(b))

-----------------------------------------------------------------------------
(* The transmitter (external).                                             *)

\* A byte enters the empty shift register: the data register is free again.
Load ==
  /\ udr # None /\ shift = None
  /\ shift' = udr /\ udr' = None
  /\ UNCHANGED <<entryFirst, buffers, udrie, txc, driver, main, sending, hearing>>

\* The last bit is out: the next byte follows, or transmission is complete.
ShiftOut ==
  /\ shift # None /\ ~ UdrePending
  /\ shift' = udr /\ udr' = None
  /\ txc' = (txc \/ udr = None)
  /\ UNCHANGED <<entryFirst, buffers, udrie, driver, main, sending, hearing>>

Transmitter == Load \/ ShiftOut

Next == Main \/ Handlers \/ Transmitter

Spec == Init /\ [][Next]_vars

\* The processor runs, serves its interrupts, and the baud clock ticks; the
\* main loop asks for a byte again and again.
FairSpec ==
  /\ Spec
  /\ WF_vars(StoreEntry \/ StepPut \/ Enable)
  /\ WF_vars(GetChar \/ TakeEntry \/ StepGet)
  /\ WF_vars(UdreIsr) /\ WF_vars(TxIsr)
  /\ WF_vars(Transmitter)

-----------------------------------------------------------------------------
(* Properties.                                                             *)

RegisterOf(S) == S \cup {None}

\* The types; put and get stay in the range of the index type.
TypeOK ==
  /\ entryFirst \in Builds
  /\ tx \in BufferOf(Byte) /\ rx \in BufferOf(Byte)
  /\ udrie \in BOOLEAN /\ txc \in BOOLEAN
  /\ udr \in RegisterOf(Byte) /\ shift \in RegisterOf(Byte)
  /\ driver \in {"TXD", "RXD"}
  /\ pc \in Places /\ msg \in Seq(Byte) /\ writes \in Nat
  /\ (pc \in {"push1", "push2"} => msg # <<>>)
  /\ pushed \in Seq(Byte) /\ taken \in Seq(Byte) /\ early \subseteq Nat /\ txFull \in BOOLEAN
  /\ arrived \in Seq(Byte) /\ got \in Seq(Byte) /\ rxFull \in BOOLEAN

\* What goes out on the bus is what was written, in order, nothing twice and
\* nothing stale, unless a byte was pushed when there was no room for it.  In a
\* build that steps the index first the handler may take a byte before it is
\* stored: just that byte is wrong, and the ones around it are not.
SentInOrder ==
  \/ txFull
  \/ /\ Len(taken) <= Len(pushed)
     /\ \A k \in DOMAIN taken :
          taken[k] = pushed[k] \/ (k \in early /\ ~ entryFirst["push"])

\* Not so, in a build that steps the index first (CBUF.h:103): what goes out is
\* what was written.
SentAsWritten == txFull \/ IsPrefix(taken, pushed)

\* What the main loop gets is what arrived, whichever half of a pop comes first.
HeardInOrder == rxFull \/ IsPrefix(got, arrived)

\* Both directions keep their bytes in order, wherever interrupts come.
BytesInOrder == SentInOrder /\ HeardInOrder

\* The handler that finds the buffer empty switches its interrupt off; no byte
\* is left behind by a main loop that has gone on to something else.
NoByteForgotten ==
  ~ txFull /\ Len(taken) < Len(pushed) => udrie \/ pc \in {"push1", "push2", "enable"}

\* The transceiver drives the bus for as long as a byte is being shifted out:
\* the handler that releases the bus never cuts one off.
DrivenWhileSending == shift # None => driver = "TXD"

\* The bus is given back after every packet: a servo can answer.
BusReleased == driver = "TXD" ~> driver = "RXD"
=============================================================================
