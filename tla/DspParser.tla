------------------------------ MODULE DspParser ------------------------------
(***************************************************************************)
(* How the DCM process finds the DSP's reply in the bytes of the serial    *)
(* line.  PacketReconstrct takes one byte at a time and keeps what it has  *)
(* collected in static storage: nothing resets it between two cycles of    *)
(* DspThread, neither a timeout nor the tcflush that starts a cycle.       *)
(*                                                                         *)
(*    255 255 254 length info parameter... checksum                        *)
(*                                                                         *)
(* The line may lose or alter a byte.  A frame is a sequence of bytes; the *)
(* module is about framing, so the payloads are short.                     *)
(***************************************************************************)
EXTENDS Naturals, Sequences, SequencesExt

CONSTANTS
  Payloads,   \* what the DSP may report: sequences of bytes
  StateSwap,  \* the info byte of a reply, PACKET_TYPE_MASK | INST_STATE_SWAP
  NoiseBytes, \* what a byte on the line may be altered to
  MaxFaults   \* bound: bytes lost or altered

Byte == 0 .. 255
Start == 255        \* 0xff
IdDsp == 254        \* ID_DSP

\* The length byte of a frame counts the info byte and the checksum as well.
ASSUME PayloadAssumption ==
  /\ Payloads \subseteq Seq(Byte) /\ Payloads # {}
  /\ \A p \in Payloads : Len(p) <= 253
ASSUME NoiseAssumption == NoiseBytes \subseteq Byte /\ StateSwap \in Byte
ASSUME FaultAssumption == MaxFaults \in Nat

VARIABLES
  buf,      \* packetBuffer[0 .. uiNumReceived-1], static
  out,      \* what PostProcessingStateSwap last copied into out
  ok,       \* processSuccessful of this cycle
  phase,    \* "idle" between cycles, "reading" in the select/read loop
  wire,     \* bytes of this cycle's reply that have not been read yet
  sent,     \* history: what the DSP reported in this cycle
  hurt,     \* history: this cycle's reply lost a byte or had one altered
  inSync,   \* history: this cycle found packetBuffer empty
  faults    \* history: bytes lost or altered so far

vars == <<buf, out, ok, phase, wire, sent, hurt, inSync, faults>>

-----------------------------------------------------------------------------
(* The codec.                                                              *)

\* Mutant of CheckSum: the sum is kept in a wide integer.
WideCheckSum(bytes) == 255 - FoldLeft(LAMBDA x, y : x + y, 0, bytes)

\* ~(sum of the bytes), as the BYTE arithmetic of both checksum loops has it.
CheckSum(bytes) ==
  LET sum[i \in 0 .. Len(bytes)] ==
        IF i = 0 THEN 0 ELSE (sum[i - 1] + bytes[i]) % 256
  IN  255 - sum[Len(bytes)]

\* CompressPacket; the DSP frames its replies in the same way.
Compress(info, params) ==
  LET body == <<IdDsp, Len(params) + 2, info>> \o params
  IN  <<Start, Start>> \o body \o <<CheckSum(body)>>

\* Mutant of LastIndex: the length byte taken not to count itself.
LongLastIndex(b) == b[4] + 4

\* packetBuffer once it holds the length byte: the index of the checksum.
LastIndex(b) == b[4] + 3

\* PacketReconstrct: the frame that byte b completes.
Completes(b) == Len(buf) >= 5 /\ Len(buf) = LastIndex(buf)

\* Mutant of Collect: only an accepted frame empties packetBuffer, so that a
\* bad one is completed again and again.
CollectKeepsBad(b) ==
  CASE Completes(b) -> IF CheckSum(SubSeq(buf, 3, buf[4] + 3)) = b THEN <<>> ELSE buf
    [] Len(buf) >= 5 /\ Len(buf) # LastIndex(buf) ->
         IF Len(buf) < LastIndex(buf) THEN Append(buf, b) ELSE buf
    [] Len(buf) \in {3, 4} -> Append(buf, b)
    [] Len(buf) = 2 -> IF b = IdDsp THEN Append(buf, b) ELSE <<>>
    [] OTHER -> IF b = Start THEN Append(buf, b) ELSE <<>>

\* PacketReconstrct: packetBuffer after byte b.
Collect(b) ==
  CASE Completes(b) -> <<>>
    [] Len(buf) >= 5 /\ Len(buf) < LastIndex(buf) -> Append(buf, b)
    [] Len(buf) >= 5 /\ Len(buf) > LastIndex(buf) -> buf
    [] Len(buf) \in {3, 4} -> Append(buf, b)
    [] Len(buf) = 2 -> IF b = IdDsp THEN Append(buf, b) ELSE <<>>
    [] OTHER -> IF b = Start THEN Append(buf, b) ELSE <<>>

\* PacketInterprete: the checksum of frame f is right.
Interpretable(f) == CheckSum(SubSeq(f, 3, f[4] + 3)) = f[f[4] + 4]

Info(f) == f[5]
Params(f) == SubSeq(f, 6, f[4] + 3)

-----------------------------------------------------------------------------
Init ==
  /\ buf = <<>> /\ out = <<>> /\ ok = FALSE
  /\ phase = "idle" /\ wire = <<>> /\ sent = <<>>
  /\ hurt = FALSE /\ inSync = TRUE /\ faults = 0

\* tcflush drops the unread bytes, the request goes out, the DSP answers p.
StartCycle(p) ==
  /\ phase = "idle"
  /\ phase' = "reading"
  /\ wire' = Compress(StateSwap, p)
  /\ sent' = p
  /\ ok' = FALSE
  /\ hurt' = FALSE
  /\ inSync' = (buf = <<>>)
  /\ UNCHANGED <<buf, out, faults>>

\* One byte of what read() returned.  The for loop goes on to the end of the
\* bytes it has, also after a packet was accepted.
ReceiveByte ==
  /\ phase = "reading" /\ wire # <<>>
  /\ LET b == Head(wire)
         frame == Append(buf, b)
         accepted == Completes(b) /\ Interpretable(frame)
     IN  /\ buf' = Collect(b)
         /\ ok' = (ok \/ accepted)
         /\ out' = IF accepted /\ Info(frame) = StateSwap
                     THEN Params(frame) ELSE out
  /\ wire' = Tail(wire)
  /\ UNCHANGED <<phase, sent, hurt, inSync, faults>>

\* The loop ends when a packet was accepted, or select times out: the bytes
\* that are to come have all been read.
EndCycle ==
  /\ phase = "reading"
  /\ ok \/ wire = <<>>
  /\ phase' = "idle"
  /\ UNCHANGED <<buf, out, ok, wire, sent, hurt, inSync, faults>>

LoseByte ==
  /\ phase = "reading" /\ wire # <<>> /\ faults < MaxFaults
  /\ wire' = Tail(wire)
  /\ hurt' = TRUE /\ faults' = faults + 1
  /\ UNCHANGED <<buf, out, ok, phase, sent, inSync>>

AlterByte(b) ==
  /\ phase = "reading" /\ wire # <<>> /\ faults < MaxFaults
  /\ b # Head(wire)
  /\ wire' = <<b>> \o Tail(wire)
  /\ hurt' = TRUE /\ faults' = faults + 1
  /\ UNCHANGED <<buf, out, ok, phase, sent, inSync>>

Next ==
  \/ \E p \in Payloads : StartCycle(p)
  \/ ReceiveByte \/ EndCycle \/ LoseByte
  \/ \E b \in NoiseBytes : AlterByte(b)

Spec == Init /\ [][Next]_vars

\* The DCM loops forever and every cycle ends: a byte that is there is read,
\* and select returns after 200 ms.  Nothing is owed by the noise.
FairSpec ==
  /\ Spec
  /\ WF_vars(\E p \in Payloads : StartCycle(p))
  /\ WF_vars(ReceiveByte) /\ WF_vars(EndCycle)

-----------------------------------------------------------------------------
(* Properties.                                                             *)

\* packetBuffer has room for what is collected: sizeof(DSP_INST_PACKET)+2.
BufferSize == 260

TypeOK ==
  /\ buf \in Seq(Byte) /\ Len(buf) < BufferSize
  /\ out \in Seq(Byte) /\ ok \in BOOLEAN
  /\ phase \in {"idle", "reading"}
  /\ wire \in Seq(Byte) /\ sent \in Payloads \cup {<<>>}
  /\ hurt \in BOOLEAN /\ inSync \in BOOLEAN /\ faults \in 0 .. MaxFaults

\* A reply that arrives whole, at a parser that is between frames, is accepted
\* and copied unchanged: the codec inverts, payloads that hold the header
\* bytes 255 255 254 included.
WholeReplyDelivered ==
  phase = "reading" /\ wire = <<>> /\ inSync /\ ~hurt => ok /\ out = sent

\* A length byte of 0 or 1: no byte of any later packet completes, extends or
\* resets packetBuffer again.
Wedged == Len(buf) >= 5 /\ Len(buf) > LastIndex(buf)

\* The cycle ended with a reply whose last byte is not the header byte.
PlainReply == phase = "reading" /\ wire # <<>> /\ Last(wire) # Start

\* After the last fault replies are accepted again and again, unless the
\* parser is wedged - as long as replies that do not end in 255 keep coming: a
\* trailing 255 is kept as the start of a frame and costs the next reply.
RecoversUnlessWedged ==
  []<>PlainReply => ([]<>(phase = "reading" /\ ok) \/ <>[]Wedged)

\* luaDspCode.cpp:406 says of a bad read that the loop is to 'continue to wait
\* for valid character': valid replies are accepted again once the noise is
\* over.  Refuted: a length byte altered to 0 or 1 ends the link for good.
Recovers == []<>(phase = "reading" /\ ok)

\* luaDspCode.cpp:266 says 'reply is received' where out is filled: what is
\* copied then is what the DSP reported.  Refuted: when a 255 among the
\* parameters is lost, the first byte of the next reply passes for the checksum.
CopiedIsReply == phase = "reading" /\ ok => out = sent
=============================================================================
