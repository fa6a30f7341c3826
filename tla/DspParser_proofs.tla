--------------------------- MODULE DspParser_proofs ---------------------------
(***************************************************************************)
(* Theorems about DspParser, for every set of payloads, every noise and    *)
(* any number of faults: packetBuffer never overruns, a whole reply that   *)
(* meets an empty packetBuffer is delivered unchanged, a wedged parser     *)
(* stays wedged and any other moves on, and without faults the parser is   *)
(* in step with every frame.  The codec comes first: what the checksum is, *)
(* and that a compressed packet reads back as itself.                      *)
(***************************************************************************)
EXTENDS DspParser, SequenceTheorems, WellFoundedInduction, TLAPS

-----------------------------------------------------------------------------
(* The checksum is a byte.  Its sum is defined by recursion on the index,  *)
(* so the lemmas argue by the least index at which they would fail.        *)

\* A set of numbers that is not empty has a least member.
LEMMA LeastNumber ==
  ASSUME NEW T \in SUBSET Nat, T # {}
  PROVE  \E x \in T : \A y \in T : x <= y
<1> DEFINE R == OpToRel(<, Nat)
<1>1. IsWellFoundedOn(R, Nat)
  BY NatLessThanWellFounded
<1>2. \E x \in T : \A y \in T : <<y, x>> \notin R
  <2> HIDE DEF R
  <2> QED
    BY <1>1, WFMin
<1>3. \A x, y \in Nat : x < y => <<x, y>> \in R
  BY DEF OpToRel
<1> HIDE DEF R
<1>4. PICK x \in T : \A y \in T : <<y, x>> \notin R
  BY <1>2
<1>5. ASSUME NEW y \in T PROVE x <= y
  <2>1. x \in Nat /\ y \in Nat /\ ~ (y < x)
    BY <1>3, <1>4
  <2> QED
    BY <2>1
<1> QED
  BY <1>5

\* g holds the partial sums of the first n bytes.
Sums(g, bytes, n) ==
  /\ g \in [0 .. n -> Byte]
  /\ g[0] = 0
  /\ \A i \in 1 .. n : g[i] = (g[i - 1] + bytes[i]) % 256

LEMMA ByteArithmetic ==
  \A x, y \in Byte : (x + y) % 256 \in Byte
BY DEF Byte

\* One more byte can be added to partial sums.
LEMMA SumsExtend ==
  ASSUME NEW n \in Nat, NEW bytes, bytes[n + 1] \in Byte,
         NEW g, Sums(g, bytes, n)
  PROVE  \E h : Sums(h, bytes, n + 1)
<1> DEFINE h == [i \in 0 .. n + 1 |->
                   IF i = n + 1 THEN (g[n] + bytes[n + 1]) % 256 ELSE g[i]]
<1>1. (g[n] + bytes[n + 1]) % 256 \in Byte
  BY ByteArithmetic DEF Sums
<1>2. h \in [0 .. n + 1 -> Byte]
  BY <1>1 DEF Sums
<1>3. h[0] = 0
  BY DEF Sums
<1>4. ASSUME NEW i \in 1 .. n + 1 PROVE h[i] = (h[i - 1] + bytes[i]) % 256
  <2>1. CASE i = n + 1
    BY <2>1
  <2>2. CASE i # n + 1
    BY <2>2 DEF Sums
  <2> QED
    BY <2>1, <2>2
<1>5. Sums(h, bytes, n + 1)
  <2> HIDE DEF h
  <2> QED
    BY <1>2, <1>3, <1>4 DEF Sums
<1> QED
  BY <1>5

LEMMA SumsExist ==
  ASSUME NEW bytes \in Seq(Byte)
  PROVE  \E g : Sums(g, bytes, Len(bytes))
<1> DEFINE T == {n \in 0 .. Len(bytes) : ~ \E g : Sums(g, bytes, n)}
<1>1. Len(bytes) \in Nat /\ T \in SUBSET Nat
  OBVIOUS
<1>2. T = {}
  <2>1. SUFFICES ASSUME T # {} PROVE FALSE
    OBVIOUS
  <2>2. PICK x \in T : \A y \in T : x <= y
    <3> HIDE DEF T
    <3> QED
      BY <1>1, <2>1, LeastNumber
  <2>3. x \in 0 .. Len(bytes) /\ ~ \E g : Sums(g, bytes, x)
    BY <2>2
  <2>4. CASE x = 0
    <3>1. Sums([i \in 0 .. 0 |-> 0], bytes, 0)
      BY DEF Sums, Byte
    <3> QED
      BY <2>3, <2>4, <3>1
  <2>5. CASE x # 0
    <3>1. x - 1 \in 0 .. Len(bytes) /\ ~ (x <= x - 1)
      BY <2>3, <2>5
    <3>2. PICK g : Sums(g, bytes, x - 1)
      <4>1. x - 1 \notin T
        <5> HIDE DEF T
        <5> QED
          BY <2>2, <3>1
      <4> QED
        BY <3>1, <4>1
    <3>3. bytes[(x - 1) + 1] \in Byte
      BY <2>3, <2>5, ElementOfSeq
    <3>4. \E h : Sums(h, bytes, (x - 1) + 1)
      <4>1. x - 1 \in Nat
        BY <3>1
      <4> QED
        BY <3>2, <3>3, <4>1, SumsExtend
    <3>5. (x - 1) + 1 = x
      BY <2>3
    <3> QED
      <4> HIDE DEF T
      <4> QED
        BY <2>3, <3>4, <3>5
  <2> QED
    BY <2>4, <2>5
<1> QED
  BY <1>1, <1>2

LEMMA ChecksumIsByte ==
  ASSUME NEW bytes \in Seq(Byte)
  PROVE  CheckSum(bytes) \in Byte
<1> DEFINE N == Len(bytes)
           Rec(s) == s = [i \in 0 .. N |->
                            IF i = 0 THEN 0 ELSE (s[i - 1] + bytes[i]) % 256]
<1>1. N \in Nat
  OBVIOUS
<1>2. \E s : Rec(s)
  <2>1. PICK g : Sums(g, bytes, N)
    BY SumsExist
  <2>2. Rec(g)
    BY <1>1, <2>1 DEF Sums
  <2> QED
    BY <2>2
<1>3. ASSUME NEW s, Rec(s) PROVE s[N] \in Byte
  <2> DEFINE T == {n \in 0 .. N : s[n] \notin Byte}
  <2>1. T \in SUBSET Nat
    BY <1>1
  <2>2. T = {}
    <3>1. SUFFICES ASSUME T # {} PROVE FALSE
      OBVIOUS
    <3>2. PICK x \in T : \A y \in T : x <= y
      <4> HIDE DEF T
      <4> QED
        BY <2>1, <3>1, LeastNumber
    <3>3. x \in 0 .. N /\ s[x] \notin Byte
      BY <3>2
    <3>4. s[x] = IF x = 0 THEN 0 ELSE (s[x - 1] + bytes[x]) % 256
      BY <1>3, <3>3
    <3>5. x # 0
      BY <3>3, <3>4 DEF Byte
    <3>6. x - 1 \in 0 .. N /\ x - 1 \notin T
      BY <1>1, <3>2, <3>3, <3>5
    <3>7. s[x - 1] \in Byte /\ bytes[x] \in Byte
      BY <1>1, <3>3, <3>5, <3>6, ElementOfSeq
    <3> QED
      BY <3>3, <3>4, <3>5, <3>7, ByteArithmetic
  <2> QED
    BY <1>1, <2>2
<1> DEFINE sum == CHOOSE s : Rec(s)
<1>4. CheckSum(bytes) = 255 - sum[N]
  BY DEF CheckSum
<1>5. sum[N] \in Byte
  <2> HIDE DEF Rec
  <2> QED
    BY <1>2, <1>3
<1>6. \A v \in Byte : 255 - v \in Byte
  BY DEF Byte
<1> HIDE DEF sum, N
<1> QED
  BY <1>4, <1>5, <1>6, Zenon

-----------------------------------------------------------------------------
(* Sequences of bytes, member by member.  The SMT backend rewrites         *)
(* comparisons of Len with a number into cases on the whole sequence; Size *)
(* is Len under a name it leaves alone.                                    *)

Size(s) == Len(s)

LEMMA SizeIsNat ==
  ASSUME NEW s \in Seq(Byte)
  PROVE  /\ Size(s) \in Nat
         /\ \A i \in 1 .. Size(s) : s[i] \in Byte
BY ElementOfSeq DEF Size

LEMMA EmptySize ==
  /\ <<>> \in Seq(Byte) /\ Size(<<>>) = 0
  /\ \A s \in Seq(Byte) : s = <<>> <=> Size(s) = 0
BY DEF Size

\* A byte that is there is a number, the length byte among them.
LEMMA FourthByte ==
  ASSUME NEW s \in Seq(Byte), Size(s) >= 4
  PROVE  s[4] \in Byte /\ s[4] \in Nat
<1>1. Size(s) \in Nat /\ \A i \in 1 .. Size(s) : s[i] \in Byte
  BY SizeIsNat
<1>2. 4 \in 1 .. Size(s)
  BY <1>1
<1>3. s[4] \in Byte
  BY <1>1, <1>2
<1>4. \A k \in Byte : k \in Nat
  BY DEF Byte
<1> QED
  BY <1>3, <1>4

LEMMA SameBytes ==
  ASSUME NEW s \in Seq(Byte), NEW t \in Seq(Byte), Size(s) = Size(t),
         \A i \in 1 .. Size(s) : s[i] = t[i]
  PROVE  s = t
BY SeqEqual DEF Size

LEMMA Joined ==
  ASSUME NEW s \in Seq(Byte), NEW t \in Seq(Byte)
  PROVE  /\ s \o t \in Seq(Byte) /\ Size(s \o t) = Size(s) + Size(t)
         /\ \A i \in 1 .. Size(s) : (s \o t)[i] = s[i]
         /\ \A i \in 1 .. Size(t) : (s \o t)[Size(s) + i] = t[i]
BY DEF Size

LEMMA Appended ==
  ASSUME NEW s \in Seq(Byte), NEW b \in Byte
  PROVE  /\ Append(s, b) \in Seq(Byte) /\ Size(Append(s, b)) = Size(s) + 1
         /\ \A i \in 1 .. Size(s) : Append(s, b)[i] = s[i]
         /\ Append(s, b)[Size(s) + 1] = b
BY DEF Size

LEMMA Part ==
  ASSUME NEW s \in Seq(Byte), NEW m \in Nat, NEW n \in Nat, m + n <= Size(s)
  PROVE  /\ SubSeq(s, m + 1, m + n) \in Seq(Byte)
         /\ Size(SubSeq(s, m + 1, m + n)) = n
         /\ \A i \in 1 .. n : SubSeq(s, m + 1, m + n)[i] = s[m + i]
<1>1. Size(s) \in Nat /\ \A i \in 1 .. Size(s) : s[i] \in Byte
  BY SizeIsNat
<1>2. \A i \in m + 1 .. m + n : s[i] \in Byte
  BY <1>1
<1>3. m + 1 \in Int /\ m + n \in Int
  OBVIOUS
<1> DEFINE u == SubSeq(s, m + 1, m + n)
<1>4. /\ u \in Seq(Byte)
      /\ Size(u) = IF m + 1 <= m + n THEN m + n - (m + 1) + 1 ELSE 0
      /\ \A i \in 1 .. m + n - (m + 1) + 1 : u[i] = s[(m + 1) + i - 1]
  <2>1. /\ u \in Seq(Byte)
        /\ Len(u) = IF m + 1 <= m + n THEN m + n - (m + 1) + 1 ELSE 0
        /\ \A i \in 1 .. m + n - (m + 1) + 1 : u[i] = s[(m + 1) + i - 1]
    BY <1>2, <1>3, SubSeqProperties
  <2> QED
    BY <2>1, Zenon DEF Size
<1> HIDE DEF u
<1>5. Size(u) = n
  BY <1>4
<1>6. ASSUME NEW i \in 1 .. n PROVE u[i] = s[m + i]
  <2>1. i \in 1 .. m + n - (m + 1) + 1 /\ (m + 1) + i - 1 = m + i
    OBVIOUS
  <2> QED
    BY <1>4, <2>1
<1> QED
  BY <1>4, <1>5, <1>6 DEF u

LEMMA Unjoined ==
  ASSUME NEW s \in Seq(Byte), s # <<>>
  PROVE  /\ Head(s) \in Byte /\ Head(s) = s[1]
         /\ Tail(s) \in Seq(Byte) /\ Size(Tail(s)) = Size(s) - 1
         /\ \A i \in 1 .. Size(s) - 1 : Tail(s)[i] = s[i + 1]
BY HeadTailProperties DEF Size

-----------------------------------------------------------------------------
(* The frame of a packet.                                                  *)

\* What a payload must be for its length to fit the length byte.
Fits(p) == p \in Seq(Byte) /\ Size(p) \in 0 .. 253

LEMMA PayloadsFit ==
  ASSUME NEW p \in Payloads
  PROVE  Fits(p)
<1>1. p \in Seq(Byte)
  BY PayloadAssumption
<1>2. Size(p) <= 253
  BY PayloadAssumption, Zenon DEF Size
<1>3. Size(p) \in Nat
  BY <1>1, SizeIsNat
<1>4. \A k \in Nat : k <= 253 => k \in 0 .. 253
  OBVIOUS
<1> QED
  BY <1>1, <1>2, <1>3, <1>4, Zenon DEF Fits

\* Byte by byte, what CompressPacket writes.
LEMMA FrameShape ==
  ASSUME NEW info \in Byte, NEW p, Fits(p)
  PROVE  LET f == Compress(info, p)
             n == Size(p)
         IN  /\ f \in Seq(Byte) /\ Size(f) = n + 6
             /\ f[1] = Start /\ f[2] = Start /\ f[3] = IdDsp
             /\ f[4] = n + 2 /\ f[5] = info
             /\ \A i \in 1 .. n : f[5 + i] = p[i]
             /\ f[n + 6] = CheckSum(SubSeq(f, 3, n + 5))
<1> DEFINE n == Size(p)
           start == <<Start, Start>>
           head == <<IdDsp, n + 2, info>>
           body == head \o p
           sum == CheckSum(body)
           front == start \o body
           f == front \o <<sum>>
<1>1. p \in Seq(Byte) /\ n \in 0 .. 253
  BY DEF Fits
<1>2. Start \in Byte /\ IdDsp \in Byte /\ n + 2 \in Byte
  <2> HIDE DEF n
  <2> QED
    BY <1>1 DEF Byte, Start, IdDsp
<1>3. /\ start \in Seq(Byte) /\ Size(start) = 2
      /\ head \in Seq(Byte) /\ Size(head) = 3
  <2> HIDE DEF n
  <2> QED
    BY <1>2 DEF Size
<1>4. /\ start[1] = Start /\ start[2] = Start
      /\ head[1] = IdDsp /\ head[2] = n + 2 /\ head[3] = info
  OBVIOUS
<1>5. Compress(info, p) = f
  BY DEF Compress, Size
<1> HIDE DEF n, start, head
<1>6. /\ body \in Seq(Byte) /\ Size(body) = 3 + n
      /\ \A i \in 1 .. 3 : body[i] = head[i]
      /\ \A i \in 1 .. n : body[3 + i] = p[i]
  <2>1. /\ body \in Seq(Byte) /\ Size(body) = Size(head) + Size(p)
        /\ \A i \in 1 .. Size(head) : body[i] = head[i]
        /\ \A i \in 1 .. Size(p) : body[Size(head) + i] = p[i]
    BY <1>1, <1>3, Joined, Zenon
  <2> HIDE DEF body
  <2> QED
    BY <1>3, <2>1 DEF n
<1> HIDE DEF body
<1>7. sum \in Byte
  BY <1>6, ChecksumIsByte
<1> HIDE DEF sum
<1>8. /\ front \in Seq(Byte) /\ Size(front) = n + 5
      /\ front[1] = start[1] /\ front[2] = start[2]
      /\ \A i \in 1 .. n + 3 : front[2 + i] = body[i]
  <2>1. /\ front \in Seq(Byte) /\ Size(front) = Size(start) + Size(body)
        /\ \A i \in 1 .. Size(start) : front[i] = start[i]
        /\ \A i \in 1 .. Size(body) : front[Size(start) + i] = body[i]
    BY <1>3, <1>6, Joined, Zenon
  <2> HIDE DEF front
  <2> QED
    BY <1>1, <1>3, <1>6, <2>1
<1> HIDE DEF front
<1>9. /\ f \in Seq(Byte) /\ Size(f) = n + 6
      /\ \A i \in 1 .. n + 5 : f[i] = front[i]
      /\ f[n + 6] = sum
  <2>1. <<sum>> \in Seq(Byte) /\ Size(<<sum>>) = 1 /\ <<sum>>[1] = sum
    BY <1>7 DEF Size
  <2>2. /\ f \in Seq(Byte) /\ Size(f) = Size(front) + Size(<<sum>>)
        /\ \A i \in 1 .. Size(front) : f[i] = front[i]
        /\ \A i \in 1 .. Size(<<sum>>) : f[Size(front) + i] = <<sum>>[i]
    BY <1>8, <2>1, Joined, Zenon
  <2> HIDE DEF f
  <2>3. f[Size(front) + 1] = sum
    BY <2>1, <2>2
  <2>4. Size(front) + 1 = n + 6
    BY <1>1, <1>8
  <2> QED
    BY <1>8, <2>1, <2>2, <2>3, <2>4
<1> HIDE DEF f
<1>10. \A i \in 1 .. n + 3 : f[2 + i] = body[i]
  <2>1. \A i \in 1 .. n + 3 : 2 + i \in 1 .. n + 5
    BY <1>1
  <2> QED
    BY <1>8, <1>9, <2>1
<1>11. SubSeq(f, 3, n + 5) = body
  <2> DEFINE u == SubSeq(f, 2 + 1, 2 + (n + 3))
  <2>1. u \in Seq(Byte) /\ Size(u) = n + 3 /\ \A i \in 1 .. n + 3 : u[i] = f[2 + i]
    <3>1. 2 + (n + 3) <= Size(f) /\ 2 \in Nat /\ n + 3 \in Nat
      BY <1>1, <1>9
    <3> QED
      BY <1>9, <3>1, Part, Zenon
  <2>2. 2 + 1 = 3 /\ 2 + (n + 3) = n + 5 /\ 3 + n = n + 3
    BY <1>1
  <2>3. u = SubSeq(f, 3, n + 5)
    BY <2>2
  <2> HIDE DEF u
  <2>4. Size(u) = Size(body) /\ \A i \in 1 .. Size(u) : u[i] = body[i]
    BY <1>6, <1>10, <2>1, <2>2
  <2>5. u = body
    BY <1>6, <2>1, <2>4, SameBytes
  <2> QED
    BY <2>3, <2>5
<1>12. f[1] = Start /\ f[2] = Start
  <2>1. 1 \in 1 .. n + 5 /\ 2 \in 1 .. n + 5
    BY <1>1
  <2> QED
    BY <1>4, <1>8, <1>9, <2>1
<1>13. f[3] = IdDsp /\ f[4] = n + 2 /\ f[5] = info
  <2>1. 1 \in 1 .. n + 3 /\ 2 \in 1 .. n + 3 /\ 3 \in 1 .. n + 3
    BY <1>1
  <2>2. f[2 + 1] = head[1] /\ f[2 + 2] = head[2] /\ f[2 + 3] = head[3]
    BY <1>6, <1>10, <2>1
  <2> QED
    BY <1>4, <2>2
<1>14. ASSUME NEW i \in 1 .. n PROVE f[5 + i] = p[i]
  <2>1. 3 + i \in 1 .. n + 3 /\ 2 + (3 + i) = 5 + i
    BY <1>1
  <2>2. f[2 + (3 + i)] = body[3 + i]
    BY <1>10, <2>1
  <2> QED
    BY <1>6, <2>1, <2>2
<1>15. f[n + 6] = CheckSum(SubSeq(f, 3, n + 5))
  BY <1>9, <1>11 DEF sum
<1> QED
  BY <1>5, <1>9, <1>12, <1>13, <1>14, <1>15 DEF n

\* The codec inverts: PacketInterprete accepts what CompressPacket wrote, for
\* every info byte and every payload whose length fits its byte, and reads the
\* same info and the same parameters - header bytes among them or not.
THEOREM CodecInverts ==
  ASSUME NEW info \in Byte, NEW p, Fits(p)
  PROVE  LET f == Compress(info, p)
         IN  Interpretable(f) /\ Info(f) = info /\ Params(f) = p
<1> DEFINE f == Compress(info, p)
           n == Size(p)
<1>1. p \in Seq(Byte) /\ n \in 0 .. 253
  BY DEF Fits
<1>2. /\ f \in Seq(Byte) /\ Size(f) = n + 6
      /\ f[4] = n + 2 /\ f[5] = info
      /\ \A i \in 1 .. n : f[5 + i] = p[i]
      /\ f[n + 6] = CheckSum(SubSeq(f, 3, n + 5))
  BY FrameShape
<1> HIDE DEF f, n
<1>3. f[4] + 3 = n + 5 /\ f[4] + 4 = n + 6
  BY <1>1, <1>2
<1>4. Interpretable(f)
  BY <1>2, <1>3 DEF Interpretable
<1>5. Info(f) = info
  BY <1>2 DEF Info
<1>6. Params(f) = p
  <2> DEFINE u == SubSeq(f, 5 + 1, 5 + n)
  <2>1. u \in Seq(Byte) /\ Size(u) = n /\ \A i \in 1 .. n : u[i] = f[5 + i]
    <3>1. 5 + n <= Size(f) /\ 5 \in Nat /\ n \in Nat
      BY <1>1, <1>2
    <3> QED
      BY <1>2, <3>1, Part, Zenon
  <2>2. Params(f) = u
    <3>1. 5 + 1 = 6 /\ 5 + n = n + 5
      BY <1>1
    <3> QED
      BY <1>3, <3>1 DEF Params
  <2> HIDE DEF u
  <2>3. u = p
    BY <1>1, <1>2, <2>1, SameBytes DEF n
  <2> QED
    BY <2>2, <2>3
<1> QED
  BY <1>4, <1>5, <1>6 DEF f

-----------------------------------------------------------------------------
(* What one byte does to packetBuffer.                                     *)

LEMMA CompletesWhen ==
  ASSUME NEW b
  PROVE  Completes(b) <=> Size(buf) >= 5 /\ Size(buf) = buf[4] + 3
BY Zenon DEF Completes, LastIndex, Size

LEMMA CollectWhen ==
  ASSUME NEW b, buf \in Seq(Byte)
  PROVE  /\ Size(buf) >= 5 /\ Size(buf) = buf[4] + 3 => Collect(b) = <<>>
         /\ Size(buf) >= 5 /\ Size(buf) < buf[4] + 3 => Collect(b) = Append(buf, b)
         /\ Size(buf) >= 5 /\ Size(buf) > buf[4] + 3 => Collect(b) = buf
         /\ Size(buf) \in {3, 4} => Collect(b) = Append(buf, b)
         /\ Size(buf) = 2 =>
              Collect(b) = IF b = IdDsp THEN Append(buf, b) ELSE <<>>
         /\ Size(buf) \in {0, 1} =>
              Collect(b) = IF b = Start THEN Append(buf, b) ELSE <<>>
<1> DEFINE n == Size(buf)
           last == buf[4] + 3
<1>1. Collect(b) =
        CASE n >= 5 /\ n = last -> <<>>
          [] n >= 5 /\ n < last -> Append(buf, b)
          [] n >= 5 /\ n > last -> buf
          [] n \in {3, 4} -> Append(buf, b)
          [] n = 2 -> IF b = IdDsp THEN Append(buf, b) ELSE <<>>
          [] OTHER -> IF b = Start THEN Append(buf, b) ELSE <<>>
  BY Zenon DEF Collect, Completes, LastIndex, Size
<1>2. n \in Nat /\ (n >= 5 => last \in Nat)
  <2>1. n \in Nat /\ (n >= 4 => buf[4] \in Nat)
    BY SizeIsNat, FourthByte
  <2> HIDE DEF n
  <2> QED
    BY <2>1
<1> DEFINE keep == Append(buf, b)
           asId == IF b = IdDsp THEN keep ELSE <<>>
           asStart == IF b = Start THEN keep ELSE <<>>
<1>3. Collect(b) =
        CASE n >= 5 /\ n = last -> <<>>
          [] n >= 5 /\ n < last -> keep
          [] n >= 5 /\ n > last -> buf
          [] n \in {3, 4} -> keep
          [] n = 2 -> asId
          [] OTHER -> asStart
  BY <1>1, Zenon
<1> HIDE DEF n, last, keep, asId, asStart
<1>4. /\ n >= 5 /\ n = last => Collect(b) = <<>>
      /\ n >= 5 /\ n < last => Collect(b) = keep
      /\ n >= 5 /\ n > last => Collect(b) = buf
      /\ n \in {3, 4} => Collect(b) = keep
      /\ n = 2 => Collect(b) = asId
      /\ n \in {0, 1} => Collect(b) = asStart
  BY <1>2, <1>3
<1> QED
  BY <1>4, Zenon DEF n, last, keep, asId, asStart

-----------------------------------------------------------------------------
(* Types.  Once the length byte is there packetBuffer never grows past the *)
(* end it announces - unless that end is behind it already.                *)

BufShape == Size(buf) > 5 => Size(buf) <= buf[4] + 3

Types ==
  /\ buf \in Seq(Byte) /\ BufShape
  /\ out \in Seq(Byte) /\ ok \in BOOLEAN
  /\ phase \in {"idle", "reading"}
  /\ wire \in Seq(Byte)
  /\ sent \in Payloads \cup {<<>>} /\ (phase = "reading" => sent \in Payloads)
  /\ hurt \in BOOLEAN /\ inSync \in BOOLEAN /\ faults \in 0 .. MaxFaults

LEMMA TypesGiveTypeOK == Types => TypeOK
<1>1. SUFFICES ASSUME Types PROVE TypeOK
  OBVIOUS
<1>2. Size(buf) \in Nat /\ \A i \in 1 .. Size(buf) : buf[i] \in Byte
  BY <1>1, SizeIsNat DEF Types
<1>3. Size(buf) < BufferSize
  <2>1. BufShape
    BY <1>1 DEF Types
  <2> QED
    BY <1>2, <2>1 DEF BufShape, BufferSize, Byte
<1>4. Len(buf) < BufferSize
  BY <1>3, Zenon DEF Size
<1> QED
  BY <1>1, <1>4, Zenon DEF Types, TypeOK

LEMMA TypesInit == Init => Types
<1>1. SUFFICES ASSUME Init PROVE Types
  OBVIOUS
<1>2. buf \in Seq(Byte) /\ Size(buf) = 0 /\ wire \in Seq(Byte) /\ out \in Seq(Byte)
  BY <1>1, EmptySize DEF Init
<1>3. BufShape
  BY <1>2 DEF BufShape
<1>4. faults \in 0 .. MaxFaults
  BY <1>1, FaultAssumption DEF Init
<1>5. /\ ok \in BOOLEAN /\ hurt \in BOOLEAN /\ inSync \in BOOLEAN
      /\ phase \in {"idle", "reading"} /\ phase # "reading"
  BY <1>1 DEF Init
<1>6. sent \in Payloads \cup {<<>>}
  BY <1>1, Zenon DEF Init
<1> QED
  BY <1>2, <1>3, <1>4, <1>5, <1>6, Zenon DEF Types

LEMMA CollectKeepsShape ==
  ASSUME buf \in Seq(Byte), BufShape, NEW b \in Byte, buf' = Collect(b)
  PROVE  buf' \in Seq(Byte) /\ BufShape'
<1> DEFINE n == Size(buf)
           longer == Append(buf, b)
<1>1. n \in Nat /\ \A i \in 1 .. n : buf[i] \in Byte
  BY SizeIsNat
<1>2. /\ longer \in Seq(Byte) /\ Size(longer) = n + 1
      /\ \A i \in 1 .. n : longer[i] = buf[i]
  BY Appended
<1>3. <<>> \in Seq(Byte) /\ Size(<<>>) = 0
  BY EmptySize
<1>4. buf' \in {<<>>, buf, longer} /\ (buf' = longer => n < 5 \/ n < buf[4] + 3)
  <2>1. n >= 5 => buf[4] \in Nat
    BY <1>1, FourthByte
  <2>2. n \in {0, 1} \/ n = 2 \/ n \in {3, 4} \/ n >= 5
    <3> HIDE DEF n
    <3> QED
      BY <1>1
  <2>3. /\ n >= 5 /\ n = buf[4] + 3 => Collect(b) = <<>>
        /\ n >= 5 /\ n < buf[4] + 3 => Collect(b) = longer
        /\ n >= 5 /\ n > buf[4] + 3 => Collect(b) = buf
        /\ n \in {3, 4} => Collect(b) = longer
        /\ n = 2 => Collect(b) = IF b = IdDsp THEN longer ELSE <<>>
        /\ n \in {0, 1} => Collect(b) = IF b = Start THEN longer ELSE <<>>
    BY CollectWhen
  <2>4. longer # <<>> /\ longer # buf
    BY <1>1, <1>2, <1>3
  <2> HIDE DEF n, longer
  <2> QED
    BY <1>1, <2>1, <2>2, <2>3, <2>4
<1>5. CASE buf' = <<>>
  BY <1>3, <1>5 DEF BufShape
<1>6. CASE buf' = buf
  BY <1>6 DEF BufShape
<1>7. CASE buf' = longer
  <2>1. n < 5 \/ n < buf[4] + 3
    BY <1>4, <1>7
  <2>2. Size(buf') = n + 1 /\ (n >= 5 => buf'[4] = buf[4])
    <3>1. n >= 5 => 4 \in 1 .. n
      BY <1>1
    <3>2. n >= 5 => longer[4] = buf[4]
      <4> HIDE DEF n, longer
      <4> QED
        BY <1>2, <3>1
    <3> QED
      BY <1>2, <1>7, <3>2
  <2>3. n >= 5 => buf[4] \in Nat
    BY <1>1, FourthByte
  <2>4. Size(buf') > 5 => Size(buf') <= buf'[4] + 3
    BY <1>1, <2>1, <2>2, <2>3
  <2> QED
    BY <1>2, <1>7, <2>4 DEF BufShape
<1> QED
  BY <1>4, <1>5, <1>6, <1>7

\* One byte received, from any state of the parser.
LEMMA TypesReceiveByte ==
  ASSUME Types, ReceiveByte
  PROVE  Types'
<1> DEFINE b == Head(wire)
           frame == Append(buf, b)
           accepted == Completes(b) /\ Interpretable(frame)
<1>1. /\ wire # <<>>
      /\ buf' = Collect(b) /\ ok' = (ok \/ accepted)
      /\ out' = IF accepted /\ Info(frame) = StateSwap THEN Params(frame) ELSE out
      /\ wire' = Tail(wire) /\ UNCHANGED <<phase, sent, hurt, inSync, faults>>
  BY Zenon DEF ReceiveByte
<1>2. b \in Byte /\ wire' \in Seq(Byte)
  BY <1>1, Unjoined DEF Types
<1>3. buf' \in Seq(Byte) /\ BufShape'
  <2>1. buf' = Collect(b) /\ buf \in Seq(Byte) /\ BufShape
    BY <1>1 DEF Types
  <2> HIDE DEF b
  <2> QED
    BY <1>2, <2>1, CollectKeepsShape
<1>4. Completes(b) => Params(frame) \in Seq(Byte)
  <2> SUFFICES ASSUME Completes(b) PROVE Params(frame) \in Seq(Byte)
    OBVIOUS
  <2>1. buf \in Seq(Byte) /\ Size(buf) >= 5 /\ Size(buf) = buf[4] + 3
    BY CompletesWhen DEF Types
  <2>2. /\ frame \in Seq(Byte) /\ Size(frame) = Size(buf) + 1
        /\ \A i \in 1 .. Size(buf) : frame[i] = buf[i]
    <3> HIDE DEF b
    <3> QED
      BY <1>2, <2>1, Appended
  <2>3. Size(buf) \in Nat /\ buf[4] \in Nat
    BY <2>1, SizeIsNat, FourthByte
  <2> HIDE DEF frame
  <2>4. 4 \in 1 .. Size(buf)
    BY <2>1, <2>3
  <2>5. frame[4] = buf[4]
    BY <2>2, <2>4
  <2> DEFINE n == buf[4] - 2
             u == SubSeq(frame, 5 + 1, 5 + n)
  <2>6. n \in Nat /\ 5 + n <= Size(frame) /\ 5 \in Nat
    BY <2>1, <2>2, <2>3
  <2>7. u \in Seq(Byte)
    <3> HIDE DEF n
    <3> QED
      BY <2>2, <2>6, Part
  <2>8. Params(frame) = u
    <3>1. 5 + 1 = 6 /\ 5 + n = buf[4] + 3
      BY <2>3
    <3> QED
      BY <2>5, <3>1 DEF Params
  <2> QED
    BY <2>7, <2>8, Zenon
<1>5. out' \in Seq(Byte)
  BY <1>1, <1>4, Zenon DEF Types
<1>6. ok' \in BOOLEAN
  BY <1>1, Zenon DEF Types
<1> QED
  BY <1>1, <1>2, <1>3, <1>5, <1>6, Zenon DEF Types

LEMMA TypesNext == Types /\ [Next]_vars => Types'
<1> SUFFICES ASSUME Types, [Next]_vars PROVE Types'
  OBVIOUS
<1> USE DEF Types
<1>1. ASSUME NEW p \in Payloads, StartCycle(p) PROVE Types'
  <2>1. wire' \in Seq(Byte)
    <3>1. StateSwap \in Byte
      BY NoiseAssumption
    <3>2. Compress(StateSwap, p) \in Seq(Byte)
      BY <3>1, PayloadsFit, FrameShape
    <3> QED
      BY <1>1, <3>2 DEF StartCycle
  <2>2. /\ ok' = FALSE /\ hurt' = FALSE /\ inSync' = (buf = <<>>)
        /\ phase' = "reading" /\ sent' = p /\ UNCHANGED <<buf, out, faults>>
    BY <1>1 DEF StartCycle
  <2>3. ok' \in BOOLEAN /\ hurt' \in BOOLEAN /\ inSync' \in BOOLEAN
    BY <2>2, Zenon
  <2>4. BufShape'
    BY <2>2 DEF BufShape
  <2> QED
    BY <2>1, <2>2, <2>3, <2>4, Zenon
<1>2. CASE ReceiveByte
  BY <1>2, TypesReceiveByte
<1>3. CASE EndCycle
  <2>1. phase' = "idle" /\ UNCHANGED <<buf, out, ok, wire, sent, hurt, inSync, faults>>
    BY <1>3 DEF EndCycle
  <2>2. BufShape'
    BY <2>1 DEF BufShape
  <2> QED
    BY <2>1, <2>2
<1>4. CASE LoseByte
  <2>1. /\ wire # <<>> /\ faults < MaxFaults
        /\ wire' = Tail(wire) /\ hurt' = TRUE /\ faults' = faults + 1
        /\ UNCHANGED <<buf, out, ok, phase, sent, inSync>>
    BY <1>4 DEF LoseByte
  <2>2. wire' \in Seq(Byte)
    BY <2>1, Unjoined
  <2>3. faults' \in 0 .. MaxFaults
    BY <2>1, FaultAssumption
  <2>4. BufShape'
    BY <2>1 DEF BufShape
  <2> QED
    BY <2>1, <2>2, <2>3, <2>4, Zenon
<1>5. ASSUME NEW b \in NoiseBytes, AlterByte(b) PROVE Types'
  <2>1. /\ wire # <<>> /\ faults < MaxFaults
        /\ wire' = <<b>> \o Tail(wire) /\ hurt' = TRUE /\ faults' = faults + 1
        /\ UNCHANGED <<buf, out, ok, phase, sent, inSync>>
    BY <1>5 DEF AlterByte
  <2>2. wire' \in Seq(Byte)
    <3>1. b \in Byte /\ Tail(wire) \in Seq(Byte)
      BY <2>1, NoiseAssumption, Unjoined
    <3>2. <<b>> \in Seq(Byte)
      BY <3>1
    <3> QED
      BY <2>1, <3>1, <3>2, Joined
  <2>3. faults' \in 0 .. MaxFaults
    BY <2>1, FaultAssumption
  <2>4. BufShape'
    BY <2>1 DEF BufShape
  <2> QED
    BY <2>1, <2>2, <2>3, <2>4, Zenon
<1>6. CASE UNCHANGED vars
  <2>1. UNCHANGED <<buf, out, ok, phase, wire, sent, hurt, inSync, faults>>
    BY <1>6 DEF vars
  <2>2. BufShape'
    BY <2>1 DEF BufShape
  <2> QED
    BY <2>1, <2>2
<1> QED
  BY <1>1, <1>2, <1>3, <1>4, <1>5, <1>6 DEF Next

\* The types, and that a buffer past its length byte never runs past the frame's
\* end: what every other theorem of the module starts from.
THEOREM TypesAlways == Spec => []Types
<1> QED
  BY TypesInit, TypesNext, PTL DEF Spec

\* PacketReconstrct writes packetBuffer[uiNumReceived++] without a bound: it
\* stays inside its 260 bytes whatever the line delivers, every length byte,
\* every lost or altered byte and every rest of an old frame included.
THEOREM TypeCorrect == Spec => []TypeOK
<1> QED
  BY TypesAlways, TypesGiveTypeOK, PTL

-----------------------------------------------------------------------------
(* A whole reply is delivered.  While it is being read, what packetBuffer  *)
(* has of it and what is still to come make up the frame the DSP sent.     *)

Reading(p) == buf \o wire = Compress(StateSwap, p)

Whole ==
  phase = "reading" /\ inSync /\ ~hurt =>
    IF wire = <<>> THEN ok /\ out = sent
                   ELSE Reading(sent)

LEMMA ByteMoves ==
  ASSUME NEW s \in Seq(Byte), NEW t \in Seq(Byte), t # <<>>
  PROVE  Append(s, Head(t)) \o Tail(t) = s \o t
<1>1. Head(t) \in Byte /\ Tail(t) \in Seq(Byte) /\ t = <<Head(t)>> \o Tail(t)
  BY HeadTailProperties
<1>2. <<Head(t)>> \in Seq(Byte)
  BY <1>1
<1>3. Append(s, Head(t)) = s \o <<Head(t)>>
  BY <1>1, AppendIsConcat
<1>4. (s \o <<Head(t)>>) \o Tail(t) = s \o (<<Head(t)>> \o Tail(t))
  BY <1>1, <1>2, ConcatAssociative
<1> QED
  BY <1>1, <1>3, <1>4, Zenon

\* A parser that has the first bytes of a frame takes the next one: the last
\* byte completes the frame, any other is kept.
LEMMA FrameIsTaken ==
  ASSUME NEW p, Fits(p), StateSwap \in Byte,
         buf \in Seq(Byte), wire \in Seq(Byte), wire # <<>>, Reading(p)
  PROVE  LET b == Head(wire)
             frame == Append(buf, b)
         IN  \/ /\ Tail(wire) = <<>>
                /\ Completes(b) /\ Interpretable(frame)
                /\ Info(frame) = StateSwap /\ Params(frame) = p
             \/ /\ Tail(wire) # <<>> /\ Collect(b) = frame
                /\ frame \o Tail(wire) = Compress(StateSwap, p)
<1> DEFINE b == Head(wire)
           frame == Append(buf, b)
           f == Compress(StateSwap, p)
           k == Size(buf)
           n == Size(p)
<1>1. n \in Nat /\ k \in Nat /\ Size(wire) \in Nat
  BY SizeIsNat DEF Fits
<1>2. /\ f \in Seq(Byte) /\ Size(f) = n + 6
      /\ f[1] = Start /\ f[2] = Start /\ f[3] = IdDsp /\ f[4] = n + 2
  BY FrameShape
<1>3. Size(wire) # 0
  BY EmptySize
<1>4. /\ b \in Byte /\ b = wire[1] /\ Tail(wire) \in Seq(Byte)
      /\ Size(Tail(wire)) = Size(wire) - 1
  BY Unjoined
<1>5. /\ Size(f) = k + Size(wire)
      /\ \A i \in 1 .. k : f[i] = buf[i]
      /\ \A i \in 1 .. Size(wire) : f[k + i] = wire[i]
  <2> DEFINE g == buf \o wire
  <2>1. /\ Size(g) = k + Size(wire)
        /\ \A i \in 1 .. k : g[i] = buf[i]
        /\ \A i \in 1 .. Size(wire) : g[k + i] = wire[i]
    BY Joined
  <2>2. f = g
    BY Zenon DEF Reading
  <2> HIDE DEF f, g
  <2> QED
    BY <2>1, <2>2, Zenon
<1>6. frame \o Tail(wire) = f
  BY ByteMoves, Zenon DEF Reading
<1>7. /\ k >= 5 /\ k = buf[4] + 3 => Collect(b) = <<>>
      /\ k >= 5 /\ k < buf[4] + 3 => Collect(b) = frame
      /\ k \in {3, 4} => Collect(b) = frame
      /\ k = 2 => Collect(b) = IF b = IdDsp THEN frame ELSE <<>>
      /\ k \in {0, 1} => Collect(b) = IF b = Start THEN frame ELSE <<>>
  BY CollectWhen
<1>8. Completes(b) <=> k >= 5 /\ k = buf[4] + 3
  BY CompletesWhen
<1>9. Tail(wire) = <<>> <=> Size(wire) = 1
  <2>1. Tail(wire) = <<>> <=> Size(Tail(wire)) = 0
    BY <1>4, EmptySize, Zenon
  <2>2. Size(wire) - 1 = 0 <=> Size(wire) = 1
    BY <1>1
  <2> QED
    BY <1>4, <2>1, <2>2, Zenon
<1> HIDE DEF b, f, k, n
<1>10. f[k + 1] = b
  <2>1. 1 \in 1 .. Size(wire)
    BY <1>1, <1>3
  <2> QED
    BY <1>4, <1>5, <2>1
<1>11. k >= 5 => buf[4] = n + 2
  <2>1. k >= 5 => 4 \in 1 .. k
    BY <1>1
  <2> QED
    BY <1>2, <1>5, <2>1
<1>12. k + Size(wire) = n + 6
  BY <1>2, <1>5
<1>13. CASE Size(wire) = 1
  <2>1. k = n + 5
    BY <1>1, <1>12, <1>13
  <2>2. Completes(b)
    BY <1>1, <1>8, <1>11, <2>1
  <2>3. Tail(wire) = <<>>
    BY <1>9, <1>13
  <2>4. frame = f
    <3>1. frame \in Seq(Byte)
      BY <1>4, Appended
    <3> HIDE DEF frame
    <3>2. frame \o <<>> = frame
      BY <3>1, ConcatEmptySeq
    <3> QED
      BY <1>6, <2>3, <3>2, Zenon
  <2>5. Interpretable(f) /\ Info(f) = StateSwap /\ Params(f) = p
    BY CodecInverts DEF f
  <2> HIDE DEF frame
  <2>6. /\ Tail(wire) = <<>> /\ Completes(b) /\ Interpretable(frame)
        /\ Info(frame) = StateSwap /\ Params(frame) = p
    BY <2>2, <2>3, <2>4, <2>5, Zenon
  <2> QED
    BY <2>6, Zenon DEF frame, b
<1>14. CASE Size(wire) # 1
  <2>1. k < n + 5
    BY <1>1, <1>3, <1>12, <1>14
  <2>2. Collect(b) = frame
    <3> HIDE DEF frame
    <3>1. CASE k >= 5
      BY <1>1, <1>7, <1>11, <2>1, <3>1
    <3>2. CASE k \in {3, 4}
      BY <1>7, <3>2
    <3>3. CASE k = 2
      <4>1. b = IdDsp
        BY <1>2, <1>10, <3>3
      <4> QED
        BY <1>7, <3>3, <4>1
    <3>4. CASE k \in {0, 1}
      <4>1. k + 1 \in {1, 2}
        BY <3>4
      <4>2. b = Start
        BY <1>2, <1>10, <4>1
      <4> QED
        BY <1>7, <3>4, <4>2
    <3> QED
      BY <1>1, <3>1, <3>2, <3>3, <3>4
  <2>3. Tail(wire) # <<>>
    BY <1>9, <1>14
  <2> HIDE DEF frame
  <2>4. Tail(wire) # <<>> /\ Collect(b) = frame /\ frame \o Tail(wire) = f
    BY <1>6, <2>2, <2>3, Zenon DEF frame
  <2> QED
    BY <2>4, Zenon DEF frame, b, f
<1> QED
  BY <1>13, <1>14

LEMMA WholeReceiveByte ==
  ASSUME Types, Whole, ReceiveByte
  PROVE  Whole'
<1> DEFINE b == Head(wire)
           frame == Append(buf, b)
           accepted == Completes(b) /\ Interpretable(frame)
<1>1. /\ phase = "reading" /\ wire # <<>>
      /\ buf' = Collect(b) /\ ok' = (ok \/ accepted)
      /\ out' = IF accepted /\ Info(frame) = StateSwap THEN Params(frame) ELSE out
      /\ wire' = Tail(wire) /\ UNCHANGED <<phase, sent, hurt, inSync, faults>>
  BY Zenon DEF ReceiveByte
<1>2. SUFFICES ASSUME inSync, ~hurt
               PROVE  IF wire' = <<>> THEN ok' /\ out' = sent'
                      ELSE buf' \o wire' = Compress(StateSwap, sent')
  BY <1>1, Zenon DEF Whole, Reading
<1>3. Reading(sent)
  BY <1>1, <1>2, Zenon DEF Whole
<1>4. /\ Fits(sent) /\ StateSwap \in Byte
      /\ buf \in Seq(Byte) /\ wire \in Seq(Byte)
  BY <1>1, PayloadsFit, NoiseAssumption DEF Types
<1>5. \/ /\ Tail(wire) = <<>>
         /\ Completes(b) /\ Interpretable(frame)
         /\ Info(frame) = StateSwap /\ Params(frame) = sent
      \/ /\ Tail(wire) # <<>> /\ Collect(b) = frame
         /\ frame \o Tail(wire) = Compress(StateSwap, sent)
  BY <1>1, <1>3, <1>4, FrameIsTaken, Zenon
<1>6. CASE Tail(wire) = <<>>
  <2>1. accepted /\ Info(frame) = StateSwap /\ Params(frame) = sent
    BY <1>5, <1>6, Zenon
  <2>2. ok' /\ out' = sent' /\ wire' = <<>>
    BY <1>1, <1>6, <2>1, Zenon
  <2> QED
    BY <2>2, Zenon
<1>7. CASE Tail(wire) # <<>>
  <2>1. /\ buf' = frame /\ wire' = Tail(wire) /\ sent' = sent
        /\ frame \o Tail(wire) = Compress(StateSwap, sent)
    BY <1>1, <1>5, <1>7, Zenon
  <2> QED
    BY <1>7, <2>1, Zenon
<1> QED
  BY <1>6, <1>7, Zenon

LEMMA WholeNext == Types /\ Whole /\ [Next]_vars => Whole'
<1> SUFFICES ASSUME Types, Whole, [Next]_vars PROVE Whole'
  OBVIOUS
<1>1. ASSUME NEW p \in Payloads, StartCycle(p) PROVE Whole'
  <2>1. /\ wire' = Compress(StateSwap, p) /\ inSync' = (buf = <<>>)
        /\ sent' = p /\ buf' = buf
    BY <1>1, Zenon DEF StartCycle
  <2>2. /\ Fits(p) /\ StateSwap \in Byte
    BY PayloadsFit, NoiseAssumption
  <2>3. /\ Compress(StateSwap, p) \in Seq(Byte)
        /\ Size(Compress(StateSwap, p)) = Size(p) + 6
    BY <2>2, FrameShape
  <2>4. Compress(StateSwap, p) # <<>>
    <3>1. Size(p) \in Nat
      BY <2>2, SizeIsNat DEF Fits
    <3>2. Size(p) + 6 # 0
      BY <3>1
    <3> QED
      BY <2>3, <3>2, EmptySize, Zenon
  <2>5. <<>> \o Compress(StateSwap, p) = Compress(StateSwap, p)
    BY <2>3, ConcatEmptySeq, Zenon
  <2> QED
    BY <2>1, <2>4, <2>5, Zenon DEF Whole, Reading
<1>2. CASE ReceiveByte
  BY <1>2, WholeReceiveByte
<1>3. CASE EndCycle
  BY <1>3 DEF EndCycle, Whole, Reading
<1>4. CASE LoseByte
  BY <1>4 DEF LoseByte, Whole, Reading
<1>5. ASSUME NEW b \in NoiseBytes, AlterByte(b) PROVE Whole'
  BY <1>5 DEF AlterByte, Whole, Reading
<1>6. CASE UNCHANGED vars
  <2>1. UNCHANGED <<buf, out, ok, phase, wire, sent, hurt, inSync, faults>>
    BY <1>6 DEF vars
  <2> QED
    BY <2>1, Zenon DEF Whole, Reading
<1> QED
  BY <1>1, <1>2, <1>3, <1>4, <1>5, <1>6 DEF Next

\* A reply no byte of which was lost or altered, read by a parser that is
\* between frames, is accepted and copied unchanged: for every payload whose
\* length fits its byte and whatever header bytes it holds.
THEOREM WholeReplyDeliveredAlways == Spec => []WholeReplyDelivered
<1>1. Init => Whole
  BY DEF Init, Whole
<1>2. Whole => WholeReplyDelivered
  BY DEF Whole, WholeReplyDelivered
<1> QED
  BY <1>1, <1>2, TypesAlways, WholeNext, PTL DEF Spec

-----------------------------------------------------------------------------
(* A wedged parser.                                                        *)

\* A length byte of 0 or 1 ends the link for good: from then on no byte, no
\* new cycle and no timeout changes packetBuffer, and no frame is accepted.
THEOREM WedgedForGood ==
  Spec => [][Wedged => buf' = buf /\ out' = out /\ (ok' => ok)]_vars
<1>1. ASSUME Types, [Next]_vars, Wedged
      PROVE  buf' = buf /\ out' = out /\ (ok' => ok)
  <2>1. Size(buf) >= 5 /\ Size(buf) > buf[4] + 3
    BY <1>1, Zenon DEF Wedged, LastIndex, Size
  <2>2. buf \in Seq(Byte) /\ Size(buf) \in Nat /\ buf[4] \in Nat
    BY <1>1, <2>1, SizeIsNat, FourthByte DEF Types
  <2>3. CASE ReceiveByte
    <3> DEFINE b == Head(wire)
    <3>1. Size(buf) # buf[4] + 3
      BY <2>1, <2>2
    <3>2. ~ Completes(b)
      BY <3>1, CompletesWhen
    <3>3. Collect(b) = buf
      BY <2>1, <2>2, CollectWhen
    <3> QED
      BY <2>3, <3>2, <3>3, Zenon DEF ReceiveByte
  <2>4. CASE EndCycle
    BY <2>4 DEF EndCycle
  <2>5. CASE LoseByte
    BY <2>5 DEF LoseByte
  <2>6. ASSUME NEW b \in NoiseBytes, AlterByte(b)
        PROVE  buf' = buf /\ out' = out /\ (ok' => ok)
    BY <2>6 DEF AlterByte
  <2>7. ASSUME NEW p \in Payloads, StartCycle(p)
        PROVE  buf' = buf /\ out' = out /\ (ok' => ok)
    BY <2>7 DEF StartCycle
  <2>8. CASE UNCHANGED vars
    BY <2>8 DEF vars
  <2> QED
    BY <1>1, <2>3, <2>4, <2>5, <2>6, <2>7, <2>8 DEF Next
<1>2. Types /\ [Next]_vars
        => [Wedged => buf' = buf /\ out' = out /\ (ok' => ok)]_vars
  BY <1>1
<1> QED
  BY <1>2, TypesAlways, PTL DEF Spec

\* A parser that is not wedged is never stuck: every byte lengthens packetBuffer
\* or empties it, and as TypeCorrect bounds its length, at most 260 bytes lie
\* between two moments at which it is empty.
THEOREM BytesMoveIt ==
  Spec => [][ReceiveByte /\ ~Wedged => buf' = <<>> \/ Len(buf') = Len(buf) + 1]_vars
<1>1. ASSUME Types, ReceiveByte, ~Wedged
      PROVE  buf' = <<>> \/ Len(buf') = Len(buf) + 1
  <2> DEFINE b == Head(wire)
             frame == Append(buf, b)
             k == Size(buf)
  <2>1. buf' = Collect(b) /\ b \in Byte /\ buf \in Seq(Byte)
    BY <1>1, Unjoined DEF ReceiveByte, Types
  <2>2. ~ (k >= 5 /\ k > buf[4] + 3)
    BY <1>1, Zenon DEF Wedged, LastIndex, Size
  <2>3. k \in Nat /\ (k >= 5 => buf[4] \in Nat)
    BY <2>1, SizeIsNat, FourthByte
  <2>4. Size(frame) = k + 1
    <3> HIDE DEF b
    <3> QED
      BY <2>1, Appended
  <2>5. /\ k >= 5 /\ k = buf[4] + 3 => Collect(b) = <<>>
        /\ k >= 5 /\ k < buf[4] + 3 => Collect(b) = frame
        /\ k \in {3, 4} => Collect(b) = frame
        /\ k = 2 => Collect(b) = IF b = IdDsp THEN frame ELSE <<>>
        /\ k \in {0, 1} => Collect(b) = IF b = Start THEN frame ELSE <<>>
    BY <2>1, CollectWhen
  <2> HIDE DEF frame, k, b
  <2>6. Collect(b) = <<>> \/ Collect(b) = frame
    BY <2>2, <2>3, <2>5
  <2> QED
    BY <2>1, <2>4, <2>6, Zenon DEF k, Size
<1>2. Types => [ReceiveByte /\ ~Wedged => buf' = <<>> \/ Len(buf') = Len(buf) + 1]_vars
  BY <1>1
<1> QED
  BY <1>2, TypesAlways, PTL

-----------------------------------------------------------------------------
(* A line without faults.  The parser and the DSP stay in step from one    *)
(* cycle to the next: what is left in packetBuffer is always a part of the *)
(* reply that is being read, and nothing is left when it has been.         *)

InStep ==
  faults = 0 =>
    /\ inSync /\ ~hurt
    /\ phase = "idle" => buf = <<>>
    /\ phase = "reading" =>
         IF wire = <<>> THEN buf = <<>> /\ ok /\ out = sent
                        ELSE ~ok /\ Reading(sent)

LEMMA InStepReceiveByte ==
  ASSUME Types, InStep, ReceiveByte
  PROVE  InStep'
<1> DEFINE b == Head(wire)
           frame == Append(buf, b)
           accepted == Completes(b) /\ Interpretable(frame)
<1>1. /\ phase = "reading" /\ wire # <<>>
      /\ buf' = Collect(b) /\ ok' = (ok \/ accepted)
      /\ out' = IF accepted /\ Info(frame) = StateSwap THEN Params(frame) ELSE out
      /\ wire' = Tail(wire) /\ UNCHANGED <<phase, sent, hurt, inSync, faults>>
  BY Zenon DEF ReceiveByte
<1>2. SUFFICES ASSUME faults = 0
               PROVE  IF wire' = <<>> THEN buf' = <<>> /\ ok' /\ out' = sent'
                      ELSE ~ok' /\ buf' \o wire' = Compress(StateSwap, sent')
  BY <1>1, Zenon DEF InStep, Reading
<1>3. ~ok /\ Reading(sent)
  BY <1>1, <1>2, Zenon DEF InStep
<1>4. /\ Fits(sent) /\ StateSwap \in Byte
      /\ buf \in Seq(Byte) /\ wire \in Seq(Byte)
  BY <1>1, PayloadsFit, NoiseAssumption DEF Types
<1>5. \/ /\ Tail(wire) = <<>>
         /\ Completes(b) /\ Interpretable(frame)
         /\ Info(frame) = StateSwap /\ Params(frame) = sent
      \/ /\ Tail(wire) # <<>> /\ Collect(b) = frame
         /\ frame \o Tail(wire) = Compress(StateSwap, sent)
  BY <1>1, <1>3, <1>4, FrameIsTaken, Zenon
<1>6. Completes(b) => Collect(b) = <<>>
  BY <1>4, CompletesWhen, CollectWhen
<1>7. CASE Tail(wire) = <<>>
  <2>1. accepted /\ Info(frame) = StateSwap /\ Params(frame) = sent /\ Completes(b)
    BY <1>5, <1>7, Zenon
  <2>2. buf' = <<>> /\ ok' /\ out' = sent' /\ wire' = <<>>
    BY <1>1, <1>6, <1>7, <2>1, Zenon
  <2> QED
    BY <2>2, Zenon
<1>8. CASE Tail(wire) # <<>>
  <2>1. /\ buf' = frame /\ wire' = Tail(wire) /\ sent' = sent
        /\ frame \o Tail(wire) = Compress(StateSwap, sent)
    BY <1>1, <1>5, <1>8, Zenon
  <2>2. frame # <<>>
    <3>1. b \in Byte
      BY <1>1, <1>4, Unjoined
    <3> HIDE DEF b
    <3>2. frame \in Seq(Byte) /\ Size(frame) = Size(buf) + 1 /\ Size(buf) \in Nat
      BY <1>4, <3>1, Appended, SizeIsNat
    <3> HIDE DEF frame
    <3> QED
      BY <3>2, EmptySize
  <2>3. ~Completes(b)
    BY <1>5, <1>6, <1>8, <2>2, Zenon
  <2> QED
    BY <1>1, <1>3, <1>8, <2>1, <2>3, Zenon
<1> QED
  BY <1>7, <1>8, Zenon

LEMMA InStepNext == Types /\ InStep /\ [Next]_vars => InStep'
<1> SUFFICES ASSUME Types, InStep, [Next]_vars PROVE InStep'
  OBVIOUS
<1>1. ASSUME NEW p \in Payloads, StartCycle(p) PROVE InStep'
  <2>1. /\ phase = "idle" /\ phase' = "reading" /\ ~ok' /\ ~hurt'
        /\ wire' = Compress(StateSwap, p) /\ inSync' = (buf = <<>>)
        /\ sent' = p /\ buf' = buf /\ faults' = faults
    BY <1>1, Zenon DEF StartCycle
  <2>2. Fits(p) /\ StateSwap \in Byte
    BY PayloadsFit, NoiseAssumption
  <2>3. /\ Compress(StateSwap, p) \in Seq(Byte)
        /\ Size(Compress(StateSwap, p)) = Size(p) + 6
    BY <2>2, FrameShape
  <2>4. Compress(StateSwap, p) # <<>>
    <3>1. Size(p) + 6 # 0
      BY <2>2, SizeIsNat DEF Fits
    <3> QED
      BY <2>3, <3>1, EmptySize, Zenon
  <2>5. <<>> \o Compress(StateSwap, p) = Compress(StateSwap, p)
    BY <2>3, ConcatEmptySeq, Zenon
  <2> QED
    BY <2>1, <2>4, <2>5, Zenon DEF InStep, Reading
<1>2. CASE ReceiveByte
  BY <1>2, InStepReceiveByte
<1>3. CASE EndCycle
  <2>1. /\ phase = "reading" /\ (ok \/ wire = <<>>) /\ phase' = "idle"
        /\ UNCHANGED <<buf, out, ok, wire, sent, hurt, inSync, faults>>
    BY <1>3 DEF EndCycle
  <2> QED
    BY <2>1 DEF InStep
<1>4. CASE LoseByte
  <2>1. faults' # 0
    BY <1>4 DEF LoseByte, Types
  <2> QED
    BY <2>1 DEF InStep
<1>5. ASSUME NEW b \in NoiseBytes, AlterByte(b) PROVE InStep'
  <2>1. faults' # 0
    BY <1>5 DEF AlterByte, Types
  <2> QED
    BY <2>1 DEF InStep
<1>6. CASE UNCHANGED vars
  <2>1. UNCHANGED <<buf, out, ok, phase, wire, sent, hurt, inSync, faults>>
    BY <1>6 DEF vars
  <2> QED
    BY <2>1, Zenon DEF InStep, Reading
<1> QED
  BY <1>1, <1>2, <1>3, <1>4, <1>5, <1>6 DEF Next

\* The part of a frame that is there never lies beyond its end.
LEMMA ReadingIsNotWedged ==
  ASSUME NEW p, Fits(p), StateSwap \in Byte,
         buf \in Seq(Byte), wire \in Seq(Byte), wire # <<>>, Reading(p)
  PROVE  Size(buf) >= 5 => Size(buf) <= buf[4] + 3
<1> DEFINE f == Compress(StateSwap, p)
           g == buf \o wire
           k == Size(buf)
           n == Size(p)
<1>1. f \in Seq(Byte) /\ Size(f) = n + 6 /\ f[4] = n + 2
  BY FrameShape
<1>2. g = f
  BY Zenon DEF Reading
<1>3. Size(g) = k + Size(wire) /\ \A i \in 1 .. k : g[i] = buf[i]
  BY Joined
<1>4. n \in Nat /\ k \in Nat /\ Size(wire) \in Nat /\ Size(wire) # 0
  BY SizeIsNat, EmptySize DEF Fits
<1> HIDE DEF f, g, k, n
<1>5. k >= 5 => buf[4] = n + 2
  <2>1. k >= 5 => 4 \in 1 .. k
    BY <1>4
  <2> QED
    BY <1>1, <1>2, <1>3, <2>1
<1>6. k <= n + 5
  BY <1>1, <1>2, <1>3, <1>4
<1> QED
  BY <1>4, <1>5, <1>6 DEF k

\* What the two refuted claims take for granted is a line without faults: there
\* every cycle finds the parser between frames, it is never wedged, and what is
\* copied is what the DSP reported, header bytes in the payload or not.
THEOREM QuietLine == Spec => [](faults = 0 => inSync /\ ~Wedged /\ CopiedIsReply)
<1>1. Types /\ InStep => (faults = 0 => inSync /\ ~Wedged /\ CopiedIsReply)
  <2> SUFFICES ASSUME Types, InStep, faults = 0
               PROVE  inSync /\ ~Wedged /\ CopiedIsReply
    OBVIOUS
  <2>1. CASE buf = <<>>
    <3>1. Size(buf) = 0
      BY <2>1, EmptySize
    <3>2. ~ (Size(buf) >= 5)
      BY <3>1
    <3> QED
      BY <3>2, Zenon DEF Wedged, Size, InStep, CopiedIsReply
  <2>2. CASE buf # <<>>
    <3>1. phase = "reading" /\ wire # <<>> /\ ~ok /\ Reading(sent)
      BY <2>2, Zenon DEF InStep, Types
    <3>2. /\ Fits(sent) /\ StateSwap \in Byte
          /\ buf \in Seq(Byte) /\ wire \in Seq(Byte)
      BY <3>1, PayloadsFit, NoiseAssumption DEF Types
    <3>3. Size(buf) >= 5 => Size(buf) <= buf[4] + 3
      BY <3>1, <3>2, ReadingIsNotWedged
    <3>4. Size(buf) >= 5 => ~ (Size(buf) > buf[4] + 3)
      BY <3>2, <3>3, SizeIsNat, FourthByte
    <3> QED
      BY <3>1, <3>4, Zenon DEF Wedged, LastIndex, Size, InStep, CopiedIsReply
  <2> QED
    BY <2>1, <2>2
<1>2. Init => InStep
  BY DEF Init, InStep
<1> QED
  BY <1>1, <1>2, InStepNext, TypesAlways, PTL DEF Spec
=============================================================================
