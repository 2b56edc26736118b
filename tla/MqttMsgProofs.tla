----------------------------- MODULE MqttMsgProofs -----------------------------
(***************************************************************************)
(* The codec of the MQTT packets, whatever the size of the buffers, the    *)
(* texts that are sent and what a broker that keeps to MQTT sends: what is *)
(* built can be read back, what arrives whole is read as it was sent and   *)
(* acknowledged, and nothing is read past what arrived.                    *)
(***************************************************************************)
EXTENDS MqttMsg, SequenceTheorems, WellFoundedInduction, TLAPS

-----------------------------------------------------------------------------
(* Numbers.                                                                *)

(* A set of natural numbers that is not empty has a least element.         *)
LEMMA LeastElement ==
  ASSUME NEW T \in SUBSET Nat, T # {}
  PROVE  \E x \in T : \A y \in T : x <= y
<1> DEFINE R == OpToRel(<, Nat)
<1>1. IsWellFoundedOn(R, Nat)
  BY NatLessThanWellFounded
<1>2. \A x, y \in Nat : y < x => <<y, x>> \in R
  BY DEF OpToRel
<1> HIDE DEF R
<1>3. \E x \in T : \A y \in T : ~ (<<y, x>> \in R)
  BY <1>1, WFMin
<1>4. PICK x \in T : \A y \in T : ~ (<<y, x>> \in R)
  BY <1>3
<1>5. ASSUME NEW y \in T PROVE x <= y
  <2>1. x \in Nat /\ y \in Nat
    OBVIOUS
  <2>2. ~ (y < x)
    BY <1>2, <1>4, <2>1
  <2> QED BY <2>1, <2>2
<1> QED BY <1>4, <1>5

(* What an interval is, and a byte: the provers are given the bounds and    *)
(* never the members.                                                      *)
LEMMA Between ==
  ASSUME NEW low \in Int, NEW high \in Int, NEW x
  PROVE  x \in low .. high <=> x \in Int /\ low <= x /\ x <= high
OBVIOUS

LEMMA ByteIs == \A x : x \in Byte <=> x \in Nat /\ x < 256
<1> SUFFICES ASSUME NEW x PROVE x \in Byte <=> x \in Nat /\ x < 256
  OBVIOUS
<1>1. 0 \in Int /\ 255 \in Int
  OBVIOUS
<1>2. x \in 0 .. 255 <=> x \in Int /\ 0 <= x /\ x <= 255
  BY <1>1, Between, ZenonT(60)
<1>3. x \in Int /\ 0 <= x /\ x <= 255 <=> x \in Nat /\ x < 256
  OBVIOUS
<1> QED BY <1>2, <1>3, Zenon DEF Byte

LEMMA UInt16Is == \A x : x \in UInt16 <=> x \in Nat /\ x < 256 * 256
<1> SUFFICES ASSUME NEW x PROVE x \in UInt16 <=> x \in Nat /\ x < 256 * 256
  OBVIOUS
<1> DEFINE high == 256 * 256 - 1
<1>1. 0 \in Int /\ high \in Int
  OBVIOUS
<1>2. x \in 0 .. high <=> x \in Int /\ 0 <= x /\ x <= high
  <2> HIDE DEF high
  <2> QED BY <1>1, Between, Zenon
<1>3. x \in Int /\ 0 <= x /\ x <= high <=> x \in Nat /\ x < 256 * 256
  OBVIOUS
<1> QED BY <1>2, <1>3, Zenon DEF UInt16

(* The digits of a number of two bytes, to the base of 256 and of 128.     *)
LEMMA Digits256 ==
  ASSUME NEW n \in Nat, n < 256 * 256
  PROVE  /\ n \div 256 \in Nat /\ n \div 256 < 256
         /\ n % 256 \in Nat /\ n % 256 < 256
         /\ (n \div 256) * 256 + (n % 256) = n
OBVIOUS

LEMMA Digits128 ==
  ASSUME NEW n \in Nat, n < 128 * 128
  PROVE  /\ n \div 128 \in Nat /\ n \div 128 < 128
         /\ n % 128 \in Nat /\ n % 128 < 128
         /\ (n % 128) + (n \div 128) * 128 = n
         /\ (128 + (n % 128)) % 128 = n % 128
         /\ (n \div 128) % 128 = n \div 128
OBVIOUS

(* Two bytes hold what fits in them, and give it back.                     *)
LEMMA TwoBytes ==
  ASSUME NEW n \in Nat, n < 256 * 256
  PROVE  /\ Two(n) \in Seq(Byte) /\ Len(Two(n)) = 2
         /\ Two(n)[1] * 256 + Two(n)[2] = n
<1>1. n \div 256 \in Byte /\ n % 256 \in Byte
  BY Digits256, ByteIs
<1>2. (n \div 256) * 256 + (n % 256) = n
  BY Digits256
<1> QED BY <1>1, <1>2 DEF Two

(* A sequence of bytes is one of numbers.                                  *)
LEMMA BytesAreNumbers == \A s \in Seq(Byte) : s \in Seq(Nat)
<1>1. Byte \subseteq Nat
  BY ByteIs
<1> QED BY <1>1, SeqMonotonic

LEMMA TwoNumbers == \A n \in Nat : Two(n) \in Seq(Nat) /\ Len(Two(n)) = 2
<1> TAKE n \in Nat
<1>1. n \div 256 \in Nat
  OBVIOUS
<1>2. n % 256 \in Nat
  OBVIOUS
<1> QED BY <1>1, <1>2 DEF Two

(* A string behind its length: two bytes more.                             *)
LEMMA StrNumbers ==
  ASSUME NEW s \in Seq(Byte)
  PROVE  Str(s) \in Seq(Nat) /\ Len(Str(s)) = 2 + Len(s)
<1>1. Len(s) \in Nat /\ s \in Seq(Nat)
  BY LenProperties, BytesAreNumbers
<1> DEFINE t == Two(Len(s))
<1>2. t \in Seq(Nat) /\ Len(t) = 2
  BY <1>1, TwoNumbers
<1> HIDE DEF t
<1>3. t \o s \in Seq(Nat) /\ Len(t \o s) = Len(t) + Len(s)
  BY <1>1, <1>2, ConcatProperties, Zenon
<1> QED BY <1>2, <1>3 DEF Str, t

-----------------------------------------------------------------------------
(* The remaining length.                                                   *)

(* The header ends within the bytes that are there, whatever they are.     *)
LEMMA HeaderWithin ==
  ASSUME NEW n \in Nat \ {0}, NEW b, \A k \in 1 .. n : b[k] \in Byte
  PROVE  HeaderEnd(b, n) \in 1 .. n
<1>1. CASE \E k \in 1 .. n - 1 : b[k + 1] < 128
  <2> DEFINE T == {k \in 1 .. n - 1 : b[k + 1] < 128}
  <2>1. T \in SUBSET Nat
    OBVIOUS
  <2>7. T # {}
    BY <1>1
  <2>2. PICK x \in T : \A y \in T : x <= y
    BY <2>1, <2>7, LeastElement
  <2>3. \A j \in 1 .. x - 1 : b[j + 1] >= 128
    <3> SUFFICES ASSUME NEW j \in 1 .. x - 1 PROVE b[j + 1] >= 128
      OBVIOUS
    <3>1. j \notin T /\ j \in 1 .. n - 1
      BY <2>2
    <3>2. b[j + 1] \in Nat
      BY <3>1, ByteIs
    <3> QED BY <3>1, <3>2
  <2>4. \E k \in 1 .. n - 1 : b[k + 1] < 128 /\ \A j \in 1 .. k - 1 : b[j + 1] >= 128
    BY <2>2, <2>3
  <2> DEFINE k == CHOOSE k \in 1 .. n - 1 : /\ b[k + 1] < 128
                                            /\ \A j \in 1 .. k - 1 : b[j + 1] >= 128
  <2>5. k \in 1 .. n - 1
    BY <2>4
  <2>6. HeaderEnd(b, n) = 1 + k
    BY <1>1 DEF HeaderEnd
  <2> HIDE DEF k
  <2> QED BY <2>5, <2>6
<1>2. CASE ~ \E k \in 1 .. n - 1 : b[k + 1] < 128
  BY <1>2 DEF HeaderEnd
<1> QED BY <1>1, <1>2

(* A length of one byte ends the header behind it.                         *)
LEMMA HeaderOne ==
  ASSUME NEW n \in Nat, n >= 2, NEW b, b[2] \in Nat, b[2] < 128
  PROVE  HeaderEnd(b, n) = 2
<1> DEFINE First(k) == b[k + 1] < 128 /\ \A j \in 1 .. k - 1 : b[j + 1] >= 128
<1>1. 1 \in 1 .. n - 1 /\ First(1)
  OBVIOUS
<1>2. \A k \in 1 .. n - 1 : First(k) => k = 1
  <2> SUFFICES ASSUME NEW k \in 1 .. n - 1, First(k), k # 1 PROVE FALSE
    OBVIOUS
  <2>1. 1 \in 1 .. k - 1
    OBVIOUS
  <2>2. b[1 + 1] >= 128
    BY <2>1
  <2> QED BY <2>2
<1> DEFINE c == CHOOSE k \in 1 .. n - 1 : First(k)
<1>3. c = 1
  BY <1>1, <1>2
<1>4. \E k \in 1 .. n - 1 : b[k + 1] < 128
  BY <1>1
<1>5. HeaderEnd(b, n) = 1 + c
  BY <1>4 DEF HeaderEnd
<1> HIDE DEF c
<1> QED BY <1>3, <1>5

(* A length of two bytes ends it behind the second.                        *)
LEMMA HeaderTwo ==
  ASSUME NEW n \in Nat, n >= 3, NEW b, b[2] \in Nat, b[2] >= 128, b[3] \in Nat, b[3] < 128
  PROVE  HeaderEnd(b, n) = 3
<1> DEFINE First(k) == b[k + 1] < 128 /\ \A j \in 1 .. k - 1 : b[j + 1] >= 128
<1>1. 2 \in 1 .. n - 1 /\ First(2)
  OBVIOUS
<1>2. \A k \in 1 .. n - 1 : First(k) => k = 2
  <2> SUFFICES ASSUME NEW k \in 1 .. n - 1, First(k), k # 2 PROVE FALSE
    OBVIOUS
  <2>1. k # 1
    <3>1. ~ (b[1 + 1] < 128)
      OBVIOUS
    <3> QED BY <3>1
  <2>2. 2 \in 1 .. k - 1
    BY <2>1
  <2>3. b[2 + 1] >= 128
    BY <2>2
  <2> QED BY <2>3
<1> DEFINE c == CHOOSE k \in 1 .. n - 1 : First(k)
<1>3. c = 2
  BY <1>1, <1>2
<1>4. \E k \in 1 .. n - 1 : b[k + 1] < 128
  BY <1>1
<1>5. HeaderEnd(b, n) = 1 + c
  BY <1>4 DEF HeaderEnd
<1> HIDE DEF c
<1> QED BY <1>3, <1>5

-----------------------------------------------------------------------------
(* A packet: a first byte, the length of the body, the body.               *)

Prefix(n) == IF n < 128 THEN <<n>> ELSE <<128 + (n % 128), n \div 128>>
Frame(first, body) == <<first>> \o Prefix(Len(body)) \o body
Header(body) == IF Len(body) < 128 THEN 2 ELSE 3

\* What b begins with.
Begins(b, packet) == \A j \in 1 .. Len(packet) : b[j] = packet[j]

LEMMA PrefixBytes ==
  ASSUME NEW n \in Nat, n < 128 * 128
  PROVE  Prefix(n) \in Seq(Byte) /\ Len(Prefix(n)) = IF n < 128 THEN 1 ELSE 2
<1>1. CASE n < 128
  <2>1. n \in Byte
    BY <1>1, ByteIs
  <2> QED BY <1>1, <2>1 DEF Prefix
<1>2. CASE n >= 128
  <2>1. 128 + (n % 128) \in Nat /\ 128 + (n % 128) < 256 /\ n \div 128 \in Nat /\ n \div 128 < 256
    BY Digits128
  <2>2. 128 + (n % 128) \in Byte /\ n \div 128 \in Byte
    BY <2>1, ByteIs
  <2> QED BY <1>2, <2>2 DEF Prefix
<1> QED BY <1>1, <1>2

(* One sequence of numbers, or of bytes, behind another.                   *)
LEMMA Joined ==
  ASSUME NEW s \in Seq(Nat), NEW t \in Seq(Nat)
  PROVE  /\ s \o t \in Seq(Nat) /\ Len(s \o t) = Len(s) + Len(t)
         /\ Len(s) \in Nat /\ Len(t) \in Nat
         /\ \A j \in 1 .. Len(s) : (s \o t)[j] = s[j]
         /\ \A j \in 1 .. Len(t) : (s \o t)[Len(s) + j] = t[j]
<1> DEFINE u == s \o t
<1>1. /\ u \in Seq(Nat) /\ Len(u) = Len(s) + Len(t)
      /\ \A i \in 1 .. Len(s) + Len(t) : u[i] = IF i <= Len(s) THEN s[i] ELSE t[i - Len(s)]
  BY ConcatProperties, Zenon
<1>2. Len(s) \in Nat /\ Len(t) \in Nat
  BY LenProperties
<1> HIDE DEF u
<1>3. \A j \in 1 .. Len(s) : u[j] = s[j]
  BY <1>1, <1>2
<1>4. \A j \in 1 .. Len(t) : u[Len(s) + j] = t[j]
  <2> SUFFICES ASSUME NEW j \in 1 .. Len(t) PROVE u[Len(s) + j] = t[j]
    OBVIOUS
  <2> DEFINE i == Len(s) + j
  <2>1. i \in 1 .. Len(s) + Len(t) /\ ~ (i <= Len(s)) /\ i - Len(s) = j
    BY <1>2
  <2> HIDE DEF i
  <2>2. u[i] = t[j]
    BY <1>1, <2>1
  <2> QED BY <2>2 DEF i
<1> QED BY <1>1, <1>2, <1>3, <1>4 DEF u

LEMMA JoinedBytes == \A s, t \in Seq(Byte) : s \o t \in Seq(Byte)
BY ConcatProperties

(* A packet of bytes.                                                      *)
LEMMA FrameInBytes ==
  ASSUME NEW first \in Byte, NEW body \in Seq(Byte), Len(body) < 128 * 128
  PROVE  Frame(first, body) \in Seq(Byte)
<1> DEFINE n == Len(body)
           p == Prefix(n)
<1>1. n \in Nat /\ n < 128 * 128
  BY LenProperties
<1>2. p \in Seq(Byte)
  BY <1>1, PrefixBytes
<1>3. <<first>> \in Seq(Byte)
  OBVIOUS
<1> HIDE DEF p
<1>4. <<first>> \o p \in Seq(Byte)
  BY <1>2, <1>3, ConcatProperties
<1>5. (<<first>> \o p) \o body \in Seq(Byte)
  BY <1>4, ConcatProperties
<1> QED BY <1>5 DEF Frame, p

(* Where the parts of a packet are.                                        *)
LEMMA FrameBytes ==
  ASSUME NEW first \in Nat, NEW body \in Seq(Nat), Len(body) < 128 * 128
  PROVE  /\ Frame(first, body) \in Seq(Nat)
         /\ Len(Frame(first, body)) = Header(body) + Len(body)
         /\ Frame(first, body)[1] = first
         /\ Len(body) < 128 => Frame(first, body)[2] = Len(body)
         /\ Len(body) >= 128 => /\ Frame(first, body)[2] = 128 + (Len(body) % 128)
                                /\ Frame(first, body)[3] = Len(body) \div 128
         /\ \A j \in 1 .. Len(body) : Frame(first, body)[Header(body) + j] = body[j]
<1> DEFINE n == Len(body)
           p == Prefix(n)
<1>1. n \in Nat /\ n < 128 * 128
  BY LenProperties
<1>2. p \in Seq(Nat) /\ Len(p) = Header(body) - 1
  <2>1. p \in Seq(Byte) /\ Len(p) = IF n < 128 THEN 1 ELSE 2
    BY <1>1, PrefixBytes
  <2>2. p \in Seq(Nat)
    BY <2>1, BytesAreNumbers
  <2> QED BY <2>1, <2>2 DEF Header
<1>3. /\ n < 128 => p = <<n>>
      /\ n >= 128 => p = <<128 + (n % 128), n \div 128>>
  BY <1>1 DEF Prefix
<1> DEFINE h == <<first>> \o p
<1>4. <<first>> \in Seq(Nat) /\ Len(<<first>>) = 1 /\ <<first>>[1] = first
  OBVIOUS
<1> HIDE DEF p
<1>5. h \in Seq(Nat) /\ Len(h) = 1 + Len(p)
  BY <1>2, <1>4, ConcatProperties
<1>6. h[1] = first /\ \A j \in 1 .. Len(p) : h[1 + j] = p[j]
  BY <1>2, <1>4, ConcatProperties
<1>7. Frame(first, body) = h \o body
  BY DEF Frame, p
<1> HIDE DEF h, n
<1>8. Len(h) = Header(body) /\ Header(body) \in {2, 3}
  BY <1>2, <1>5 DEF Header
<1>9. /\ h \o body \in Seq(Nat) /\ Len(h \o body) = Len(h) + Len(body)
      /\ \A i \in 1 .. Len(h) + Len(body) :
           (h \o body)[i] = IF i <= Len(h) THEN h[i] ELSE body[i - Len(h)]
  BY <1>5, ConcatProperties, ZenonT(60)
<1>10. Len(body) \in Nat
  BY LenProperties
<1>11. \A j \in 1 .. Len(body) : (h \o body)[Header(body) + j] = body[j]
  <2> SUFFICES ASSUME NEW j \in 1 .. Len(body)
               PROVE  (h \o body)[Header(body) + j] = body[j]
    OBVIOUS
  <2> DEFINE i == Header(body) + j
  <2>1. i \in 1 .. Len(h) + Len(body) /\ ~ (i <= Len(h)) /\ i - Len(h) = j
    BY <1>8, <1>10
  <2> HIDE DEF i
  <2>2. (h \o body)[i] = body[j]
    BY <1>9, <2>1
  <2> QED BY <2>2 DEF i
<1>12. \A j \in 1 .. Header(body) : (h \o body)[j] = h[j]
  BY <1>8, <1>9, <1>10
<1>13. (h \o body)[1] = first
  BY <1>6, <1>8, <1>12
<1>14. n < 128 => (h \o body)[2] = n
  <2> SUFFICES ASSUME n < 128 PROVE (h \o body)[2] = n
    OBVIOUS
  <2>1. p = <<n>> /\ Len(p) = 1
    BY <1>3
  <2>2. h[2] = n
    BY <1>6, <2>1
  <2> QED BY <2>2, <1>8, <1>12
<1>15. n >= 128 => (h \o body)[2] = 128 + (n % 128) /\ (h \o body)[3] = n \div 128
  <2> SUFFICES ASSUME n >= 128
               PROVE  (h \o body)[2] = 128 + (n % 128) /\ (h \o body)[3] = n \div 128
    OBVIOUS
  <2>1. p = <<128 + (n % 128), n \div 128>> /\ Len(p) = 2
    BY <1>3
  <2>2. h[2] = 128 + (n % 128)
    BY <1>6, <2>1
  <2>3. h[3] = n \div 128
    BY <1>6, <2>1
  <2>4. Header(body) = 3
    BY <1>8, <1>5, <2>1
  <2>5. (h \o body)[2] = h[2] /\ (h \o body)[3] = h[3]
    <3>1. 2 \in 1 .. Header(body) /\ 3 \in 1 .. Header(body)
      BY <2>4
    <3> QED BY <3>1, <1>12, Zenon
  <2> QED BY <2>2, <2>3, <2>5, Zenon
<1> QED BY <1>7, <1>8, <1>9, <1>11, <1>13, <1>14, <1>15 DEF n

(* Whoever reads a buffer that begins with a packet finds the body where   *)
(* it is, and how long the packet is, whatever comes behind it.            *)
LEMMA FrameRead ==
  ASSUME NEW first \in Nat, NEW body \in Seq(Nat), Len(body) < 128 * 128,
         NEW b, Begins(b, Frame(first, body)),
         NEW n \in Nat, Len(Frame(first, body)) <= n
  PROVE  /\ HeaderEnd(b, n) = Header(body)
         /\ mqtt_get_total_length(b, n) = {Len(Frame(first, body))}
         /\ b[1] = first
         /\ \A j \in 1 .. Len(body) : b[Header(body) + j] = body[j]
<1> DEFINE f == Frame(first, body)
           m == Len(body)
<1>1. m \in Nat /\ m < 128 * 128
  BY LenProperties
<1>2. /\ Len(f) = Header(body) + m
      /\ f[1] = first
      /\ m < 128 => f[2] = m
      /\ m >= 128 => f[2] = 128 + (m % 128) /\ f[3] = m \div 128
      /\ \A j \in 1 .. m : f[Header(body) + j] = body[j]
  BY FrameBytes
<1>3. \A j \in 1 .. Len(f) : b[j] = f[j]
  BY DEF Begins
<1>10. Len(f) <= n
  OBVIOUS
<1> HIDE DEF f
<1>4. CASE m < 128
  <2>1. Header(body) = 2
    BY <1>4 DEF Header
  <2>2. b[1] = first /\ b[2] = m
    BY <1>1, <1>2, <1>3, <1>4, <2>1
  <2>3. HeaderEnd(b, n) = 2
    BY <1>1, <1>2, <1>4, <1>10, <2>1, <2>2, HeaderOne
  <2>4. Digit(b, 2, 1) = m /\ Digit(b, 2, 2) = 0 /\ Digit(b, 2, 3) = 0 /\ Digit(b, 2, 4) = 0
    BY <1>1, <1>4, <2>2, SMTT(60) DEF Digit, Weight
  <2>5. mqtt_get_total_length(b, n) = {2 + m}
    BY <1>1, <2>3, <2>4 DEF mqtt_get_total_length
  <2>6. \A j \in 1 .. m : b[2 + j] = body[j]
    BY <1>1, <1>2, <1>3, <2>1, SMTT(60)
  <2> QED BY <1>2, <2>1, <2>2, <2>3, <2>5, <2>6 DEF f
<1>5. CASE m >= 128
  <2>1. Header(body) = 3
    BY <1>1, <1>5 DEF Header
  <2>2. b[1] = first /\ b[2] = 128 + (m % 128) /\ b[3] = m \div 128
    BY <1>1, <1>2, <1>3, <1>5, <2>1
  <2> DEFINE low == m % 128
             high == m \div 128
  <2>7. /\ low \in Nat /\ low < 128 /\ high \in Nat /\ high < 128
        /\ low + high * 128 = m
        /\ (128 + low) % 128 = low /\ high % 128 = high
    BY <1>1, Digits128
  <2>8. b[2] = 128 + low /\ b[3] = high
    BY <2>2
  <2> HIDE DEF low, high
  <2>3. HeaderEnd(b, n) = 3
    <3>1. 3 <= n
      BY <1>1, <1>2, <1>10, <2>1
    <3>2. b[2] \in Nat /\ b[2] >= 128 /\ b[3] \in Nat /\ b[3] < 128
      BY <2>7, <2>8
    <3> QED BY <3>1, <3>2, HeaderTwo
  <2>4. Digit(b, 3, 1) = low /\ Digit(b, 3, 2) = high * 128
    <3>1. Weight[1] = 1 /\ Weight[2] = 128
      BY DEF Weight
    <3>2. Digit(b, 3, 1) = (b[2] % 128) * Weight[1]
      BY DEF Digit
    <3>3. Digit(b, 3, 2) = (b[3] % 128) * Weight[2]
      BY DEF Digit
    <3>4. b[2] % 128 = low /\ b[3] % 128 = high
      BY <2>7, <2>8, Zenon
    <3>5. Digit(b, 3, 1) = low * 1 /\ Digit(b, 3, 2) = high * 128
      BY <3>1, <3>2, <3>3, <3>4, Zenon
    <3>6. low * 1 = low
      <4>1. low \in Nat
        BY <2>7, Zenon
      <4> QED BY <4>1
    <3> QED BY <3>5, <3>6, Zenon
  <2>9. Digit(b, 3, 3) = 0 /\ Digit(b, 3, 4) = 0
    BY DEF Digit
  <2>10. mqtt_get_total_length(b, n)
           = {3 + Digit(b, 3, 1) + Digit(b, 3, 2) + Digit(b, 3, 3) + Digit(b, 3, 4)}
    BY <2>3 DEF mqtt_get_total_length
  <2>5. mqtt_get_total_length(b, n) = {3 + m}
    <3>1. mqtt_get_total_length(b, n) = {3 + low + (high * 128) + 0 + 0}
      BY <2>4, <2>9, <2>10, Zenon
    <3>2. 3 + low + (high * 128) + 0 + 0 = 3 + m
      BY <1>1, <2>7
    <3> QED BY <3>1, <3>2, Zenon
  <2>6. \A j \in 1 .. m : b[3 + j] = body[j]
    BY <1>1, <1>2, <1>3, <2>1, SMTT(60)
  <2> QED BY <1>2, <2>1, <2>2, <2>3, <2>5, <2>6 DEF f
<1> QED BY <1>1, <1>4, <1>5

(* What is cut out of a sequence.                                          *)
LEMMA Part ==
  ASSUME NEW s \in Seq(Nat), NEW t \in Seq(Nat), NEW at \in Nat,
         at + Len(t) <= Len(s), \A j \in 1 .. Len(t) : s[at + j] = t[j]
  PROVE  SubSeq(s, at + 1, at + Len(t)) = t
<1> DEFINE m == at + 1
           n == at + Len(t)
           u == SubSeq(s, m, n)
<1>1. Len(s) \in Nat /\ Len(t) \in Nat
  BY LenProperties
<1>2. m \in Int /\ n \in Int
  BY <1>1
<1>3. \A i \in m .. n : s[i] \in Nat
  <2> SUFFICES ASSUME NEW i \in m .. n PROVE s[i] \in Nat
    OBVIOUS
  <2>1. i \in 1 .. Len(s)
    BY <1>1
  <2> QED BY <2>1, ElementOfSeq
<1>4. /\ u \in Seq(Nat) /\ Len(u) = IF m <= n THEN n - m + 1 ELSE 0
      /\ \A i \in 1 .. n - m + 1 : u[i] = s[m + i - 1]
  <2> HIDE DEF m, n
  <2> QED BY <1>2, <1>3, SubSeqProperties
<1>5. Len(u) = Len(t)
  BY <1>1, <1>4, SMTT(60)
<1>6. \A j \in 1 .. Len(t) : u[j] = t[j]
  <2> SUFFICES ASSUME NEW j \in 1 .. Len(t) PROVE u[j] = t[j]
    OBVIOUS
  <2>1. j \in 1 .. n - m + 1 /\ m + j - 1 = at + j
    BY <1>1
  <2>2. u[j] = s[at + j]
    BY <1>4, <2>1
  <2> QED BY <2>2
<1> HIDE DEF u
<1>7. \A j \in 1 .. Len(u) : u[j] = t[j]
  BY <1>5, <1>6
<1>8. u \in Seq(Nat)
  BY <1>4
<1>9. u = t
  BY <1>5, <1>7, <1>8, SeqEqual, Zenon
<1> QED BY <1>9 DEF u

-----------------------------------------------------------------------------
(* The builders.                                                           *)

\* What is being built: the body, as long as it is valid and fits.
Holds(bodies, body, valid) ==
  bodies = IF valid /\ MQTT_MAX_FIXED_HEADER_SIZE + Len(body) <= BufferLength
             THEN {body} ELSE {}

LEMMA BufferIs == BufferLength \in Nat /\ BufferLength >= 5 /\ BufferLength < 128 * 128 + 3
<1>1. 5 \in Int /\ 128 * 128 + 2 \in Int
  OBVIOUS
<1>2. BufferLength \in Int /\ 5 <= BufferLength /\ BufferLength <= 128 * 128 + 2
  BY <1>1, Between, BufferAssumption, Zenon
<1> QED BY <1>2

(* What is put behind the body either fits or fails for good.              *)
LEMMA AppendedHolds ==
  ASSUME NEW bodies, NEW body \in Seq(Nat), NEW valid, NEW bytes \in Seq(Nat),
         Holds(bodies, body, valid)
  PROVE  /\ body \o bytes \in Seq(Nat)
         /\ Holds(Appended(bodies, bytes), body \o bytes, valid)
<1>1. body \o bytes \in Seq(Nat) /\ Len(body \o bytes) = Len(body) + Len(bytes)
  BY ConcatProperties, Zenon
<1>2. Len(body) \in Nat /\ Len(bytes) \in Nat /\ BufferLength \in Nat
  BY LenProperties, BufferIs
<1>3. CASE valid /\ 3 + Len(body \o bytes) <= BufferLength
  <2>1. bodies = {body}
    BY <1>1, <1>2, <1>3 DEF Holds, MQTT_MAX_FIXED_HEADER_SIZE
  <2>2. Fits(body, Len(bytes))
    BY <1>1, <1>2, <1>3 DEF Fits, MQTT_MAX_FIXED_HEADER_SIZE
  <2>3. Appended(bodies, bytes) = {body \o bytes}
    BY <2>1, <2>2, Zenon DEF Appended
  <2> QED BY <1>1, <1>3, <2>3, Zenon DEF Holds, MQTT_MAX_FIXED_HEADER_SIZE
<1>4. CASE ~ (valid /\ 3 + Len(body \o bytes) <= BufferLength)
  <2>1. \A c \in bodies : ~ Fits(c, Len(bytes))
    <3> SUFFICES ASSUME NEW c \in bodies PROVE ~ Fits(c, Len(bytes))
      OBVIOUS
    <3>1. c = body /\ valid
      BY Zenon DEF Holds
    <3>2. ~ (3 + Len(body) + Len(bytes) <= BufferLength)
      BY <1>1, <1>2, <1>4, <3>1
    <3> QED BY <3>1, <3>2 DEF Fits, MQTT_MAX_FIXED_HEADER_SIZE
  <2>2. Appended(bodies, bytes) = {}
    BY <2>1, Zenon DEF Appended
  <2> QED BY <1>4, <2>2, <1>1, Zenon DEF Holds, MQTT_MAX_FIXED_HEADER_SIZE
<1> QED BY <1>1, <1>3, <1>4, Zenon

(* The first byte says the type, the quality of service and a flag.        *)
LEMMA FirstByte ==
  ASSUME NEW type \in Nat, type < 16, NEW qos \in Nat, qos < 4, NEW retain \in Nat, retain < 2
  PROVE  /\ 16 * type + 2 * qos + retain \in Nat /\ 16 * type + 2 * qos + retain < 256
         /\ (16 * type + 2 * qos + retain) \div 16 = type
         /\ ((16 * type + 2 * qos + retain) \div 2) % 4 = qos
<1>1. 16 * type + 2 * qos + retain \in Nat /\ 16 * type + 2 * qos + retain < 256
  OBVIOUS
<1>2. (16 * type + 2 * qos + retain) \div 16 = type
  OBVIOUS
<1>3. ((16 * type + 2 * qos + retain) \div 2) % 4 = qos
  <2>1. (16 * type + 2 * qos + retain) \div 2 = 8 * type + qos
    OBVIOUS
  <2>2. (8 * type + qos) % 4 = qos
    OBVIOUS
  <2> QED BY <2>1, <2>2, Zenon
<1> QED BY <1>1, <1>2, <1>3

(* What is built of a body that holds what was asked for is read as that.  *)
LEMMA BuiltReads ==
  ASSUME NEW type \in Nat, type < 16, NEW qos \in Nat, qos < 4, NEW retain \in Nat, retain < 2,
         NEW bodies, NEW body \in Seq(Nat), NEW valid,
         Holds(bodies, body, valid), Build(type, qos, retain, bodies, body, valid)
  PROVE  BuiltAsAsked'
<1> DEFINE first == 16 * type + 2 * qos + retain
<1>1. /\ asked'.type = type /\ asked'.qos = qos
      /\ asked'.body = body /\ asked'.valid = valid
  BY Zenon DEF Build
<1>2. message' = fini_message(bodies, type, qos, retain)
  BY Zenon DEF Build
<1>3. CASE valid /\ 3 + Len(body) <= BufferLength
  <2> DEFINE f == Frame(first, body)
  <2>1. bodies = {body}
    BY <1>3, Zenon DEF Holds, MQTT_MAX_FIXED_HEADER_SIZE
  <2>2. Len(body) \in Nat /\ Len(body) < 128 * 128
    BY <1>3, BufferIs, LenProperties
  <2>3. message' = f
    <3>1. bodies # {} /\ (CHOOSE b \in bodies : TRUE) = body
      BY <2>1
    <3>2. Len(body) > 127 <=> ~ (Len(body) < 128)
      BY <2>2
    <3> QED BY <1>2, <3>1, <3>2, Zenon DEF fini_message, Frame, Prefix
  <2>4. /\ first \in Nat /\ first \div 16 = type /\ (first \div 2) % 4 = qos
    BY FirstByte
  <2> HIDE DEF first
  <2>5. /\ f \in Seq(Nat) /\ Len(f) = Header(body) + Len(body)
        /\ \A j \in 1 .. Len(body) : f[Header(body) + j] = body[j]
    BY <2>2, <2>4, FrameBytes, ZenonT(60)
  <2>6. Begins(f, f)
    BY DEF Begins
  <2>7. /\ HeaderEnd(f, Len(f)) = Header(body)
        /\ mqtt_get_total_length(f, Len(f)) = {Len(f)}
        /\ f[1] = first
    <3>1. Len(f) \in Nat /\ Len(f) <= Len(f)
      BY <2>5, LenProperties
    <3> QED BY <2>2, <2>4, <2>6, <3>1, FrameRead
  <2> HIDE DEF f
  <2>8. SubSeq(f, Header(body) + 1, Len(f)) = body
    <3>1. Header(body) \in Nat
      BY DEF Header
    <3>2. Header(body) + Len(body) <= Len(f)
      BY <2>2, <2>5, <3>1
    <3>3. SubSeq(f, Header(body) + 1, Header(body) + Len(body)) = body
      BY <2>5, <3>1, <3>2, Part
    <3> QED BY <2>5, <3>3
  <2>9. mqtt_get_type(f) = type /\ mqtt_get_qos(f) = qos
    BY <2>4, <2>7, Zenon DEF mqtt_get_type, mqtt_get_qos
  <2>10. ~ (~ asked'.valid \/ 3 + Len(asked'.body) > BufferLength)
    <3>1. ~ (3 + Len(body) > BufferLength)
      BY <2>2, <1>3, BufferIs
    <3> QED BY <1>1, <1>3, <3>1, Zenon
  <2>11. /\ mqtt_get_type(message') = asked'.type
         /\ mqtt_get_qos(message') = asked'.qos
         /\ mqtt_get_total_length(message', Len(message')) = {Len(message')}
         /\ SubSeq(message', HeaderEnd(message', Len(message')) + 1, Len(message')) = asked'.body
    BY <1>1, <2>3, <2>7, <2>8, <2>9, Zenon
  <2> QED BY <2>10, <2>11, Zenon DEF BuiltAsAsked, MQTT_MAX_FIXED_HEADER_SIZE
<1>4. CASE ~ (valid /\ 3 + Len(body) <= BufferLength)
  <2>1. bodies = {}
    BY <1>4, Zenon DEF Holds, MQTT_MAX_FIXED_HEADER_SIZE
  <2>2. message' = <<>>
    BY <1>2, <2>1, Zenon DEF fini_message
  <2>3. ~ (3 + Len(body) <= BufferLength) => 3 + Len(body) > BufferLength
    BY BufferIs, LenProperties
  <2>4. ~ asked'.valid \/ 3 + Len(asked'.body) > BufferLength
    BY <1>1, <1>4, <2>3, Zenon
  <2> QED BY <2>2, <2>4, Zenon DEF BuiltAsAsked, MQTT_MAX_FIXED_HEADER_SIZE
<1> QED BY <1>3, <1>4, Zenon

LEMMA ValidReads ==
  ASSUME NEW type \in Nat, type < 16, NEW qos \in Nat, qos < 4,
         NEW bodies, NEW body \in Seq(Nat),
         Holds(bodies, body, TRUE), Build(type, qos, 0, bodies, body, TRUE)
  PROVE  BuiltAsAsked'
<1>1. 0 \in Nat /\ 0 < 2
  OBVIOUS
<1> QED BY <1>1, BuiltReads, Zenon

(* What fails, and what is not built at all, says nothing.                 *)
LEMMA QueuedReads == Queued => BuiltAsAsked'
<1> SUFFICES ASSUME Queued PROVE BuiltAsAsked'
  OBVIOUS
<1>1. message' = <<>> /\ asked'.valid = FALSE
  BY Zenon DEF Queued, Nothing
<1> QED BY <1>1, Zenon DEF BuiltAsAsked

LEMMA NothingHolds == <<>> \in Seq(Nat) /\ Holds({<<>>}, <<>>, TRUE)
<1>1. 3 + Len(<<>>) <= BufferLength
  BY BufferIs
<1> QED BY <1>1 DEF Holds, MQTT_MAX_FIXED_HEADER_SIZE

LEMMA NamedHolds == \A topic : Holds(Named(topic), <<>>, topic # <<>>)
<1> TAKE topic
<1>1. 3 + Len(<<>>) <= BufferLength
  BY BufferIs
<1> QED BY <1>1 DEF Holds, Named, MQTT_MAX_FIXED_HEADER_SIZE

LEMMA StrHolds ==
  ASSUME NEW bodies, NEW body \in Seq(Nat), NEW valid, NEW text \in Seq(Byte),
         Holds(bodies, body, valid)
  PROVE  /\ body \o Str(text) \in Seq(Nat)
         /\ Holds(append_string(bodies, text), body \o Str(text), valid)
<1>1. Str(text) \in Seq(Nat)
  BY StrNumbers
<1> QED BY <1>1, AppendedHolds DEF append_string

LEMMA IfAnyHolds ==
  ASSUME NEW bodies, NEW body \in Seq(Nat), NEW valid, NEW text \in Seq(Byte),
         Holds(bodies, body, valid)
  PROVE  /\ body \o IfAny(text) \in Seq(Nat)
         /\ Holds(append_if_any(bodies, text), body \o IfAny(text), valid)
<1>1. CASE text = <<>>
  <2>1. body \o <<>> = body
    BY ConcatEmptySeq
  <2> QED BY <1>1, <2>1, Zenon DEF IfAny, append_if_any
<1>2. CASE text # <<>>
  BY <1>2, StrHolds, Zenon DEF IfAny, append_if_any
<1> QED BY <1>1, <1>2

(* What the client may be told to say.                                     *)
LEMMA InfoFields ==
  ASSUME NEW S, NEW B, NEW Q, NEW K,
         NEW info \in [client_id : S, will_topic : S, will_message : S, username : S,
                       password : S, will_retain : B, will_qos : Q, clean_session : B,
                       keepalive : K]
  PROVE  /\ info.client_id \in S /\ info.will_topic \in S /\ info.will_message \in S
         /\ info.username \in S /\ info.password \in S
         /\ info.will_qos \in Q /\ info.keepalive \in K
OBVIOUS

LEMMA PublicationFields ==
  ASSUME NEW S, NEW Q, NEW R, NEW p \in [topic : S, data : S, qos : Q, retain : R]
  PROVE  p.topic \in S /\ p.data \in S /\ p.qos \in Q /\ p.retain \in R
OBVIOUS

LEMMA InfoIs ==
  ASSUME NEW info \in Infos
  PROVE  /\ info.client_id \in Seq(Byte) /\ info.will_topic \in Seq(Byte)
         /\ info.will_message \in Seq(Byte)
         /\ info.username \in Seq(Byte) /\ info.password \in Seq(Byte)
         /\ info.will_qos \in Nat /\ info.keepalive \in Nat
<1> DEFINE B == BOOLEAN
           Q == 0 .. 2
<1>1. info \in mqtt_connect_info
  BY SaidAssumption
<1>2. Q \subseteq Nat
  OBVIOUS
<1>3. \A k \in UInt16 : k \in Nat
  BY UInt16Is
<1>4. info \in [client_id : Seq(Byte), will_topic : Seq(Byte), will_message : Seq(Byte),
                username : Seq(Byte), password : Seq(Byte), will_retain : B,
                will_qos : Q, clean_session : B, keepalive : UInt16]
  <2> HIDE DEF mqtt_connect_info
  <2>1. mqtt_connect_info
          = [client_id : Seq(Byte), will_topic : Seq(Byte), will_message : Seq(Byte),
             username : Seq(Byte), password : Seq(Byte), will_retain : B,
             will_qos : Q, clean_session : B, keepalive : UInt16]
    BY Zenon DEF mqtt_connect_info
  <2> HIDE DEF B, Q
  <2> QED BY <1>1, <2>1
<1> HIDE DEF B, Q
<1> QED BY <1>2, <1>3, <1>4, InfoFields

LEMMA PublicationIs ==
  ASSUME NEW p \in Publications
  PROVE  /\ p.topic \in Seq(Byte) /\ p.data \in Seq(Byte)
         /\ p.qos \in Nat /\ p.qos <= 2 /\ p.retain \in Nat /\ p.retain <= 1
<1> DEFINE Q == 0 .. 2
           R == 0 .. 1
<1>1. p \in Publication
  BY SaidAssumption
<1>2. \A q \in Q : q \in Nat /\ q <= 2
  OBVIOUS
<1>3. \A r \in R : r \in Nat /\ r <= 1
  OBVIOUS
<1>4. p \in [topic : Seq(Byte), data : Seq(Byte), qos : Q, retain : R]
  <2>1. Publication = [topic : Seq(Byte), data : Seq(Byte), qos : Q, retain : R]
    BY Zenon DEF Publication
  <2> HIDE DEF Q, R
  <2> QED BY <1>1, <2>1
<1> HIDE DEF Q, R
<1> QED BY <1>2, <1>3, <1>4, PublicationFields

LEMMA FlagsNumber == \A info \in Infos : ConnectFlags(info) \in Nat
<1> TAKE info \in Infos
<1>1. \A c : Bit(c) \in Nat
  BY DEF Bit
<1> DEFINE will == info.will_topic # <<>>
           a == Bit(info.username # <<>>)
           b == Bit(info.password # <<>>)
           c == Bit(will /\ info.will_retain)
           d == Bit(will)
           e == Bit(info.clean_session)
           q == info.will_qos
<1>2. a \in Nat /\ b \in Nat /\ c \in Nat /\ d \in Nat /\ e \in Nat
  BY <1>1, Zenon
<1>3. q \in Nat
  BY InfoIs
<1>4. ConnectFlags(info) = 128 * a + 64 * b + 32 * c + 8 * (d * q) + 4 * d + 2 * e
  BY Zenon DEF ConnectFlags
<1> HIDE DEF a, b, c, d, e, q
<1>5. d * q \in Nat
  BY <1>2, <1>3
<1> DEFINE p == d * q
<1> HIDE DEF p
<1>6. 128 * a + 64 * b + 32 * c + 8 * p + 4 * d + 2 * e \in Nat
  BY <1>2, <1>5 DEF p
<1> QED BY <1>4, <1>6 DEF p

(* The packet that opens a session.                                        *)
LEMMA ConnectReads ==
  ASSUME NEW info \in Infos, mqtt_msg_connect(info)
  PROVE  BuiltAsAsked'
<1> DEFINE valid == info.client_id # <<>>
           header == MQIsdp \o <<ConnectFlags(info)>> \o Two(info.keepalive)
           named == IF info.client_id = <<>> THEN {}
                    ELSE append_string(Appended({<<>>}, header), info.client_id)
           willed == IF info.will_topic = <<>> THEN named
                     ELSE append_string(append_string(named, info.will_topic),
                                        info.will_message)
           will == IF info.will_topic = <<>> THEN <<>>
                   ELSE Str(info.will_topic) \o Str(info.will_message)
           bodies == append_if_any(append_if_any(willed, info.username), info.password)
           first == header \o Str(info.client_id)
           body == first \o will \o IfAny(info.username) \o IfAny(info.password)
<1>1. /\ info.client_id \in Seq(Byte) /\ info.will_topic \in Seq(Byte)
      /\ info.will_message \in Seq(Byte)
      /\ info.username \in Seq(Byte) /\ info.password \in Seq(Byte)
      /\ info.keepalive \in Nat
  BY InfoIs
<1>2. header \in Seq(Nat)
  <2>1. MQIsdp \in Seq(Nat)
    BY DEF MQIsdp
  <2>2. <<ConnectFlags(info)>> \in Seq(Nat)
    BY FlagsNumber
  <2>3. Two(info.keepalive) \in Seq(Nat)
    BY <1>1, TwoNumbers
  <2>4. MQIsdp \o <<ConnectFlags(info)>> \in Seq(Nat)
    BY <2>1, <2>2, ConcatProperties
  <2> QED BY <2>3, <2>4, ConcatProperties
<1> HIDE DEF header
<1>3. first \in Seq(Nat) /\ Holds(named, first, valid)
  <2>1. first \in Seq(Nat)
    BY <1>1, <1>2, StrNumbers, ConcatProperties
  <2>2. CASE info.client_id = <<>>
    BY <2>1, <2>2, Zenon DEF Holds
  <2>3. CASE info.client_id # <<>>
    <3>1. Holds(Appended({<<>>}, header), <<>> \o header, TRUE)
      BY <1>2, NothingHolds, AppendedHolds
    <3>2. <<>> \o header = header
      BY <1>2, ConcatEmptySeq
    <3>3. Holds(Appended({<<>>}, header), header, TRUE)
      BY <3>1, <3>2
    <3>4. Holds(append_string(Appended({<<>>}, header), info.client_id), first, TRUE)
      BY <1>1, <1>2, <3>3, StrHolds
    <3> QED BY <2>1, <2>3, <3>4, Zenon DEF Holds
  <2> QED BY <2>2, <2>3, Zenon
<1> HIDE DEF first, named, valid
<1>4. first \o will \in Seq(Nat) /\ Holds(willed, first \o will, valid)
  <2>1. CASE info.will_topic = <<>>
    <3>1. first \o <<>> = first
      BY <1>3, ConcatEmptySeq
    <3> QED BY <2>1, <3>1, <1>3, Zenon
  <2>2. CASE info.will_topic # <<>>
    <3> DEFINE t == Str(info.will_topic)
               m == Str(info.will_message)
    <3>1. t \in Seq(Nat) /\ m \in Seq(Nat)
      BY <1>1, StrNumbers
    <3>2. first \o t \in Seq(Nat) /\ Holds(append_string(named, info.will_topic), first \o t, valid)
      BY <1>1, <1>3, StrHolds
    <3>3. /\ (first \o t) \o m \in Seq(Nat)
          /\ Holds(append_string(append_string(named, info.will_topic), info.will_message),
                   (first \o t) \o m, valid)
      BY <1>1, <3>2, StrHolds
    <3>4. (first \o t) \o m = first \o (t \o m)
      BY <1>3, <3>1, ConcatAssociative
    <3> QED BY <2>2, <3>3, <3>4, Zenon
  <2> QED BY <2>1, <2>2, Zenon
<1> HIDE DEF willed, will
<1> DEFINE more == (first \o will) \o IfAny(info.username)
<1>5. more \in Seq(Nat) /\ Holds(append_if_any(willed, info.username), more, valid)
  BY <1>1, <1>4, IfAnyHolds
<1> HIDE DEF more
<1>6. /\ more \o IfAny(info.password) \in Seq(Nat)
      /\ Holds(bodies, more \o IfAny(info.password), valid)
  BY <1>1, <1>5, IfAnyHolds
<1>7. body \in Seq(Nat) /\ Holds(bodies, body, valid)
  BY <1>6 DEF more
<1>8. Build(1, 0, 0, bodies, body, valid)
  <2>1. Type.CONNECT = 1
    BY DEF Type
  <2>2. Build(Type.CONNECT, 0, 0, bodies, body, valid)
    BY Zenon DEF mqtt_msg_connect, bodies, body, valid, first, will, willed, named, header
  <2> QED BY <2>1, <2>2
<1> HIDE DEF body, bodies
<1> QED BY <1>7, <1>8, BuiltReads

(* The packets of the application and of the timer.                        *)
LEMMA MaxIdIs == MaxId \in Nat /\ MaxId >= 1
<1>1. MaxId \in UInt16 /\ MaxId # 0
  BY IdAssumption
<1>2. MaxId \in Nat
  BY <1>1, UInt16Is
<1> QED BY <1>1, <1>2

LEMMA NextIdIs ==
  ASSUME message_id \in Nat
  PROVE  NextId \in Nat /\ NextId >= 1 /\ NextId <= MaxId
<1>1. MaxId \in Nat /\ MaxId >= 1
  BY MaxIdIs
<1>2. message_id % MaxId \in 0 .. MaxId - 1
  BY <1>1
<1> QED BY <1>1, <1>2 DEF NextId

LEMMA PublishReads ==
  ASSUME NEW p \in Publications, message_id \in Nat,
         mqtt_msg_publish(p.topic, p.data, p.qos, p.retain)
  PROVE  BuiltAsAsked'
<1> DEFINE topic == p.topic
           data == p.data
           valid == topic # <<>>
           named == append_string(Named(topic), topic)
           id == IF p.qos > 0 THEN Two(NextId) ELSE <<>>
           body == Str(topic) \o id \o data
           bodies == Appended(Appended(named, id), data)
<1>1. /\ topic \in Seq(Byte) /\ data \in Seq(Nat)
      /\ p.qos \in Nat /\ p.qos < 4 /\ p.retain \in Nat /\ p.retain < 2
  BY PublicationIs, BytesAreNumbers
<1>2. id \in Seq(Nat)
  BY NextIdIs, TwoNumbers, NothingHolds, Zenon
<1>3. Str(topic) \in Seq(Nat) /\ Holds(named, Str(topic), valid)
  <2>1. <<>> \in Seq(Nat) /\ Holds(Named(topic), <<>>, valid)
    BY NothingHolds, NamedHolds, Zenon
  <2>2. Str(topic) \in Seq(Nat)
    BY <1>1, StrNumbers
  <2>3. <<>> \o Str(topic) = Str(topic)
    BY <2>2, ConcatEmptySeq
  <2> HIDE DEF valid
  <2>4. Holds(named, <<>> \o Str(topic), valid)
    BY <1>1, <2>1, StrHolds
  <2> QED BY <2>2, <2>3, <2>4
<1> HIDE DEF named, valid, id
<1>4. Str(topic) \o id \in Seq(Nat) /\ Holds(Appended(named, id), Str(topic) \o id, valid)
  BY <1>2, <1>3, AppendedHolds
<1>5. body \in Seq(Nat) /\ Holds(bodies, body, valid)
  BY <1>1, <1>4, AppendedHolds
<1>6. Build(3, p.qos, p.retain, bodies, body, valid)
  <2>1. Type.PUBLISH = 3
    BY DEF Type
  <2>2. Build(Type.PUBLISH, p.qos, p.retain, bodies, body, valid)
    BY Zenon DEF mqtt_msg_publish, bodies, body, valid, named, id
  <2> QED BY <2>1, <2>2
<1> HIDE DEF body, bodies
<1> QED BY <1>1, <1>5, <1>6, BuiltReads

LEMMA SubscribeReads ==
  ASSUME NEW topic \in Topics, NEW qos \in Nat, message_id \in Nat,
         mqtt_msg_subscribe(topic, qos)
  PROVE  BuiltAsAsked'
<1> DEFINE valid == topic # <<>>
           numbered == append_message_id(Named(topic), NextId)
           named == append_string(numbered, topic)
           body == Two(NextId) \o Str(topic) \o <<qos>>
           bodies == Appended(named, <<qos>>)
<1>1. topic \in Seq(Byte) /\ <<qos>> \in Seq(Nat)
  BY SaidAssumption
<1>2. Two(NextId) \in Seq(Nat) /\ Holds(numbered, Two(NextId), valid)
  <2>1. <<>> \in Seq(Nat) /\ Holds(Named(topic), <<>>, valid)
    BY NothingHolds, NamedHolds, Zenon
  <2>2. Two(NextId) \in Seq(Nat)
    BY NextIdIs, TwoNumbers
  <2>3. <<>> \o Two(NextId) = Two(NextId)
    BY <2>2, ConcatEmptySeq
  <2> HIDE DEF valid
  <2>4. Holds(Appended(Named(topic), Two(NextId)), <<>> \o Two(NextId), valid)
    BY <2>1, <2>2, AppendedHolds
  <2> QED BY <2>2, <2>3, <2>4 DEF append_message_id
<1> HIDE DEF numbered, valid
<1>3. /\ Two(NextId) \o Str(topic) \in Seq(Nat)
      /\ Holds(named, Two(NextId) \o Str(topic), valid)
  BY <1>1, <1>2, StrHolds
<1> HIDE DEF named
<1>4. body \in Seq(Nat) /\ Holds(bodies, body, valid)
  BY <1>1, <1>3, AppendedHolds
<1>5. Build(8, 1, 0, bodies, body, valid)
  <2>1. Type.SUBSCRIBE = 8
    BY DEF Type
  <2>2. Build(Type.SUBSCRIBE, 1, 0, bodies, body, valid)
    BY Zenon DEF mqtt_msg_subscribe, bodies, body, valid, named, numbered
  <2> QED BY <2>1, <2>2
<1> HIDE DEF body, bodies
<1> QED BY <1>4, <1>5, BuiltReads

LEMMA UnsubscribeReads ==
  ASSUME NEW topic \in Topics, message_id \in Nat, mqtt_msg_unsubscribe(topic)
  PROVE  BuiltAsAsked'
<1> DEFINE valid == topic # <<>>
           numbered == append_message_id(Named(topic), NextId)
           bodies == append_string(numbered, topic)
           body == Two(NextId) \o Str(topic)
<1>1. topic \in Seq(Byte)
  BY SaidAssumption
<1>2. Two(NextId) \in Seq(Nat) /\ Holds(numbered, Two(NextId), valid)
  <2>1. <<>> \in Seq(Nat) /\ Holds(Named(topic), <<>>, valid)
    BY NothingHolds, NamedHolds, Zenon
  <2>2. Two(NextId) \in Seq(Nat)
    BY NextIdIs, TwoNumbers
  <2>3. <<>> \o Two(NextId) = Two(NextId)
    BY <2>2, ConcatEmptySeq
  <2> HIDE DEF valid
  <2>4. Holds(Appended(Named(topic), Two(NextId)), <<>> \o Two(NextId), valid)
    BY <2>1, <2>2, AppendedHolds
  <2> QED BY <2>2, <2>3, <2>4 DEF append_message_id
<1> HIDE DEF numbered, valid
<1>3. body \in Seq(Nat) /\ Holds(bodies, body, valid)
  BY <1>1, <1>2, StrHolds
<1>4. Build(10, 1, 0, bodies, body, valid)
  <2>1. Type.UNSUBSCRIBE = 10
    BY DEF Type
  <2>2. Build(Type.UNSUBSCRIBE, 1, 0, bodies, body, valid)
    BY Zenon DEF mqtt_msg_unsubscribe, bodies, body, valid, numbered
  <2> QED BY <2>1, <2>2
<1> HIDE DEF body, bodies
<1> QED BY <1>3, <1>4, BuiltReads

LEMMA PingReads ==
  ASSUME mqtt_msg_pingreq
  PROVE  BuiltAsAsked'
<1>1. Type.PINGREQ = 12
  BY DEF Type
<1>2. Build(Type.PINGREQ, 0, 0, {<<>>}, <<>>, TRUE)
  BY Zenon DEF mqtt_msg_pingreq
<1>3. Build(12, 0, 0, {<<>>}, <<>>, TRUE)
  BY <1>1, <1>2
<1>4. 12 \in Nat /\ 12 < 16 /\ 0 \in Nat /\ 0 < 4
  OBVIOUS
<1> QED BY <1>3, <1>4, NothingHolds, ValidReads, Zenon

(* What answers the broker.                                                *)
LEMMA RespondReads ==
  ASSUME message_id \in Nat, NEW type, NEW qos, NEW id \in Nat, Respond(type, qos, id)
  PROVE  BuiltAsAsked'
<1> DEFINE n == IdFor(id)
           bodies == append_message_id({<<>>}, n)
           ack(t, q) == Build(t, q, 0, bodies, Two(n), TRUE)
<1>1. Two(n) \in Seq(Nat)
  BY NextIdIs, TwoNumbers DEF IdFor
<1>2. Holds(bodies, Two(n), TRUE)
  <2>1. Holds(Appended({<<>>}, Two(n)), <<>> \o Two(n), TRUE)
    BY <1>1, NothingHolds, AppendedHolds
  <2>2. <<>> \o Two(n) = Two(n)
    BY <1>1, ConcatEmptySeq
  <2> QED BY <2>1, <2>2 DEF append_message_id
<1>3. \/ ack(Type.PUBACK, 0) \/ ack(Type.PUBREC, 0) \/ ack(Type.PUBREL, 1)
      \/ ack(Type.PUBCOMP, 0) \/ Build(Type.PINGRESP, 0, 0, {<<>>}, <<>>, TRUE) \/ Queued
  BY Zenon DEF Respond
<1>4. /\ Type.PUBACK = 4 /\ Type.PUBREC = 5 /\ Type.PUBREL = 6 /\ Type.PUBCOMP = 7
      /\ Type.PINGRESP = 13
  BY DEF Type
<1>5. \A t \in {4, 5, 6, 7}, q \in {0, 1} : ack(t, q) => BuiltAsAsked'
  <2> SUFFICES ASSUME NEW t \in {4, 5, 6, 7}, NEW q \in {0, 1}, ack(t, q)
               PROVE  BuiltAsAsked'
    OBVIOUS
  <2>1. t \in Nat /\ t < 16 /\ q \in Nat /\ q < 4
    OBVIOUS
  <2>2. Build(t, q, 0, bodies, Two(n), TRUE)
    OBVIOUS
  <2> HIDE DEF bodies, n
  <2> QED BY <1>1, <1>2, <2>1, <2>2, ValidReads, Zenon
<1>6. Build(13, 0, 0, {<<>>}, <<>>, TRUE) => BuiltAsAsked'
  <2>1. 13 \in Nat /\ 13 < 16 /\ 0 \in Nat /\ 0 < 4
    OBVIOUS
  <2> QED BY <2>1, NothingHolds, ValidReads, Zenon
<1> HIDE DEF ack
<1>7. /\ ack(4, 0) \/ ack(5, 0) \/ ack(6, 1) \/ ack(7, 0)
      \/ Build(13, 0, 0, {<<>>}, <<>>, TRUE) \/ Queued
  BY <1>3, <1>4
<1> QED BY <1>5, <1>6, <1>7, QueuedReads

-----------------------------------------------------------------------------
(* What the broker sends.                                                  *)

LEMMA PacketIs ==
  ASSUME NEW p \in Packets
  PROVE  /\ p.type \in Nat /\ p.type >= 1 /\ p.type < 16
         /\ p.qos \in Nat /\ p.qos < 4
         /\ p.id \in Nat /\ p.id < 256 * 256
         /\ p.type = 3 => p.topic \in Seq(Byte) /\ p.topic # <<>> /\ p.data \in Seq(Byte)
         /\ Acknowledged(p) => p.id > 0
         /\ p.type = 2 => p.id \in Byte
         /\ Len(Body(p)) < 128 * 128
<1>1. /\ p.type \in 1 .. 14 /\ p.qos \in 0 .. 2 /\ p.id \in UInt16
      /\ p.type = 3 => p.topic \in Seq(Byte) \ {<<>>} /\ p.data \in Seq(Byte)
      /\ Acknowledged(p) => p.id > 0
      /\ p.type = 2 => p.id \in Byte
      /\ Len(Body(p)) < 128 * 128
  <2>1. Type.PUBLISH = 3 /\ Type.CONNACK = 2
    BY DEF Type
  <2> QED BY <2>1, PacketAssumption, Zenon
<1>2. p.type \in Nat /\ p.type >= 1 /\ p.type < 16 /\ p.qos \in Nat /\ p.qos < 4
  BY <1>1
<1>3. p.id \in Nat /\ p.id < 256 * 256
  BY <1>1, UInt16Is
<1> QED BY <1>1, <1>2, <1>3, Zenon

\* The identifier of a PUBLISH, if its quality of service asks for one.
IdBytes(p) == IF p.qos > 0 THEN Two(p.id) ELSE <<>>

(* What a PUBLISH consists of.                                             *)
LEMMA PublishBody ==
  ASSUME NEW p \in Packets, p.type = 3
  PROVE  LET t == Len(p.topic)
             i == Len(IdBytes(p))
         IN  /\ Body(p) \in Seq(Byte)
             /\ t \in Nat /\ t > 0 /\ Len(p.data) \in Nat
             /\ i = IF p.qos > 0 THEN 2 ELSE 0
             /\ Len(Body(p)) = 2 + t + i + Len(p.data)
             /\ Body(p)[1] * 256 + Body(p)[2] = t
             /\ \A j \in 1 .. t : Body(p)[2 + j] = p.topic[j]
             /\ p.qos > 0 => Body(p)[2 + t + 1] * 256 + Body(p)[2 + t + 2] = p.id
             /\ \A j \in 1 .. Len(p.data) : Body(p)[2 + t + i + j] = p.data[j]
<1> DEFINE topic == p.topic
           data == p.data
           t == Len(topic)
           two == Two(t)
           id == IdBytes(p)
           i == Len(id)
           s == two \o topic
           u == s \o id
           b == u \o data
<1>1. /\ topic \in Seq(Byte) /\ topic # <<>> /\ data \in Seq(Byte)
      /\ p.qos \in Nat /\ p.id \in Nat /\ p.id < 256 * 256 /\ Len(Body(p)) < 128 * 128
  BY PacketIs
<1>2. Body(p) = b
  <2>1. Type.PUBLISH = 3 /\ Type.CONNACK = 2 /\ Type.PINGREQ = 12
    BY DEF Type
  <2>2. Body(p) = Str(topic) \o (IF p.qos > 0 THEN Two(p.id) ELSE <<>>) \o data
    <3>1. p.type = Type.PUBLISH /\ p.type # Type.CONNACK /\ p.type # Type.PINGREQ
      BY <2>1
    <3> HIDE DEF topic, data
    <3>2. Body(p) = Str(p.topic) \o (IF p.qos > 0 THEN Two(p.id) ELSE <<>>) \o p.data
      BY <3>1 DEF Body
    <3> QED BY <3>2, Zenon DEF topic, data
  <2> QED BY <2>2, Zenon DEF Str, IdBytes
<1>5. /\ id \in Seq(Byte) /\ i = IF p.qos > 0 THEN 2 ELSE 0
      /\ p.qos > 0 => id[1] * 256 + id[2] = p.id
  <2>1. CASE p.qos > 0
    BY <1>1, <2>1, TwoBytes DEF IdBytes
  <2>2. CASE ~ (p.qos > 0)
    BY <2>2, EmptySeq DEF IdBytes
  <2> QED BY <2>1, <2>2
<1> HIDE DEF topic, data
<1>3. t \in Nat /\ t > 0 /\ Len(data) \in Nat
  BY <1>1, EmptySeq, LenProperties
<1>4. two \in Seq(Nat) /\ Len(two) = 2
  BY <1>3, TwoNumbers
<1>6. topic \in Seq(Nat) /\ data \in Seq(Nat) /\ id \in Seq(Nat)
  BY <1>1, <1>5, BytesAreNumbers
<1> HIDE DEF two, id
<1>7. /\ s \in Seq(Nat) /\ Len(s) = 2 + t
      /\ \A j \in 1 .. 2 : s[j] = two[j]
      /\ \A j \in 1 .. t : s[2 + j] = topic[j]
  <2>1. /\ s \in Seq(Nat) /\ Len(s) = Len(two) + t
        /\ \A j \in 1 .. Len(two) : s[j] = two[j]
        /\ \A j \in 1 .. t : s[Len(two) + j] = topic[j]
    BY <1>4, <1>6, Joined
  <2> QED BY <2>1, <1>4, Zenon
<1> HIDE DEF s
<1>8. /\ u \in Seq(Nat) /\ Len(u) = 2 + t + i
      /\ \A j \in 1 .. Len(s) : u[j] = s[j]
      /\ \A j \in 1 .. i : u[2 + t + j] = id[j]
  <2>1. /\ u \in Seq(Nat) /\ Len(u) = Len(s) + i
        /\ \A j \in 1 .. Len(s) : u[j] = s[j]
        /\ \A j \in 1 .. i : u[Len(s) + j] = id[j]
    BY <1>6, <1>7, Joined
  <2> QED BY <2>1, <1>7, Zenon
<1> HIDE DEF u
<1>9. /\ b \in Seq(Nat) /\ Len(b) = 2 + t + i + Len(data)
      /\ \A j \in 1 .. Len(u) : b[j] = u[j]
      /\ \A j \in 1 .. Len(data) : b[2 + t + i + j] = data[j]
  <2>1. /\ b \in Seq(Nat) /\ Len(b) = Len(u) + Len(data)
        /\ \A j \in 1 .. Len(u) : b[j] = u[j]
        /\ \A j \in 1 .. Len(data) : b[Len(u) + j] = data[j]
    BY <1>6, <1>8, Joined
  <2> QED BY <2>1, <1>8, Zenon
<1> HIDE DEF b
<1>10. t < 256 * 256
  <2>1. Len(b) < 128 * 128
    BY <1>1, <1>2
  <2> QED BY <2>1, <1>3, <1>5, <1>9
<1>11. two \in Seq(Byte) /\ two[1] * 256 + two[2] = t
  BY <1>3, <1>10, TwoBytes DEF two
<1>14. b \in Seq(Byte)
  BY <1>1, <1>5, <1>11, JoinedBytes DEF s, u, b
<1>21. \A j \in 1 .. 2 + t : b[j] = s[j]
  <2> SUFFICES ASSUME NEW j \in 1 .. 2 + t PROVE b[j] = s[j]
    OBVIOUS
  <2>1. j \in 1 .. Len(s) /\ j \in 1 .. Len(u)
    BY <1>3, <1>5, <1>7, <1>8
  <2> QED BY <2>1, <1>8, <1>9, Zenon
<1>22. b[1] * 256 + b[2] = t
  <2>1. b[1] = two[1] /\ b[2] = two[2]
    BY <1>3, <1>7, <1>21
  <2> QED BY <2>1, <1>11
<1>23. \A j \in 1 .. t : b[2 + j] = topic[j]
  BY <1>3, <1>7, <1>21
<1>24. p.qos > 0 => b[2 + t + 1] * 256 + b[2 + t + 2] = p.id
  <2> SUFFICES ASSUME p.qos > 0 PROVE b[2 + t + 1] * 256 + b[2 + t + 2] = p.id
    OBVIOUS
  <2>1. i = 2
    BY <1>5
  <2>2. u[2 + t + 1] = id[1] /\ u[2 + t + 2] = id[2]
    BY <1>8, <2>1
  <2>3. b[2 + t + 1] = u[2 + t + 1] /\ b[2 + t + 2] = u[2 + t + 2]
    <3>1. 2 + t + 1 \in 1 .. Len(u) /\ 2 + t + 2 \in 1 .. Len(u)
      BY <1>3, <1>8, <2>1
    <3> QED BY <1>9, <3>1, Zenon
  <2> QED BY <1>5, <2>2, <2>3, Zenon
<1> QED BY <1>2, <1>3, <1>5, <1>9, <1>14, <1>22, <1>23, <1>24, Zenon DEF id, topic, data

LEMMA BodyBytes ==
  ASSUME NEW p \in Packets
  PROVE  Body(p) \in Seq(Byte)
<1>1. Type.PUBLISH = 3 /\ Type.CONNACK = 2 /\ Type.PINGREQ = 12
  BY DEF Type
<1>2. CASE p.type = 3
  BY <1>2, PublishBody, Zenon
<1>3. CASE p.type = 2
  <2>1. Body(p) = <<0, p.id>>
    BY <1>1, <1>3 DEF Body
  <2>2. 0 \in Byte /\ p.id \in Byte
    BY <1>3, ByteIs, PacketIs
  <2> QED BY <2>1, <2>2
<1>4. CASE p.type = 12
  <2>1. Body(p) = <<>>
    BY <1>1, <1>4 DEF Body
  <2> QED BY <2>1
<1>5. CASE p.type # 2 /\ p.type # 3 /\ p.type # 12
  <2>1. Body(p) = Two(p.id)
    BY <1>1, <1>5 DEF Body
  <2> QED BY <2>1, PacketIs, TwoBytes
<1> QED BY <1>2, <1>3, <1>4, <1>5

(* A packet of the broker is one that the client can take apart.           *)
LEMMA EncodeIs ==
  ASSUME NEW p \in Packets
  PROVE  LET first == 16 * p.type + 2 * p.qos
         IN  /\ Encode(p) = Frame(first, Body(p))
             /\ first \in Nat /\ first < 256 /\ first \div 16 = p.type
             /\ (first \div 2) % 4 = p.qos
             /\ Encode(p) \in Seq(Byte) /\ Len(Encode(p)) = Header(Body(p)) + Len(Body(p))
<1> DEFINE first == 16 * p.type + 2 * p.qos
           body == Body(p)
<1>1. /\ p.type \in Nat /\ p.type >= 1 /\ p.type < 16 /\ p.qos \in Nat /\ p.qos < 4
      /\ Len(body) < 128 * 128
  BY PacketIs
<1>2. body \in Seq(Byte) /\ body \in Seq(Nat)
  BY BodyBytes, BytesAreNumbers
<1>3. first \in Nat /\ first < 256 /\ first \div 16 = p.type /\ (first \div 2) % 4 = p.qos
  <2>1. 0 \in Nat /\ 0 < 2
    OBVIOUS
  <2> DEFINE type == p.type
             qos == p.qos
             g == 16 * type + 2 * qos + 0
  <2>2. type \in Nat /\ type < 16 /\ qos \in Nat /\ qos < 4
    BY <1>1
  <2> HIDE DEF type, qos
  <2>3. g \in Nat /\ g < 256 /\ g \div 16 = type /\ (g \div 2) % 4 = qos
    BY <2>1, <2>2, FirstByte
  <2>4. g = 16 * type + 2 * qos
    BY <2>2
  <2> QED BY <2>3, <2>4, Zenon DEF type, qos
<1>4. Encode(p) = Frame(first, body)
  BY Zenon DEF Encode, Frame, Prefix
<1> HIDE DEF first, body
<1>5. first \in Byte
  BY <1>3, ByteIs
<1>6. Frame(first, body) \in Seq(Byte) /\ Len(Frame(first, body)) = Header(body) + Len(body)
  BY <1>1, <1>2, <1>3, <1>5, FrameInBytes, FrameBytes
<1> QED BY <1>3, <1>4, <1>6, Zenon DEF first, body

LEMMA EncodeRead ==
  ASSUME NEW p \in Packets, NEW b, Begins(b, Encode(p)),
         NEW n \in Nat, Len(Encode(p)) <= n
  PROVE  /\ mqtt_get_type(b) = p.type /\ mqtt_get_qos(b) = p.qos
         /\ HeaderEnd(b, n) = Header(Body(p))
         /\ mqtt_get_total_length(b, n) = {Len(Encode(p))}
         /\ \A j \in 1 .. Len(Body(p)) : b[Header(Body(p)) + j] = Body(p)[j]
<1> DEFINE first == 16 * p.type + 2 * p.qos
           body == Body(p)
           e == Encode(p)
<1>1. /\ e = Frame(first, body)
      /\ first \in Nat /\ first \div 16 = p.type /\ (first \div 2) % 4 = p.qos
  BY EncodeIs, Zenon
<1>2. body \in Seq(Nat) /\ Len(body) < 128 * 128
  BY BodyBytes, BytesAreNumbers, PacketIs
<1>3. Begins(b, e) /\ Len(e) <= n
  OBVIOUS
<1> HIDE DEF first, body, e
<1>4. /\ HeaderEnd(b, n) = Header(body)
      /\ mqtt_get_total_length(b, n) = {Len(Frame(first, body))}
      /\ b[1] = first
      /\ \A j \in 1 .. Len(body) : b[Header(body) + j] = body[j]
  <2>1. Begins(b, Frame(first, body)) /\ Len(Frame(first, body)) <= n
    BY <1>1, <1>3
  <2> QED BY <1>1, <1>2, <2>1, FrameRead
<1>5. mqtt_get_type(b) = p.type /\ mqtt_get_qos(b) = p.qos
  BY <1>1, <1>4, Zenon DEF mqtt_get_type, mqtt_get_qos
<1> QED BY <1>1, <1>4, <1>5, Zenon DEF body, e

-----------------------------------------------------------------------------
(* The invariant.  Nobody rewrites what is under way: a packet lies where  *)
(* due says until its first byte is done with.                             *)

TypeOK == /\ message_id \in 0 .. MaxId
          /\ in_buffer \in Seq(Byte) /\ Len(in_buffer) = BufferLength
          /\ accepted \in BOOLEAN
          /\ stream \in Seq(Byte) /\ segment \in Seq(Byte)
          /\ sent \in Nat

\* The bytes of e are those of bytes from start on.
LiesAt(e, bytes, start) == /\ start \in Nat /\ start + Len(e) <= Len(bytes)
                           /\ \A j \in 1 .. Len(e) : bytes[start + j] = e[j]

DueLies == \A d \in due : /\ d.packet \in Packets
                          /\ LiesAt(Encode(d.packet), segment \o stream, d.start)

IInv == TypeOK /\ DueLies /\ BuiltAsAsked

LEMMA InitIInv == Init => IInv
<1> SUFFICES ASSUME Init PROVE IInv
  OBVIOUS
<1>1. message_id \in 0 .. MaxId
  BY MaxIdIs DEF Init
<1>2. in_buffer \in Seq(Byte) /\ Len(in_buffer) = BufferLength
  <2>1. 0 \in Byte
    BY ByteIs
  <2>2. BufferLength \in Nat
    BY BufferIs
  <2>3. in_buffer = [i \in 1 .. BufferLength |-> 0]
    BY DEF Init
  <2> QED BY <2>1, <2>2, <2>3
<1>3. accepted \in BOOLEAN
  BY Zenon DEF Init
<1>4. stream \in Seq(Byte) /\ segment \in Seq(Byte)
  BY EmptySeq DEF Init
<1>5. sent \in Nat
  BY DEF Init
<1>6. DueLies
  BY Zenon DEF Init, DueLies
<1>7. BuiltAsAsked
  <2>1. message = <<>> /\ asked.valid = FALSE
    BY Zenon DEF Init, Nothing
  <2> QED BY <2>1, Zenon DEF BuiltAsAsked
<1> QED BY <1>1, <1>2, <1>3, <1>4, <1>5, <1>6, <1>7, Zenon DEF IInv, TypeOK

(* A packet lies where it lies whatever is put behind it.                  *)
LEMMA LiesOn ==
  ASSUME NEW e \in Seq(Nat), NEW bytes \in Seq(Nat), NEW more \in Seq(Nat), NEW start,
         LiesAt(e, bytes, start)
  PROVE  LiesAt(e, bytes \o more, start)
<1> DEFINE u == bytes \o more
<1>1. /\ Len(u) = Len(bytes) + Len(more) /\ Len(bytes) \in Nat /\ Len(more) \in Nat
      /\ \A j \in 1 .. Len(bytes) : u[j] = bytes[j]
  BY Joined
<1>2. Len(e) \in Nat
  BY LenProperties
<1> HIDE DEF u
<1>3. start \in Nat /\ start + Len(e) <= Len(u)
  BY <1>1, <1>2 DEF LiesAt
<1>4. \A j \in 1 .. Len(e) : u[start + j] = e[j]
  <2> SUFFICES ASSUME NEW j \in 1 .. Len(e) PROVE u[start + j] = e[j]
    OBVIOUS
  <2>1. start + j \in 1 .. Len(bytes)
    BY <1>1, <1>2, <1>3 DEF LiesAt
  <2> QED BY <1>1, <2>1, Zenon DEF LiesAt
<1> QED BY <1>3, <1>4, Zenon DEF LiesAt, u

(* What was put behind the rest lies there.                                *)
LEMMA LiesBehind ==
  ASSUME NEW e \in Seq(Nat), NEW bytes \in Seq(Nat)
  PROVE  LiesAt(e, bytes \o e, Len(bytes))
<1>1. /\ Len(bytes \o e) = Len(bytes) + Len(e) /\ Len(bytes) \in Nat /\ Len(e) \in Nat
      /\ \A j \in 1 .. Len(e) : (bytes \o e)[Len(bytes) + j] = e[j]
  BY Joined
<1>2. Len(bytes) + Len(e) <= Len(bytes \o e)
  BY <1>1
<1> QED BY <1>1, <1>2, Zenon DEF LiesAt

(* What is left when the first n bytes are done with.                      *)
LEMMA LeftBytes ==
  ASSUME NEW seg \in Seq(Byte), NEW str \in Seq(Byte), NEW n \in Nat, n <= Len(seg)
  PROVE  LET left == SubSeq(seg, n + 1, Len(seg))
         IN  /\ left \in Seq(Byte)
             /\ left \o str \in Seq(Nat) /\ seg \o str \in Seq(Nat)
             /\ Len(left \o str) = Len(seg \o str) - n
             /\ Len(left \o str) \in Nat
             /\ \A j \in 1 .. Len(left \o str) : (left \o str)[j] = (seg \o str)[n + j]
<1> DEFINE m == Len(seg)
           low == n + 1
           left == SubSeq(seg, low, m)
           u == left \o str
           v == seg \o str
<1>1. m \in Nat /\ low \in Int /\ m \in Int /\ n <= m /\ Len(str) \in Nat
  BY LenProperties
<1>2. \A i \in low .. m : seg[i] \in Byte
  <2> SUFFICES ASSUME NEW i \in low .. m PROVE seg[i] \in Byte
    OBVIOUS
  <2>1. i \in 1 .. m
    BY <1>1
  <2> QED BY <2>1, ElementOfSeq
<1>3. /\ left \in Seq(Byte) /\ Len(left) = IF low <= m THEN m - low + 1 ELSE 0
      /\ \A i \in 1 .. m - low + 1 : left[i] = seg[low + i - 1]
  <2> HIDE DEF low, m
  <2> QED BY <1>1, <1>2, SubSeqProperties
<1> HIDE DEF left
<1>4. Len(left) = m - n /\ m - n \in Nat
  BY <1>1, <1>3
<1>5. \A i \in 1 .. Len(left) : left[i] = seg[n + i]
  <2> SUFFICES ASSUME NEW i \in 1 .. Len(left) PROVE left[i] = seg[n + i]
    OBVIOUS
  <2>1. i \in 1 .. m - low + 1 /\ low + i - 1 = n + i
    BY <1>1, <1>4
  <2> HIDE DEF low
  <2> QED BY <1>3, <2>1
<1> HIDE DEF low, m
<1>6. left \in Seq(Nat) /\ seg \in Seq(Nat) /\ str \in Seq(Nat)
  BY <1>3, BytesAreNumbers
<1>7. /\ u \in Seq(Nat) /\ Len(u) = Len(left) + Len(str)
      /\ \A j \in 1 .. Len(left) : u[j] = left[j]
      /\ \A j \in 1 .. Len(str) : u[Len(left) + j] = str[j]
  BY <1>6, Joined
<1>8. /\ v \in Seq(Nat) /\ Len(v) = Len(seg) + Len(str)
      /\ \A j \in 1 .. Len(seg) : v[j] = seg[j]
      /\ \A j \in 1 .. Len(str) : v[Len(seg) + j] = str[j]
  BY <1>6, Joined
<1> HIDE DEF u, v
<1>9. Len(u) = Len(v) - n /\ Len(u) \in Nat
  BY <1>1, <1>4, <1>7, <1>8 DEF m
<1>10. \A j \in 1 .. Len(u) : u[j] = v[n + j]
  <2> SUFFICES ASSUME NEW j \in 1 .. Len(u) PROVE u[j] = v[n + j]
    OBVIOUS
  <2>1. CASE j <= Len(left)
    <3>1. j \in 1 .. Len(left) /\ n + j \in 1 .. Len(seg)
      BY <1>1, <1>4, <2>1 DEF m
    <3> QED BY <3>1, <1>5, <1>7, <1>8, Zenon
  <2>2. CASE ~ (j <= Len(left))
    <3> DEFINE i == j - Len(left)
    <3>1. i \in 1 .. Len(str) /\ j = Len(left) + i /\ n + j = Len(seg) + i
      BY <1>1, <1>4, <1>7, <2>2 DEF m
    <3> HIDE DEF i
    <3> QED BY <3>1, <1>7, <1>8, Zenon
  <2> QED BY <2>1, <2>2
<1> QED BY <1>3, <1>7, <1>8, <1>9, <1>10, Zenon DEF left, u, v, low, m

LEMMA LiesLeft ==
  ASSUME NEW e \in Seq(Nat), NEW u, NEW v, NEW n \in Nat, NEW start,
         Len(u) = Len(v) - n, Len(u) \in Nat, Len(v) \in Nat,
         \A j \in 1 .. Len(u) : u[j] = v[n + j],
         LiesAt(e, v, start), start >= n
  PROVE  LiesAt(e, u, start - n)
<1>1. Len(e) \in Nat /\ start \in Nat /\ start + Len(e) <= Len(v)
  BY LenProperties DEF LiesAt
<1>2. start - n \in Nat /\ start - n + Len(e) <= Len(u)
  BY <1>1
<1>3. \A j \in 1 .. Len(e) : u[start - n + j] = e[j]
  <2> SUFFICES ASSUME NEW j \in 1 .. Len(e) PROVE u[start - n + j] = e[j]
    OBVIOUS
  <2> DEFINE i == start - n + j
  <2>1. i \in 1 .. Len(u) /\ n + i = start + j
    BY <1>1, <1>2
  <2> HIDE DEF i
  <2>2. u[i] = v[start + j]
    BY <2>1
  <2>3. v[start + j] = e[j]
    BY DEF LiesAt
  <2> QED BY <2>2, <2>3 DEF i
<1> QED BY <1>2, <1>3 DEF LiesAt

(* However much of the segment is done with, what is due lies in the rest. *)
LEMMA ConsumeLies ==
  ASSUME TypeOK, DueLies, NEW n \in Nat, n <= Len(segment), NEW left,
         left = SubSeq(segment, n + 1, Len(segment)), Consume(n, left), stream' = stream
  PROVE  segment' \in Seq(Byte) /\ DueLies'
<1> DEFINE u == left \o stream
           v == segment \o stream
<1>1. stream \in Seq(Byte) /\ segment \in Seq(Byte)
  BY Zenon DEF TypeOK
<1>2. /\ left \in Seq(Byte) /\ u \in Seq(Nat) /\ v \in Seq(Nat)
      /\ Len(u) = Len(v) - n /\ Len(u) \in Nat
      /\ \A j \in 1 .. Len(u) : u[j] = v[n + j]
  BY <1>1, LeftBytes
<1>3. Len(v) \in Nat
  BY <1>2, LenProperties
<1>4. segment' = left /\ segment' \o stream' = u
  BY DEF Consume
<1> HIDE DEF u, v
<1>5. ASSUME NEW d \in due'
      PROVE  d.packet \in Packets /\ LiesAt(Encode(d.packet), u, d.start)
  <2>1. PICK e \in due : e.start >= n /\ d = Due(e.packet, e.start - n)
    BY <1>5, Zenon DEF Consume
  <2>2. d.packet = e.packet /\ d.start = e.start - n
    BY <2>1 DEF Due
  <2>3. e.packet \in Packets /\ LiesAt(Encode(e.packet), v, e.start)
    BY Zenon DEF DueLies, v
  <2>4. Encode(e.packet) \in Seq(Nat)
    BY <2>3, EncodeIs, BytesAreNumbers
  <2> DEFINE f == Encode(e.packet)
             start == e.start
  <2>5. start >= n /\ LiesAt(f, v, start) /\ f \in Seq(Nat)
    BY <2>1, <2>3, <2>4
  <2> HIDE DEF f, start
  <2>6. LiesAt(f, u, start - n)
    BY <1>2, <1>3, <2>5, LiesLeft
  <2> QED BY <2>2, <2>3, <2>6, Zenon DEF f, start
<1> QED BY <1>2, <1>4, <1>5, Zenon DEF DueLies

-----------------------------------------------------------------------------
(* What mqtt_tcpclient_recv reads.                                         *)

\* The buffer begins with the segment, and is of bytes to its end.
LEMMA ReadBuffer ==
  ASSUME TypeOK, Read
  PROVE  /\ Len(segment) \in Nat \ {0} /\ Len(segment) < BufferLength
         /\ in_buffer' \in Seq(Byte) /\ Len(in_buffer') = BufferLength
         /\ \A k \in 1 .. BufferLength : in_buffer'[k] \in Byte
         /\ \A j \in 1 .. Len(segment) : in_buffer'[j] = segment[j]
<1> DEFINE m == Len(segment)
           low == m + 1
           rest == SubSeq(in_buffer, low, BufferLength)
           b == in_buffer'
<1>1. /\ segment \in Seq(Byte) /\ in_buffer \in Seq(Byte) /\ Len(in_buffer) = BufferLength
  BY Zenon DEF TypeOK
<1>2. segment # <<>> /\ m < BufferLength /\ b = segment \o rest
  BY Zenon DEF Read
<1>3. m \in Nat \ {0} /\ BufferLength \in Nat /\ low \in Int
  BY <1>1, <1>2, EmptySeq, LenProperties, BufferIs
<1>4. \A i \in low .. BufferLength : in_buffer[i] \in Byte
  <2> SUFFICES ASSUME NEW i \in low .. BufferLength PROVE in_buffer[i] \in Byte
    OBVIOUS
  <2>1. i \in 1 .. Len(in_buffer)
    BY <1>1, <1>3
  <2> QED BY <1>1, <2>1, ElementOfSeq
<1>5. rest \in Seq(Byte) /\ Len(rest) = IF low <= BufferLength THEN BufferLength - low + 1 ELSE 0
  <2> HIDE DEF low
  <2> QED BY <1>3, <1>4, SubSeqProperties
<1> HIDE DEF rest
<1>6. Len(rest) = BufferLength - m
  BY <1>2, <1>3, <1>5
<1>7. b \in Seq(Byte)
  BY <1>1, <1>2, <1>5, JoinedBytes
<1>8. segment \in Seq(Nat) /\ rest \in Seq(Nat)
  BY <1>1, <1>5, BytesAreNumbers
<1>9. Len(segment \o rest) = m + Len(rest) /\ \A j \in 1 .. m : (segment \o rest)[j] = segment[j]
  BY <1>8, Joined
<1>10. Len(b) = BufferLength /\ \A j \in 1 .. m : b[j] = segment[j]
  <2>1. m + Len(rest) = BufferLength
    BY <1>3, <1>6
  <2> QED BY <1>2, <1>9, <2>1, Zenon
<1>11. \A k \in 1 .. BufferLength : b[k] \in Byte
  <2> HIDE DEF b
  <2> QED BY <1>7, <1>10, ElementOfSeq
<1> QED BY <1>2, <1>3, <1>7, <1>10, <1>11, Zenon

(* The length that a packet announces is an integer.                       *)
LEMMA TotalIs ==
  ASSUME NEW n \in Nat \ {0}, NEW b, \A k \in 1 .. n : b[k] \in Byte,
         NEW total \in mqtt_get_total_length(b, n)
  PROVE  total \in Int
<1> DEFINE i == HeaderEnd(b, n)
<1>1. i \in 1 .. n
  BY HeaderWithin
<1> HIDE DEF i
<1>2. \A k \in {1, 2, 3, 4} : Digit(b, i, k) \in Nat
  <2> SUFFICES ASSUME NEW k \in {1, 2, 3, 4} PROVE Digit(b, i, k) \in Nat
    OBVIOUS
  <2>1. Weight[k] \in Nat
    BY DEF Weight
  <2>2. CASE k < i
    <3>1. k + 1 \in 1 .. n
      BY <1>1, <2>2
    <3>2. b[k + 1] \in Nat
      BY <3>1, ByteIs
    <3> DEFINE w == Weight[k]
               d == b[k + 1] % 128
    <3>3. w \in Nat /\ d \in Nat
      BY <2>1, <3>2
    <3>4. Digit(b, i, k) = d * w
      BY <2>2, Zenon DEF Digit
    <3> HIDE DEF w, d
    <3>5. d * w \in Nat
      BY <3>3
    <3> QED BY <3>4, <3>5
  <2>3. CASE ~ (k < i)
    BY <2>3 DEF Digit
  <2> QED BY <2>2, <2>3
<1>3. \A x \in AnyInt : x \in Int
  <2> DEFINE low == -(2^31)
             high == 2^31 - 1
  <2>1. low \in Int /\ high \in Int
    OBVIOUS
  <2> HIDE DEF low, high
  <2>2. \A x \in low .. high : x \in Int
    BY <2>1
  <2> QED BY <2>2, Zenon DEF AnyInt, low, high
<1>4. CASE i <= 5
  <2>1. total = i + Digit(b, i, 1) + Digit(b, i, 2) + Digit(b, i, 3) + Digit(b, i, 4)
    BY <1>4, Zenon DEF mqtt_get_total_length, i
  <2> QED BY <1>1, <1>2, <2>1
<1>5. CASE ~ (i <= 5)
  <2>1. total \in AnyInt
    BY <1>5, Zenon DEF mqtt_get_total_length, i
  <2> QED BY <1>3, <2>1, Zenon
<1> QED BY <1>4, <1>5

(* The identifier that a packet is read with is a number.                  *)
LEMMA IdIs ==
  ASSUME NEW b, \A k \in 1 .. BufferLength : b[k] \in Byte
  PROVE  mqtt_get_id(b, BufferLength) \in Nat
<1> DEFINE n == BufferLength
           i == HeaderEnd(b, n)
           id == i + 2 + TopicLength(b, i)
<1>1. n \in Nat \ {0} /\ n >= 5
  BY BufferIs
<1>2. \A k \in 1 .. n : b[k] \in Nat
  BY ByteIs
<1>3. i \in 1 .. n
  BY <1>1, HeaderWithin
<1> HIDE DEF i, n
<1>4. PublishId(b, n) \in Nat
  <2>1. CASE i + 2 >= n \/ id + 2 >= n \/ mqtt_get_qos(b) = 0
    <3>1. PublishId(b, n) = 0
      BY <2>1, Zenon DEF PublishId, i
    <3> QED BY <3>1
  <2>2. CASE ~ (i + 2 >= n \/ id + 2 >= n \/ mqtt_get_qos(b) = 0)
    <3>1. b[i + 1] \in Nat /\ b[i + 2] \in Nat
      BY <1>1, <1>2, <1>3, <2>2
    <3>2. id \in Nat
      BY <1>3, <3>1 DEF TopicLength
    <3>3. PublishId(b, n) = b[id + 1] * 256 + b[id + 2]
      BY <2>2, Zenon DEF PublishId, i
    <3> HIDE DEF id
    <3>4. b[id + 1] \in Nat /\ b[id + 2] \in Nat
      BY <1>1, <1>2, <2>2, <3>2
    <3> QED BY <3>3, <3>4
  <2> QED BY <2>1, <2>2
<1>5. b[3] * 256 + b[4] \in Nat
  <2>1. b[3] \in Nat /\ b[4] \in Nat
    BY <1>1, <1>2
  <2> QED BY <2>1
<1>6. \/ mqtt_get_id(b, n) = PublishId(b, n) \/ mqtt_get_id(b, n) = b[3] * 256 + b[4]
      \/ mqtt_get_id(b, n) = 0
  BY DEF mqtt_get_id
<1> QED BY <1>4, <1>5, <1>6 DEF n

-----------------------------------------------------------------------------
(* Every step keeps the invariant.                                         *)

\* What an action does that touches neither the buffer nor what is under way.
LEMMA IdleIInv ==
  ASSUME IInv, BuiltAsAsked', message_id' = message_id \/ message_id' = NextId,
         UNCHANGED <<in_buffer, accepted, stream, segment, due, sent>>
  PROVE  IInv'
<1>1. message_id \in 0 .. MaxId
  BY Zenon DEF IInv, TypeOK
<1>2. message_id' \in 0 .. MaxId
  BY <1>1, MaxIdIs, NextIdIs
<1>3. TypeOK'
  BY <1>2, Zenon DEF IInv, TypeOK
<1>4. DueLies'
  BY Zenon DEF IInv, DueLies
<1> QED BY <1>3, <1>4, Zenon DEF IInv

LEMMA BuildsIInv ==
  ASSUME IInv, Builds
  PROVE  IInv'
<1>1. message_id \in Nat
  <2>1. message_id \in 0 .. MaxId
    BY Zenon DEF IInv, TypeOK
  <2> QED BY <2>1, MaxIdIs
<1>2. ASSUME NEW info \in Infos, mqtt_msg_connect(info) PROVE IInv'
  <2>1. BuiltAsAsked'
    BY <1>2, ConnectReads
  <2>2. /\ message_id' = 0 /\ accepted' = FALSE
        /\ stream' = <<>> /\ segment' = <<>> /\ due' = {}
        /\ in_buffer' = in_buffer /\ sent' = sent
    BY <1>2, Zenon DEF mqtt_msg_connect
  <2>3. DueLies'
    BY <2>2, Zenon DEF DueLies
  <2>4. message_id' \in 0 .. MaxId /\ stream' \in Seq(Byte) /\ segment' \in Seq(Byte)
    BY <2>2, MaxIdIs, EmptySeq
  <2>5. accepted' \in BOOLEAN
    BY <2>2, Zenon
  <2>6. TypeOK'
    BY <2>2, <2>4, <2>5, Zenon DEF IInv, TypeOK
  <2> QED BY <2>1, <2>3, <2>6, Zenon DEF IInv
<1>3. ASSUME NEW p \in Publications, mqtt_msg_publish(p.topic, p.data, p.qos, p.retain)
      PROVE  IInv'
  <2>1. BuiltAsAsked'
    BY <1>1, <1>3, PublishReads
  <2>2. /\ message_id' = message_id \/ message_id' = NextId
        /\ UNCHANGED <<in_buffer, accepted, stream, segment, due, sent>>
    BY <1>3, Zenon DEF mqtt_msg_publish, Idle
  <2> QED BY <2>1, <2>2, IdleIInv
<1>4. ASSUME NEW topic \in Topics, mqtt_msg_subscribe(topic, 2) PROVE IInv'
  <2>1. BuiltAsAsked'
    <3>1. 2 \in Nat
      OBVIOUS
    <3> QED BY <1>1, <1>4, <3>1, SubscribeReads, Zenon
  <2>2. /\ message_id' = message_id \/ message_id' = NextId
        /\ UNCHANGED <<in_buffer, accepted, stream, segment, due, sent>>
    BY <1>4, Zenon DEF mqtt_msg_subscribe, Idle
  <2> QED BY <2>1, <2>2, IdleIInv
<1>5. ASSUME NEW topic \in Topics, mqtt_msg_unsubscribe(topic) PROVE IInv'
  <2>1. BuiltAsAsked'
    BY <1>1, <1>5, UnsubscribeReads
  <2>2. /\ message_id' = message_id \/ message_id' = NextId
        /\ UNCHANGED <<in_buffer, accepted, stream, segment, due, sent>>
    BY <1>5, Zenon DEF mqtt_msg_unsubscribe, Idle
  <2> QED BY <2>1, <2>2, IdleIInv
<1>6. ASSUME mqtt_msg_pingreq PROVE IInv'
  <2>1. BuiltAsAsked'
    BY <1>6, PingReads
  <2>2. /\ message_id' = message_id \/ message_id' = NextId
        /\ UNCHANGED <<in_buffer, accepted, stream, segment, due, sent>>
    BY <1>6, Zenon DEF mqtt_msg_pingreq, Idle
  <2> QED BY <2>1, <2>2, IdleIInv
<1> QED BY <1>2, <1>3, <1>4, <1>5, <1>6, Zenon DEF Builds

LEMMA BrokerIInv ==
  ASSUME IInv, NEW p \in Packets, BrokerSends(p)
  PROVE  IInv'
<1> DEFINE e == Encode(p)
           bytes == segment \o stream
<1>1. /\ stream \in Seq(Byte) /\ segment \in Seq(Byte) /\ sent \in Nat
  BY Zenon DEF IInv, TypeOK
<1>2. /\ stream' = stream \o e /\ segment' = segment /\ sent' = sent + 1
      /\ due' = due \cup {Due(p, Len(segment) + Len(stream))}
      /\ UNCHANGED <<message_id, in_buffer, accepted>>
  BY Zenon DEF BrokerSends
<1>3. e \in Seq(Byte)
  BY EncodeIs
<1> HIDE DEF e
<1>4. stream' \in Seq(Byte)
  BY <1>1, <1>2, <1>3, JoinedBytes
<1>5. sent' \in Nat
  BY <1>1, <1>2
<1>6. TypeOK'
  BY <1>1, <1>2, <1>4, <1>5, Zenon DEF IInv, TypeOK
<1>7. e \in Seq(Nat) /\ stream \in Seq(Nat) /\ segment \in Seq(Nat)
  BY <1>1, <1>3, BytesAreNumbers
<1>8. bytes \in Seq(Nat) /\ Len(bytes) = Len(segment) + Len(stream)
  BY <1>7, Joined
<1>9. segment' \o stream' = bytes \o e
  <2>1. segment \o (stream \o e) = (segment \o stream) \o e
    <3>1. \A x, y, z \in Seq(Nat) : (x \o y) \o z = x \o (y \o z)
      BY ConcatAssociative, SMTT(60)
    <3> QED BY <1>7, <3>1, Zenon
  <2> QED BY <1>2, <2>1, Zenon DEF bytes
<1> HIDE DEF bytes
<1>10. ASSUME NEW d \in due'
       PROVE  d.packet \in Packets /\ LiesAt(Encode(d.packet), bytes \o e, d.start)
  <2>1. CASE d \in due
    <3>1. d.packet \in Packets /\ LiesAt(Encode(d.packet), bytes, d.start)
      BY <2>1, Zenon DEF IInv, DueLies, bytes
    <3>2. Encode(d.packet) \in Seq(Nat)
      BY <3>1, EncodeIs, BytesAreNumbers
    <3> DEFINE f == Encode(d.packet)
               start == d.start
    <3> HIDE DEF f, start
    <3>3. LiesAt(f, bytes, start) /\ f \in Seq(Nat)
      BY <3>1, <3>2, Zenon DEF f, start
    <3>4. LiesAt(f, bytes \o e, start)
      BY <1>7, <1>8, <3>3, LiesOn
    <3> QED BY <3>1, <3>4, Zenon DEF f, start
  <2>2. CASE d = Due(p, Len(segment) + Len(stream))
    <3>1. d.packet = p /\ d.start = Len(bytes)
      BY <1>8, <2>2 DEF Due
    <3>2. LiesAt(e, bytes \o e, Len(bytes))
      BY <1>7, <1>8, LiesBehind
    <3> QED BY <3>1, <3>2, Zenon DEF e
  <2> QED BY <1>2, <2>1, <2>2, Zenon
<1>11. DueLies'
  BY <1>9, <1>10, Zenon DEF DueLies
<1>12. BuiltAsAsked'
  BY QueuedReads, Zenon DEF BrokerSends
<1> QED BY <1>6, <1>11, <1>12, Zenon DEF IInv

LEMMA ArrivesIInv ==
  ASSUME IInv, NEW n, Arrives(n)
  PROVE  IInv'
<1>1. stream \in Seq(Byte)
  BY Zenon DEF IInv, TypeOK
<1>2. /\ segment = <<>> /\ n \in 1 .. Len(stream)
      /\ segment' = SubSeq(stream, 1, n) /\ stream' = SubSeq(stream, n + 1, Len(stream))
      /\ UNCHANGED <<message_id, in_buffer, accepted, due, sent>>
  BY Zenon DEF Arrives
<1>3. Len(stream) \in Nat /\ n \in Nat /\ n <= Len(stream)
  BY <1>1, <1>2, LenProperties
<1>4. stream' \in Seq(Byte)
  BY <1>1, <1>2, <1>3, LeftBytes
<1>5. segment' \in Seq(Byte)
  <2>1. \A i \in 1 .. n : stream[i] \in Byte
    <3> SUFFICES ASSUME NEW i \in 1 .. n PROVE stream[i] \in Byte
      OBVIOUS
    <3>1. i \in 1 .. Len(stream)
      BY <1>3
    <3> QED BY <1>1, <3>1, ElementOfSeq
  <2>2. 1 \in Int /\ n \in Int
    BY <1>3
  <2>3. SubSeq(stream, 1, n) \in Seq(Byte)
    BY <2>1, <2>2, SubSeqProperties, Zenon
  <2> QED BY <1>2, <2>3, Zenon
<1>6. TypeOK'
  BY <1>2, <1>4, <1>5, Zenon DEF IInv, TypeOK
<1>7. segment' \o stream' = segment \o stream
  <2>1. SubSeq(stream, 1, n) \o SubSeq(stream, n + 1, Len(stream)) = SubSeq(stream, 1, Len(stream))
    <3>1. 1 \in 1 .. Len(stream) + 1 /\ n \in 1 - 1 .. Len(stream) /\ Len(stream) \in n .. Len(stream)
      BY <1>3
    <3> QED BY <1>1, <3>1, ConcatAdjacentSubSeq, Zenon
  <2>2. SubSeq(stream, 1, Len(stream)) = stream
    BY <1>1, SubSeqFull
  <2>3. <<>> \o stream = stream
    BY <1>1, ConcatEmptySeq
  <2> QED BY <1>2, <2>1, <2>2, <2>3, Zenon
<1>8. DueLies'
  BY <1>2, <1>7, Zenon DEF IInv, DueLies
<1>9. BuiltAsAsked'
  BY QueuedReads, Zenon DEF Arrives
<1> QED BY <1>6, <1>8, <1>9, Zenon DEF IInv

LEMMA TooLongIInv ==
  ASSUME IInv, TooLong
  PROVE  IInv'
<1>1. segment \in Seq(Byte) /\ Len(segment) \in Nat /\ Len(segment) <= Len(segment)
  BY LenProperties DEF IInv, TypeOK
<1>2. SubSeq(segment, Len(segment) + 1, Len(segment)) = <<>>
  BY <1>1, SubSeqEmpty
<1>3. /\ Consume(Len(segment), <<>>) /\ stream' = stream
      /\ UNCHANGED <<message_id, in_buffer, accepted, sent>> /\ Queued
  BY Zenon DEF TooLong
<1>4. segment' \in Seq(Byte) /\ DueLies'
  BY <1>1, <1>2, <1>3, ConsumeLies, Zenon DEF IInv
<1>5. TypeOK'
  BY <1>3, <1>4, Zenon DEF IInv, TypeOK
<1>6. BuiltAsAsked'
  BY <1>3, QueuedReads
<1> QED BY <1>4, <1>5, <1>6, Zenon DEF IInv

LEMMA ReadConnackIInv ==
  ASSUME IInv, ReadConnack
  PROVE  IInv'
<1>1. segment \in Seq(Byte) /\ Len(segment) \in Nat /\ Len(segment) <= Len(segment)
  BY LenProperties DEF IInv, TypeOK
<1>2. SubSeq(segment, Len(segment) + 1, Len(segment)) = <<>>
  BY <1>1, SubSeqEmpty
<1>3. /\ Consume(Len(segment), <<>>) /\ Read /\ Queued /\ message_id' = message_id
      /\ stream' = stream /\ sent' = sent
  BY Zenon DEF ReadConnack, Read
<1>4. accepted' \in BOOLEAN
  BY Zenon DEF ReadConnack
<1>5. segment' \in Seq(Byte) /\ DueLies'
  BY <1>1, <1>2, <1>3, ConsumeLies, Zenon DEF IInv
<1>6. in_buffer' \in Seq(Byte) /\ Len(in_buffer') = BufferLength
  BY <1>3, ReadBuffer, Zenon DEF IInv
<1>7. TypeOK'
  BY <1>3, <1>4, <1>5, <1>6, Zenon DEF IInv, TypeOK
<1>8. BuiltAsAsked'
  BY <1>3, QueuedReads
<1> QED BY <1>5, <1>7, <1>8, Zenon DEF IInv

LEMMA ReadPacketIInv ==
  ASSUME IInv, ReadPacket
  PROVE  IInv'
<1> DEFINE n == Len(segment)
           type == mqtt_get_type(in_buffer')
           qos == mqtt_get_qos(in_buffer')
           id == mqtt_get_id(in_buffer', BufferLength)
<1>1. /\ Read /\ Respond(type, qos, id) /\ accepted' = accepted
      /\ stream' = stream /\ sent' = sent
      /\ \E total \in mqtt_get_total_length(in_buffer', n) :
           IF type = Type.PUBLISH /\ total % (256 * 256) < n
             THEN Consume(total % (256 * 256), SubSeq(segment, (total % (256 * 256)) + 1, n))
             ELSE Consume(n, <<>>)
  BY Zenon DEF ReadPacket, TakeApart, Read
<1>2. /\ n \in Nat \ {0} /\ n < BufferLength
      /\ in_buffer' \in Seq(Byte) /\ Len(in_buffer') = BufferLength
      /\ \A k \in 1 .. BufferLength : in_buffer'[k] \in Byte
  BY <1>1, ReadBuffer, Zenon DEF IInv
<1>3. \A k \in 1 .. n : in_buffer'[k] \in Byte
  <2> SUFFICES ASSUME NEW k \in 1 .. n PROVE in_buffer'[k] \in Byte
    OBVIOUS
  <2>1. k \in 1 .. BufferLength
    BY <1>2, BufferIs
  <2> QED BY <1>2, <2>1, Zenon
<1>4. PICK total \in mqtt_get_total_length(in_buffer', n) :
           IF type = Type.PUBLISH /\ total % (256 * 256) < n
             THEN Consume(total % (256 * 256), SubSeq(segment, (total % (256 * 256)) + 1, n))
             ELSE Consume(n, <<>>)
  BY <1>1, Zenon
<1>5. total \in Int
  BY <1>2, <1>3, TotalIs, Zenon
<1>6. segment' \in Seq(Byte) /\ DueLies'
  <2>1. CASE type = Type.PUBLISH /\ total % (256 * 256) < n
    <3> DEFINE length == total % (256 * 256)
    <3>1. length \in Nat
      BY <1>5
    <3>2. Consume(length, SubSeq(segment, length + 1, n))
      BY <1>4, <2>1, Zenon
    <3>3. length <= n
      <4>1. length < n
        BY <2>1, Zenon
      <4> HIDE DEF length
      <4> QED BY <1>2, <3>1, <4>1
    <3> HIDE DEF length
    <3> QED BY <1>1, <3>1, <3>2, <3>3, ConsumeLies, Zenon DEF IInv
  <2>2. CASE ~ (type = Type.PUBLISH /\ total % (256 * 256) < n)
    <3>1. Consume(n, <<>>)
      BY <1>4, <2>2, Zenon
    <3>2. n \in Nat /\ n <= n
      BY <1>2
    <3>3. SubSeq(segment, n + 1, n) = <<>>
      BY <3>2, SubSeqEmpty
    <3> QED BY <1>1, <3>1, <3>2, <3>3, ConsumeLies, Zenon DEF IInv
  <2> QED BY <2>1, <2>2, Zenon
<1>7. message_id \in Nat /\ message_id \in 0 .. MaxId
  <2>1. message_id \in 0 .. MaxId
    BY Zenon DEF IInv, TypeOK
  <2> QED BY <2>1, MaxIdIs
<1>8. id \in Nat
  BY <1>2, IdIs, Zenon
<1>9. BuiltAsAsked'
  <2> HIDE DEF type, qos, id
  <2> QED BY <1>1, <1>7, <1>8, RespondReads
<1>10. message_id' \in 0 .. MaxId
  <2> HIDE DEF type, qos, id
  <2>1. message_id' = message_id \/ message_id' = NextId
    BY <1>1, Zenon DEF Respond
  <2> QED BY <1>7, <2>1, MaxIdIs, NextIdIs
<1>11. TypeOK'
  BY <1>1, <1>2, <1>6, <1>10, Zenon DEF IInv, TypeOK
<1> QED BY <1>6, <1>9, <1>11, Zenon DEF IInv

LEMMA StepIInv == IInv /\ [Next]_vars => IInv'
<1> SUFFICES ASSUME IInv, [Next]_vars PROVE IInv'
  OBVIOUS
<1>1. CASE Builds
  BY <1>1, BuildsIInv
<1>2. ASSUME NEW p \in Packets, BrokerSends(p) PROVE IInv'
  BY <1>2, BrokerIInv
<1>3. ASSUME NEW n, Arrives(n) PROVE IInv'
  BY <1>3, ArrivesIInv
<1>4. CASE TooLong
  BY <1>4, TooLongIInv
<1>5. CASE ReadConnack
  BY <1>5, ReadConnackIInv
<1>6. CASE ReadPacket
  BY <1>6, ReadPacketIInv
<1>7. CASE UNCHANGED vars
  BY <1>7, Zenon DEF vars, IInv, TypeOK, DueLies, BuiltAsAsked
<1> QED BY <1>1, <1>2, <1>3, <1>4, <1>5, <1>6, <1>7, Zenon DEF Next, Receives

LEMMA Invariant == Spec => []IInv
BY InitIInv, StepIInv, PTL DEF Spec

(* What is built says what was asked for, to who reads it as the client    *)
(* reads, and fails exactly when it must.                                  *)
THEOREM PacketsAreBuilt == Spec => []BuiltAsAsked
<1>1. IInv => BuiltAsAsked
  BY DEF IInv
<1> QED BY <1>1, Invariant, PTL

(* The types, and where the packets under way are.                         *)
THEOREM PacketsStay == Spec => [](TypeOK /\ DueLies)
<1>1. IInv => TypeOK /\ DueLies
  BY DEF IInv
<1> QED BY <1>1, Invariant, PTL

-----------------------------------------------------------------------------
(* Nothing is read past what arrived.                                      *)

LEMMA TopicWithin ==
  ASSUME NEW n \in Nat \ {0}, NEW b, \A k \in 1 .. n : b[k] \in Byte
  PROVE  LET topic == mqtt_get_publish_topic(b, n)
         IN  topic.at # 0 => topic.at + topic.length <= n
<1> DEFINE i == HeaderEnd(b, n)
           length == TopicLength(b, i)
           topic == mqtt_get_publish_topic(b, n)
<1>1. i \in 1 .. n
  BY HeaderWithin
<1>2. CASE i + 2 >= n \/ i + 2 + length > n
  <2>1. topic = [at |-> 0, length |-> n]
    BY <1>2, Zenon DEF mqtt_get_publish_topic
  <2> QED BY <2>1
<1>3. CASE ~ (i + 2 >= n \/ i + 2 + length > n)
  <2>1. topic = [at |-> i + 2, length |-> length]
    BY <1>3, Zenon DEF mqtt_get_publish_topic
  <2>2. b[i + 1] \in Nat /\ b[i + 2] \in Nat
    <3>1. i + 1 \in 1 .. n /\ i + 2 \in 1 .. n
      BY <1>1, <1>3
    <3> QED BY <3>1, ByteIs
  <2>3. i + 2 + length <= n
    BY <1>1, <1>3, <2>2 DEF TopicLength
  <2> HIDE DEF i, length, topic
  <2>4. topic.at = i + 2 /\ topic.length = length
    BY <2>1
  <2>5. topic.at + topic.length <= n
    BY <2>3, <2>4, Zenon
  <2> QED BY <2>5, Zenon DEF topic
<1> QED BY <1>2, <1>3, Zenon

LEMMA DataWithin ==
  ASSUME NEW n \in Nat \ {0}, NEW b, \A k \in 1 .. n : b[k] \in Byte,
         NEW total \in mqtt_get_total_length(b, n)
  PROVE  LET data == mqtt_get_publish_data(b, n, total)
         IN  data.length >= 0 /\ data.at + data.length <= n
<1> DEFINE i == HeaderEnd(b, n)
           topic == i + 2 + TopicLength(b, i)
           at == IF mqtt_get_qos(b) > 0 THEN topic + 2 ELSE topic
           data == mqtt_get_publish_data(b, n, total)
           none == i + 2 >= n \/ topic >= n \/ at >= n \/ total < at
<1>1. i \in 1 .. n /\ total \in Int
  BY HeaderWithin, TotalIs, Zenon
<1>2. CASE none
  <2>1. data = [at |-> 0, length |-> 0]
    BY <1>2, Zenon DEF mqtt_get_publish_data
  <2> QED BY <2>1
<1>3. CASE ~ none
  <2>1. data = [at |-> at, length |-> Least(total, n) - at]
    BY <1>3, Zenon DEF mqtt_get_publish_data
  <2>2. b[i + 1] \in Nat /\ b[i + 2] \in Nat
    <3>1. i + 1 \in 1 .. n /\ i + 2 \in 1 .. n
      BY <1>1, <1>3
    <3> QED BY <3>1, ByteIs
  <2>3. topic \in Nat
    BY <1>1, <2>2 DEF TopicLength
  <2>4. at \in Nat
    <3> HIDE DEF topic
    <3> QED BY <2>3
  <2> HIDE DEF at
  <2>5. at < n /\ at <= total
    <3>1. ~ (at >= n) /\ ~ (total < at)
      BY <1>3
    <3> QED BY <3>1, <2>4, <1>1
  <2>6. Least(total, n) \in Int /\ Least(total, n) >= at /\ Least(total, n) <= n
    BY <1>1, <2>4, <2>5 DEF Least
  <2>7. Least(total, n) - at >= 0 /\ at + (Least(total, n) - at) <= n
    BY <2>4, <2>6
  <2> HIDE DEF data
  <2>8. data.at = at /\ data.length = Least(total, n) - at
    BY <2>1
  <2>9. data.length >= 0 /\ data.at + data.length <= n
    BY <2>7, <2>8, Zenon
  <2> QED BY <2>9, Zenon DEF data
<1> QED BY <1>2, <1>3, Zenon

(* However TCP cuts what the broker sends, what is delivered of it lies    *)
(* within the segment that arrived.                                        *)
THEOREM NothingReadBeyond == Spec => ReadInBounds
<1> DEFINE n == Len(segment)
           A == ReadPacket /\ mqtt_get_type(in_buffer') = Type.PUBLISH =>
                  LET topic == mqtt_get_publish_topic(in_buffer', n)
                  IN  /\ topic.at # 0 => topic.at + topic.length <= n
                      /\ \A total \in mqtt_get_total_length(in_buffer', n) :
                           LET data == mqtt_get_publish_data(in_buffer', n, total)
                           IN  data.length >= 0 /\ data.at + data.length <= n
<1>1. IInv /\ [Next]_vars => [A]_vars
  <2> SUFFICES ASSUME IInv, ReadPacket PROVE A
    BY Zenon
  <2>1. Read
    BY Zenon DEF ReadPacket, TakeApart
  <2>2. /\ n \in Nat \ {0} /\ n < BufferLength
        /\ \A k \in 1 .. BufferLength : in_buffer'[k] \in Byte
    BY <2>1, ReadBuffer, Zenon DEF IInv
  <2>3. \A k \in 1 .. n : in_buffer'[k] \in Byte
    <3> SUFFICES ASSUME NEW k \in 1 .. n PROVE in_buffer'[k] \in Byte
      OBVIOUS
    <3>1. k \in 1 .. BufferLength
      BY <2>2, BufferIs
    <3> QED BY <2>2, <3>1, Zenon
  <2> QED BY <2>2, <2>3, TopicWithin, DataWithin, Zenon
<1> QED BY <1>1, Invariant, PTL DEF Spec, ReadInBounds
-----------------------------------------------------------------------------
(* A packet that came whole is read as it was sent.                        *)

LEMMA FirstRead ==
  ASSUME IInv, Read, NEW d \in due, WholeFirst(d)
  PROVE  /\ d.packet \in Packets
         /\ Begins(in_buffer', Encode(d.packet))
         /\ Len(Encode(d.packet)) <= Len(segment)
<1> DEFINE e == Encode(d.packet)
           u == segment \o stream
<1>1. d.packet \in Packets /\ LiesAt(e, u, 0) /\ Len(e) <= Len(segment)
  BY Zenon DEF IInv, DueLies, WholeFirst
<1>2. /\ Len(segment) \in Nat
      /\ \A j \in 1 .. Len(segment) : in_buffer'[j] = segment[j]
  BY ReadBuffer, Zenon DEF IInv
<1>3. \A j \in 1 .. Len(segment) : u[j] = segment[j]
  <2>1. segment \in Seq(Byte) /\ stream \in Seq(Byte)
    BY Zenon DEF IInv, TypeOK
  <2> QED BY <2>1, BytesAreNumbers, Joined
<1>4. Len(e) \in Nat
  BY <1>1, EncodeIs, LenProperties
<1> HIDE DEF e, u
<1>5. \A j \in 1 .. Len(e) : in_buffer'[j] = e[j]
  <2> SUFFICES ASSUME NEW j \in 1 .. Len(e) PROVE in_buffer'[j] = e[j]
    OBVIOUS
  <2>1. j \in 1 .. Len(segment)
    BY <1>1, <1>2, <1>4
  <2>2. 0 + j = j
    OBVIOUS
  <2>3. u[0 + j] = e[j]
    BY <1>1, Zenon DEF LiesAt
  <2> QED BY <1>2, <1>3, <2>1, <2>2, <2>3, Zenon
<1> QED BY <1>1, <1>5, Zenon DEF Begins, e

\* Where the parts of a PUBLISH are in what begins with it.
LEMMA PublishRead ==
  ASSUME NEW p \in Packets, p.type = 3, NEW b, Begins(b, Encode(p)),
         NEW n \in Nat, Len(Encode(p)) <= n
  PROVE  LET h == Header(Body(p))
             t == Len(p.topic)
             i == Len(IdBytes(p))
         IN  /\ h \in {2, 3} /\ t \in Nat /\ t > 0 /\ Len(p.data) \in Nat
             /\ p.topic \in Seq(Nat) /\ p.data \in Seq(Nat)
             /\ HeaderEnd(b, n) = h /\ mqtt_get_qos(b) = p.qos /\ p.qos \in Nat
             /\ TopicLength(b, h) = t
             /\ (p.qos > 0 => i = 2) /\ (~ (p.qos > 0) => i = 0)
             /\ Len(Encode(p)) = h + 2 + t + i + Len(p.data)
             /\ \A j \in 1 .. t : b[h + 2 + j] = p.topic[j]
             /\ p.qos > 0 => b[h + 2 + t + 1] * 256 + b[h + 2 + t + 2] = p.id
             /\ \A j \in 1 .. Len(p.data) : b[h + 2 + t + i + j] = p.data[j]
<1> DEFINE body == Body(p)
           h == Header(body)
           t == Len(p.topic)
           i == Len(IdBytes(p))
           k == Len(p.data)
<1>1. /\ t \in Nat /\ t > 0 /\ k \in Nat
      /\ Len(body) = 2 + t + i + k
      /\ body[1] * 256 + body[2] = t
      /\ \A j \in 1 .. t : body[2 + j] = p.topic[j]
      /\ p.qos > 0 => body[2 + t + 1] * 256 + body[2 + t + 2] = p.id
      /\ \A j \in 1 .. k : body[2 + t + i + j] = p.data[j]
  BY PublishBody, ZenonT(60)
<1>2. /\ HeaderEnd(b, n) = h /\ mqtt_get_qos(b) = p.qos
      /\ \A j \in 1 .. Len(body) : b[h + j] = body[j]
  BY EncodeRead, Zenon
<1>3. /\ h \in {2, 3} /\ i \in Nat
      /\ (p.qos > 0 => i = 2) /\ (~ (p.qos > 0) => i = 0)
  <2>1. i = IF p.qos > 0 THEN 2 ELSE 0
    BY PublishBody, Zenon
  <2> HIDE DEF i
  <2> QED BY <2>1 DEF Header
<1>4. p.qos \in Nat /\ p.topic \in Seq(Nat) /\ p.data \in Seq(Nat)
  BY PacketIs, BytesAreNumbers
<1>5. Len(Encode(p)) = h + Len(body)
  BY EncodeIs, Zenon
<1> HIDE DEF body, h, i, t, k
<1>11. /\ h \in {2, 3} /\ t \in Nat /\ t > 0 /\ i \in Nat /\ k \in Nat
       /\ Len(body) = 2 + t + i + k
  BY <1>1, <1>3, Zenon
<1>6. Len(Encode(p)) = h + 2 + t + i + k
  BY <1>5, <1>11
<1>7. TopicLength(b, h) = t
  <2>1. b[h + 1] = body[1] /\ b[h + 2] = body[2]
    <3>1. 1 \in 1 .. Len(body) /\ 2 \in 1 .. Len(body)
      BY <1>11
    <3> QED BY <1>2, <3>1, Zenon
  <2> QED BY <1>1, <2>1, Zenon DEF TopicLength
<1>8. \A j \in 1 .. t : b[h + 2 + j] = p.topic[j]
  <2> SUFFICES ASSUME NEW j \in 1 .. t PROVE b[h + 2 + j] = p.topic[j]
    OBVIOUS
  <2>1. 2 + j \in 1 .. Len(body) /\ h + (2 + j) = h + 2 + j
    BY <1>11
  <2> QED BY <1>1, <1>2, <2>1, Zenon
<1>9. p.qos > 0 => b[h + 2 + t + 1] * 256 + b[h + 2 + t + 2] = p.id
  <2> SUFFICES ASSUME p.qos > 0 PROVE b[h + 2 + t + 1] * 256 + b[h + 2 + t + 2] = p.id
    OBVIOUS
  <2>1. /\ 2 + t + 1 \in 1 .. Len(body) /\ h + (2 + t + 1) = h + 2 + t + 1
        /\ 2 + t + 2 \in 1 .. Len(body) /\ h + (2 + t + 2) = h + 2 + t + 2
    <3>1. i = 2
      BY <1>3, Zenon
    <3> QED BY <1>11, <3>1
  <2>2. b[h + 2 + t + 1] = body[2 + t + 1] /\ b[h + 2 + t + 2] = body[2 + t + 2]
    BY <1>2, <2>1, Zenon
  <2> QED BY <1>1, <2>2, ZenonT(60)
<1>10. \A j \in 1 .. k : b[h + 2 + t + i + j] = p.data[j]
  <2> SUFFICES ASSUME NEW j \in 1 .. k PROVE b[h + 2 + t + i + j] = p.data[j]
    OBVIOUS
  <2>1. 2 + t + i + j \in 1 .. Len(body) /\ h + (2 + t + i + j) = h + 2 + t + i + j
    BY <1>11
  <2> QED BY <1>1, <1>2, <2>1, ZenonT(60)
<1> QED BY <1>1, <1>2, <1>3, <1>4, <1>6, <1>7, <1>8, <1>9, <1>10, Zenon DEF body, h, i, t, k
(* The identifier of what has to be acknowledged is read as it was sent.   *)
LEMMA IdRead ==
  ASSUME NEW p \in Packets, Acknowledged(p), NEW b, Begins(b, Encode(p)),
         Len(Encode(p)) < BufferLength
  PROVE  mqtt_get_id(b, BufferLength) = p.id /\ p.id # 0
<1> DEFINE n == BufferLength
           e == Encode(p)
<1>1. n \in Nat /\ n >= 5 /\ Len(e) \in Nat /\ Len(e) < n /\ Len(e) <= n
  BY BufferIs, EncodeIs, LenProperties
<1>2. /\ (p.type = 3 /\ p.qos > 0) \/ p.type = 5 \/ p.type = 6
      /\ p.id # 0
  <2>1. p.id > 0
    BY PacketIs, Zenon
  <2> QED BY <2>1 DEF Acknowledged, Type
<1>3. mqtt_get_type(b) = p.type
  BY <1>1, EncodeRead, Zenon
<1>4. Type.PUBLISH = 3
  BY DEF Type
<1>5. CASE p.type = 3 /\ p.qos > 0
  <2> DEFINE h == Header(Body(p))
             t == Len(p.topic)
             i == Len(IdBytes(p))
             id == h + 2 + t
  <2>1. i = 2
    BY <1>1, <1>5, PublishRead, Zenon
  <2>2. /\ h \in {2, 3} /\ t \in Nat /\ Len(p.data) \in Nat
        /\ HeaderEnd(b, n) = h /\ mqtt_get_qos(b) = p.qos /\ p.qos \in Nat
        /\ TopicLength(b, h) = t
        /\ Len(e) = h + 2 + t + i + Len(p.data)
        /\ b[id + 1] * 256 + b[id + 2] = p.id
    BY <1>1, <1>5, PublishRead, ZenonT(60)
  <2> HIDE DEF h, t, i, e
  <2>3. ~ (h + 2 >= n \/ id + 2 >= n \/ mqtt_get_qos(b) = 0)
    <3>1. id + 2 < n /\ h + 2 < n
      <4> DEFINE k == Len(p.data)
      <4>1. /\ h \in {2, 3} /\ t \in Nat /\ k \in Nat
            /\ Len(e) = h + 2 + t + i + k
        BY <2>2
      <4> HIDE DEF k
      <4> QED BY <1>1, <2>1, <4>1
    <3>2. mqtt_get_qos(b) # 0
      BY <1>5, <2>2
    <3> QED BY <1>1, <2>2, <3>1, <3>2
  <2>4. PublishId(b, n) = b[id + 1] * 256 + b[id + 2]
    BY <2>2, <2>3, Zenon DEF PublishId
  <2>5. mqtt_get_id(b, n) = PublishId(b, n)
    <3>1. mqtt_get_type(b) = Type.PUBLISH /\ ~ (mqtt_get_type(b) \in (4 .. 9) \cup {11})
      BY <1>3, <1>4, <1>5
    <3> QED BY <3>1, Zenon DEF mqtt_get_id
  <2> QED BY <1>2, <2>2, <2>4, <2>5, Zenon
<1>6. CASE p.type = 5 \/ p.type = 6
  <2> DEFINE body == Body(p)
             first == 16 * p.type + 2 * p.qos
  <2>1. body = Two(p.id)
    <3>1. p.type # Type.PUBLISH /\ p.type # Type.CONNACK /\ p.type # Type.PINGREQ
      BY <1>6 DEF Type
    <3> QED BY <3>1 DEF Body
  <2>2. p.id \in Nat /\ p.id < 256 * 256
    BY PacketIs, Zenon
  <2>3. Len(body) = 2 /\ body[1] * 256 + body[2] = p.id
    BY <2>1, <2>2, TwoBytes
  <2>4. body \in Seq(Nat)
    BY BodyBytes, BytesAreNumbers
  <2>5. first \in Nat /\ e = Frame(first, body)
    BY EncodeIs, Zenon
  <2>6. \A j \in 1 .. Len(body) : b[Header(body) + j] = body[j]
    BY <1>1, EncodeRead, Zenon
  <2> HIDE DEF body, first
  <2>7. Header(body) = 2
    BY <2>3 DEF Header
  <2>8. b[3] = body[1] /\ b[4] = body[2]
    BY <2>3, <2>6, <2>7
  <2>9. b[2] = 2
    <3>1. Len(e) = Header(body) + Len(body) /\ e[2] = Len(body)
      <4>1. Len(body) < 128 * 128 /\ Len(body) < 128
        BY <2>3
      <4>2. /\ Len(Frame(first, body)) = Header(body) + Len(body)
            /\ Frame(first, body)[2] = Len(body)
        BY <2>4, <2>5, <4>1, FrameBytes
      <4> HIDE DEF e
      <4> QED BY <2>5, <4>2, Zenon
    <3>2. 2 \in 1 .. Len(e)
      BY <2>3, <2>7, <3>1
    <3> QED BY <2>3, <3>1, <3>2, Zenon DEF Begins
  <2>10. mqtt_get_id(b, n) = b[3] * 256 + b[4]
    <3>1. mqtt_get_type(b) # Type.PUBLISH /\ mqtt_get_type(b) \in 4 .. 9
      BY <1>3, <1>4, <1>6
    <3>2. n >= 4 /\ b[2] < 128
      BY <1>1, <2>9
    <3> HIDE DEF n
    <3> QED BY <3>1, <3>2 DEF mqtt_get_id
  <2> QED BY <1>2, <2>3, <2>8, <2>10
<1> QED BY <1>2, <1>5, <1>6, Zenon

\* The answer to what has to be acknowledged.
LEMMA Acked ==
  ASSUME message_id \in Nat, NEW type, NEW qos, NEW id \in Nat, id # 0,
         \/ type = 3 /\ qos \in {1, 2}
         \/ type = 5
         \/ type = 6,
         Respond(type, qos, id)
  PROVE  asked'.body = Two(id) /\ message' # <<>>
<1> DEFINE bodies == append_message_id({<<>>}, id)
           ack(t, q) == Build(t, q, 0, bodies, Two(id), TRUE)
<1>1. IdFor(id) = id
  BY DEF IdFor
<1>2. \E t, q : ack(t, q)
  <2> DEFINE answer(t, q) ==
               Build(t, q, 0, append_message_id({<<>>}, IdFor(id)), Two(IdFor(id)), TRUE)
  <2>1. /\ \/ type = Type.PUBLISH /\ qos = 1
           \/ type = Type.PUBLISH /\ qos = 2 /\ qos # 1
           \/ type = Type.PUBREC /\ type # Type.PUBLISH
           \/ type = Type.PUBREL /\ type # Type.PUBLISH /\ type # Type.PUBREC
        /\ type # Type.PINGREQ
    BY DEF Type
  <2>2. \/ answer(Type.PUBACK, 0) \/ answer(Type.PUBREC, 0)
        \/ answer(Type.PUBREL, 1) \/ answer(Type.PUBCOMP, 0)
    BY <2>1, Zenon DEF Respond
  <2>3. \A t, q : answer(t, q) => ack(t, q)
    BY <1>1, Zenon
  <2> HIDE DEF answer, ack
  <2> QED BY <2>2, <2>3, Zenon
<1>3. PICK t, q : ack(t, q)
  BY <1>2
<1>4. asked'.body = Two(id)
  BY <1>3 DEF Build
<1>5. bodies = {Two(id)}
  <2>1. Two(id) \in Seq(Nat) /\ Len(Two(id)) = 2
    BY TwoNumbers
  <2>2. <<>> \o Two(id) = Two(id)
    BY <2>1, ConcatEmptySeq
  <2>3. Fits(<<>>, Len(Two(id)))
    BY <2>1, BufferIs DEF Fits, MQTT_MAX_FIXED_HEADER_SIZE
  <2> QED BY <2>2, <2>3 DEF append_message_id, Appended
<1>6. message' # <<>>
  <2> DEFINE body == Two(id)
             first == 16 * t + 2 * q + 0
  <2>1. body \in Seq(Nat) /\ Len(body) = 2
    BY TwoNumbers, Zenon
  <2>2. bodies # {} /\ (CHOOSE c \in bodies : TRUE) = body
    BY <1>5
  <2>3. message' = fini_message(bodies, t, q, 0)
    BY <1>3, Zenon DEF Build
  <2> HIDE DEF bodies, body
  <2>4. message' = Frame(first, body)
    <3>1. Len(body) > 127 <=> ~ (Len(body) < 128)
      BY <2>1
    <3> QED BY <2>2, <2>3, <3>1, Zenon DEF fini_message, Frame, Prefix
  <2> HIDE DEF first
  <2>5. Frame(first, body) = <<first>> \o <<2>> \o body
    BY <2>1 DEF Frame, Prefix
  <2> QED BY <2>1, <2>4, <2>5
<1> QED BY <1>4, <1>6
(* What has to be acknowledged is, with the identifier that it came with.  *)
THEOREM AcksMatch == Spec => AckMatches
<1> DEFINE A == ReadPacket =>
                  \A d \in due : WholeFirst(d) /\ Acknowledged(d.packet) =>
                    asked'.body = Two(d.packet.id) /\ message' # <<>>
<1>1. IInv /\ [Next]_vars => [A]_vars
  <2> SUFFICES ASSUME IInv, ReadPacket, NEW d \in due, WholeFirst(d), Acknowledged(d.packet)
               PROVE  asked'.body = Two(d.packet.id) /\ message' # <<>>
    BY Zenon
  <2> DEFINE p == d.packet
             b == in_buffer'
  <2>1. Read /\ Respond(mqtt_get_type(b), mqtt_get_qos(b), mqtt_get_id(b, BufferLength))
    BY Zenon DEF ReadPacket, TakeApart
  <2>2. p \in Packets /\ Begins(b, Encode(p)) /\ Len(Encode(p)) <= Len(segment)
    BY <2>1, FirstRead, Zenon
  <2>3. Len(segment) \in Nat /\ Len(segment) < BufferLength
    BY <2>1, ReadBuffer, Zenon DEF IInv
  <2> HIDE DEF p, b
  <2>4. Len(Encode(p)) \in Nat
    BY <2>2, EncodeIs, LenProperties
  <2>5. /\ BufferLength \in Nat /\ Len(Encode(p)) < BufferLength
        /\ Len(Encode(p)) <= BufferLength
    BY <2>2, <2>3, <2>4, BufferIs
  <2>6. mqtt_get_type(b) = p.type /\ mqtt_get_qos(b) = p.qos
    BY <2>2, <2>5, EncodeRead, Zenon
  <2>7. mqtt_get_id(b, BufferLength) = p.id /\ p.id # 0
    BY <2>2, <2>5, IdRead, Zenon DEF p
  <2>8. p.id \in Nat
    BY <2>2, PacketIs, Zenon
  <2>9. \/ p.type = 3 /\ p.qos \in {1, 2}
        \/ p.type = 5
        \/ p.type = 6
    <3>1. p.qos \in 0 .. 2
      BY <2>2, PacketAssumption, Zenon
    <3>2. \/ p.type = Type.PUBLISH /\ p.qos > 0
          \/ p.type \in {Type.PUBREC, Type.PUBREL}
      BY Zenon DEF Acknowledged, p
    <3> QED BY <3>1, <3>2 DEF Type
  <2>10. message_id \in Nat
    BY MaxIdIs, Between DEF IInv, TypeOK
  <2>11. Respond(p.type, p.qos, p.id)
    BY <2>1, <2>6, <2>7, Zenon DEF b
  <2>12. asked'.body = Two(p.id) /\ message' # <<>>
    BY <2>7, <2>8, <2>9, <2>10, <2>11, Acked, Zenon
  <2> QED BY <2>12, Zenon DEF p
<1> QED BY <1>1, Invariant, PTL DEF Spec, AckMatches

\* What the handler hands over of a PUBLISH that begins the buffer.
LEMMA Delivered ==
  ASSUME NEW n \in Nat, NEW b \in Seq(Nat), n <= Len(b),
         NEW p \in Packets, p.type = 3, Begins(b, Encode(p)), Len(Encode(p)) <= n,
         NEW total \in mqtt_get_total_length(b, n)
  PROVE  deliver_publish(b, n, total) = [topic |-> p.topic, data |-> p.data]
<1> DEFINE h == Header(Body(p))
           t == Len(p.topic)
           i == Len(IdBytes(p))
           k == Len(p.data)
           at == h + 2 + t + i
           e == Len(Encode(p))
<1>1. /\ h \in {2, 3} /\ t \in Nat /\ t > 0 /\ k \in Nat
      /\ p.topic \in Seq(Nat) /\ p.data \in Seq(Nat)
      /\ HeaderEnd(b, n) = h /\ mqtt_get_qos(b) = p.qos /\ p.qos \in Nat
      /\ TopicLength(b, h) = t
      /\ (p.qos > 0 => i = 2) /\ (~ (p.qos > 0) => i = 0)
      /\ e = at + k
      /\ \A j \in 1 .. t : b[h + 2 + j] = p.topic[j]
      /\ \A j \in 1 .. k : b[at + j] = p.data[j]
  BY PublishRead, ZenonT(60)
<1>2. total = e /\ e <= n
  <2>1. mqtt_get_total_length(b, n) = {e}
    BY EncodeRead, Zenon
  <2> QED BY <2>1
<1>3. Len(b) \in Nat
  BY LenProperties
<1> HIDE DEF h, t, i, k, e
<1>4. i \in {0, 2} /\ at = IF mqtt_get_qos(b) > 0 THEN h + 2 + t + 2 ELSE h + 2 + t
  <2>1. CASE p.qos > 0
    <3>1. i = 2 /\ mqtt_get_qos(b) > 0
      BY <1>1, <2>1, Zenon
    <3> QED BY <3>1
  <2>2. CASE ~ (p.qos > 0)
    <3>1. i = 0 /\ ~ (mqtt_get_qos(b) > 0) /\ h \in {2, 3} /\ t \in Nat
      BY <1>1, <2>2, Zenon
    <3> QED BY <3>1
  <2> QED BY <2>1, <2>2, Zenon
<1>5. at \in Nat /\ at >= h + 2 + t /\ at + k <= n /\ h + 2 + t <= n
  <2>1. h \in {2, 3} /\ t \in Nat /\ k \in Nat /\ e = at + k
    BY <1>1, Zenon
  <2> QED BY <1>2, <1>4, <2>1
<1> HIDE DEF at
<1>6. Bytes(b, mqtt_get_publish_topic(b, n)) = p.topic
  <2> DEFINE topic == mqtt_get_publish_topic(b, n)
  <2>1. ~ (h + 2 >= n \/ h + 2 + t > n)
    BY <1>1, <1>5, SMTT(60)
  <2>2. topic = [at |-> h + 2, length |-> t]
    BY <1>1, <2>1, Zenon DEF mqtt_get_publish_topic
  <2> HIDE DEF topic
  <2>3. topic.at = h + 2 /\ topic.length = t
    BY <2>2
  <2>4. SubSeq(b, h + 2 + 1, h + 2 + t) = p.topic
    <3> DEFINE from == h + 2
    <3>1. from \in Nat /\ from + t <= Len(b)
      BY <1>1, <1>3, <1>5
    <3>2. \A j \in 1 .. t : b[from + j] = p.topic[j]
      BY <1>1, Zenon
    <3> HIDE DEF from
    <3>3. SubSeq(b, from + 1, from + t) = p.topic
      BY <1>1, <3>1, <3>2, Part, Zenon DEF t
    <3> QED BY <3>3, Zenon DEF from
  <2> QED BY <2>3, <2>4, Zenon DEF Bytes, topic
<1>7. Bytes(b, mqtt_get_publish_data(b, n, total)) = p.data
  <2> DEFINE data == mqtt_get_publish_data(b, n, total)
             none == h + 2 >= n \/ h + 2 + t >= n \/ at >= n \/ total < at
  <2>1. /\ none => data = [at |-> 0, length |-> 0]
        /\ ~ none => data = [at |-> at, length |-> Least(total, n) - at]
    BY <1>1, <1>4, Zenon DEF mqtt_get_publish_data
  <2> HIDE DEF data
  <2>2. CASE none
    <3>1. k = 0
      BY <1>1, <1>2, <1>5, <2>2 DEF at
    <3>2. p.data = <<>>
      BY <1>1, <3>1, EmptySeq DEF k
    <3>3. data.at = 0 /\ data.length = 0
      BY <2>1, <2>2
    <3>4. SubSeq(b, 0 + 1, 0 + 0) = <<>>
      OBVIOUS
    <3> QED BY <3>2, <3>3, <3>4, Zenon DEF Bytes, data
  <2>3. CASE ~ none
    <3>1. Least(total, n) - at = k
      BY <1>1, <1>2, <1>5 DEF Least
    <3>2. data.at = at /\ data.length = k
      BY <2>1, <2>3, <3>1
    <3>3. SubSeq(b, at + 1, at + k) = p.data
      <4>1. at \in Nat /\ at + k <= Len(b)
        BY <1>1, <1>3, <1>5
      <4> QED BY <1>1, <4>1, Part, Zenon DEF k
    <3> QED BY <3>2, <3>3, Zenon DEF Bytes, data
  <2> QED BY <2>2, <2>3, Zenon
<1> QED BY <1>6, <1>7, Zenon DEF deliver_publish

(* A PUBLISH that came whole is delivered as it was published, wherever in *)
(* the stream it lay and whatever is behind it.                            *)
THEOREM PublishReadAsSent == Spec => ReadAsSent
<1> DEFINE n == Len(segment)
           b == in_buffer'
           A == ReadPacket =>
                  \A d \in due : WholeFirst(d) /\ d.packet.type = Type.PUBLISH =>
                    \A total \in mqtt_get_total_length(b, n) :
                      deliver_publish(b, n, total)
                        = [topic |-> d.packet.topic, data |-> d.packet.data]
<1>1. IInv /\ [Next]_vars => [A]_vars
  <2> SUFFICES ASSUME IInv, ReadPacket, NEW d \in due, WholeFirst(d),
                      d.packet.type = Type.PUBLISH, NEW total \in mqtt_get_total_length(b, n)
               PROVE  deliver_publish(b, n, total)
                        = [topic |-> d.packet.topic, data |-> d.packet.data]
    BY Zenon
  <2>1. Read
    BY Zenon DEF ReadPacket, TakeApart
  <2>2. d.packet \in Packets /\ Begins(b, Encode(d.packet)) /\ Len(Encode(d.packet)) <= n
    BY <2>1, FirstRead, Zenon
  <2>3. n \in Nat /\ n < BufferLength /\ b \in Seq(Byte) /\ Len(b) = BufferLength
    BY <2>1, ReadBuffer, Zenon DEF IInv
  <2>4. d.packet.type = 3
    BY DEF Type
  <2> HIDE DEF b, n
  <2>5. b \in Seq(Nat) /\ n <= Len(b)
    BY <2>3, BytesAreNumbers, BufferIs
  <2> QED BY <2>2, <2>3, <2>4, <2>5, Delivered, Zenon
<1> QED BY <1>1, Invariant, PTL DEF Spec, ReadAsSent
=============================================================================
