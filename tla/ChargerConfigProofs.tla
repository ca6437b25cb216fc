------------------------- MODULE ChargerConfigProofs -------------------------
(***************************************************************************)
(* Proofs about ChargerConfig: the writes stay inside the buffer, a stored *)
(* string is never a part of one or a mixture, and begins as one of its    *)
(* own parameter, each until the first string has come that the code does  *)
(* not bring across.  Nothing is assumed of the strings: the invariants    *)
(* speak of those of which the PMU was sent a frame (seen).                *)
(*                                                                         *)
(* The argument is about the frames that are left to be sent.  The MCU     *)
(* sends whole strings, and what is left of them is a chain: after a frame *)
(* that is to be continued comes its continuation.  So the head of what is *)
(* left says how much of the string the PMU has seen, and either all of    *)
(* that is in the buffer, or a continuation frame was passed over and the  *)
(* rest is too short to complete the buffer.                               *)
(***************************************************************************)
EXTENDS ChargerConfig, TLAPS

-----------------------------------------------------------------------------
(* The frames of a string *)

\* The quotient of a natural number is one.
LEMMA QuotientNat ==
    ASSUME NEW q \in Int, NEW r \in Int, NEW b \in Nat, NEW x \in Nat,
           r < b, r = x - q * b
    PROVE  q >= 0
<1> SUFFICES ASSUME q <= -1 PROVE FALSE
    OBVIOUS
<1>1. (q + 1) * b <= 0
    OBVIOUS
<1>2. (q + 1) * b = q * b + b
    OBVIOUS
<1> QED
    BY <1>1, <1>2

\* Division rounds down.
LEMMA Quotient ==
    ASSUME NEW x \in Nat, NEW b \in Nat \ {0}
    PROVE  \E q \in Nat : x \div b = q /\ q * b <= x /\ x < q * b + b
<1> DEFINE q == x \div b
           r == x % b
<1>1. q \in Int /\ r \in 0 .. b - 1
    OBVIOUS
<1>2. r = x - q * b
    OBVIOUS
<1> HIDE DEF q, r
<1>3. q >= 0
    BY <1>1, <1>2, QuotientNat
<1>4. q * b <= x /\ x < q * b + b
    BY <1>1, <1>2
<1> QED
    BY <1>1, <1>3, <1>4 DEF q

\* The continuation frames of a string are as many as its characters need.
LEMMA ContsEnough ==
    ASSUME NEW s \in Str
    PROVE  /\ Conts(s) \in Nat
           /\ Conts(s) = 0 => LenOf[s] <= FirstBytes
           /\ Conts(s) > 0 => FirstBytes + (Conts(s) - 1) * NextBytes < LenOf[s]
           /\ LenOf[s] <= FirstBytes + Conts(s) * NextBytes
           /\ Conts(s) >= 2 => LenOf[s] > FirstBytes + NextBytes
<1>0. /\ LenOf[s] \in Nat /\ FirstBytes \in Nat /\ NextBytes \in Nat \ {0}
    BY ConfigAssumption
<1>1. CASE LenOf[s] <= FirstBytes
    BY <1>0, <1>1 DEF Conts
<1>2. CASE LenOf[s] > FirstBytes
    <2> DEFINE x == LenOf[s] - FirstBytes + NextBytes - 1
    <2>1. x \in Nat
        BY <1>0, <1>2
    <2>2. Conts(s) = x \div NextBytes
        BY <1>0, <1>2 DEF Conts
    <2> HIDE DEF x
    <2>3. PICK q \in Nat : /\ Conts(s) = q /\ q * NextBytes <= x
                           /\ x < q * NextBytes + NextBytes
        BY <1>0, <2>1, <2>2, Quotient
    <2>4. q * NextBytes \in Nat /\ (q - 1) * NextBytes = q * NextBytes - NextBytes
        BY <1>0
    <2>5. q * NextBytes <= LenOf[s] - FirstBytes + NextBytes - 1
          /\ LenOf[s] - FirstBytes - 1 < q * NextBytes
        BY <1>0, <2>1, <2>3, <2>4 DEF x
    <2>6. q # 0
        BY <1>0, <1>2, <2>5
    <2>7. q >= 2 => q * NextBytes >= NextBytes + NextBytes
        BY <1>0
    <2> QED
        BY <1>0, <1>2, <2>3, <2>4, <2>5, <2>6, <2>7
<1> QED
    BY <1>0, <1>1, <1>2

FirstOf(s)   == [kind |-> "first", str |-> s]
NextOf(s, k) == [kind |-> "next", str |-> s, part |-> k]

Frame == {[kind |-> "fixed", seq |-> n] : n \in 1 .. 4}
         \union {NumberFrame(p, v) : p \in {Limit, Tariff}, v \in Value \union {Blank}}
         \union {FirstOf(s) : s \in Str}
         \union {NextOf(s, k) : s \in Str, k \in Nat}
         \union {[kind |-> "eeprom"], [kind |-> "last"]}

\* What the kind of a frame says of the rest of it.
LEMMA FrameKinds ==
    ASSUME NEW f \in Frame
    PROVE  /\ f.kind \in {"fixed", "number", "first", "next", "eeprom", "last"}
           /\ f.kind = "first" => f.str \in Str
           /\ f.kind = "next" => f.str \in Str /\ f.part \in Nat
<1>1. CASE f \in {FirstOf(s) : s \in Str}
    BY <1>1 DEF FirstOf
<1>2. CASE f \in {NextOf(s, k) : s \in Str, k \in Nat}
    BY <1>2 DEF NextOf
<1>3. CASE f \in {[kind |-> "fixed", seq |-> n] : n \in 1 .. 4}
    BY <1>3
<1>4. CASE f \in {NumberFrame(p, v) : p \in {Limit, Tariff}, v \in Value \union {Blank}}
    BY <1>4 DEF NumberFrame
<1>5. CASE f \in {[kind |-> "eeprom"], [kind |-> "last"]}
    BY <1>5
<1> QED
    BY <1>1, <1>2, <1>3, <1>4, <1>5 DEF Frame

\* The number of a frame of a string, and whether another one must follow.
Part(f)      == IF f.kind = "next" THEN f.part ELSE 0
Continues(f) == f.kind \in {"first", "next"} /\ Part(f) < Conts(f.str)

\* In the frames the MCU sends, a continuation frame follows its predecessor,
\* and a frame that is to be continued is; only the head may be without what
\* was before it.
Chained(q) ==
    \A n \in 1 .. Len(q) :
        /\ q[n].kind = "next" =>
               /\ q[n].part \in 1 .. Conts(q[n].str)
               /\ n > 1 => /\ Continues(q[n - 1]) /\ q[n - 1].str = q[n].str
                           /\ q[n].part = Part(q[n - 1]) + 1
        /\ Continues(q[n]) => n < Len(q) /\ q[n + 1].kind = "next"

\* ... as it is not at the beginning.
SentWhole(q) == q \in Seq(Frame) /\ Chained(q) /\ (q # <<>> => q[1].kind # "next")

\* What is left after a frame was acknowledged is still a chain.
LEMMA TailChained ==
    ASSUME NEW q \in Seq(Frame), q # <<>>, Chained(q)
    PROVE  Tail(q) \in Seq(Frame) /\ Chained(Tail(q))
<1>1. /\ Tail(q) \in Seq(Frame) /\ Len(Tail(q)) = Len(q) - 1 /\ Len(q) \in Nat
      /\ \A n \in 1 .. Len(Tail(q)) : Tail(q)[n] = q[n + 1]
    OBVIOUS
<1>2. ASSUME NEW n \in 1 .. Len(Tail(q))
      PROVE  /\ Tail(q)[n].kind = "next" =>
                    /\ Tail(q)[n].part \in 1 .. Conts(Tail(q)[n].str)
                    /\ n > 1 => /\ Continues(Tail(q)[n - 1])
                                /\ Tail(q)[n - 1].str = Tail(q)[n].str
                                /\ Tail(q)[n].part = Part(Tail(q)[n - 1]) + 1
             /\ Continues(Tail(q)[n]) => n < Len(Tail(q)) /\ Tail(q)[n + 1].kind = "next"
    <2>1. Tail(q)[n] = q[n + 1] /\ n + 1 \in 1 .. Len(q) /\ (n + 1) - 1 = n
        BY <1>1
    <2>2. n > 1 => Tail(q)[n - 1] = q[n] /\ n \in 1 .. Len(q)
        BY <1>1
    <2>3. n < Len(Tail(q)) => Tail(q)[n + 1] = q[n + 2]
        BY <1>1
    <2>4. Continues(q[n + 1]) => n + 1 < Len(q) /\ q[n + 2].kind = "next"
        BY <2>1 DEF Chained
    <2>5. q[n + 1].kind = "next" =>
              /\ q[n + 1].part \in 1 .. Conts(q[n + 1].str)
              /\ Continues(q[n]) /\ q[n].str = q[n + 1].str
              /\ q[n + 1].part = Part(q[n]) + 1
        BY <2>1 DEF Chained
    <2> QED
        BY <1>1, <2>1, <2>2, <2>3, <2>4, <2>5
<1> QED
    BY <1>1, <1>2 DEF Chained

\* What follows the head.
LEMMA AfterHead ==
    ASSUME NEW q \in Seq(Frame), q # <<>>, Chained(q)
    PROVE  /\ Head(q) = q[1] /\ Head(q) \in Frame
           /\ Head(q).kind = "next" => Head(q).part \in 1 .. Conts(Head(q).str)
           /\ Tail(q) # <<>> /\ Head(Tail(q)).kind = "next" =>
                  /\ Continues(Head(q)) /\ Head(Tail(q)).str = Head(q).str
                  /\ Head(Tail(q)).part = Part(Head(q)) + 1
           /\ Continues(Head(q)) => Tail(q) # <<>> /\ Head(Tail(q)).kind = "next"
<1>1. Head(q) = q[1] /\ Head(q) \in Frame /\ Len(q) \in Nat \ {0} /\ 1 \in 1 .. Len(q)
    OBVIOUS
<1>2. Tail(q) # <<>> => Head(Tail(q)) = q[2] /\ 2 \in 1 .. Len(q) /\ 2 - 1 = 1
    <2>1. /\ Tail(q) \in Seq(Frame) /\ Len(Tail(q)) = Len(q) - 1 /\ Len(q) \in Nat
          /\ \A n \in 1 .. Len(Tail(q)) : Tail(q)[n] = q[n + 1]
        OBVIOUS
    <2>2. Tail(q) # <<>> => Len(Tail(q)) \in Nat \ {0} /\ Head(Tail(q)) = Tail(q)[1]
        BY <2>1
    <2> QED
        BY <2>1, <2>2
<1>3. 1 < Len(q) => Tail(q) # <<>>
    <2>1. Len(Tail(q)) = Len(q) - 1 /\ Len(q) \in Nat /\ Len(<<>>) = 0
        OBVIOUS
    <2>2. 1 < Len(q) => Len(Tail(q)) # 0
        BY <2>1
    <2> QED
        BY <2>1, <2>2, Zenon
<1>4. Tail(q) # <<>> /\ q[2].kind = "next" =>
          Continues(q[1]) /\ q[1].str = q[2].str /\ q[2].part = Part(q[1]) + 1
    BY <1>2 DEF Chained
<1>5. Continues(q[1]) => 1 < Len(q) /\ q[1 + 1].kind = "next"
    BY <1>1 DEF Chained
<1>6. q[1].kind = "next" => q[1].part \in 1 .. Conts(q[1].str)
    BY <1>1 DEF Chained
<1> QED
    BY <1>1, <1>2, <1>3, <1>4, <1>5, <1>6

\* Frames that are whole can be sent one after the other.
LEMMA ConcatWhole ==
    ASSUME NEW a, NEW b, SentWhole(a), SentWhole(b)
    PROVE  SentWhole(a \o b)
<1> DEFINE c == a \o b
           Good(n) ==
               /\ c[n].kind = "next" =>
                      /\ c[n].part \in 1 .. Conts(c[n].str)
                      /\ n > 1 => /\ Continues(c[n - 1]) /\ c[n - 1].str = c[n].str
                                  /\ c[n].part = Part(c[n - 1]) + 1
               /\ Continues(c[n]) => n < Len(c) /\ c[n + 1].kind = "next"
<1>1. /\ a \in Seq(Frame) /\ b \in Seq(Frame) /\ Len(a) \in Nat /\ Len(b) \in Nat
      /\ c \in Seq(Frame) /\ Len(c) = Len(a) + Len(b)
      /\ \A n \in 1 .. Len(a) : c[n] = a[n]
      /\ \A n \in 1 .. Len(b) : c[n + Len(a)] = b[n]
    BY DEF SentWhole
<1>2. Len(b) > 0 => b[1].kind # "next"
    BY <1>1 DEF SentWhole
<1> HIDE DEF c
<1>3. ASSUME NEW n \in 1 .. Len(a)
      PROVE  Good(n)
    <2>1. c[n] = a[n] /\ n \in Nat
        BY <1>1
    <2>2. n > 1 => c[n - 1] = a[n - 1]
        BY <1>1
    <2>3. n < Len(a) => c[n + 1] = a[n + 1]
        BY <1>1
    <2>4. Continues(a[n]) => n < Len(a) /\ a[n + 1].kind = "next"
        BY DEF SentWhole, Chained
    <2>5. a[n].kind = "next" =>
              /\ a[n].part \in 1 .. Conts(a[n].str)
              /\ n > 1 => /\ Continues(a[n - 1]) /\ a[n - 1].str = a[n].str
                          /\ a[n].part = Part(a[n - 1]) + 1
        BY DEF SentWhole, Chained
    <2> QED
        BY <1>1, <2>1, <2>2, <2>3, <2>4, <2>5
<1>4. ASSUME NEW m \in 1 .. Len(b)
      PROVE  Good(m + Len(a))
    <2> DEFINE n == m + Len(a)
    <2>1. c[n] = b[m] /\ n \in Nat /\ m \in Nat
        BY <1>1
    <2>2. m > 1 => c[n - 1] = b[m - 1]
        <3>1. m > 1 => c[(m - 1) + Len(a)] = b[m - 1]
            BY <1>1
        <3>2. n - 1 = (m - 1) + Len(a)
            BY <1>1
        <3> QED
            BY <3>1, <3>2
    <2>3. m < Len(b) => c[n + 1] = b[m + 1]
        <3>1. m < Len(b) => c[(m + 1) + Len(a)] = b[m + 1]
            BY <1>1
        <3>2. n + 1 = (m + 1) + Len(a)
            BY <1>1
        <3> QED
            BY <3>1, <3>2
    <2>4. Continues(b[m]) => m < Len(b) /\ b[m + 1].kind = "next"
        BY DEF SentWhole, Chained
    <2>5. b[m].kind = "next" =>
              /\ b[m].part \in 1 .. Conts(b[m].str)
              /\ m > 1 => /\ Continues(b[m - 1]) /\ b[m - 1].str = b[m].str
                          /\ b[m].part = Part(b[m - 1]) + 1
        BY DEF SentWhole, Chained
    <2>6. b[m].kind = "next" => m > 1
        BY <1>1, <1>2
    <2>7. n < Len(c) <=> m < Len(b)
        BY <1>1
    <2> HIDE DEF n
    <2>8. Good(n)
        BY <2>1, <2>2, <2>3, <2>4, <2>5, <2>6, <2>7
    <2> QED
        BY <2>8 DEF n
<1>5. Chained(c)
    <2>1. ASSUME NEW n \in 1 .. Len(c), n > Len(a)
          PROVE  \E m \in 1 .. Len(b) : n = m + Len(a)
        <3>1. n - Len(a) \in 1 .. Len(b) /\ n = (n - Len(a)) + Len(a)
            BY <1>1, <2>1
        <3> QED
            BY <3>1
    <2>2. \A n \in 1 .. Len(c) : n > Len(a) \/ n \in 1 .. Len(a)
        BY <1>1
    <2> HIDE DEF Good
    <2>3. \A n \in 1 .. Len(c) : Good(n)
        BY <1>3, <1>4, <2>1, <2>2
    <2> QED
        BY <2>3 DEF Chained, Good
<1>6. c # <<>> => c[1].kind # "next"
    <2>1. CASE Len(a) > 0
        <3>1. a # <<>> /\ 1 \in 1 .. Len(a)
            BY <1>1, <2>1
        <3> QED
            BY <1>1, <3>1 DEF SentWhole
    <2>2. CASE Len(a) = 0
        <3>1. c # <<>> => Len(b) > 0 /\ c[1 + Len(a)] = b[1]
            BY <1>1, <2>2
        <3> QED
            BY <1>2, <2>2, <3>1
    <2> QED
        BY <1>1, <2>1, <2>2
<1> QED
    BY <1>1, <1>5, <1>6 DEF SentWhole, c

\* Frames that are not of strings are whole.
LEMMA PlainWhole ==
    ASSUME NEW q \in Seq(Frame),
           \A n \in 1 .. Len(q) : q[n].kind \notin {"first", "next"}
    PROVE  SentWhole(q)
<1>1. Chained(q)
    BY DEF Chained, Continues
<1>2. q # <<>> => 1 \in 1 .. Len(q)
    OBVIOUS
<1> QED
    BY <1>1, <1>2 DEF SentWhole

\* A string is sent whole.
LEMMA StringWhole ==
    ASSUME NEW s \in Str
    PROVE  SentWhole(StringFrames(s))
<1> DEFINE q == StringFrames(s)
           rest == [k \in 1 .. Conts(s) |-> NextOf(s, k)]
<1>0. Conts(s) \in Nat
    BY ContsEnough
<1>1. q = <<FirstOf(s)>> \o rest
    BY DEF StringFrames, FirstOf, NextOf
<1>2. rest \in Seq(Frame) /\ Len(rest) = Conts(s) /\ FirstOf(s) \in Frame
    <2>1. \A k \in 1 .. Conts(s) : NextOf(s, k) \in Frame
        BY <1>0 DEF Frame
    <2> QED
        BY <1>0, <2>1 DEF Frame
<1>3. /\ q \in Seq(Frame) /\ Len(q) = Conts(s) + 1 /\ q[1] = FirstOf(s)
      /\ \A n \in 2 .. Conts(s) + 1 : q[n] = NextOf(s, n - 1)
    BY <1>0, <1>1, <1>2
<1> HIDE DEF q, rest
<1>4. ASSUME NEW n \in 1 .. Conts(s) + 1
      PROVE  q[n].str = s /\ Part(q[n]) = n - 1 /\ q[n].kind \in {"first", "next"}
             /\ (q[n].kind = "next" => n > 1 /\ q[n].part = n - 1)
             /\ (n > 1 => q[n].kind = "next")
    <2>1. CASE n = 1
        <3>1. q[n] = FirstOf(s)
            BY <1>3, <2>1
        <3>2. q[n].str = s /\ q[n].kind = "first"
            BY <3>1 DEF FirstOf
        <3>3. Part(q[n]) = 0 /\ n - 1 = 0
            BY <2>1, <3>2 DEF Part
        <3> QED
            BY <2>1, <3>2, <3>3
    <2>2. CASE n > 1
        <3>1. q[n] = NextOf(s, n - 1)
            BY <1>0, <1>3, <2>2
        <3>2. q[n].str = s /\ q[n].kind = "next" /\ q[n].part = n - 1
            BY <3>1 DEF NextOf
        <3>3. Part(q[n]) = n - 1
            BY <3>2 DEF Part
        <3> QED
            BY <2>2, <3>2, <3>3
    <2> QED
        BY <1>0, <2>1, <2>2
<1>5. Chained(q)
    <2> SUFFICES ASSUME NEW n \in 1 .. Conts(s) + 1
                 PROVE  /\ q[n].kind = "next" =>
                               /\ q[n].part \in 1 .. Conts(q[n].str)
                               /\ n > 1 => /\ Continues(q[n - 1])
                                           /\ q[n - 1].str = q[n].str
                                           /\ q[n].part = Part(q[n - 1]) + 1
                        /\ Continues(q[n]) => n < Len(q) /\ q[n + 1].kind = "next"
        BY <1>3 DEF Chained
    <2>1. q[n].kind = "next" => n - 1 \in 1 .. Conts(s) /\ n - 1 \in 1 .. Conts(s) + 1
        BY <1>0, <1>4
    <2>2. q[n].kind = "next" =>
              /\ q[n - 1].str = s /\ Part(q[n - 1]) = n - 2
              /\ q[n - 1].kind \in {"first", "next"}
        BY <1>0, <1>4, <2>1
    <2>3. Continues(q[n]) => n < Conts(s) + 1 /\ n + 1 \in 1 .. Conts(s) + 1 /\ n + 1 > 1
        BY <1>0, <1>4 DEF Continues
    <2> QED
        BY <1>0, <1>3, <1>4, <2>1, <2>2, <2>3 DEF Continues
<1> QED
    BY <1>3, <1>5 DEF SentWhole, FirstOf, q

McuTypes == /\ mcuString \in [Sent -> Str]
            /\ mcuNumber \in [{Limit, Tariff} -> Value \union {Blank}]
            /\ mcuFailed \in BOOLEAN

\* The whole configuration is whole.
LEMMA AnswerWhole ==
    ASSUME McuTypes
    PROVE  SentWhole(Whole)
<1>1. SentWhole(Fixed)
    <2>1. Fixed \in Seq(Frame) /\ Len(Fixed) = 4
        BY DEF Fixed, Frame
    <2>2. \A n \in 1 .. 4 : Fixed[n].kind = "fixed"
        BY DEF Fixed
    <2> QED
        BY <2>1, <2>2, PlainWhole
<1>2. SentWhole(<<NumberFrame(Limit, mcuNumber[Limit]),
                  NumberFrame(Tariff, mcuNumber[Tariff])>>)
    <2> DEFINE a == NumberFrame(Limit, mcuNumber[Limit])
               b == NumberFrame(Tariff, mcuNumber[Tariff])
    <2>1. a \in Frame /\ b \in Frame
        BY DEF McuTypes, Frame
    <2>2. a.kind = "number" /\ b.kind = "number"
        BY DEF NumberFrame
    <2> HIDE DEF a, b
    <2>3. <<a, b>> \in Seq(Frame) /\ Len(<<a, b>>) = 2
          /\ <<a, b>>[1] = a /\ <<a, b>>[2] = b
        BY <2>1
    <2>4. \A n \in 1 .. 2 : <<a, b>>[n].kind = "number"
        BY <2>2, <2>3
    <2>5. SentWhole(<<a, b>>)
        BY <2>3, <2>4, PlainWhole
    <2> QED
        BY <2>5 DEF a, b
<1>3. ASSUME NEW p PROVE SentWhole(TextFrames(p))
    <2>1. CASE p \in Sent
        BY <2>1, StringWhole DEF TextFrames, McuTypes
    <2>2. CASE p \notin Sent
        <3>1. TextFrames(p) = <<>>
            BY <2>2 DEF TextFrames
        <3>2. <<>> \in Seq(Frame) /\ Len(<<>>) = 0
            OBVIOUS
        <3>3. SentWhole(<<>>)
            BY <3>2 DEF SentWhole, Chained
        <3> QED
            BY <3>1, <3>3
    <2> QED
        BY <2>1, <2>2
<1>4. SentWhole(<<[kind |-> "eeprom"], [kind |-> "last"]>>)
    <2> DEFINE a == [kind |-> "eeprom"]
               b == [kind |-> "last"]
    <2>1. a \in Frame /\ b \in Frame /\ a.kind = "eeprom" /\ b.kind = "last"
        BY DEF Frame
    <2> HIDE DEF a, b
    <2>2. <<a, b>> \in Seq(Frame) /\ Len(<<a, b>>) = 2
          /\ <<a, b>>[1] = a /\ <<a, b>>[2] = b
        BY <2>1
    <2>3. \A n \in 1 .. 2 : <<a, b>>[n].kind \in {"eeprom", "last"}
        BY <2>1, <2>2
    <2>4. SentWhole(<<a, b>>)
        BY <2>2, <2>3, PlainWhole
    <2> QED
        BY <2>4 DEF a, b
<1> QED
    BY <1>1, <1>2, <1>3, <1>4, ConcatWhole, Zenon DEF Whole

-----------------------------------------------------------------------------
(* The types *)

\* The buffer and what is stored are arrays, and the current length is that of a
\* string that was sent.
Held == /\ arr = [n \in 0 .. (ArrSize - 1) |-> arr[n]]
        /\ stored = [p \in StringParam \union {Broker} |-> stored[p]]
        /\ seen \subseteq Str
        /\ stringLength = 0 \/ \E s \in seen : stringLength = LenByte(s)

\* The variables InsideBuffer says nothing of, or too little for the handlers.
Kept == /\ McuTypes
        /\ todo \in Seq(Frame) /\ Chained(todo)
        /\ Held
        /\ budget \in [breaks : 0 .. Breaks, restarts : 0 .. Restarts,
                       changes : 0 .. Changes]

TypeInv == InsideBuffer /\ Kept

\* The buffer is an array of ArrSize characters that ends with a NUL.
Buffer(a) == a = [n \in 0 .. (ArrSize - 1) |-> a[n]] /\ a[ArrSize - 1] = Nul

\* What the sizes are, and what a length is kept as.
LEMMA Sizes ==
    /\ FirstBytes \in Nat \ {0} /\ NextBytes \in Nat \ {0} /\ ArrSize \in Nat \ {0}
    /\ LenWrap \in Nat \ {0} /\ FirstBytes < ArrSize /\ ArrSize <= LenWrap
    /\ \A s \in Str : /\ LenOf[s] \in Nat /\ LenByte(s) \in 0 .. (LenWrap - 1)
                      /\ LenOf[s] < ArrSize => LenByte(s) = LenOf[s]
<1>1. /\ FirstBytes \in Nat \ {0} /\ NextBytes \in Nat \ {0} /\ ArrSize \in Nat \ {0}
      /\ LenWrap \in Nat \ {0} /\ FirstBytes < ArrSize /\ ArrSize <= LenWrap
      /\ \A s \in Str : LenOf[s] \in Nat
    BY ConfigAssumption
<1>2. ASSUME NEW s \in Str
      PROVE  LenByte(s) \in 0 .. (LenWrap - 1) /\ (LenOf[s] < ArrSize => LenByte(s) = LenOf[s])
    BY <1>1 DEF LenByte
<1> QED
    BY <1>1, <1>2

\* A first frame leaves the buffer as it should be, with its characters at the
\* beginning.
LEMMA StartedBuffer ==
    ASSUME TypeInv, ~overrun, NEW s \in Str
    PROVE  /\ Buffer(Started(s))
           /\ Least(FirstBytes, LenByte(s)) \in 0 .. LenByte(s)
           /\ Least(FirstBytes, LenByte(s)) < ArrSize
           /\ \A n \in 0 .. Least(FirstBytes, LenByte(s)) - 1 : Started(s)[n] = <<s, n>>
<1>1. LenByte(s) \in Nat /\ FirstBytes \in Nat /\ ArrSize \in Nat /\ FirstBytes < ArrSize
    BY Sizes
<1>2. /\ Least(FirstBytes, LenByte(s)) \in 0 .. LenByte(s)
      /\ Least(FirstBytes, LenByte(s)) <= FirstBytes
    BY <1>1 DEF Least
<1>3. \A n \in 0 .. (ArrSize - 1) :
          Started(s)[n] = IF n < Least(FirstBytes, LenByte(s)) THEN <<s, n>> ELSE arr[n]
    BY DEF Started
<1>4. Started(s)[ArrSize - 1] = Nul
    <2>1. /\ ArrSize - 1 \in 0 .. (ArrSize - 1)
          /\ ~(ArrSize - 1 < Least(FirstBytes, LenByte(s)))
        BY <1>1, <1>2
    <2> QED
        BY <1>3, <2>1 DEF TypeInv, InsideBuffer
<1>5. Started(s) = [n \in 0 .. (ArrSize - 1) |-> Started(s)[n]]
    BY DEF Started
<1> QED
    BY <1>1, <1>2, <1>3, <1>4, <1>5 DEF Buffer

\* Where a continuation frame leaves the buffer and its position.
LEMMA CopiedBuffer ==
    ASSUME TypeInv, ~overrun, ~AtEnd, NEW f
    PROVE  /\ Buffer(Copied(f)) /\ Upto \in Nat /\ Upto <= stringLength
           /\ i < stringLength => Upto < ArrSize
<1>1. /\ stringLength \in Nat /\ i \in 0 .. stringLength /\ i < ArrSize
      /\ NextBytes \in Nat \ {0} /\ ArrSize \in Nat \ {0} /\ arr[ArrSize - 1] = Nul
    BY Sizes DEF TypeInv, InsideBuffer
<1>2. Upto \in Nat /\ Upto <= stringLength
    BY <1>1 DEF Upto, Least
<1>3. i < stringLength => Upto < ArrSize
    BY <1>1, <1>2 DEF AtEnd
<1>4. Copied(f) = [n \in 0 .. (ArrSize - 1) |-> Copied(f)[n]]
    BY DEF Copied
<1>5. Copied(f)[ArrSize - 1] = Nul
    <2>1. ArrSize - 1 \in 0 .. (ArrSize - 1) /\ ArrSize - 1 \notin i .. (Upto - 1)
        BY <1>1, <1>2, <1>3
    <2> QED
        BY <1>1, <2>1 DEF Copied
<1> QED
    BY <1>2, <1>3, <1>4, <1>5 DEF Buffer

\* strtok puts NULs in, and takes none away.
LEMMA TokenizedBuffer ==
    ASSUME NEW a, Buffer(a)
    PROVE  Buffer(Tokenized(a))
<1>1. Tokenized(a) = [n \in 0 .. (ArrSize - 1) |-> Tokenized(a)[n]]
    BY DEF Tokenized
<1>2. Tokenized(a)[ArrSize - 1] = Nul
    BY ConfigAssumption DEF Tokenized, Buffer
<1> QED
    BY <1>1, <1>2 DEF Buffer

\* Every handler keeps the types, whatever frame it is given.
LEMMA HandledTypes ==
    ASSUME TypeInv, NEW f \in Frame, Receive(f)
    PROVE  InsideBuffer' /\ Held'
<1>1. requestFlag' \in 0 .. (FlagWrap - 1)
    BY ConfigAssumption DEF Receive, TypeInv, InsideBuffer
<1>2. /\ Handled(f) /\ ~overrun /\ Buffer(arr) /\ i < ArrSize
      /\ seen' = seen \union StringOf(f)
    BY DEF Receive, TypeInv, InsideBuffer, Kept, Held, Buffer
<1>3. /\ seen' \subseteq Str
      /\ f.kind \in {"first", "next"} => f.str \in Str /\ f.str \in seen'
      /\ seen \subseteq seen'
    <2>1. StringOf(f) \subseteq Str
        BY FrameKinds DEF StringOf
    <2> QED
        BY <1>2, <2>1, FrameKinds DEF TypeInv, Kept, Held, StringOf
<1>4. /\ i \in 0 .. stringLength /\ stringLength \in 0 .. (LenWrap - 1)
      /\ flag \subseteq StringParam /\ giveEntry \in BOOLEAN /\ identity \in BOOLEAN
      /\ received \in BOOLEAN /\ eepromFault \in BOOLEAN
      /\ stored = [p \in StringParam \union {Broker} |-> stored[p]]
      /\ stringLength = 0 \/ \E s \in seen : stringLength = LenByte(s)
    BY DEF TypeInv, InsideBuffer, Kept, Held
<1> DEFINE LengthSeen == stringLength = 0 \/ \E s \in seen : stringLength = LenByte(s)
\* enough when no string is in danger
<1>5. ASSUME /\ Buffer(arr') /\ i' < ArrSize /\ overrun' = FALSE
             /\ i' \in 0 .. stringLength' /\ stringLength' \in 0 .. (LenWrap - 1)
             /\ flag' \subseteq StringParam /\ giveEntry' \in BOOLEAN
             /\ identity' \in BOOLEAN /\ received' \in BOOLEAN /\ eepromFault' \in BOOLEAN
             /\ stored' = [p \in StringParam \union {Broker} |-> stored'[p]]
             /\ LengthSeen'
      PROVE  InsideBuffer' /\ Held'
    BY <1>1, <1>3, <1>5 DEF InsideBuffer, Held, Buffer
<1>6. LengthSeen /\ stringLength' = stringLength => LengthSeen'
    <2>1. ASSUME NEW s \in seen, stringLength = LenByte(s), stringLength' = stringLength
          PROVE  \E t \in seen' : stringLength' = LenByte(t)
        BY <1>3, <2>1
    <2> QED
        BY <2>1
<1>7. CASE FixedFrame(f) \/ NumericFrame(f) \/ EepromFrame(f) \/ LastFrame(f) \/ RepeatedFrame(f)
    <2>1. UNCHANGED bufVars
        BY <1>7 DEF FixedFrame, NumericFrame, EepromFrame, LastFrame, RepeatedFrame
    <2>2. UNCHANGED <<arr, i, stringLength, flag, giveEntry, stored, overrun>>
        BY <2>1 DEF bufVars
    <2>3. identity' \in BOOLEAN
        BY <1>4, <1>7, Zenon DEF FixedFrame, NumericFrame, EepromFrame, LastFrame, RepeatedFrame
    <2>4. received' \in BOOLEAN
        BY <1>4, <1>7, Zenon DEF FixedFrame, NumericFrame, EepromFrame, LastFrame, RepeatedFrame
    <2>5. eepromFault' \in BOOLEAN
        <3>1. mcuFailed \in BOOLEAN
            BY DEF TypeInv, Kept, McuTypes
        <3> QED
            BY <1>4, <1>7, <3>1, Zenon DEF FixedFrame, NumericFrame, EepromFrame, LastFrame,
               RepeatedFrame
    <2>6. overrun' = FALSE
        BY <1>2, <2>2 DEF TypeInv, InsideBuffer
    <2> QED
        BY <1>2, <1>4, <1>5, <1>6, <2>2, <2>3, <2>4, <2>5, <2>6
<1>8. CASE StringFrame(f) \/ BrokerFrame(f)
    <2> DEFINE s == f.str
    <2>1. s \in Str /\ s \in seen'
        BY <1>3, <1>8, FrameKinds DEF StringFrame, BrokerFrame
    <2>2. /\ stringLength' = LenByte(s) /\ i' = Least(FirstBytes, stringLength')
          /\ UNCHANGED <<giveEntry, overrun, identity, eepromFault, received>>
        BY <1>8 DEF StringFrame, BrokerFrame
    <2>3. /\ i' \in 0 .. stringLength' /\ stringLength' \in 0 .. (LenWrap - 1)
          /\ i' < ArrSize /\ LengthSeen'
        BY <1>2, <2>1, <2>2, StartedBuffer, Sizes
    <2>4. Buffer(Started(s))
        BY <1>2, <2>1, StartedBuffer
    <2>5. Buffer(arr')
        <3>1. CASE StringFrame(f)
            BY <2>4, <3>1 DEF StringFrame
        <3>2. CASE BrokerFrame(f)
            <4>1. arr' = [n \in 0 .. (ArrSize - 1) |->
                              IF n > 0 /\ n = i' /\ i' = stringLength' THEN Nul ELSE Started(s)[n]]
                BY <3>2 DEF BrokerFrame
            <4>2. ArrSize - 1 \in 0 .. (ArrSize - 1)
                BY Sizes
            <4>3. arr'[ArrSize - 1] = Nul
                BY <2>4, <4>1, <4>2 DEF Buffer
            <4>4. arr' = [n \in 0 .. (ArrSize - 1) |-> arr'[n]]
                BY <4>1
            <4> QED
                BY <4>3, <4>4 DEF Buffer
        <3> QED
            BY <1>8, <3>1, <3>2
    <2>6. flag' \subseteq StringParam
        BY <1>4, <1>8 DEF StringFrame, BrokerFrame
    <2>7. stored' = [p \in StringParam \union {Broker} |-> stored'[p]]
        <3>1. stored' = stored \/ stored' = [stored EXCEPT ![Broker] = Text(arr')]
            BY <1>8, Zenon DEF StringFrame, BrokerFrame
        <3> QED
            BY <1>4, <3>1
    <2>8. overrun' = FALSE
        BY <1>2, <2>2 DEF TypeInv, InsideBuffer
    <2> QED
        BY <1>4, <1>5, <2>2, <2>3, <2>5, <2>6, <2>7, <2>8
<1>9. CASE NextFrame(f)
    <2>1. UNCHANGED <<stringLength, overrun, identity, eepromFault, received>> /\ ~AtEnd
        BY <1>9 DEF NextFrame
    <2>2. overrun' = FALSE
        BY <1>2, <2>1 DEF TypeInv, InsideBuffer
    <2>3. i' \in 0 .. stringLength' /\ i' < ArrSize /\ Buffer(Copied(f))
        <3>1. i' = IF i < stringLength THEN Upto ELSE i
            BY <1>9 DEF NextFrame
        <3> QED
            BY <1>2, <1>4, <2>1, <3>1, CopiedBuffer
    <2>4. CASE Completed /\ flag # {}
        <3>1. /\ stored' = [stored EXCEPT ![Taker] = Text(Copied(f))]
              /\ arr' = IF Taker = 4 THEN Tokenized(Copied(f)) ELSE Copied(f)
              /\ flag' = flag \ {Taker} /\ giveEntry' = FALSE
            BY <1>9, <2>4, Zenon DEF NextFrame
        <3>2. Buffer(arr')
            BY <2>3, <3>1, TokenizedBuffer
        <3>3. stored' = [p \in StringParam \union {Broker} |-> stored'[p]]
            BY <1>4, <3>1
        <3> QED
            BY <1>4, <1>5, <1>6, <2>1, <2>2, <2>3, <3>1, <3>2, <3>3
    <2>5. CASE ~(Completed /\ flag # {})
        <3>1. arr' = Copied(f) /\ UNCHANGED <<stored, flag>>
            BY <1>9, <2>5, Zenon DEF NextFrame
        <3>2. giveEntry' \in BOOLEAN
            <4>1. giveEntry' = Completed
                BY <1>9, <2>5, Zenon DEF NextFrame
            <4>2. Completed \in BOOLEAN
                BY <1>4, Zenon DEF Completed
            <4> QED
                BY <4>1, <4>2, Zenon
        <3> QED
            BY <1>4, <1>5, <1>6, <2>1, <2>2, <2>3, <3>1, <3>2
    <2> QED
        BY <2>4, <2>5
<1>10. CASE EndFrame(f)
    <2>1. /\ AtEnd /\ overrun' = TRUE
          /\ UNCHANGED <<arr, i, stringLength, flag, giveEntry, stored, identity,
                         eepromFault, received>>
        BY <1>10 DEF EndFrame
    <2>2. stringLength >= ArrSize
        BY <1>4, <2>1, Sizes DEF AtEnd, Upto, Least
    <2>3. PICK s \in seen : stringLength = LenByte(s)
        BY <1>4, <2>2, Sizes
    <2>4. \E t \in seen' : LenByte(t) >= ArrSize
        BY <1>3, <2>2, <2>3
    <2>5. LengthSeen'
        BY <1>4, <1>6, <2>1
    <2> QED
        BY <1>1, <1>2, <1>3, <1>4, <2>1, <2>4, <2>5 DEF InsideBuffer, Held, Buffer
<1> QED
    BY <1>2, <1>7, <1>8, <1>9, <1>10, Zenon DEF Handled

\* What a delivered frame leaves to be sent.
LEMMA DeliverTypes ==
    ASSUME TypeInv, todo # <<>>, Receive(Head(todo)), todo' \in {todo, Tail(todo)},
           UNCHANGED <<mcuString, mcuNumber, mcuFailed, budget>>
    PROVE  TypeInv'
<1>1. Head(todo) \in Frame
    BY AfterHead DEF TypeInv, Kept
<1>2. InsideBuffer' /\ Held'
    BY <1>1, HandledTypes
<1>3. todo' \in Seq(Frame) /\ Chained(todo')
    BY TailChained DEF TypeInv, Kept
<1>4. Chained(todo)'
    BY <1>3 DEF Chained, Continues, Part, Conts
<1>5. McuTypes'
    BY DEF TypeInv, Kept, McuTypes, Sent
<1> QED
    BY <1>2, <1>3, <1>4, <1>5 DEF TypeInv, Kept

\* A string, or a number, or the whole configuration, when nothing was left.
LEMMA SentTypes ==
    ASSUME TypeInv, SentWhole(todo'),
           UNCHANGED pmuVars, McuTypes',
           budget' \in [breaks : 0 .. Breaks, restarts : 0 .. Restarts,
                        changes : 0 .. Changes]
    PROVE  TypeInv'
<1>1. todo' \in Seq(Frame) /\ Chained(todo)'
    BY DEF SentWhole, Chained, Continues, Part, Conts
<1>2. InsideBuffer' /\ Held'
    BY DEF pmuVars, bufVars, TypeInv, InsideBuffer, Kept, Held
<1> QED
    BY <1>1, <1>2 DEF TypeInv, Kept

\* The PMU starts with an empty buffer and the MCU with nothing to send.
LEMMA TypeInit == Init => TypeInv
<1> SUFFICES ASSUME Init PROVE TypeInv
    OBVIOUS
<1>1. arr = EmptyArr /\ stored = EmptyStored /\ todo = <<>>
    BY DEF Init
<1>2. /\ EmptyArr = [n \in 0 .. (ArrSize - 1) |-> EmptyArr[n]]
      /\ EmptyArr[ArrSize - 1] = Nul
      /\ EmptyStored = [p \in StringParam \union {Broker} |-> EmptyStored[p]]
    BY ConfigAssumption DEF EmptyArr, EmptyStored
<1>3. todo \in Seq(Frame) /\ Chained(todo)
    <2>1. <<>> \in Seq(Frame) /\ Len(<<>>) = 0
        OBVIOUS
    <2> QED
        BY <1>1, <2>1 DEF Chained
<1>4. McuTypes
    <2>1. (CHOOSE v \in Value : TRUE) \in Value
        BY ConfigAssumption, Zenon
    <2> QED
        BY <2>1, ConfigAssumption DEF Init, McuTypes
<1>5. budget \in [breaks : 0 .. Breaks, restarts : 0 .. Restarts, changes : 0 .. Changes]
    BY ConfigAssumption DEF Init
<1>6. InsideBuffer
    <2>1. /\ i = 0 /\ stringLength = 0 /\ requestFlag = 0 /\ flag = {}
          /\ giveEntry = FALSE /\ identity = FALSE /\ eepromFault = FALSE
          /\ received = FALSE /\ overrun = FALSE
        BY DEF Init
    <2>2. i < ArrSize /\ i \in 0 .. stringLength /\ stringLength \in 0 .. (LenWrap - 1)
          /\ requestFlag \in 0 .. (FlagWrap - 1) /\ flag \subseteq StringParam
        BY <2>1, ConfigAssumption
    <2>3. {giveEntry, identity, received, eepromFault, overrun} \subseteq BOOLEAN
        BY <2>1
    <2> QED
        BY <1>1, <1>2, <2>1, <2>2, <2>3 DEF InsideBuffer
<1>7. Held
    BY <1>1, <1>2 DEF Init, Held
<1> QED
    BY <1>3, <1>4, <1>5, <1>6, <1>7 DEF TypeInv, Kept

\* Every action keeps the types.
LEMMA TypeStep == ASSUME TypeInv, [Next]_vars PROVE TypeInv'
<1>0. budget.breaks \in 0 .. Breaks /\ budget.restarts \in 0 .. Restarts
      /\ budget.changes \in 0 .. Changes
      /\ Breaks \in Nat /\ Restarts \in Nat /\ Changes \in Nat
    BY ConfigAssumption DEF TypeInv, Kept
<1> DEFINE Budget == [breaks : 0 .. Breaks, restarts : 0 .. Restarts, changes : 0 .. Changes]
<1>1. ASSUME Deliver \/ DeliverUnacknowledged PROVE TypeInv'
    <2>1. todo # <<>> /\ Receive(Head(todo)) /\ todo' \in {todo, Tail(todo)}
          /\ UNCHANGED <<mcuString, mcuNumber, mcuFailed, budget>>
        BY <1>1 DEF Deliver, DeliverUnacknowledged, mcuVars
    <2> QED
        BY <2>1, DeliverTypes
<1>2. ASSUME Request PROVE TypeInv'
    <2>1. /\ todo' = Whole /\ UNCHANGED pmuVars
          /\ UNCHANGED <<mcuString, mcuNumber, mcuFailed, budget>>
        BY <1>2 DEF Request
    <2>2. SentWhole(todo')
        BY <2>1, AnswerWhole DEF TypeInv, Kept
    <2>3. McuTypes'
        BY <2>1 DEF TypeInv, Kept, McuTypes, Sent
    <2> QED
        BY <2>1, <2>2, <2>3, SentTypes DEF TypeInv, Kept
<1>3. ASSUME NEW s \in Str, ChangeString(s) PROVE TypeInv'
    <2>1. todo' = StringFrames(s) /\ UNCHANGED pmuVars /\ UNCHANGED <<mcuNumber, mcuFailed>>
          /\ mcuString' = [mcuString EXCEPT ![ParamOf[s]] = s]
          /\ budget' = [budget EXCEPT !.changes = @ - 1] /\ budget.changes > 0
        BY <1>3 DEF ChangeString
    <2>2. SentWhole(todo')
        BY <2>1, StringWhole
    <2>3. McuTypes'
        BY <2>1 DEF TypeInv, Kept, McuTypes, Sent
    <2>4. budget' \in Budget
        BY <1>0, <2>1 DEF TypeInv, Kept
    <2> QED
        BY <2>1, <2>2, <2>3, <2>4, SentTypes
<1>4. ASSUME NEW p \in {Limit, Tariff}, NEW v \in Value \union {Blank}, ChangeNumber(p, v)
      PROVE  TypeInv'
    <2>1. /\ todo' = <<NumberFrame(p, v)>>
          /\ UNCHANGED pmuVars /\ UNCHANGED <<mcuString, mcuFailed>>
          /\ mcuNumber' = [mcuNumber EXCEPT ![p] = v]
          /\ budget' = [budget EXCEPT !.changes = @ - 1] /\ budget.changes > 0
        BY <1>4 DEF ChangeNumber
    <2>2. SentWhole(todo')
        <3>1. NumberFrame(p, v) \in Frame /\ NumberFrame(p, v).kind = "number"
            BY DEF Frame, NumberFrame
        <3>2. /\ <<NumberFrame(p, v)>> \in Seq(Frame) /\ Len(<<NumberFrame(p, v)>>) = 1
              /\ \A n \in 1 .. 1 : <<NumberFrame(p, v)>>[n].kind = "number"
            BY <3>1
        <3>3. SentWhole(<<NumberFrame(p, v)>>)
            BY <3>2, PlainWhole
        <3> QED
            BY <2>1, <3>3
    <2>3. McuTypes'
        BY <2>1 DEF TypeInv, Kept, McuTypes, Sent
    <2>4. budget' \in Budget
        BY <1>0, <2>1 DEF TypeInv, Kept
    <2> QED
        BY <2>1, <2>2, <2>3, <2>4, SentTypes
<1>5. ASSUME McuRestart PROVE TypeInv'
    <2>1. todo' = <<>> /\ UNCHANGED pmuVars /\ UNCHANGED <<mcuString, mcuNumber, mcuFailed>>
          /\ budget' = [budget EXCEPT !.breaks = @ - 1] /\ budget.breaks > 0
        BY <1>5 DEF McuRestart
    <2>2. SentWhole(todo')
        <3>1. <<>> \in Seq(Frame) /\ Len(<<>>) = 0
            OBVIOUS
        <3> QED
            BY <2>1, <3>1 DEF SentWhole, Chained
    <2>3. McuTypes'
        BY <2>1 DEF TypeInv, Kept, McuTypes, Sent
    <2>4. budget' \in Budget
        BY <1>0, <2>1 DEF TypeInv, Kept
    <2> QED
        BY <2>1, <2>2, <2>3, <2>4, SentTypes
<1>6. ASSUME PmuRestart PROVE TypeInv'
    <2>1. /\ arr' = EmptyArr /\ stored' = EmptyStored
          /\ UNCHANGED <<mcuString, mcuNumber, mcuFailed, todo>>
          /\ budget' = [budget EXCEPT !.restarts = @ - 1] /\ budget.restarts > 0
        BY <1>6 DEF PmuRestart, mcuVars
    <2>2. /\ EmptyArr = [n \in 0 .. (ArrSize - 1) |-> EmptyArr[n]]
          /\ EmptyArr[ArrSize - 1] = Nul
          /\ EmptyStored = [p \in StringParam \union {Broker} |-> EmptyStored[p]]
        BY ConfigAssumption DEF EmptyArr, EmptyStored
    <2>3. /\ i' = 0 /\ stringLength' = 0 /\ requestFlag' = 0 /\ flag' = {}
          /\ giveEntry' = FALSE /\ identity' = FALSE /\ eepromFault' = FALSE
          /\ received' = FALSE /\ overrun' = FALSE /\ seen' = {}
        BY <1>6 DEF PmuRestart
    <2>4. InsideBuffer' /\ Held'
        <3>1. i' < ArrSize /\ i' \in 0 .. stringLength' /\ stringLength' \in 0 .. (LenWrap - 1)
              /\ requestFlag' \in 0 .. (FlagWrap - 1) /\ flag' \subseteq StringParam
            BY <2>3, ConfigAssumption
        <3>2. {giveEntry', identity', received', eepromFault', overrun'} \subseteq BOOLEAN
            BY <2>3
        <3> QED
            BY <2>1, <2>2, <2>3, <3>1, <3>2 DEF InsideBuffer, Held
    <2>5. budget' \in Budget
        BY <1>0, <2>1 DEF TypeInv, Kept
    <2>6. Chained(todo)' /\ McuTypes'
        BY <2>1 DEF TypeInv, Kept, McuTypes, Sent, Chained, Continues, Part, Conts
    <2> QED
        BY <2>1, <2>4, <2>5, <2>6 DEF TypeInv, Kept
<1>7. ASSUME UNCHANGED vars PROVE TypeInv'
    <2>1. UNCHANGED pmuVars /\ UNCHANGED mcuVars /\ UNCHANGED budget
        BY <1>7 DEF vars
    <2>2. InsideBuffer' /\ Held'
        BY <2>1 DEF pmuVars, bufVars, TypeInv, InsideBuffer, Kept, Held
    <2>3. Chained(todo)' /\ McuTypes' /\ UNCHANGED <<todo, budget>>
        BY <2>1 DEF mcuVars, TypeInv, Kept, McuTypes, Sent, Chained, Continues, Part, Conts
    <2> QED
        BY <2>2, <2>3 DEF TypeInv, Kept
<1> QED
    BY <1>1, <1>2, <1>3, <1>4, <1>5, <1>6, <1>7, Zenon DEF Next

\* InsideBuffer: whatever frames come again, are passed over or broken off,
\* arr is not overrun unless the PMU was sent a string that is too long for it,
\* which no line of the code prevents.
THEOREM BufferStaysInside == Spec => []InsideBuffer
<1>1. TypeInv => InsideBuffer
    BY DEF TypeInv
<1> QED
    BY <1>1, TypeInit, TypeStep, PTL DEF Spec

-----------------------------------------------------------------------------
(* The text *)

\* The string whose text the buffer waits for has a flag, so the buffer is never
\* completed for nobody.
FlagInv == giveEntry = FALSE /\ (i < stringLength => flag # {})

\* k frames after the first of string s: they have all been copied, or one was
\* passed over, and then the rest is too short to complete the string.
AllCopied(s, k) == /\ i = FirstBytes + k * NextBytes
                   /\ \A n \in 0 .. (i - 1) : arr[n] = <<s, n>>
Short(k)      == i <= FirstBytes + (k - 1) * NextBytes
Reached(s, k) == /\ stringLength = LenOf[s]
                 /\ AllCopied(s, k) \/ Short(k)

\* The continuation frames of f's string that the PMU has seen
Seen(f) == IF prevSeq = 5 + f.part THEN f.part ELSE f.part - 1

\* What is in the buffer when the MCU is in the middle of a string.
TextInv ==
    todo # <<>> /\ Head(todo).kind = "next" /\ i < stringLength
        => Reached(Head(todo).str, Seen(Head(todo)))

\* The last characters of a string complete it.
LEMMA TextCompleted ==
    ASSUME TypeInv, NEW s \in Str, NEW k \in 1 .. Conts(s), NEW f,
           f.kind = "next", f.str = s, f.part = k,
           ~TooLong(s), stringLength = LenOf[s], i < stringLength,
           Upto = stringLength, AllCopied(s, k - 1)
    PROVE  Text(Copied(f)) = Written(s)
<1>0. /\ k \in Nat /\ LenOf[s] \in 1 .. (ArrSize - 1) /\ ArrSize \in Nat
      /\ FirstBytes \in Nat /\ NextBytes \in Nat /\ i \in Nat
    BY Sizes, ContsEnough DEF TypeInv, InsideBuffer, TooLong
<1> DEFINE c == Copied(f)
<1>1. From(f) = i
    BY DEF From, AllCopied
<1>2. ASSUME NEW n \in 0 .. (LenOf[s] - 1) PROVE c[n] = <<s, n>>
    <2>1. n \in 0 .. (ArrSize - 1) /\ n # stringLength
        BY <1>0
    <2>2. CASE n < i
        <3>1. n \notin i .. (Upto - 1) /\ n \in 0 .. (i - 1)
            BY <1>0, <2>2
        <3>2. c[n] = arr[n]
            BY <2>1, <3>1 DEF Copied
        <3> QED
            BY <3>1, <3>2 DEF AllCopied
    <2>3. CASE n >= i
        <3>1. n \in i .. (Upto - 1) /\ From(f) + n - i = n
            BY <1>0, <1>1, <2>3
        <3>2. c[n] = Char(s, From(f) + n - i)
            BY <2>1, <3>1 DEF Copied
        <3> QED
            BY <1>0, <3>1, <3>2 DEF Char
    <2> QED
        BY <1>0, <2>2, <2>3
<1>3. c[LenOf[s]] = Nul
    <2>1. LenOf[s] \in 0 .. (ArrSize - 1) /\ LenOf[s] \notin i .. (Upto - 1)
        BY <1>0
    <2> QED
        BY <2>1 DEF Copied
<1> HIDE DEF c
<1>4. \A n \in 0 .. (LenOf[s] - 1) : c[n] # Nul
    <2>1. ASSUME NEW n PROVE <<s, n>> # <<>>
        <3>1. Len(<<s, n>>) = 2 /\ Len(<<>>) = 0
            OBVIOUS
        <3>2. 2 # 0
            OBVIOUS
        <3> QED
            BY <3>1, <3>2, Zenon
    <2> QED
        BY <1>2, <2>1 DEF Nul
<1> DEFINE before == {e \in 1 .. ArrSize : \A m \in 0 .. (e - 1) : c[m] # Nul}
<1>5. before = 1 .. LenOf[s]
    <2>1. ASSUME NEW e \in 1 .. LenOf[s] PROVE e \in before
        BY <1>0, <1>4
    <2>2. ASSUME NEW e \in before PROVE e \in 1 .. LenOf[s]
        <3>1. e > LenOf[s] => LenOf[s] \in 0 .. (e - 1)
            BY <1>0
        <3> QED
            BY <1>0, <1>3, <3>1
    <2> QED
        BY <2>1, <2>2
<1>6. Text(c) = [n \in before |-> c[n - 1]]
    BY Zenon DEF Text
<1>7. \A n \in 1 .. LenOf[s] : c[n - 1] = <<s, n - 1>>
    BY <1>0, <1>2
<1> HIDE DEF before
<1> QED
    BY <1>5, <1>6, <1>7 DEF Written, c

\* A first frame begins the text, and sets the flag unless the text is complete.
LEMMA FirstReaches ==
    ASSUME TypeInv, ~overrun, NEW s \in Str, ~TooLong(s), ~LongBroker(s),
           NEW f, f.str = s, StringFrame(f) \/ BrokerFrame(f)
    PROVE  /\ stringLength' = LenOf[s] /\ i' = Least(FirstBytes, LenOf[s])
           /\ i' < stringLength' => AllCopied(s, 0)' /\ i' = FirstBytes
           /\ i' < stringLength' => flag' # {}
           /\ giveEntry' = giveEntry
           /\ \A p \in StringParam : stored'[p] = stored[p]
<1>0. LenOf[s] \in Nat /\ FirstBytes \in Nat /\ NextBytes \in Nat /\ LenByte(s) = LenOf[s]
    BY Sizes DEF TooLong
<1>1. CASE StringFrame(f)
    <2>1. /\ stringLength' = LenOf[s] /\ i' = Least(FirstBytes, LenOf[s])
          /\ arr' = Started(s) /\ flag' = flag \union {ParamOf[s]}
          /\ UNCHANGED <<giveEntry, stored>>
        BY <1>0, <1>1 DEF StringFrame
    <2>2. i' < stringLength' => i' = FirstBytes
        BY <1>0, <2>1 DEF Least
    <2>3. \A n \in 0 .. (i' - 1) : arr'[n] = <<s, n>>
        BY <1>0, <2>1, StartedBuffer
    <2> QED
        BY <1>0, <2>1, <2>2, <2>3 DEF AllCopied
<1>2. CASE BrokerFrame(f)
    <2>1. /\ stringLength' = LenOf[s] /\ i' = Least(FirstBytes, LenOf[s])
          /\ ParamOf[s] = Broker /\ giveEntry' = giveEntry
          /\ stored' = [stored EXCEPT ![Broker] = Text(arr')]
        BY <1>0, <1>2 DEF BrokerFrame
    <2>2. ~(i' < stringLength')
        BY <1>0, <2>1 DEF LongBroker, Least
    <2>3. \A p \in StringParam : stored'[p] = stored[p]
        BY <2>1 DEF TypeInv, Kept, Held, StringParam, Broker
    <2> QED
        BY <2>1, <2>2, <2>3
<1> QED
    BY <1>1, <1>2

\* A continuation frame that is not passed over: what it stores and leaves.
LEMMA NextReaches ==
    ASSUME TypeInv, ~overrun, FlagInv, NEW s \in Str, ~TooLong(s),
           NEW k \in 1 .. Conts(s), NEW f, f.kind = "next", f.str = s, f.part = k, NextFrame(f),
           i < stringLength => Reached(s, k - 1)
    PROVE  /\ FlagInv' /\ stringLength' = stringLength /\ prevSeq' = 5 + k
           /\ i' < stringLength' => i < stringLength /\ Reached(s, k)' /\ flag' = flag
           /\ i < stringLength => i' = Upto
           /\ \/ UNCHANGED <<stored, flag>> /\ (i < stringLength => i' < stringLength)
              \/ /\ i < stringLength /\ AllCopied(s, k - 1) /\ i' = stringLength
                 /\ flag # {} /\ flag' = flag \ {Taker}
                 /\ stored' = [stored EXCEPT ![Taker] = Written(s)]
<1>0. /\ k \in Nat /\ LenOf[s] \in 1 .. (ArrSize - 1) /\ ArrSize \in Nat
      /\ FirstBytes \in Nat /\ NextBytes \in Nat \ {0} /\ i \in 0 .. stringLength
      /\ stringLength \in Nat /\ Conts(s) \in Nat
    BY Sizes, ContsEnough DEF TypeInv, InsideBuffer, TooLong
<1>1. /\ prevSeq' = 5 + k /\ stringLength' = stringLength
      /\ i' = IF i < stringLength THEN Upto ELSE i
    BY DEF NextFrame
<1>2. k * NextBytes \in Nat /\ (k - 1) * NextBytes = k * NextBytes - NextBytes
      /\ (k - 1 - 1) * NextBytes = k * NextBytes - NextBytes - NextBytes
    BY <1>0
<1>3. CASE ~(i < stringLength)
    <2>1. ~Completed
        BY <1>3 DEF Completed, FlagInv
    <2>2. UNCHANGED <<stored, flag>> /\ giveEntry' = Completed
        BY <2>1, Zenon DEF NextFrame
    <2>3. giveEntry' = FALSE
        BY <1>3, <2>2, Zenon DEF Completed, FlagInv
    <2> QED
        BY <1>0, <1>1, <1>3, <2>2, <2>3 DEF FlagInv
<1>4. CASE i < stringLength /\ Upto = stringLength
    <2>1. Completed /\ flag # {}
        BY <1>4 DEF Completed, FlagInv
    <2>2. /\ stored' = [stored EXCEPT ![Taker] = Text(Copied(f))]
          /\ flag' = flag \ {Taker} /\ giveEntry' = FALSE
        BY <2>1, Zenon DEF NextFrame
    <2>3. Reached(s, k - 1) /\ stringLength = LenOf[s]
        BY <1>4 DEF Reached
    <2>4. ~Short(k - 1)
        <3>1. FirstBytes + (Conts(s) - 1) * NextBytes < LenOf[s]
            BY <1>0, ContsEnough
        <3>2. (k - 1) * NextBytes <= (Conts(s) - 1) * NextBytes
            BY <1>0
        <3>3. (Conts(s) - 1) * NextBytes \in Int
            BY <1>0
        <3>4. Upto <= i + NextBytes
            BY <1>0 DEF Upto, Least
        <3> QED
            BY <1>0, <1>2, <1>4, <2>3, <3>1, <3>2, <3>3, <3>4 DEF Short
    <2>5. AllCopied(s, k - 1)
        BY <2>3, <2>4 DEF Reached
    <2>6. Text(Copied(f)) = Written(s)
        BY <1>4, <2>3, <2>5, TextCompleted
    <2> QED
        BY <1>0, <1>1, <1>4, <2>1, <2>2, <2>5, <2>6 DEF FlagInv
<1>5. CASE i < stringLength /\ Upto # stringLength
    <2>1. ~Completed
        BY <1>5 DEF Completed, FlagInv
    <2>2. UNCHANGED <<stored, flag>> /\ giveEntry' = Completed /\ arr' = Copied(f)
        BY <2>1, Zenon DEF NextFrame
    <2>3. giveEntry' = FALSE
        BY <1>5, <2>2, Zenon DEF Completed, FlagInv
    <2>4. Upto = i + NextBytes /\ i' = i + NextBytes /\ i' = Upto /\ i' < stringLength
        BY <1>0, <1>1, <1>5 DEF Upto, Least
    <2>5. Reached(s, k - 1) /\ stringLength = LenOf[s]
        BY <1>5 DEF Reached
    <2>6. CASE Short(k - 1)
        <3>1. Short(k)'
            BY <1>0, <1>2, <2>4, <2>6 DEF Short
        <3> QED
            BY <1>1, <1>5, <2>2, <2>3, <2>4, <2>5, <3>1 DEF FlagInv, Reached
    <2>7. CASE AllCopied(s, k - 1)
        <3>1. i' = FirstBytes + k * NextBytes /\ From(f) = i
            BY <1>0, <1>2, <2>4, <2>7 DEF AllCopied, From
        <3>2. ASSUME NEW n \in 0 .. (i' - 1) PROVE arr'[n] = <<s, n>>
            <4>0. i + NextBytes <= stringLength
                BY <1>0, <1>5, <2>4 DEF Upto, Least
            <4>1. n \in 0 .. (ArrSize - 1) /\ n # stringLength /\ n < LenOf[s]
                BY <1>0, <2>4, <2>5, <4>0
            <4>2. CASE n < i
                <5>1. n \notin i .. (Upto - 1) /\ n \in 0 .. (i - 1)
                    BY <1>0, <4>2
                <5>2. arr'[n] = arr[n]
                    BY <2>2, <4>1, <5>1 DEF Copied
                <5> QED
                    BY <2>7, <5>1, <5>2 DEF AllCopied
            <4>3. CASE n >= i
                <5>1. n \in i .. (Upto - 1) /\ From(f) + n - i = n
                    BY <1>0, <2>4, <3>1, <4>3
                <5>2. arr'[n] = Char(s, From(f) + n - i)
                    BY <2>2, <4>1, <5>1 DEF Copied
                <5> QED
                    BY <4>1, <5>1, <5>2 DEF Char
            <4> QED
                BY <1>0, <4>2, <4>3
        <3>3. AllCopied(s, k)'
            BY <3>1, <3>2 DEF AllCopied
        <3> QED
            BY <1>1, <1>5, <2>2, <2>3, <2>4, <2>5, <3>3 DEF FlagInv, Reached
    <2> QED
        BY <2>5, <2>6, <2>7 DEF Reached
<1> QED
    BY <1>3, <1>4, <1>5

-----------------------------------------------------------------------------
(* NeverPartial *)

\* No string has come that the code stores parts of.
Fit == \A s \in seen : ~TooLong(s) /\ ~LongBroker(s)

\* The inductive invariant of NeverPartial
PartInv == TypeInv /\ (Fit => FlagInv /\ TextInv)

\* A frame that is not of a string touches neither the buffer nor the strings.
Quiet(f) == FixedFrame(f) \/ NumericFrame(f) \/ EepromFrame(f) \/ LastFrame(f)

\* ... and is no part of one.
LEMMA QuietKeeps ==
    ASSUME NEW f, Quiet(f)
    PROVE  /\ UNCHANGED <<arr, i, stringLength, flag, giveEntry, prevSeq, stored>>
           /\ f.kind \notin {"first", "next"}
<1>1. UNCHANGED bufVars /\ f.kind \notin {"first", "next"}
    BY DEF Quiet, FixedFrame, NumericFrame, EepromFrame, LastFrame
<1> QED
    BY <1>1 DEF bufVars

\* What a frame that is handled can be.
LEMMA FrameCases ==
    ASSUME NEW f \in Frame, Receive(f)
    PROVE  \/ Quiet(f)
           \/ f.kind = "first" /\ f.str \in Str /\ (StringFrame(f) \/ BrokerFrame(f))
           \/ /\ f.kind = "next" /\ f.str \in Str
              /\ RepeatedFrame(f) \/ (NextFrame(f) /\ prevSeq # 5 + f.part) \/ EndFrame(f)
<1>1. CASE Quiet(f)
    BY <1>1
<1>2. CASE StringFrame(f) \/ BrokerFrame(f)
    BY <1>2, FrameKinds DEF StringFrame, BrokerFrame
<1>3. CASE RepeatedFrame(f)
    BY <1>3, FrameKinds DEF RepeatedFrame, Repeated
<1>4. CASE NextFrame(f)
    BY <1>4, FrameKinds DEF NextFrame, Repeated
<1>5. CASE EndFrame(f)
    BY <1>5, FrameKinds DEF EndFrame
<1> QED
    BY <1>1, <1>2, <1>3, <1>4, <1>5, Zenon DEF Receive, Handled, Quiet

\* The string of a frame that is handled counts as one of which a frame was sent,
\* as do those before it.
LEMMA SeenGrows ==
    ASSUME TypeInv, NEW f \in Frame, Receive(f)
    PROVE  /\ seen \subseteq seen' /\ seen \subseteq Str /\ ~overrun
           /\ f.kind \in {"first", "next"} => f.str \in seen'
BY DEF Receive, StringOf, TypeInv, Kept, Held

\* The buffer ends only under a string that is too long for it.
LEMMA NoEnd ==
    ASSUME TypeInv, \A s \in seen : ~TooLong(s)
    PROVE  ~AtEnd
<1>1. /\ stringLength \in Nat /\ i \in Nat /\ ArrSize \in Nat \ {0} /\ NextBytes \in Nat
      /\ seen \subseteq Str /\ (stringLength = 0 \/ \E s \in seen : stringLength = LenByte(s))
    BY Sizes DEF TypeInv, InsideBuffer, Kept, Held
<1>2. stringLength < ArrSize
    BY <1>1, Sizes DEF TooLong
<1> QED
    BY <1>1, <1>2 DEF AtEnd, Upto, Least

\* The head after a frame was delivered: the same, or the one that follows.
LEMMA HeadAfter ==
    ASSUME TypeInv, todo # <<>>, todo' \in {todo, Tail(todo)},
           todo' # <<>>, Head(todo').kind = "next"
    PROVE  \/ todo' = todo
           \/ /\ Continues(Head(todo)) /\ Head(todo').str = Head(todo).str
              /\ Head(todo').part = Part(Head(todo)) + 1
BY AfterHead DEF TypeInv, Kept

\* What a step stores is a whole string or nothing.
StoresWhole == \A p \in StringParam : Stores(p) => \E s \in Str : stored'[p] = Written(s)

\* A frame that is handled, whether or not it is acknowledged, stores a whole
\* string or none, and leaves as much in the buffer as the next head says.
LEMMA DeliverPart ==
    ASSUME PartInv, todo # <<>>, Receive(Head(todo)),
           todo' \in {todo, Tail(todo)}, Fit'
    PROVE  FlagInv' /\ TextInv' /\ StoresWhole
<1>h. PICK h : h = Head(todo)
    OBVIOUS
<1>a. /\ TypeInv /\ h \in Frame /\ (h.kind = "next" => h.part \in 1 .. Conts(h.str))
    BY <1>h, AfterHead DEF PartInv, TypeInv, Kept
<1>b. /\ Fit /\ ~overrun
      /\ h.kind \in {"first", "next"} => ~TooLong(h.str) /\ ~LongBroker(h.str)
    BY <1>h, <1>a, SeenGrows DEF Fit, TooLong, LongBroker
<1>0. /\ TypeInv /\ FlagInv /\ TextInv /\ ~overrun /\ ~AtEnd
      /\ h \in Frame /\ (h.kind = "next" => h.part \in 1 .. Conts(h.str))
    BY <1>a, <1>b, NoEnd DEF PartInv, Fit
<1>1. CASE Quiet(h)
    <2>1. /\ UNCHANGED <<arr, i, stringLength, flag, giveEntry, prevSeq, stored>>
          /\ h.kind \notin {"first", "next"}
        BY <1>1, QuietKeeps
    <2>2. ~(todo' # <<>> /\ Head(todo').kind = "next")
        BY <1>0, <2>1, <1>h, HeadAfter DEF Continues
    <2> QED
        BY <1>0, <2>1, <2>2 DEF FlagInv, TextInv, StoresWhole, Stores
<1>2. CASE h.kind = "first" /\ h.str \in Str /\ (StringFrame(h) \/ BrokerFrame(h))
    <2> DEFINE s == h.str
    <2>1. /\ stringLength' = LenOf[s]
          /\ i' < stringLength' => AllCopied(s, 0)' /\ i' = FirstBytes
          /\ i' < stringLength' => flag' # {}
          /\ giveEntry' = giveEntry
          /\ \A p \in StringParam : stored'[p] = stored[p]
        BY <1>0, <1>b, <1>2, FirstReaches
    <2>2. ASSUME todo' # <<>>, Head(todo').kind = "next", i' < stringLength'
          PROVE  Reached(Head(todo).str, Seen(Head(todo)))'
        <3>1. Head(todo').str = s /\ Head(todo').part = 1
            BY <1>0, <1>2, <2>2, <1>h, HeadAfter DEF Part
        <3>2. CASE prevSeq' = 6
            <4>1. Seen(Head(todo))' = 1
                BY <3>1, <3>2 DEF Seen
            <4>2. Short(1)'
                BY <2>1, <2>2, ConfigAssumption DEF Short
            <4> QED
                BY <2>1, <3>1, <4>1, <4>2 DEF Reached
        <3>3. CASE prevSeq' # 6
            <4>1. Seen(Head(todo))' = 0
                BY <3>1, <3>3 DEF Seen
            <4> QED
                BY <2>1, <2>2, <3>1, <4>1 DEF Reached
        <3> QED
            BY <3>2, <3>3
    <2>3. FlagInv' /\ StoresWhole
        BY <1>0, <2>1 DEF FlagInv, StoresWhole, Stores
    <2> QED
        BY <2>2, <2>3 DEF TextInv
<1>3. CASE h.kind = "next" /\ h.str \in Str /\ RepeatedFrame(h)
    <2>1. /\ UNCHANGED <<arr, i, stringLength, flag, giveEntry, prevSeq, stored>>
          /\ prevSeq = 5 + h.part
        BY <1>3 DEF RepeatedFrame, Repeated, bufVars
    <2>2. ASSUME todo' # <<>>, Head(todo').kind = "next", i' < stringLength'
          PROVE  Reached(Head(todo).str, Seen(Head(todo)))'
        <3>1. Reached(h.str, h.part)
            BY <1>h, <1>0, <1>3, <2>1, <2>2 DEF TextInv, Seen
        <3>2. Head(todo').str = h.str /\ Seen(Head(todo))' = h.part
            <4>1. CASE todo' = todo
                BY <1>h, <2>1, <4>1 DEF Seen
            <4>2. CASE Head(todo').str = h.str /\ Head(todo').part = Part(h) + 1
                <5>1. h.part \in Nat /\ Head(todo').part = h.part + 1
                    BY <1>0, <1>3, <4>2, ContsEnough DEF Part
                <5>2. prevSeq' # 5 + (h.part + 1) /\ (h.part + 1) - 1 = h.part
                    BY <2>1, <5>1
                <5> QED
                    BY <4>2, <5>1, <5>2 DEF Seen
            <4> QED
                BY <1>0, <2>2, <4>1, <4>2, <1>h, HeadAfter
        <3> QED
            BY <2>1, <3>1, <3>2 DEF Reached, AllCopied, Short
    <2> QED
        BY <1>0, <2>1, <2>2 DEF FlagInv, TextInv, StoresWhole, Stores
<1>4. CASE h.kind = "next" /\ h.str \in Str /\ NextFrame(h) /\ prevSeq # 5 + h.part
    <2> DEFINE s == h.str
               k == h.part
    <2>1. i < stringLength => Reached(s, k - 1)
        BY <1>h, <1>0, <1>4 DEF TextInv, Seen
    <2>2. /\ FlagInv' /\ stringLength' = stringLength /\ prevSeq' = 5 + k
          /\ i' < stringLength' => i < stringLength /\ Reached(s, k)' /\ flag' = flag
          /\ \/ UNCHANGED <<stored, flag>>
             \/ stored' = [stored EXCEPT ![Taker] = Written(s)]
        BY <1>0, <1>b, <1>4, <2>1, NextReaches
    <2>3. ASSUME todo' # <<>>, Head(todo').kind = "next", i' < stringLength'
          PROVE  Reached(Head(todo).str, Seen(Head(todo)))'
        <3>1. Head(todo').str = h.str /\ Seen(Head(todo))' = h.part
            <4>1. CASE todo' = todo
                BY <1>h, <2>2, <4>1 DEF Seen
            <4>2. CASE Head(todo').str = h.str /\ Head(todo').part = Part(h) + 1
                <5>1. h.part \in Nat /\ Head(todo').part = h.part + 1
                    BY <1>0, <1>4, <4>2, ContsEnough DEF Part
                <5>2. prevSeq' # 5 + (h.part + 1) /\ (h.part + 1) - 1 = h.part
                    BY <2>2, <5>1
                <5> QED
                    BY <4>2, <5>1, <5>2 DEF Seen
            <4> QED
                BY <1>0, <2>3, <4>1, <4>2, <1>h, HeadAfter
        <3> QED
            BY <2>2, <2>3, <3>1 DEF Reached
    <2>4. StoresWhole
        <3> SUFFICES ASSUME NEW p \in StringParam, stored'[p] # stored[p]
                     PROVE  \E t \in Str : stored'[p] = Written(t)
            BY DEF StoresWhole, Stores
        <3>1. stored'[p] = stored[p] \/ stored'[p] = Written(s)
            BY <1>0, <2>2 DEF TypeInv, Kept, Held
        <3> QED
            BY <1>0, <1>4, <3>1
    <2> QED
        BY <2>2, <2>3, <2>4 DEF TextInv
<1>5. ~EndFrame(h)
    BY <1>0 DEF EndFrame
<1> QED
    BY <1>h, <1>0, <1>1, <1>2, <1>3, <1>4, <1>5, FrameCases

\* Whatever the MCU begins to send does not begin inside a string.
LEMMA SendPart ==
    ASSUME PartInv, SentWhole(todo'), UNCHANGED pmuVars
    PROVE  (Fit => FlagInv /\ TextInv)'
<1>1. ~(todo' # <<>> /\ Head(todo').kind = "next")
    BY DEF SentWhole
<1>2. UNCHANGED <<i, stringLength, flag, giveEntry, seen>>
    BY DEF pmuVars, bufVars
<1> QED
    BY <1>1, <1>2 DEF PartInv, Fit, TooLong, LongBroker, FlagInv, TextInv

\* What the other actions send.
LEMMA Sends ==
    ASSUME TypeInv, \/ Request \/ \E s \in Str : ChangeString(s)
                    \/ \E p \in {Limit, Tariff}, v \in Value \union {Blank} : ChangeNumber(p, v)
                    \/ McuRestart
    PROVE  SentWhole(todo') /\ UNCHANGED pmuVars
<1>1. CASE Request
    BY <1>1, AnswerWhole DEF Request, TypeInv, Kept
<1>2. ASSUME NEW s \in Str, ChangeString(s) PROVE SentWhole(todo') /\ UNCHANGED pmuVars
    BY <1>2, StringWhole DEF ChangeString
<1>3. ASSUME NEW p \in {Limit, Tariff}, NEW v \in Value \union {Blank}, ChangeNumber(p, v)
      PROVE  SentWhole(todo') /\ UNCHANGED pmuVars
    <2>1. NumberFrame(p, v) \in Frame /\ NumberFrame(p, v).kind = "number"
        BY DEF Frame, NumberFrame
    <2>2. /\ <<NumberFrame(p, v)>> \in Seq(Frame) /\ Len(<<NumberFrame(p, v)>>) = 1
          /\ \A n \in 1 .. 1 : <<NumberFrame(p, v)>>[n].kind = "number"
        BY <2>1
    <2>3. SentWhole(<<NumberFrame(p, v)>>)
        BY <2>2, PlainWhole
    <2> QED
        BY <1>3, <2>3 DEF ChangeNumber
<1>4. CASE McuRestart
    <2>1. <<>> \in Seq(Frame) /\ Len(<<>>) = 0
        OBVIOUS
    <2> QED
        BY <1>4, <2>1 DEF McuRestart, SentWhole, Chained
<1> QED
    BY <1>1, <1>2, <1>3, <1>4

\* Every action keeps it, and stores no part of a string while Fit.
LEMMA PartStep ==
    ASSUME PartInv, [Next]_vars
    PROVE  PartInv' /\ (Fit' => StoresWhole)
<1>0. TypeInv /\ TypeInv'
    BY TypeStep DEF PartInv
<1>a. UNCHANGED stored => StoresWhole
    BY DEF StoresWhole, Stores
<1>1. CASE Deliver \/ DeliverUnacknowledged
    BY <1>0, <1>1, DeliverPart DEF Deliver, DeliverUnacknowledged, mcuVars, PartInv
<1>2. CASE \/ Request \/ \E s \in Str : ChangeString(s)
           \/ \E p \in {Limit, Tariff}, v \in Value \union {Blank} : ChangeNumber(p, v)
           \/ McuRestart
    <2>1. SentWhole(todo') /\ UNCHANGED pmuVars
        BY <1>0, <1>2, Sends
    <2>2. UNCHANGED stored
        BY <2>1 DEF pmuVars, bufVars
    <2> QED
        BY <1>0, <1>a, <2>1, <2>2, SendPart DEF PartInv
<1>3. CASE PmuRestart
    <2>1. i' = 0 /\ stringLength' = 0 /\ giveEntry' = FALSE /\ stored' = EmptyStored
        BY <1>3 DEF PmuRestart
    <2>2. FlagInv' /\ TextInv'
        BY <2>1 DEF FlagInv, TextInv
    <2>3. StoresWhole
        BY <2>1 DEF StoresWhole, Stores, EmptyStored
    <2> QED
        BY <1>0, <2>2, <2>3 DEF PartInv
<1>4. CASE UNCHANGED vars
    <2>1. UNCHANGED <<arr, i, stringLength, flag, giveEntry, prevSeq, stored, seen, todo>>
        BY <1>4 DEF vars, pmuVars, bufVars, mcuVars
    <2> QED
        BY <1>0, <1>a, <2>1 DEF PartInv, Fit, TooLong, LongBroker, FlagInv, TextInv,
                                Reached, AllCopied, Short, Seen
<1> QED
    BY <1>1, <1>2, <1>3, <1>4, Zenon DEF Next

\* NeverPartial: whatever handle_charger_config stores from the buffer is a
\* whole string of the MCU, whichever frames come again, are passed over because
\* their sequence number is that of the frame before, or are cut off by a
\* restart, until a string that is too long or a broker's address that goes on
\* after its first frame has come.
THEOREM NeverAPart == Spec => NeverPartial
<1>1. Init => PartInv
    BY TypeInit DEF Init, PartInv, FlagInv, TextInv
<1>2. PartInv /\ [Next]_vars => PartInv'
    BY PartStep
<1>3. PartInv /\ [Next]_vars =>
          [\A p \in StringParam :
              Stores(p) => \/ \E s \in Str : stored'[p] = Written(s)
                           \/ \E s \in seen' : TooLong(s) \/ LongBroker(s)]_vars
    <2> SUFFICES ASSUME PartInv, [Next]_vars, NEW p \in StringParam, Stores(p),
                        ~(\E s \in seen' : TooLong(s) \/ LongBroker(s))
                 PROVE  \E s \in Str : stored'[p] = Written(s)
        OBVIOUS
    <2>1. Fit'
        BY DEF Fit, TooLong, LongBroker
    <2> QED
        BY <2>1, PartStep DEF StoresWhole
<1> QED
    BY <1>1, <1>2, <1>3, PTL DEF Spec, NeverPartial

-----------------------------------------------------------------------------
(* NeverMisplaced *)

\* No string has come that leaves a flag or a sequence number in the way of the
\* next one, or that does not fit.
Regular == \A s \in seen : ~TooLong(s) /\ ~Brief(s)

\* The flag that is set is that of the string on its way, whose characters are
\* all in the buffer; between two strings no flag is set.  giveEntry may be left
\* over from an address of a broker when a string begins, not later.
InString   == todo # <<>> /\ Head(todo).kind = "next"
AtString   == todo # <<>> /\ Head(todo).kind = "first"
Gathered(s, k) ==
    /\ flag = {ParamOf[s]}
    /\ stringLength = LenOf[s] /\ i < stringLength /\ AllCopied(s, k)
    /\ k >= 1 => giveEntry = FALSE
OwnFlag ==
    /\ InString /\ flag # {} => Gathered(Head(todo).str, Seen(Head(todo)))
    /\ AtString => flag \subseteq {ParamOf[Head(todo).str]} /\ prevSeq # 6
    /\ ~InString /\ ~AtString => flag = {} /\ prevSeq # 6

\* The inductive invariant of NeverMisplaced
OwnInv == TypeInv /\ (Unbroken /\ Regular => OwnFlag)

\* What a step stores begins as a string of its parameter.
StoresOwn ==
    \A p \in StringParam :
        Stores(p) => \E s \in Str : ParamOf[s] = p /\ BeginsAs(stored'[p], s)

\* Characters at the beginning of the buffer are the beginning of its text.
LEMMA TextBegins ==
    ASSUME NEW c, NEW s, NEW m \in Nat, m <= ArrSize,
           \A n \in 0 .. (m - 1) : c[n] = <<s, n>>
    PROVE  \A n \in 1 .. m : n \in DOMAIN Text(c) /\ Text(c)[n] = <<s, n - 1>>
<1> DEFINE before == {k \in 1 .. ArrSize : \A l \in 0 .. (k - 1) : c[l] # Nul}
<1>1. ASSUME NEW n PROVE <<s, n>> # Nul
    <2>1. Len(<<s, n>>) = 2 /\ Len(<<>>) = 0
        OBVIOUS
    <2>2. 2 # 0
        OBVIOUS
    <2> QED
        BY <2>1, <2>2, Zenon DEF Nul
<1>2. ASSUME NEW n \in 1 .. m PROVE n \in before /\ c[n - 1] = <<s, n - 1>>
    <2>1. n \in 1 .. ArrSize /\ n - 1 \in 0 .. (m - 1)
        BY ConfigAssumption
    <2>2. \A l \in 0 .. (n - 1) : c[l] # Nul
        BY <1>1
    <2> QED
        BY <2>1, <2>2
<1>3. Text(c) = [n \in before |-> c[n - 1]]
    BY Zenon DEF Text
<1> HIDE DEF before
<1> QED
    BY <1>2, <1>3

\* Where a continuation frame carries the characters of its string on.
LEMMA CopiedOwn ==
    ASSUME TypeInv, ~overrun, ~AtEnd, NEW s \in Str, NEW k \in 1 .. Conts(s), NEW f,
           f.str = s, f.part = k, stringLength = LenOf[s], i < stringLength,
           AllCopied(s, k - 1)
    PROVE  /\ \A n \in 0 .. (Upto - 1) : Copied(f)[n] = <<s, n>>
           /\ Upto \in Nat /\ Upto < ArrSize
           /\ LenOf[s] > FirstBytes + NextBytes => FirstBytes + NextBytes <= Upto
           /\ Upto = stringLength \/ Upto = FirstBytes + k * NextBytes
<1>1. /\ k \in Nat \ {0} /\ LenOf[s] \in Nat /\ ArrSize \in Nat /\ i \in Nat
      /\ FirstBytes \in Nat /\ NextBytes \in Nat /\ Upto \in Nat /\ Upto <= stringLength
      /\ Upto < ArrSize
    <2>1. LenOf[s] \in Nat /\ ArrSize \in Nat /\ FirstBytes \in Nat /\ NextBytes \in Nat
        BY Sizes
    <2>2. Conts(s) \in Nat
        BY ContsEnough
    <2>3. Upto \in Nat /\ Upto <= stringLength /\ Upto < ArrSize
        BY CopiedBuffer
    <2>4. i \in Nat
        BY <2>1 DEF TypeInv, InsideBuffer
    <2> QED
        BY <2>1, <2>2, <2>3, <2>4
<1>2. /\ (k - 1) * NextBytes \in Nat /\ k * NextBytes = (k - 1) * NextBytes + NextBytes
      /\ i = FirstBytes + (k - 1) * NextBytes /\ From(f) = i
    BY <1>1 DEF AllCopied, From
<1>3. ASSUME NEW n \in 0 .. (Upto - 1) PROVE Copied(f)[n] = <<s, n>>
    <2>1. n \in 0 .. (ArrSize - 1) /\ n # stringLength /\ n < LenOf[s]
        BY <1>1
    <2>2. CASE n < i
        <3>1. n \notin i .. (Upto - 1) /\ n \in 0 .. (i - 1)
            BY <1>1, <2>2
        <3>2. Copied(f)[n] = arr[n]
            BY <2>1, <3>1 DEF Copied
        <3> QED
            BY <3>1, <3>2 DEF AllCopied
    <2>3. CASE n >= i
        <3>1. n \in i .. (Upto - 1) /\ From(f) + n - i = n
            BY <1>1, <1>2, <2>3
        <3>2. Copied(f)[n] = Char(s, From(f) + n - i)
            BY <2>1, <3>1 DEF Copied
        <3> QED
            BY <2>1, <3>1, <3>2 DEF Char
    <2> QED
        BY <1>1, <2>2, <2>3
<1>4. Upto = stringLength \/ Upto = i + NextBytes
    BY DEF Upto, Least
<1> QED
    BY <1>1, <1>2, <1>3, <1>4

\* A frame was delivered and nothing was passed over for good.
LEMMA DeliverOwn ==
    ASSUME TypeInv, OwnFlag, todo # <<>>, Receive(Head(todo)),
           todo' \in {todo, Tail(todo)}, Regular'
    PROVE  OwnFlag' /\ StoresOwn
<1>1. PICK h : h = Head(todo)
    OBVIOUS
<1>2. /\ TypeInv /\ h \in Frame /\ Receive(h)
      /\ (h.kind = "next" => h.part \in 1 .. Conts(h.str))
    BY <1>1, AfterHead DEF TypeInv, Kept
<1>s. /\ ~overrun /\ \A s \in seen : ~TooLong(s)
      /\ h.kind \in {"first", "next"} => ~TooLong(h.str) /\ ~Brief(h.str)
    BY <1>2, SeenGrows DEF Regular, TooLong, Brief, Conts
<1>3. /\ FirstBytes \in Nat \ {0} /\ NextBytes \in Nat \ {0} /\ flag \subseteq StringParam
      /\ ~AtEnd
    BY <1>2, <1>s, NoEnd, Sizes DEF TypeInv, InsideBuffer
\* the head that follows
<1>4. /\ todo' # <<>> /\ Head(todo').kind = "next" =>
             \/ todo' = todo
             \/ /\ Continues(h) /\ Head(todo').str = h.str
                /\ Head(todo').part = Part(h) + 1
      /\ Continues(h) => todo' # <<>> /\ (todo' = todo \/ Head(todo').kind = "next")
    BY <1>1, <1>2, AfterHead DEF TypeInv, Kept
\* enough when the head is the same or the string has ended
<1>5. ASSUME \A p \in StringParam : stored'[p] = stored[p] PROVE StoresOwn
    BY <1>5 DEF StoresOwn, Stores
<1>6. CASE Quiet(h)
    <2>1. /\ UNCHANGED <<i, stringLength, flag, giveEntry, prevSeq, stored>>
          /\ h.kind \notin {"first", "next"}
        BY <1>6, QuietKeeps
    <2>2. flag = {} /\ prevSeq # 6
        BY <1>1, <2>1 DEF OwnFlag, InString, AtString
    <2>3. ~InString'
        BY <1>1, <1>4, <2>1 DEF Continues, InString
    <2> QED
        BY <1>5, <2>1, <2>2, <2>3 DEF OwnFlag
<1>7. CASE h.kind = "first" /\ h.str \in Str /\ (StringFrame(h) \/ BrokerFrame(h))
    <2> DEFINE s == h.str
    <2>0. flag \subseteq {ParamOf[s]} /\ prevSeq # 6 /\ prevSeq' = prevSeq /\ Part(h) = 0
        BY <1>1, <1>7 DEF OwnFlag, AtString, StringFrame, BrokerFrame, Part
    <2>1. LenOf[s] \in Nat /\ LenByte(s) = LenOf[s]
        BY <1>7, <1>s, Sizes DEF TooLong
    <2>2. StoresOwn
        <3>1. \A p \in StringParam : stored'[p] = stored[p]
            BY <1>2, <1>7 DEF StringFrame, BrokerFrame, TypeInv, Kept, Held, StringParam, Broker
        <3> QED
            BY <1>5, <3>1
    <2>3. CASE ParamOf[s] # Broker
        <3>1. flag' = {ParamOf[s]}
            BY <1>7, <2>0, <2>3 DEF StringFrame, BrokerFrame
        <3>2. Conts(s) \in Nat /\ Conts(s) >= 2 /\ LenOf[s] > FirstBytes + NextBytes
            BY <1>7, <1>s, <2>3, ContsEnough DEF Brief
        <3>3. Continues(h) /\ Gathered(s, 0)'
            <4>1. Continues(h)
                BY <1>7, <2>0, <3>2 DEF Continues
            <4>2. StringFrame(h)
                BY <1>7, <2>3 DEF BrokerFrame
            <4>3. /\ stringLength' = LenOf[s] /\ i' = Least(FirstBytes, LenOf[s])
                  /\ arr' = Started(s)
                BY <2>1, <4>2 DEF StringFrame
            <4>4. i' = FirstBytes /\ i' < stringLength' /\ i' = FirstBytes + 0 * NextBytes
                BY <1>3, <2>1, <3>2, <4>3 DEF Least
            <4>5. \A n \in 0 .. (i' - 1) : arr'[n] = <<s, n>>
                BY <1>2, <1>s, <1>7, <2>1, <4>3, StartedBuffer
            <4> QED
                BY <3>1, <4>1, <4>3, <4>4, <4>5 DEF Gathered, AllCopied
        <3>4. CASE todo' = todo
            BY <1>1, <1>7, <2>0, <2>2, <3>1, <3>4 DEF OwnFlag, InString, AtString
        <3>5. CASE Head(todo').kind = "next" /\ todo' # todo
            <4>1. todo' # <<>> /\ Head(todo').str = s /\ Head(todo').part = 1
                BY <1>4, <2>0, <3>3, <3>5
            <4>2. Seen(Head(todo))' = 0
                <5>1. prevSeq' # 6
                    BY <2>0
                <5> QED
                    BY <4>1, <5>1 DEF Seen
            <4>3. InString' /\ ~AtString'
                BY <3>5, <4>1 DEF InString, AtString
            <4> QED
                BY <2>2, <3>3, <4>1, <4>2, <4>3 DEF OwnFlag, Gathered, AllCopied
        <3>6. todo' = todo \/ Head(todo').kind = "next"
            BY <1>4, <3>3
        <3> QED
            BY <3>4, <3>5, <3>6
    <2>4. CASE ParamOf[s] = Broker
        <3>1. flag' = {} /\ flag = {}
            <4>1. Broker \notin StringParam
                BY DEF Broker, StringParam
            <4>2. flag' = flag
                BY <1>7, <2>4, <4>1 DEF StringFrame, BrokerFrame
            <4> QED
                BY <1>3, <2>0, <2>4, <4>1, <4>2
        <3> QED
            BY <2>0, <2>2, <3>1 DEF OwnFlag
    <2> QED
        BY <2>3, <2>4
<1>8. CASE h.kind = "next" /\ h.str \in Str
    <2> DEFINE s == h.str
               k == h.part
    <2>1. /\ k \in 1 .. Conts(s) /\ Conts(s) \in Nat /\ LenOf[s] \in Nat
          /\ LenOf[s] <= FirstBytes + Conts(s) * NextBytes
          /\ Conts(s) >= 2 => LenOf[s] > FirstBytes + NextBytes
          /\ Part(h) = k
        BY <1>2, <1>8, ContsEnough, Sizes DEF Part
    <2>2. Conts(s) >= 2 /\ LenOf[s] > FirstBytes + NextBytes
        BY <1>8, <1>s, <2>1 DEF Brief
    <2>a. ASSUME Gathered(s, k) PROVE k # Conts(s)
        BY <1>3, <2>1, <2>a DEF Gathered, AllCopied
    \* after this frame: its flag alone and all its characters, or no flag
    <2>3. /\ prevSeq' = 5 + k
          /\ flag' # {} => Gathered(s, k)' /\ k # Conts(s)
          /\ StoresOwn
        <3>1. CASE RepeatedFrame(h)
            <4>1. UNCHANGED <<arr, i, stringLength, flag, giveEntry, prevSeq, stored>>
                  /\ prevSeq = 5 + k
                BY <3>1 DEF RepeatedFrame, Repeated, bufVars
            <4>2. flag # {} => Gathered(s, k)
                BY <1>1, <1>8, <4>1 DEF OwnFlag, InString, Seen
            <4>3. flag # {} => Gathered(s, k)'
                BY <4>1, <4>2 DEF Gathered, AllCopied
            <4> QED
                BY <1>5, <2>a, <4>1, <4>2, <4>3
        <3>2. CASE NextFrame(h) /\ prevSeq # 5 + h.part /\ flag = {}
            <4>1. UNCHANGED <<stored, flag>> /\ prevSeq' = 5 + k
                BY <3>2 DEF NextFrame
            <4> QED
                BY <1>5, <3>2, <4>1
        <3>3. CASE NextFrame(h) /\ prevSeq # 5 + h.part /\ flag # {}
            <4>1. prevSeq' = 5 + k /\ stringLength' = stringLength
                BY <3>3 DEF NextFrame
            <4>2. Gathered(s, k - 1)
                BY <1>1, <1>8, <3>3 DEF OwnFlag, InString, Seen
            <4>3. /\ i < stringLength /\ stringLength = LenOf[s] /\ AllCopied(s, k - 1)
                  /\ flag = {ParamOf[s]}
                BY <4>2 DEF Gathered
            <4>4. /\ \A n \in 0 .. (Upto - 1) : Copied(h)[n] = <<s, n>>
                  /\ Upto \in Nat /\ Upto < ArrSize /\ FirstBytes + NextBytes <= Upto
                  /\ Upto = stringLength \/ Upto = FirstBytes + k * NextBytes
                BY <1>2, <1>s, <1>3, <1>8, <2>1, <2>2, <4>3, CopiedOwn
            <4>5. CASE Completed
                <5>1. Taker = ParamOf[s] /\ ParamOf[s] \in StringParam
                    <6>1. flag = {ParamOf[s]} /\ ParamOf[s] \in StringParam
                        BY <1>3, <4>3
                    <6>2. ParamOf[s] \in Nat
                        BY <6>1 DEF StringParam
                    <6> QED
                        BY <6>1, <6>2 DEF Taker
                <5>2. flag' = flag \ {Taker} /\ stored' = [stored EXCEPT ![Taker] = Text(Copied(h))]
                    BY <3>3, <4>5, Zenon DEF NextFrame
                <5>3. flag' = {}
                    BY <4>3, <5>1, <5>2
                <5>4. BeginsAs(Text(Copied(h)), s)
                    <6>1. \A n \in 1 .. Upto : n \in DOMAIN Text(Copied(h))
                                                /\ Text(Copied(h))[n] = <<s, n - 1>>
                        <7>1. PICK c : c = Copied(h)
                            OBVIOUS
                        <7>2. PICK m : m = Upto
                            OBVIOUS
                        <7>3. PICK t : t = s
                            OBVIOUS
                        <7>4. m \in Nat /\ m <= ArrSize /\ \A n \in 0 .. (m - 1) : c[n] = <<t, n>>
                            BY <4>4, <7>1, <7>2, <7>3, Sizes
                        <7>5. \A n \in 1 .. m : n \in DOMAIN Text(c) /\ Text(c)[n] = <<t, n - 1>>
                            BY <7>4, TextBegins
                        <7> QED
                            BY <7>1, <7>2, <7>3, <7>5
                    <6>2. \A n \in 1 .. (FirstBytes + NextBytes) : n \in 1 .. Upto
                        BY <1>3, <4>4
                    <6> QED
                        BY <6>1, <6>2, Zenon DEF BeginsAs
                <5>5. StoresOwn
                    <6> SUFFICES ASSUME NEW p \in StringParam, stored'[p] # stored[p]
                                 PROVE  \E t \in Str : ParamOf[t] = p /\ BeginsAs(stored'[p], t)
                        BY DEF StoresOwn, Stores
                    <6>1. stored = [q \in StringParam \union {Broker} |-> stored[q]]
                        BY <1>2 DEF TypeInv, Kept, Held
                    <6>2. p = ParamOf[s] /\ stored'[p] = Text(Copied(h))
                        BY <5>1, <5>2, <6>1
                    <6> QED
                        BY <1>8, <5>4, <6>2
                <5> QED
                    BY <4>1, <5>3, <5>5
            <4>6. CASE ~Completed
                <5>1. /\ UNCHANGED <<stored, flag>> /\ arr' = Copied(h)
                      /\ giveEntry' = Completed
                    BY <3>3, <4>6, Zenon DEF NextFrame
                <5>2. i' = Upto
                    BY <3>3, <4>3 DEF NextFrame
                <5>3. Upto # stringLength
                    BY <4>3, <4>6 DEF Completed
                <5>4. giveEntry' = FALSE
                    <6>1. giveEntry = FALSE
                        <7>1. giveEntry \in BOOLEAN
                            BY <1>2 DEF TypeInv, InsideBuffer
                        <7> QED
                            BY <4>6, <7>1, Zenon DEF Completed
                    <6>2. Completed = FALSE
                        BY <4>3, <5>3, <6>1, Zenon DEF Completed
                    <6> QED
                        BY <5>1, <6>2, Zenon
                <5>5. Upto < stringLength
                    BY <1>2, <1>s, <1>3, <4>3, <4>4, <5>3, CopiedBuffer DEF TypeInv, InsideBuffer
                <5>6. Gathered(s, k)'
                    BY <4>1, <4>3, <4>4, <5>1, <5>2, <5>3, <5>4, <5>5 DEF Gathered, AllCopied
                <5>7. k # Conts(s)
                    BY <1>3, <2>1, <4>3, <4>4, <5>3, <5>5
                <5> QED
                    BY <1>5, <4>1, <5>1, <5>6, <5>7
            <4> QED
                BY <4>5, <4>6
        <3>4. ~EndFrame(h)
            BY <1>3 DEF EndFrame
        <3> QED
            BY <1>2, <1>8, <3>1, <3>2, <3>3, <3>4, FrameCases, QuietKeeps
    <2>4. CASE todo' = todo
        <3>1. Seen(Head(todo))' = k /\ InString'
            BY <1>1, <1>8, <2>3, <2>4 DEF Seen, InString
        <3> QED
            BY <1>1, <2>3, <2>4, <3>1 DEF OwnFlag, InString, AtString
    <2>5. CASE todo' # todo /\ InString'
        <3>1. Head(todo').str = s /\ Head(todo').part = k + 1
            BY <1>4, <2>1, <2>5 DEF InString
        <3>2. Seen(Head(todo))' = k
            <4>1. prevSeq' # 5 + (k + 1) /\ (k + 1) - 1 = k
                BY <2>1, <2>3
            <4> QED
                BY <3>1, <4>1 DEF Seen
        <3> QED
            BY <2>3, <2>5, <3>1, <3>2 DEF OwnFlag, InString, AtString
    <2>6. CASE todo' # todo /\ ~InString'
        <3>1. ~Continues(h)
            BY <1>4, <2>6 DEF InString
        <3>2. k = Conts(s)
            BY <1>8, <2>1, <3>1 DEF Continues
        <3>3. flag' = {} /\ prevSeq' # 6
            BY <2>1, <2>2, <2>3, <3>2
        <3> QED
            BY <2>3, <2>6, <3>3 DEF OwnFlag
    <2> QED
        BY <2>4, <2>5, <2>6
<1> QED
    BY <1>1, <1>2, <1>6, <1>7, <1>8, FrameCases

\* Every action keeps it; when the MCU restarts nothing more is claimed.
LEMMA OwnStep ==
    ASSUME OwnInv, [Next]_vars
    PROVE  OwnInv' /\ (Unbroken' /\ Regular' => StoresOwn)
<1>0. TypeInv /\ TypeInv'
    BY TypeStep DEF OwnInv
<1>a. UNCHANGED stored => StoresOwn
    BY DEF StoresOwn, Stores
<1>1. CASE Deliver \/ DeliverUnacknowledged
    <2>1. /\ todo # <<>> /\ Receive(Head(todo)) /\ todo' \in {todo, Tail(todo)}
          /\ UNCHANGED budget
        BY <1>1 DEF Deliver, DeliverUnacknowledged, mcuVars
    <2>2. Unbroken' <=> Unbroken
        BY <2>1 DEF Unbroken
    <2>3. Regular' => Regular
        <3>1. PICK h : h = Head(todo)
            OBVIOUS
        <3>2. seen \subseteq seen'
            BY <1>0, <2>1, <3>1, AfterHead, SeenGrows DEF TypeInv, Kept
        <3> QED
            BY <3>2 DEF Regular, TooLong, Brief, Conts
    <2>4. CASE Unbroken /\ Regular'
        BY <1>0, <2>1, <2>3, <2>4, DeliverOwn DEF OwnInv
    <2>5. CASE ~(Unbroken /\ Regular')
        BY <1>0, <2>2, <2>5 DEF OwnInv
    <2> QED
        BY <2>4, <2>5
<1>2. CASE \/ Request \/ \E s \in Str : ChangeString(s)
           \/ \E p \in {Limit, Tariff}, v \in Value \union {Blank} : ChangeNumber(p, v)
    <2>1. SentWhole(todo') /\ UNCHANGED pmuVars /\ todo = <<>>
        BY <1>0, <1>2, Sends DEF Request, ChangeString, ChangeNumber
    <2>2. Unbroken' => Unbroken
        BY <1>0, <1>2 DEF Request, ChangeString, ChangeNumber, Unbroken, TypeInv, Kept
    <2>3. UNCHANGED <<flag, prevSeq, stored, seen>>
        BY <2>1 DEF pmuVars, bufVars
    <2>4. Unbroken /\ Regular => flag = {} /\ prevSeq # 6
        BY <2>1 DEF OwnInv, OwnFlag, InString, AtString
    <2>5. Regular' => Regular
        BY <2>3 DEF Regular, TooLong, Brief, Conts
    <2>6. Unbroken' /\ Regular' => OwnFlag'
        BY <2>1, <2>2, <2>3, <2>4, <2>5 DEF SentWhole, OwnFlag, InString, AtString
    <2> QED
        BY <1>0, <1>a, <2>3, <2>6 DEF OwnInv
<1>3. CASE McuRestart
    <2>1. ~Unbroken'
        BY <1>0, <1>3, ConfigAssumption DEF McuRestart, Unbroken, TypeInv, Kept
    <2> QED
        BY <1>0, <2>1 DEF OwnInv
<1>4. CASE PmuRestart
    <2>1. /\ flag' = {} /\ prevSeq' = 0 /\ stored' = EmptyStored
        BY <1>4 DEF PmuRestart
    <2>2. OwnFlag'
        BY <2>1 DEF OwnFlag
    <2>3. StoresOwn
        BY <2>1 DEF StoresOwn, Stores, EmptyStored
    <2> QED
        BY <1>0, <2>2, <2>3 DEF OwnInv
<1>5. CASE UNCHANGED vars
    <2>1. UNCHANGED <<arr, i, stringLength, flag, giveEntry, prevSeq, stored, seen, todo,
                      budget>>
        BY <1>5 DEF vars, pmuVars, bufVars, mcuVars
    <2>2. /\ (InString' <=> InString) /\ (AtString' <=> AtString)
          /\ (Unbroken' <=> Unbroken) /\ (Regular' <=> Regular)
        BY <2>1 DEF InString, AtString, Unbroken, Regular, TooLong, Brief, Conts
    <2>3. OwnFlag => OwnFlag'
        BY <2>1, <2>2 DEF OwnFlag, Gathered, AllCopied, Seen
    <2> QED
        BY <1>0, <1>a, <2>1, <2>2, <2>3 DEF OwnInv
<1> QED
    BY <1>1, <1>2, <1>3, <1>4, <1>5, Zenon DEF Next

\* NeverMisplaced: while the MCU broke no string off and no brief one or one too
\* long has come, the one flag that is set when handle_charger_config completes
\* the buffer is that of the string in it, whatever is left of the address of a
\* broker.
THEOREM NeverOfAnother == Spec => NeverMisplaced
<1>1. Init => OwnInv
    BY TypeInit DEF Init, OwnInv, OwnFlag, InString, AtString
<1>2. OwnInv /\ [Next]_vars => OwnInv'
    BY OwnStep
<1>3. OwnInv /\ [Next]_vars =>
          [\A p \in StringParam :
              Stores(p) => \/ \E s \in Str : ParamOf[s] = p /\ BeginsAs(stored'[p], s)
                           \/ \E s \in seen' : TooLong(s) \/ Brief(s)
                           \/ ~Unbroken]_vars
    <2> SUFFICES ASSUME OwnInv, [Next]_vars, NEW p \in StringParam, Stores(p), Unbroken,
                        ~(\E s \in seen' : TooLong(s) \/ Brief(s))
                 PROVE  \E s \in Str : ParamOf[s] = p /\ BeginsAs(stored'[p], s)
        OBVIOUS
    <2>1. Regular'
        BY DEF Regular, TooLong, Brief, Conts
    <2>2. CASE Unbroken'
        BY <2>1, <2>2, OwnStep DEF StoresOwn
    <2>3. CASE ~Unbroken'
        <3>1. budget' # budget
            BY <2>3 DEF Unbroken
        <3>2. UNCHANGED pmuVars \/ PmuRestart
            BY <3>1, Zenon DEF Next, vars, Deliver, DeliverUnacknowledged, Request, ChangeString,
               ChangeNumber, McuRestart
        <3>3. UNCHANGED stored \/ stored' = EmptyStored
            BY <3>2 DEF pmuVars, bufVars, PmuRestart
        <3> QED
            BY <3>3 DEF Stores, EmptyStored
    <2> QED
        BY <2>2, <2>3
<1> QED
    BY <1>1, <1>2, <1>3, PTL DEF Spec, NeverMisplaced

=============================================================================
