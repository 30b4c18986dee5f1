-------------------------- MODULE CtlStreamProofs --------------------------
(***************************************************************************)
(* What holds of a control connection for every set of texts, every size   *)
(* of the buffers and however the stream is cut: what the coding makes of  *)
(* a text, that the stream stays a sequence of whole lines behind the      *)
(* texts that came, and what is in the backlog.                            *)
(***************************************************************************)
EXTENDS CtlStream, LinkedListProofs

-----------------------------------------------------------------------------
(* The coding of arguments.  The tables of Encode and Decode are computed  *)
(* from their ends, row by row.                                            *)

\* One row of the table that Encode computes from its end.
EncodeRow(text, n, i, next) ==
    [room \in 0 .. n - 1 |->
        IF i > Len(text) \/ room < Width(text[i]) THEN <<>>
        ELSE IF text[i] < 16 THEN Code(text[i])
        ELSE Code(text[i]) \o next[room - Width(text[i])]]

\* The recursive definition of Encode has a solution.
LEMMA EncodeUnfolds ==
    ASSUME NEW text, Len(text) \in Nat, NEW n \in Nat
    PROVE  \E enc : /\ Encode(text, n) = enc[1][n - 1]
                    /\ \A i \in 1 .. Len(text) + 1 :
                          enc[i] = EncodeRow(text, n, i, enc[i + 1])
<1> DEFINE L == Len(text)
           Row(i, next) == EncodeRow(text, n, i, next)
           Behind(f, m) == f = [i \in (L + 1) - m .. L + 1 |-> Row(i, f[i + 1])]
           Long == {m \in Nat : m <= L => \E f : Behind(f, m)}
<1>1. \A x, y : Row(L + 1, x) = Row(L + 1, y)
  BY DEF EncodeRow
<1> HIDE DEF Row
<1>2. L \in Nat
  OBVIOUS
<1> HIDE DEF L
<1>3. 0 \in Long
  <2> DEFINE f == [i \in (L + 1) - 0 .. L + 1 |-> Row(L + 1, <<>>)]
  <2>1. \A i \in (L + 1) - 0 .. L + 1 : i = L + 1
    BY <1>2
  <2>2. \A i \in (L + 1) - 0 .. L + 1 : f[i] = Row(i, f[i + 1])
    BY <1>1, <2>1
  <2>3. Behind(f, 0)
    BY <2>2
  <2> QED BY <2>3
<1>4. ASSUME NEW m \in Long PROVE m + 1 \in Long
  <2> SUFFICES ASSUME m + 1 <= L PROVE \E f : Behind(f, m + 1)
    OBVIOUS
  <2>1. PICK f : Behind(f, m)
    BY <1>2
  <2> DEFINE new == (L + 1) - (m + 1)
             g == [i \in new .. L + 1 |-> IF i = new THEN Row(i, f[new + 1]) ELSE f[i]]
  <2>2. ASSUME NEW i \in new .. L + 1 PROVE g[i] = Row(i, g[i + 1])
    <3>1. CASE i = new
      <4>1. new + 1 \in new .. L + 1 /\ new + 1 # new /\ new \in new .. L + 1
        BY <1>2
      <4>2. g[new + 1] = f[new + 1]
        BY <4>1
      <4> QED BY <3>1, <4>1, <4>2
    <3>2. CASE i # new /\ i # L + 1
      <4>1. i \in (L + 1) - m .. L + 1 /\ i + 1 \in new .. L + 1 /\ i + 1 # new
        BY <1>2, <3>2
      <4>2. g[i + 1] = f[i + 1] /\ g[i] = f[i]
        BY <3>2, <4>1
      <4>3. f[i] = Row(i, f[i + 1])
        BY <2>1, <4>1
      <4> QED BY <4>2, <4>3
    <3>3. CASE i # new /\ i = L + 1
      <4>1. i \in (L + 1) - m .. L + 1
        BY <1>2, <3>3
      <4>2. f[i] = Row(i, f[i + 1])
        BY <2>1, <4>1
      <4>3. g[i] = f[i]
        BY <3>3
      <4>4. Row(i, f[i + 1]) = Row(i, g[i + 1])
        BY <1>1, <3>3
      <4> QED BY <4>2, <4>3, <4>4
    <3> QED BY <3>1, <3>2, <3>3
  <2>3. Behind(g, m + 1)
    BY <2>2
  <2> QED BY <2>3
<1>5. Long = Nat
  <2> HIDE DEF Long
  <2>1. Long \in SUBSET Nat
    BY DEF Long
  <2> QED BY <1>3, <1>4, <2>1, SetInduction
<1>6. \E f : Behind(f, L)
  <2>1. L \in Long
    BY <1>2, <1>5
  <2> HIDE DEF Behind
  <2> QED BY <1>2, <2>1
<1>7. (L + 1) - L = 1
  BY <1>2
<1>8. \E f : f = [i \in 1 .. L + 1 |-> Row(i, f[i + 1])]
  BY <1>6, <1>7
<1> DEFINE enc == CHOOSE f : f = [i \in 1 .. L + 1 |-> Row(i, f[i + 1])]
<1>9. enc = [i \in 1 .. L + 1 |-> Row(i, enc[i + 1])]
  BY <1>8
<1>10. Encode(text, n) = enc[1][n - 1]
  BY DEF Encode, Row, EncodeRow, L
<1>11. \A i \in 1 .. L + 1 : enc[i] = Row(i, enc[i + 1])
  BY <1>9
<1> HIDE DEF enc
<1> QED BY <1>10, <1>11 DEF L, Row

\* The same of Decode, whose rows look one or three rows ahead.
DecodeRow(str, n, i, next, third) ==
    [room \in 0 .. n |->
        IF i > Len(str) \/ room = 0 THEN <<>>
        ELSE IF str[i] # Percent THEN <<str[i]>> \o next[room - 1]
        ELSE IF Len(str) - i < 2 THEN <<>>
        ELSE <<16 * Digit(str[i + 1]) + Digit(str[i + 2])>> \o third[room - 1]]

LEMMA DecodeUnfolds ==
    ASSUME NEW str, Len(str) \in Nat, NEW n \in Nat
    PROVE  \E dec : /\ Decode(str, n) = dec[1][n]
                    /\ \A i \in 1 .. Len(str) + 1 :
                          dec[i] = DecodeRow(str, n, i, dec[i + 1], dec[i + 3])
<1> DEFINE L == Len(str)
           Row(i, next, third) == DecodeRow(str, n, i, next, third)
           Behind(f, m) == f = [i \in (L + 1) - m .. L + 1 |-> Row(i, f[i + 1], f[i + 3])]
           Long == {m \in Nat : m <= L => \E f : Behind(f, m)}
<1>2. L \in Nat
  OBVIOUS
<1>0. \A x, y, a, b : Row(L + 1, x, a) = Row(L + 1, y, b)
  BY <1>2 DEF DecodeRow
<1>1. ASSUME NEW i \in 1 .. L, i + 3 > L + 1, NEW x, NEW a, NEW b
      PROVE  Row(i, x, a) = Row(i, x, b)
  <2>1. L - i < 2
    BY <1>1, <1>2
  <2> QED BY <2>1 DEF DecodeRow
<1> HIDE DEF Row
<1> HIDE DEF L
<1>3. 0 \in Long
  <2> DEFINE f == [i \in (L + 1) - 0 .. L + 1 |-> Row(L + 1, <<>>, <<>>)]
  <2>1. \A i \in (L + 1) - 0 .. L + 1 : i = L + 1
    BY <1>2
  <2>2. \A i \in (L + 1) - 0 .. L + 1 : f[i] = Row(i, f[i + 1], f[i + 3])
    BY <1>0, <2>1
  <2>3. Behind(f, 0)
    BY <2>2
  <2> QED BY <2>3
<1>4. ASSUME NEW m \in Long PROVE m + 1 \in Long
  <2> SUFFICES ASSUME m + 1 <= L PROVE \E f : Behind(f, m + 1)
    OBVIOUS
  <2>1. PICK f : Behind(f, m)
    BY <1>2
  <2> DEFINE new == (L + 1) - (m + 1)
             g == [i \in new .. L + 1 |->
                     IF i = new THEN Row(i, f[new + 1], f[new + 3]) ELSE f[i]]
  <2>2. \A i \in (L + 1) - m .. L + 1 : g[i] = f[i]
    BY <1>2
  <2>3. \A i \in (L + 1) - m .. L + 1 : f[i] = Row(i, f[i + 1], f[i + 3])
    BY <2>1
  <2>4. ASSUME NEW i \in new .. L + 1, i # L + 1
        PROVE  Row(i, f[i + 1], f[i + 3]) = Row(i, g[i + 1], g[i + 3])
    <3>1. i + 1 \in (L + 1) - m .. L + 1 /\ i \in 1 .. L
      BY <1>2, <2>4
    <3>2. g[i + 1] = f[i + 1]
      BY <2>2, <3>1
    <3>3. CASE i + 3 <= L + 1
      <4>1. i + 3 \in (L + 1) - m .. L + 1
        BY <1>2, <3>1, <3>3
      <4>2. g[i + 3] = f[i + 3]
        BY <2>2, <4>1
      <4> QED BY <3>2, <4>2
    <3>4. CASE i + 3 > L + 1
      <4> HIDE DEF g
      <4> QED BY <1>1, <3>1, <3>2, <3>4
    <3> QED BY <1>2, <3>1, <3>3, <3>4
  <2>5. ASSUME NEW i \in new .. L + 1 PROVE g[i] = Row(i, g[i + 1], g[i + 3])
    <3>1. CASE i = new
      <4>1. new \in new .. L + 1 /\ new # L + 1
        BY <1>2
      <4>2. g[new] = Row(new, f[new + 1], f[new + 3])
        BY <4>1
      <4> QED BY <2>4, <3>1, <4>1, <4>2
    <3>2. CASE i # new /\ i # L + 1
      <4>1. i \in (L + 1) - m .. L + 1
        BY <1>2, <3>2
      <4> QED BY <2>2, <2>3, <2>4, <3>2, <4>1
    <3>3. CASE i # new /\ i = L + 1
      <4>1. i \in (L + 1) - m .. L + 1
        BY <1>2, <3>3
      <4>2. g[i] = Row(i, f[i + 1], f[i + 3])
        BY <2>2, <2>3, <4>1
      <4> QED BY <1>0, <3>3, <4>2
    <3> QED BY <3>1, <3>2, <3>3
  <2>6. Behind(g, m + 1)
    BY <2>5
  <2> QED BY <2>6
<1>5. Long = Nat
  <2> HIDE DEF Long
  <2>1. Long \in SUBSET Nat
    BY DEF Long
  <2> QED BY <1>3, <1>4, <2>1, SetInduction
<1>6. \E f : Behind(f, L)
  <2>1. L \in Long
    BY <1>2, <1>5
  <2> HIDE DEF Behind
  <2> QED BY <1>2, <2>1
<1>7. (L + 1) - L = 1
  BY <1>2
<1>8. \E f : f = [i \in 1 .. L + 1 |-> Row(i, f[i + 1], f[i + 3])]
  BY <1>6, <1>7
<1> DEFINE dec == CHOOSE f : f = [i \in 1 .. L + 1 |-> Row(i, f[i + 1], f[i + 3])]
<1>9. dec = [i \in 1 .. L + 1 |-> Row(i, dec[i + 1], dec[i + 3])]
  BY <1>8
<1>10. Decode(str, n) = dec[1][n]
  BY DEF Decode, Row, DecodeRow, L
<1>11. \A i \in 1 .. L + 1 : dec[i] = Row(i, dec[i + 1], dec[i + 3])
  BY <1>9
<1> HIDE DEF dec
<1> QED BY <1>10, <1>11 DEF L, Row

\* Downwards along a sequence of length n.
LEMMA DownInduction ==
    ASSUME NEW n \in Nat, NEW S, n + 1 \in S, \A i \in 1 .. n : i + 1 \in S => i \in S
    PROVE  \A i \in 1 .. n + 1 : i \in S
<1> DEFINE T == {k \in Nat : k <= n => (n + 1) - k \in S}
<1>1. 0 \in T
  OBVIOUS
<1>2. ASSUME NEW k \in T PROVE k + 1 \in T
  <2> SUFFICES ASSUME k + 1 <= n PROVE (n + 1) - (k + 1) \in S
    OBVIOUS
  <2>1. (n + 1) - k \in S
    OBVIOUS
  <2>2. (n + 1) - (k + 1) \in 1 .. n /\ ((n + 1) - (k + 1)) + 1 = (n + 1) - k
    OBVIOUS
  <2> QED BY <2>1, <2>2
<1>3. T = Nat
  <2> HIDE DEF T
  <2>1. T \in SUBSET Nat
    BY DEF T
  <2> QED BY <1>1, <1>2, <2>1, SetInduction
<1> SUFFICES ASSUME NEW i \in 1 .. n + 1 PROVE i \in S
  OBVIOUS
<1>4. PICK k \in Nat : k = (n + 1) - i
  OBVIOUS
<1>5. k \in T
  BY <1>3
<1>6. k <= n /\ (n + 1) - k = i
  BY <1>4
<1> QED BY <1>5, <1>6

\* What is written for one byte.
LEMMA CodeOfByte ==
    ASSUME NEW b \in Byte
    PROVE  /\ Width(b) \in 1 .. 3
           /\ Code(b) \in Seq(Graph) /\ Len(Code(b)) \in 1 .. Width(b)
           /\ Plain(b) => Width(b) = 1 /\ Code(b) = <<b>> /\ b # Percent /\ b \in 16 .. 127
           /\ ~Plain(b) => Width(b) = 3
           /\ b < 16 => Len(Code(b)) = 2 /\ Code(b)[1] = Percent
           /\ ~Plain(b) /\ b >= 16 =>
                 /\ Len(Code(b)) = 3 /\ Code(b)[1] = Percent
                 /\ 16 * Digit(Code(b)[2]) + Digit(Code(b)[3]) = IF b > 127 THEN 255 ELSE b
<1>1. \A d \in 0 .. 15 : Hex(d) \in Graph /\ Digit(Hex(d)) = d
  BY DEF Hex, Digit, Graph
<1>2. Percent \in Graph
  BY DEF Percent, Graph
<1>3. \A x, y \in Graph : <<x, y>> \in Seq(Graph) /\ Len(<<x, y>>) = 2
                          /\ <<x, y>>[1] = x
  OBVIOUS
<1>4. \A x, y, z \in Graph : <<x, y, z>> \in Seq(Graph) /\ Len(<<x, y, z>>) = 3
                             /\ <<x, y, z>>[1] = x /\ <<x, y, z>>[2] = y /\ <<x, y, z>>[3] = z
  OBVIOUS
<1>5. b \in 1 .. 255
  BY DEF Byte
<1>6. CASE Plain(b)
  <2>1. Width(b) = 1 /\ Code(b) = <<b>> /\ b # Percent /\ b \in Graph /\ b \in 16 .. 127
    BY <1>6 DEF Width, Code, Plain, Graph
  <2>2. <<b>> \in Seq(Graph) /\ Len(<<b>>) = 1
    BY <2>1
  <2> QED BY <1>6, <2>1, <2>2
<1>7. CASE ~Plain(b) /\ b < 16
  <2>1. Width(b) = 3 /\ Code(b) = <<Percent, Hex(b)>>
    BY <1>7 DEF Width, Code, Escape
  <2>2. Hex(b) \in Graph
    BY <1>1, <1>5, <1>7
  <2>3. Code(b) \in Seq(Graph) /\ Len(Code(b)) = 2 /\ Code(b)[1] = Percent
    BY <1>2, <1>3, <2>1, <2>2
  <2> QED BY <1>5, <1>7, <2>1, <2>3
<1>8. CASE ~Plain(b) /\ b >= 16 /\ b < 128
  <2>1. Width(b) = 3 /\ Code(b) = <<Percent, Hex(b \div 16), Hex(b % 16)>>
    BY <1>5, <1>8 DEF Width, Code, Escape
  <2>2. b \div 16 \in 0 .. 15 /\ b % 16 \in 0 .. 15 /\ 16 * (b \div 16) + (b % 16) = b
    BY <1>5, <1>8
  <2>3. Hex(b \div 16) \in Graph /\ Hex(b % 16) \in Graph
        /\ 16 * Digit(Hex(b \div 16)) + Digit(Hex(b % 16)) = b
    BY <1>1, <2>2
  <2>4. ~ (b < 16) /\ ~ (b > 127)
    BY <1>5, <1>8
  <2> QED BY <1>2, <1>4, <1>8, <2>1, <2>3, <2>4
<1>9. CASE ~Plain(b) /\ b >= 128
  <2>1. Width(b) = 3 /\ Code(b) = <<Percent, Hex(15), Hex(15)>>
    BY <1>5, <1>9 DEF Width, Code, Escape
  <2>2. Hex(15) \in Graph /\ Digit(Hex(15)) = 15
    BY <1>1
  <2>3. ~ (b < 16) /\ b > 127
    BY <1>5, <1>9
  <2>4. 16 * 15 + 15 = 255
    OBVIOUS
  <2> QED BY <1>2, <1>4, <1>9, <2>1, <2>2, <2>3, <2>4
<1> QED BY <1>5, <1>6, <1>7, <1>8, <1>9

\* The rows of an encoding.
Encodes(text, n, enc) ==
    \A i \in 1 .. Len(text) + 1 : enc[i] = EncodeRow(text, n, i, enc[i + 1])

LEMMA EncodingStep ==
    ASSUME NEW text \in Seq(Byte), NEW n \in Nat \ {0}, NEW enc, Encodes(text, n, enc),
           NEW room \in 0 .. n - 1
    PROVE  /\ enc[Len(text) + 1][room] = <<>>
           /\ \A i \in 1 .. Len(text) :
                 /\ room < Width(text[i]) => enc[i][room] = <<>>
                 /\ room >= Width(text[i]) =>
                       enc[i][room] =
                          IF text[i] < 16 THEN Code(text[i])
                          ELSE Code(text[i]) \o enc[i + 1][room - Width(text[i])]
<1> DEFINE L == Len(text)
<1>1. L \in Nat /\ \A i \in 1 .. L : text[i] \in Byte
  BY LenProperties, ElementOfSeq
<1>2. \A i \in 1 .. L + 1 :
        enc[i][room] =
          IF i > L \/ room < Width(text[i]) THEN <<>>
          ELSE IF text[i] < 16 THEN Code(text[i])
          ELSE Code(text[i]) \o enc[i + 1][room - Width(text[i])]
  BY DEF Encodes, EncodeRow
<1> HIDE DEF L
<1>3. enc[L + 1][room] = <<>>
  <2>1. L + 1 \in 1 .. L + 1 /\ L + 1 > L
    BY <1>1
  <2> QED BY <1>2, <2>1
<1>4. ASSUME NEW i \in 1 .. L
      PROVE  /\ room < Width(text[i]) => enc[i][room] = <<>>
             /\ room >= Width(text[i]) =>
                   enc[i][room] =
                      IF text[i] < 16 THEN Code(text[i])
                      ELSE Code(text[i]) \o enc[i + 1][room - Width(text[i])]
  <2>1. i \in 1 .. L + 1 /\ ~ (i > L)
    BY <1>1
  <2>2. Width(text[i]) \in 1 .. 3
    BY <1>1, CodeOfByte
  <2>3. room >= Width(text[i]) <=> ~ (room < Width(text[i]))
    BY <2>2
  <2> QED BY <1>2, <2>1, <2>3
<1> QED BY <1>3, <1>4 DEF L

\* An encoding is printable, without blanks, and fits its buffer.
LEMMA EncodingFits ==
    ASSUME NEW text \in Seq(Byte), NEW n \in Nat \ {0}, NEW enc, Encodes(text, n, enc)
    PROVE  \A i \in 1 .. Len(text) + 1, room \in 0 .. n - 1 :
              enc[i][room] \in Seq(Graph) /\ Len(enc[i][room]) <= room
<1> DEFINE L == Len(text)
           S == {i \in 1 .. L + 1 : \A room \in 0 .. n - 1 :
                   enc[i][room] \in Seq(Graph) /\ Len(enc[i][room]) <= room}
<1>1. L \in Nat /\ \A i \in 1 .. L : text[i] \in Byte
  BY LenProperties, ElementOfSeq
<1>2. \A room \in 0 .. n - 1 :
        /\ enc[L + 1][room] = <<>>
        /\ \A i \in 1 .. L :
              /\ room < Width(text[i]) => enc[i][room] = <<>>
              /\ room >= Width(text[i]) =>
                    enc[i][room] =
                       IF text[i] < 16 THEN Code(text[i])
                       ELSE Code(text[i]) \o enc[i + 1][room - Width(text[i])]
  BY EncodingStep
<1> HIDE DEF L
<1>3. <<>> \in Seq(Graph) /\ Len(<<>>) = 0
  BY EmptySeq
<1>4. L + 1 \in S
  <2>1. L + 1 \in 1 .. L + 1
    BY <1>1
  <2>2. \A room \in 0 .. n - 1 : enc[L + 1][room] = <<>> /\ 0 <= room
    BY <1>2
  <2> QED BY <1>3, <2>1, <2>2
<1>5. ASSUME NEW i \in 1 .. L, i + 1 \in S PROVE i \in S
  <2> SUFFICES ASSUME NEW room \in 0 .. n - 1
               PROVE  enc[i][room] \in Seq(Graph) /\ Len(enc[i][room]) <= room
    BY <1>1
  <2> DEFINE b == text[i]
  <2>1. b \in Byte
    BY <1>1
  <2> HIDE DEF b
  <2>2. /\ Width(b) \in 1 .. 3
        /\ Code(b) \in Seq(Graph) /\ Len(Code(b)) \in 1 .. Width(b)
    BY <2>1, CodeOfByte
  <2>3. CASE room < Width(b)
    <3>1. enc[i][room] = <<>>
      BY <1>2, <2>3 DEF b
    <3> QED BY <1>3, <3>1
  <2>4. CASE room >= Width(b) /\ b < 16
    <3>1. enc[i][room] = Code(b)
      BY <1>2, <2>4 DEF b
    <3> QED BY <2>2, <2>4, <3>1
  <2>5. CASE room >= Width(b) /\ ~ (b < 16)
    <3> DEFINE rest == enc[i + 1][room - Width(b)]
    <3>1. enc[i][room] = Code(b) \o rest
      BY <1>2, <2>5 DEF b
    <3>2. room - Width(b) \in 0 .. n - 1
      BY <2>2, <2>5
    <3>3. rest \in Seq(Graph) /\ Len(rest) <= room - Width(b)
      BY <1>5, <3>2
    <3> HIDE DEF rest
    <3>4. Code(b) \o rest \in Seq(Graph) /\ Len(Code(b) \o rest) = Len(Code(b)) + Len(rest)
      BY <2>2, <3>3, ConcatProperties
    <3>5. Len(rest) \in Nat
      BY <3>3, LenProperties
    <3> QED BY <2>2, <3>1, <3>3, <3>4, <3>5
  <2> QED BY <2>2, <2>3, <2>4, <2>5
<1>6. \A i \in 1 .. L + 1 : i \in S
  <2> HIDE DEF S
  <2> QED BY <1>1, <1>4, <1>5, DownInduction
<1> QED BY <1>6 DEF L

\* The rows of a decoding.
Decodes(str, n, dec) ==
    \A i \in 1 .. Len(str) + 1 : dec[i] = DecodeRow(str, n, i, dec[i + 1], dec[i + 3])

DecodesAt(str, dec, q) ==
    /\ dec[Len(str) + 1][q] = <<>>
    /\ \A p \in 1 .. Len(str) : q > 0 =>
          /\ str[p] # Percent => dec[p][q] = <<str[p]>> \o dec[p + 1][q - 1]
          /\ str[p] = Percent /\ Len(str) - p < 2 => dec[p][q] = <<>>
          /\ str[p] = Percent /\ Len(str) - p >= 2 =>
                dec[p][q] = <<16 * Digit(str[p + 1]) + Digit(str[p + 2])>>
                               \o dec[p + 3][q - 1]

LEMMA DecodingStep ==
    ASSUME NEW str, Len(str) \in Nat, NEW n \in Nat, NEW dec, Decodes(str, n, dec),
           NEW q \in 0 .. n
    PROVE  DecodesAt(str, dec, q)
<1> DEFINE L == Len(str)
<1>1. \A p \in 1 .. L + 1 :
        dec[p][q] =
          IF p > L \/ q = 0 THEN <<>>
          ELSE IF str[p] # Percent THEN <<str[p]>> \o dec[p + 1][q - 1]
          ELSE IF L - p < 2 THEN <<>>
          ELSE <<16 * Digit(str[p + 1]) + Digit(str[p + 2])>> \o dec[p + 3][q - 1]
  BY DEF Decodes, DecodeRow
<1>2. L \in Nat
  OBVIOUS
<1> HIDE DEF L
<1>3. dec[L + 1][q] = <<>>
  <2>1. L + 1 \in 1 .. L + 1 /\ L + 1 > L
    BY <1>2
  <2> QED BY <1>1, <2>1
<1>4. ASSUME NEW p \in 1 .. L, q > 0
      PROVE  /\ str[p] # Percent => dec[p][q] = <<str[p]>> \o dec[p + 1][q - 1]
             /\ str[p] = Percent /\ L - p < 2 => dec[p][q] = <<>>
             /\ str[p] = Percent /\ L - p >= 2 =>
                   dec[p][q] = <<16 * Digit(str[p + 1]) + Digit(str[p + 2])>>
                                  \o dec[p + 3][q - 1]
  <2>1. p \in 1 .. L + 1 /\ ~ (p > L) /\ q # 0 /\ (L - p >= 2 <=> ~ (L - p < 2))
    BY <1>2, <1>4
  <2> QED BY <1>1, <2>1
<1> QED BY <1>3, <1>4 DEF L, DecodesAt

\* A byte in front of others.
LEMMA InFront ==
    ASSUME NEW S, NEW x \in S, NEW s \in Seq(S)
    PROVE  /\ <<x>> \o s \in Seq(S) /\ Len(<<x>> \o s) = Len(s) + 1
           /\ (<<x>> \o s)[1] = x
           /\ \A k \in 1 .. Len(s) : (<<x>> \o s)[k + 1] = s[k]
<1> DEFINE one == <<x>>
<1>1. one \in Seq(S) /\ Len(one) = 1 /\ one[1] = x
  OBVIOUS
<1>2. Len(s) \in Nat
  BY LenProperties
<1> HIDE DEF one
<1>3. /\ one \o s \in Seq(S) /\ Len(one \o s) = 1 + Len(s)
      /\ \A k \in 1 .. 1 + Len(s) : (one \o s)[k] = IF k <= 1 THEN one[k] ELSE s[k - 1]
  <2>1. /\ one \o s \in Seq(S) /\ Len(one \o s) = Len(one) + Len(s)
        /\ \A k \in 1 .. Len(one) + Len(s) :
              (one \o s)[k] = IF k <= Len(one) THEN one[k] ELSE s[k - Len(one)]
    BY <1>1, ConcatProperties
  <2> QED BY <1>1, <2>1
<1>4. ASSUME NEW k \in 1 .. Len(s) PROVE (one \o s)[k + 1] = s[k]
  <2>1. k + 1 \in 1 .. 1 + Len(s) /\ ~ (k + 1 <= 1) /\ (k + 1) - 1 = k
    BY <1>2
  <2> QED BY <1>3, <2>1
<1>5. (one \o s)[1] = x
  <2>1. 1 \in 1 .. 1 + Len(s) /\ 1 <= 1
    BY <1>2
  <2> QED BY <1>1, <1>3, <2>1
<1>6. 1 + Len(s) = Len(s) + 1
  BY <1>2
<1> QED BY <1>3, <1>4, <1>5, <1>6 DEF one

\* What a byte is shown as.
Shown(b) == IF b > 127 THEN 255 ELSE b

\* The bytes of a text behind the first i up to the e-th.
Part(text, i, e) == [k \in 1 .. e - i |-> Shown(text[i + k])]

LEMMA PartOfText ==
    ASSUME NEW text \in Seq(Byte), NEW i \in 0 .. Len(text), NEW e \in i .. Len(text)
    PROVE  /\ Part(text, i, e) \in Seq(Byte)
           /\ Len(Part(text, i, e)) = e - i
           /\ i > 0 => <<Shown(text[i])>> \o Part(text, i, e) = Part(text, i - 1, e)
           /\ Part(text, i, i) = <<>>
<1> DEFINE L == Len(text)
<1>1. L \in Nat /\ \A k \in 1 .. L : text[k] \in Byte
  BY LenProperties, ElementOfSeq
<1>2. i \in 0 .. L /\ e \in i .. L
  OBVIOUS
<1> HIDE DEF L
<1>3. \A b \in Byte : Shown(b) \in Byte
  BY DEF Shown, Byte
<1>4. ASSUME NEW j \in 0 .. L, j <= e
      PROVE  Part(text, j, e) \in Seq(Byte) /\ Len(Part(text, j, e)) = e - j
  <2>1. e - j \in Nat
    BY <1>1, <1>2, <1>4
  <2>2. Part(text, j, e) \in [1 .. e - j -> Byte]
    <3>1. ASSUME NEW k \in 1 .. e - j PROVE Shown(text[j + k]) \in Byte
      <4>1. j + k \in 1 .. L
        BY <1>1, <1>2, <2>1
      <4> QED BY <1>1, <1>3, <4>1
    <3> QED BY <3>1 DEF Part
  <2> QED BY <2>1, <2>2, SeqDef, LenProperties
<1>5. Part(text, i, i) = <<>>
  BY <1>1, <1>2 DEF Part
<1>6. ASSUME i > 0 PROVE <<Shown(text[i])>> \o Part(text, i, e) = Part(text, i - 1, e)
  <2> DEFINE x == Shown(text[i])
             rest == Part(text, i, e)
             all == Part(text, i - 1, e)
  <2>1. i \in 1 .. L /\ i - 1 \in 0 .. L /\ i - 1 <= e /\ i <= e
    BY <1>1, <1>2, <1>6
  <2>2. x \in Byte /\ <<x>> \in Seq(Byte) /\ Len(<<x>>) = 1 /\ <<x>>[1] = x
    BY <1>1, <1>3, <2>1
  <2>3. rest \in Seq(Byte) /\ Len(rest) = e - i
    BY <1>2, <1>4, <2>1
  <2>4. all \in Seq(Byte) /\ Len(all) = e - (i - 1)
    BY <1>4, <2>1
  <2>5. \A k \in 1 .. e - (i - 1) : all[k] = Shown(text[(i - 1) + k])
    BY DEF Part
  <2>6. \A k \in 1 .. e - i : rest[k] = Shown(text[i + k])
    BY DEF Part
  <2> HIDE DEF x, rest, all
  <2>7. /\ <<x>> \o rest \in Seq(Byte) /\ Len(<<x>> \o rest) = (e - i) + 1
        /\ (<<x>> \o rest)[1] = x
        /\ \A k \in 1 .. e - i : (<<x>> \o rest)[k + 1] = rest[k]
    <3>1. x \in Byte /\ rest \in Seq(Byte)
      BY <2>2, <2>3
    <3>2. /\ <<x>> \o rest \in Seq(Byte) /\ Len(<<x>> \o rest) = Len(rest) + 1
          /\ (<<x>> \o rest)[1] = x
          /\ \A k \in 1 .. Len(rest) : (<<x>> \o rest)[k + 1] = rest[k]
      BY <3>1, InFront
    <3> QED BY <2>3, <3>2
  <2>8. ASSUME NEW k \in 1 .. (e - i) + 1 PROVE (<<x>> \o rest)[k] = all[k]
    <3>1. k \in 1 .. e - (i - 1)
      BY <1>1, <1>2
    <3>2. CASE k = 1
      <4>1. (i - 1) + 1 = i
        BY <1>1, <1>2, <3>2
      <4> QED BY <2>5, <2>7, <3>1, <3>2, <4>1 DEF x
    <3>3. CASE k > 1
      <4>1. k - 1 \in 1 .. e - i /\ i + (k - 1) = (i - 1) + k /\ (k - 1) + 1 = k
        BY <1>1, <1>2, <3>3
      <4> QED BY <2>5, <2>6, <2>7, <3>1, <4>1
    <3>4. k = 1 \/ k > 1
      BY <1>1, <1>2
    <3> QED BY <3>2, <3>3, <3>4
  <2>9. (e - i) + 1 = e - (i - 1)
    BY <1>1, <1>2
  <2>10. <<x>> \o rest = all
    BY <2>4, <2>7, <2>8, <2>9, SeqEqual
  <2> QED BY <2>10 DEF x, rest, all
<1>7. i \in 0 .. L /\ i <= e
  BY <1>1, <1>2
<1> QED BY <1>4, <1>5, <1>6, <1>7

\* str goes on behind its first p - 1 bytes with s and ends with it.
Follows(str, p, s) ==
    /\ Len(str) = (p - 1) + Len(s)
    /\ \A j \in 1 .. Len(s) : str[(p - 1) + j] = s[j]

\* How much of the text behind its first i bytes survives in a buffer with room.
Survives(text, i, room, d) ==
    \E e \in i .. Len(text) :
        /\ d = Part(text, i, e)
        /\ \A k \in i + 1 .. e : text[k] >= 16
        /\ 3 * (Len(text) - i) <= room => e = Len(text) \/ text[e + 1] < 16

\* One more byte survives.
LEMMA SurvivesOn ==
    ASSUME NEW text \in Seq(Byte), NEW i \in 1 .. Len(text), NEW room \in Nat, NEW rest,
           text[i] >= 16, NEW less \in Nat, less + 3 >= room, less <= room,
           Survives(text, i, less, rest)
    PROVE  Survives(text, i - 1, room, <<Shown(text[i])>> \o rest)
<1>1. PICK e \in i .. Len(text) :
        /\ rest = Part(text, i, e)
        /\ \A k \in i + 1 .. e : text[k] >= 16
        /\ 3 * (Len(text) - i) <= less => e = Len(text) \/ text[e + 1] < 16
  BY DEF Survives
<1>2. PICK L \in Nat : L = Len(text)
  BY LenProperties
<1>3. i \in 1 .. L /\ e \in i .. L /\ e \in i - 1 .. L /\ i \in 0 .. L /\ i > 0
  BY <1>2
<1>4. <<Shown(text[i])>> \o rest = Part(text, i - 1, e)
  BY <1>1, <1>2, <1>3, PartOfText
<1>5. \A k \in (i - 1) + 1 .. e : text[k] >= 16
  <2> TAKE k \in (i - 1) + 1 .. e
  <2>1. k = i \/ k \in i + 1 .. e
    BY <1>3
  <2> QED BY <1>1, <2>1
<1>6. 3 * (L - (i - 1)) <= room => 3 * (L - i) <= less
  BY <1>3
<1> QED BY <1>1, <1>2, <1>3, <1>4, <1>5, <1>6 DEF Survives

\* From where the encoding of the text stands, the decoder makes of it what
\* survives.
Restores(text, n, str, dec, i, s) ==
    \A room \in 0 .. n - 1, p \in 1 .. Len(str) + 1, q \in 0 .. n :
        Follows(str, p, s[room]) /\ q > Len(s[room]) =>
            Survives(text, i, room, dec[p][q])

LEMMA RestoresOn ==
    ASSUME NEW text \in Seq(Byte), NEW n \in Nat \ {0}, NEW enc, Encodes(text, n, enc),
           NEW str, Len(str) \in Nat, NEW dec, Decodes(str, n, dec),
           NEW i \in 1 .. Len(text), Restores(text, n, str, dec, i, enc[i + 1])
    PROVE  Restores(text, n, str, dec, i - 1, enc[i])
<1> SUFFICES ASSUME NEW room \in 0 .. n - 1, NEW p \in 1 .. Len(str) + 1, NEW q \in 0 .. n,
                    Follows(str, p, enc[i][room]), q > Len(enc[i][room])
             PROVE  Survives(text, i - 1, room, dec[p][q])
  BY DEF Restores
<1>1. PICK L \in Nat : L = Len(text)
  BY LenProperties
<1>2. PICK m \in Nat : m = Len(str)
  OBVIOUS
<1> DEFINE b == text[i]
           s == enc[i][room]
<1>3. b \in Byte /\ b \in 1 .. 255
  BY ElementOfSeq DEF Byte
<1>4. i \in 1 .. L /\ p \in 1 .. m + 1 /\ room \in Nat
  BY <1>1, <1>2
<1> HIDE DEF b
<1>5. Len(s) \in Nat
  <2>1. i \in 1 .. Len(text) + 1
    BY <1>1, <1>4
  <2> QED BY <2>1, EncodingFits, LenProperties
<1>6. /\ room < Width(b) => s = <<>>
      /\ room >= Width(b) => s = IF b < 16 THEN Code(b)
                                 ELSE Code(b) \o enc[i + 1][room - Width(b)]
  BY EncodingStep DEF b
<1>7. m = (p - 1) + Len(s) /\ \A j \in 1 .. Len(s) : str[(p - 1) + j] = s[j]
  BY <1>2 DEF Follows
<1>8. q > Len(s) /\ q > 0
  BY <1>5
<1>9. /\ dec[m + 1][q] = <<>>
      /\ p <= m =>
            /\ str[p] # Percent => dec[p][q] = <<str[p]>> \o dec[p + 1][q - 1]
            /\ str[p] = Percent /\ m - p < 2 => dec[p][q] = <<>>
            /\ str[p] = Percent /\ m - p >= 2 =>
                  dec[p][q] = <<16 * Digit(str[p + 1]) + Digit(str[p + 2])>>
                                 \o dec[p + 3][q - 1]
  <2>1. p <= m => p \in 1 .. m
    BY <1>4
  <2>2. /\ dec[Len(str) + 1][q] = <<>>
        /\ p \in 1 .. Len(str) =>
            /\ str[p] # Percent => dec[p][q] = <<str[p]>> \o dec[p + 1][q - 1]
            /\ str[p] = Percent /\ Len(str) - p < 2 => dec[p][q] = <<>>
            /\ str[p] = Percent /\ Len(str) - p >= 2 =>
                  dec[p][q] = <<16 * Digit(str[p + 1]) + Digit(str[p + 2])>>
                                 \o dec[p + 3][q - 1]
    <3>1. n \in Nat
      OBVIOUS
    <3>2. DecodesAt(str, dec, q)
      BY <3>1, DecodingStep
    <3> QED BY <1>8, <3>2 DEF DecodesAt
  <2> QED BY <1>2, <2>1, <2>2
<1>0. Width(b) \in 1 .. 3
  BY <1>3, CodeOfByte
<1>10. /\ Code(b) \in Seq(Graph) /\ Len(Code(b)) \in 1 .. Width(b)
       /\ Plain(b) => Width(b) = 1 /\ Code(b) = <<b>> /\ b # Percent /\ b \in 16 .. 127
       /\ ~Plain(b) => Width(b) = 3
       /\ b < 16 => Len(Code(b)) = 2 /\ Code(b)[1] = Percent
       /\ ~Plain(b) /\ b >= 16 =>
             /\ Len(Code(b)) = 3 /\ Code(b)[1] = Percent
             /\ 16 * Digit(Code(b)[2]) + Digit(Code(b)[3]) = IF b > 127 THEN 255 ELSE b
  BY <1>3, CodeOfByte
\* Nothing more survives.
<1>11. ASSUME dec[p][q] = <<>>, room < 3 \/ b < 16
       PROVE  Survives(text, i - 1, room, dec[p][q])
  <2>1. i - 1 \in i - 1 .. L /\ i - 1 \in 0 .. L /\ (i - 1) + 1 = i
    BY <1>4
  <2>2. Part(text, i - 1, i - 1) = <<>>
    BY <1>1, <2>1, PartOfText
  <2>3. \A k \in (i - 1) + 1 .. i - 1 : text[k] >= 16
    BY <1>4
  <2>4. 3 * (L - (i - 1)) <= room => b < 16
    BY <1>4, <1>11
  <2> QED BY <1>1, <1>11, <2>1, <2>2, <2>3, <2>4 DEF Survives, b
<1>12. CASE room < Width(b)
  <2>1. s = <<>> /\ Len(s) = 0
    BY <1>6, <1>12
  <2>2. p = m + 1 /\ room < 3
    <3>1. m = (p - 1) + 0
      BY <1>7, <2>1
    <3> QED BY <1>0, <1>4, <1>12, <3>1
  <2> QED BY <1>9, <1>11, <2>2
<1>13. CASE room >= Width(b) /\ b < 16
  <2>1. s = Code(b) /\ Len(s) = 2 /\ s[1] = Percent
    BY <1>6, <1>10, <1>13
  <2>2. m = (p - 1) + 2
    BY <1>7, <2>1
  <2>3. p <= m /\ m - p < 2 /\ (p - 1) + 1 = p
    BY <1>4, <2>2
  <2>4. str[p] = Percent
    BY <1>7, <2>1, <2>3
  <2> QED BY <1>9, <1>11, <1>13, <2>3, <2>4
<1>14. CASE room >= Width(b) /\ b >= 16
  <2> DEFINE less == room - Width(b)
             rest == enc[i + 1][less]
             c == Len(Code(b))
  <2>1. less \in 0 .. n - 1 /\ less \in Nat /\ less + 3 >= room /\ less <= room
    <3>1. PICK width \in 1 .. 3 : width = Width(b)
      BY <1>0
    <3>2. room \in 0 .. n - 1 /\ room >= width /\ n \in Nat
      BY <1>14, <3>1
    <3>3. room - width \in Nat /\ room - width <= n - 1 /\ (room - width) + 3 >= room /\ room - width <= room
      BY <3>2
    <3> QED BY <3>1, <3>2, <3>3
  <2>2. rest \in Seq(Graph) /\ Len(rest) \in Nat
    <3>1. i + 1 \in 1 .. Len(text) + 1
      BY <1>1, <1>4
    <3> QED BY <2>1, <3>1, EncodingFits, LenProperties
  <2>3. s = Code(b) \o rest
    <3>1. ~ (b < 16)
      BY <1>3, <1>14
    <3> QED BY <1>6, <1>14, <3>1
  <2> HIDE DEF less, rest
  <2>4. /\ Len(s) = c + Len(rest)
        /\ \A j \in 1 .. c + Len(rest) : s[j] = IF j <= c THEN Code(b)[j] ELSE rest[j - c]
    BY <1>10, <2>2, <2>3, ConcatProperties
  <2>5. c \in 1 .. 3
    BY <1>0, <1>10
  <2> HIDE DEF s
  <2>6. \A j \in 1 .. c : str[(p - 1) + j] = Code(b)[j]
    <3> TAKE j \in 1 .. c
    <3>1. j \in 1 .. c + Len(rest) /\ j <= c
      BY <2>2, <2>5
    <3> QED BY <1>7, <2>4, <3>1
  <2>7. Follows(str, p + c, rest)
    <3>1. \A j \in 1 .. Len(rest) : str[((p + c) - 1) + j] = rest[j]
      <4> TAKE j \in 1 .. Len(rest)
      <4>1. c + j \in 1 .. c + Len(rest) /\ ~ (c + j <= c) /\ (c + j) - c = j
            /\ (p - 1) + (c + j) = ((p + c) - 1) + j
        BY <1>4, <2>2, <2>5
      <4> QED BY <1>7, <2>4, <4>1
    <3>2. m = ((p + c) - 1) + Len(rest)
      <4>1. m = (p - 1) + (c + Len(rest))
        BY <1>7, <2>4
      <4> HIDE DEF c
      <4> QED BY <1>4, <2>2, <2>5, <4>1
    <3> QED BY <1>2, <3>1, <3>2 DEF Follows
  <2>8. p + c \in 1 .. m + 1 /\ q - 1 \in 0 .. n /\ q - 1 > Len(rest) /\ p <= m
    <3>1. m = (p - 1) + (c + Len(rest)) /\ q > c + Len(rest) /\ q \in 0 .. n
      BY <1>7, <1>8, <2>4
    <3> HIDE DEF c
    <3> QED BY <1>4, <2>2, <2>5, <3>1
  <2>9. Survives(text, i, less, dec[p + c][q - 1])
    BY <1>2, <2>1, <2>7, <2>8 DEF Restores, rest
  <2>10. dec[p][q] = <<Shown(b)>> \o dec[p + c][q - 1]
    <3>1. (p - 1) + 1 = p /\ (p - 1) + 2 = p + 1 /\ (p - 1) + 3 = p + 2
      BY <1>4
    <3>2. CASE Plain(b)
      <4>1. Code(b) = <<b>> /\ b # Percent /\ b \in 16 .. 127
        BY <1>10, <3>2
      <4>2. c = 1 /\ Code(b)[1] = b
        BY <4>1
      <4>3. Shown(b) = b
        BY <4>1 DEF Shown
      <4>4. str[p] = b
        BY <2>6, <3>1, <4>2
      <4> QED BY <1>9, <2>8, <4>1, <4>2, <4>3, <4>4
    <3>3. CASE ~Plain(b)
      <4>1. /\ c = 3 /\ Code(b)[1] = Percent
            /\ 16 * Digit(Code(b)[2]) + Digit(Code(b)[3]) = Shown(b)
        BY <1>10, <1>14, <3>3 DEF Shown
      <4>2. str[p] = Percent /\ str[p + 1] = Code(b)[2] /\ str[p + 2] = Code(b)[3]
        BY <2>6, <3>1, <4>1
      <4>3. m - p >= 2
        BY <1>4, <1>7, <2>2, <2>4, <4>1
      <4> QED BY <1>9, <2>8, <4>1, <4>2, <4>3
    <3> QED BY <3>2, <3>3
  <2> QED BY <1>4, <1>14, <2>1, <2>9, <2>10, SurvivesOn DEF b
<1> QED BY <1>0, <1>3, <1>4, <1>12, <1>13, <1>14

\* What string_url_decode makes of what string_url_encode wrote into a buffer of n
\* bytes: a text comes back as it was up to its first byte below 16 or the first
\* that found no room, with every byte above 127 turned into 255; if three bytes
\* for each of it fit, only the former.
THEOREM CodingRestores ==
    ASSUME NEW text \in Seq(Byte), NEW n \in Nat \ {0}
    PROVE  Survives(text, 0, n - 1, Decode(Encode(text, n), n))
<1>1. PICK L \in Nat : L = Len(text)
  BY LenProperties
<1>2. PICK enc : Encode(text, n) = enc[1][n - 1] /\ Encodes(text, n, enc)
  BY <1>1, EncodeUnfolds DEF Encodes
<1> DEFINE str == Encode(text, n)
<1>3. n - 1 \in 0 .. n - 1 /\ 1 \in 1 .. L + 1
  BY <1>1
<1>4. str \in Seq(Graph) /\ Len(str) <= n - 1
  BY <1>1, <1>2, <1>3, EncodingFits
<1>5. Len(str) \in Nat
  BY <1>4, LenProperties
<1> HIDE DEF str
<1>6. PICK dec : Decode(str, n) = dec[1][n] /\ Decodes(str, n, dec)
  BY <1>5, DecodeUnfolds DEF Decodes
<1> DEFINE S == {i \in 1 .. L + 1 : Restores(text, n, str, dec, i - 1, enc[i])}
<1>7. L + 1 \in S
  <2> SUFFICES ASSUME NEW room \in 0 .. n - 1, NEW p \in 1 .. Len(str) + 1, NEW q \in 0 .. n,
                      Follows(str, p, enc[L + 1][room])
               PROVE  Survives(text, L, room, dec[p][q])
    <3>1. L + 1 \in 1 .. L + 1 /\ (L + 1) - 1 = L
      BY <1>1
    <3> QED BY <3>1 DEF Restores
  <2>1. enc[L + 1][room] = <<>>
    BY <1>1, <1>2, EncodingStep
  <2>2. Len(str) = (p - 1) + 0
    BY <2>1 DEF Follows
  <2>3. p = Len(str) + 1
    BY <1>5, <2>2
  <2>4. dec[p][q] = <<>>
    BY <1>5, <1>6, <2>3, DecodingStep DEF DecodesAt
  <2>5. L \in 0 .. Len(text) /\ L \in L .. Len(text)
    BY <1>1
  <2>6. Part(text, L, L) = <<>>
    BY <2>5, PartOfText
  <2>7. \A k \in L + 1 .. L : text[k] >= 16
    BY <1>1
  <2> QED BY <1>1, <2>4, <2>5, <2>6, <2>7 DEF Survives
<1>8. ASSUME NEW i \in 1 .. L, i + 1 \in S PROVE i \in S
  <2>1. i \in 1 .. L + 1 /\ (i + 1) - 1 = i
    BY <1>1
  <2>2. Restores(text, n, str, dec, i, enc[i + 1])
    BY <1>8, <2>1
  <2> QED BY <1>1, <1>2, <1>5, <1>6, <2>1, <2>2, RestoresOn
<1>9. 1 \in S
  <2> HIDE DEF S
  <2> QED BY <1>3, <1>7, <1>8, DownInduction
<1>10. Follows(str, 1, enc[1][n - 1])
  <2>1. Len(str) = (1 - 1) + Len(str) /\ \A j \in 1 .. Len(str) : (1 - 1) + j = j
    BY <1>5
  <2> QED BY <1>2, <2>1 DEF Follows, str
<1>11. n > Len(enc[1][n - 1]) /\ n \in 0 .. n /\ 1 \in 1 .. Len(str) + 1 /\ 1 - 1 = 0
  BY <1>2, <1>4, <1>5 DEF str
<1>12. Survives(text, 0, n - 1, dec[1][n])
  BY <1>3, <1>9, <1>10, <1>11 DEF Restores
<1> QED BY <1>6, <1>12 DEF str

-----------------------------------------------------------------------------
(* What the coding makes of a text.                                        *)

Ended == {CR, LF}

\* An encoding is not empty, fits and has no terminator in it.
LEMMA EncodingOfText ==
    ASSUME NEW text \in Seq(Byte) \ {<<>>}, NEW n \in Nat, n > 3
    PROVE  /\ Encode(text, n) \in Seq(Graph)
           /\ Len(Encode(text, n)) \in 1 .. n - 1
<1>1. PICK L \in Nat : L = Len(text) /\ L > 0
  BY EmptySeq, LenProperties
<1>2. PICK enc : Encode(text, n) = enc[1][n - 1] /\ Encodes(text, n, enc)
  BY <1>1, EncodeUnfolds DEF Encodes
<1> DEFINE b == text[1]
           str == Encode(text, n)
<1>3. n - 1 \in 0 .. n - 1 /\ 1 \in 1 .. L + 1 /\ 1 \in 1 .. L /\ n \in Nat \ {0}
      /\ n - 1 >= 3
  BY <1>1
<1>4. str \in Seq(Graph) /\ Len(str) <= n - 1
  BY <1>1, <1>2, <1>3, EncodingFits
<1>5. Len(str) \in Nat
  BY <1>4, LenProperties
<1>6. b \in Byte
  BY <1>1, <1>3, ElementOfSeq
<1>7. /\ n - 1 < Width(b) => str = <<>>
      /\ n - 1 >= Width(b) =>
            str = IF b < 16 THEN Code(b) ELSE Code(b) \o enc[1 + 1][(n - 1) - Width(b)]
  BY <1>1, <1>2, <1>3, EncodingStep
<1> HIDE DEF b, str
<1>8. PICK w \in 1 .. 3 : w = Width(b)
  BY <1>6, CodeOfByte
<1>9. Code(b) \in Seq(Graph) /\ Len(Code(b)) \in 1 .. w
  BY <1>6, <1>8, CodeOfByte
<1>10. n - 1 >= w /\ (n - 1) - w \in 0 .. n - 1
  BY <1>3
<1>11. Len(str) >= 1
  <2>1. CASE b < 16
    BY <1>7, <1>8, <1>9, <1>10, <2>1
  <2>2. CASE ~ (b < 16)
    <3> DEFINE rest == enc[1 + 1][(n - 1) - w]
    <3>1. 1 + 1 \in 1 .. L + 1
      BY <1>1
    <3>2. rest \in Seq(Graph) /\ Len(rest) \in Nat
      BY <1>1, <1>2, <1>3, <1>10, <3>1, EncodingFits, LenProperties
    <3>3. str = Code(b) \o rest
      BY <1>7, <1>8, <1>10, <2>2
    <3> HIDE DEF rest
    <3>4. Len(str) = Len(Code(b)) + Len(rest)
      BY <1>9, <3>2, <3>3, ConcatProperties
    <3> QED BY <1>9, <3>2, <3>4
  <2> QED BY <2>1, <2>2
<1>12. Len(str) \in 1 .. n - 1
  BY <1>3, <1>4, <1>5, <1>11
<1> QED BY <1>4, <1>12 DEF str

\* From positions to prefixes.
LEMMA FirstIsPrefix ==
    ASSUME NEW S, NEW v \in Seq(S), NEW w \in Seq(S), Len(v) <= Len(w),
           \A k \in 1 .. Len(v) : v[k] = w[k]
    PROVE  IsPrefix(v, w)
<1>1. PICK e \in Nat : e = Len(v)
  BY LenProperties
<1>2. PICK h \in Nat : h = Len(w)
  BY LenProperties
<1>3. e <= h /\ \A i \in 1 .. e : i \in 1 .. h
  BY <1>1, <1>2
<1>4. \A i \in 1 .. e : v[i] \in S /\ w[i] \in S /\ v[i] = w[i]
  BY <1>1, <1>2, <1>3, ElementOfSeq
<1> DEFINE x == SubSeq(v, 1, e)
           y == SubSeq(w, 1, e)
<1>5. /\ x \in Seq(S) /\ Len(x) = (IF 1 <= e THEN e - 1 + 1 ELSE 0)
      /\ \A i \in 1 .. e - 1 + 1 : x[i] = v[1 + i - 1]
  BY <1>4, SubSeqProperties
<1>6. /\ y \in Seq(S) /\ Len(y) = (IF 1 <= e THEN e - 1 + 1 ELSE 0)
      /\ \A i \in 1 .. e - 1 + 1 : y[i] = w[1 + i - 1]
  BY <1>4, SubSeqProperties
<1> HIDE DEF x, y
<1>7. Len(x) = e /\ Len(y) = e /\ \A i \in 1 .. e : x[i] = v[i] /\ y[i] = w[i]
  BY <1>5, <1>6
<1>8. x = y
  BY <1>4, <1>5, <1>6, <1>7, SeqEqual
<1> QED BY <1>1, <1>8 DEF IsPrefix, x, y

\* What arrives of a text is a prefix of its legible form, all of it if there is room.
LEMMA SurvivorIsLegible ==
    ASSUME NEW text \in Seq(Byte), NEW n \in Nat \ {0}, NEW d, Survives(text, 0, n - 1, d)
    PROVE  /\ d \in Seq(Byte) /\ IsPrefix(d, Legible(text))
           /\ 3 * Len(text) < n => d = Legible(text)
<1>1. PICK L \in Nat : L = Len(text)
  BY LenProperties
<1>2. PICK e \in 0 .. L :
        /\ d = Part(text, 0, e)
        /\ \A k \in 1 .. e : text[k] >= 16
        /\ 3 * L < n => e = L \/ text[e + 1] < 16
  <2>1. PICK e \in 0 .. L :
          /\ d = Part(text, 0, e)
          /\ \A k \in 0 + 1 .. e : text[k] >= 16
          /\ 3 * (L - 0) <= n - 1 => e = L \/ text[e + 1] < 16
    BY <1>1 DEF Survives
  <2>2. 3 * L < n => 3 * (L - 0) <= n - 1
    BY <1>1
  <2> QED BY <2>1, <2>2
<1> DEFINE small == {i \in DOMAIN text : text[i] < 16}
           end == IF small = {} THEN Len(text) ELSE Min(small) - 1
<1>3. DOMAIN text = 1 .. L /\ \A i \in 1 .. L : text[i] \in Byte
  BY <1>1, LenProperties, ElementOfSeq
<1>4. small \in SUBSET Nat /\ \A i : i \in small <=> i \in 1 .. L /\ text[i] < 16
  BY <1>3
<1>5. small # {} => Min(small) \in small /\ \A k \in small : Min(small) <= k
  BY <1>4, MinIsIn
<1>6. Legible(text) = [i \in 1 .. end |-> Shown(text[i])]
  BY DEF Legible, Shown
<1>7. end \in e .. L
  <2>1. CASE small = {}
    BY <1>1, <1>2, <2>1
  <2>2. CASE small # {}
    <3>1. PICK k \in 1 .. L : k = Min(small) /\ text[k] < 16
      BY <1>4, <1>5, <2>2
    <3>2. ~ (k <= e)
      <4>1. text[k] \in 1 .. 255
        BY <1>3 DEF Byte
      <4>2. k <= e => text[k] >= 16
        BY <1>2
      <4>3. PICK x \in 1 .. 255 : x = text[k]
        BY <4>1
      <4>4. x < 16 /\ (k <= e => x >= 16)
        BY <3>1, <4>2, <4>3
      <4> QED BY <4>4
    <3>3. end = k - 1
      BY <2>2, <3>1
    <3> QED BY <1>2, <3>1, <3>2, <3>3
  <2> QED BY <2>1, <2>2
<1>8. 3 * L < n => end = e
  <2> SUFFICES ASSUME 3 * L < n PROVE end <= e
    BY <1>2, <1>7
  <2>1. CASE e = L
    BY <1>7, <2>1
  <2>2. CASE e # L
    <3>1. text[e + 1] < 16 /\ e + 1 \in 1 .. L
      BY <1>2, <2>2
    <3>2. e + 1 \in small /\ small # {}
      BY <1>4, <3>1
    <3>3. Min(small) <= e + 1 /\ Min(small) \in Nat
      BY <1>4, <1>5, <3>2
    <3> QED BY <1>2, <3>2, <3>3
  <2> QED BY <2>1, <2>2
<1> HIDE DEF end, small
<1> DEFINE whole == [i \in 1 .. end |-> Shown(text[i])]
<1>9. /\ Part(text, 0, e) \in Seq(Byte) /\ Len(Part(text, 0, e)) = e
      /\ Part(text, 0, end) \in Seq(Byte) /\ Len(Part(text, 0, end)) = end
  <2>1. 0 \in 0 .. Len(text) /\ e \in 0 .. Len(text) /\ end \in 0 .. Len(text)
        /\ e - 0 = e /\ end - 0 = end
    BY <1>1, <1>2, <1>7
  <2> QED BY <2>1, PartOfText
<1>10. /\ Part(text, 0, e) = [i \in 1 .. e |-> Shown(text[i])]
       /\ Part(text, 0, end) = whole
  <2>1. ASSUME NEW x \in Nat PROVE Part(text, 0, x) = [i \in 1 .. x |-> Shown(text[i])]
    <3>1. x - 0 = x /\ \A i \in 1 .. x : 0 + i = i
      OBVIOUS
    <3> QED BY <3>1 DEF Part
  <2>2. e \in Nat /\ end \in Nat
    BY <1>2, <1>7
  <2> QED BY <2>1, <2>2
<1>11. d \in Seq(Byte) /\ Len(d) = e /\ \A i \in 1 .. e : d[i] = Shown(text[i])
  BY <1>2, <1>9, <1>10
<1>12. whole \in Seq(Byte) /\ Len(whole) = end /\ \A i \in 1 .. end : whole[i] = Shown(text[i])
  BY <1>9, <1>10
<1> HIDE DEF whole
<1>13. IsPrefix(d, whole)
  <2>1. Len(d) <= Len(whole)
    BY <1>2, <1>7, <1>11, <1>12
  <2>2. \A i \in 1 .. Len(d) : d[i] = whole[i]
    <3> TAKE i \in 1 .. Len(d)
    <3>1. i \in 1 .. e /\ i \in 1 .. end
      BY <1>2, <1>7, <1>11
    <3> QED BY <1>11, <1>12, <3>1
  <2> QED BY <1>11, <1>12, <2>1, <2>2, FirstIsPrefix
<1>14. 3 * L < n => d = whole
  BY <1>2, <1>8, <1>9, <1>10
<1>15. Legible(text) = whole
  BY <1>6 DEF whole
<1> QED BY <1>1, <1>11, <1>13, <1>14, <1>15

-----------------------------------------------------------------------------
(* The stream in pieces.                                                   *)

\* The bytes of s behind f up to t are the rest of a line of another kind.
IsRest(s, f, t) ==
    /\ t - f >= 2 /\ s[t - 1] = CR /\ s[t] = LF
    /\ \A i \in f + 1 .. t - 2 : s[i] = Other

\* They are the line of a text.
IsLine(s, f, t, c) ==
    /\ t - f = Len(Line[c])
    /\ \A i \in 1 .. t - f : s[f + i] = Line[c][i]

\* They are one or the other, and the texts up to the a-th are sent before, those
\* up to the z-th before what follows.
IsPiece(s, q, f, t, a, z) ==
    \/ z = a /\ IsRest(s, f, t)
    \/ z = a + 1 /\ z \in 1 .. Len(q) /\ IsLine(s, f, t, q[z])

\* n bytes of u behind g are those of s behind f.
Alike(u, g, s, f, n) == \A i \in 1 .. n : u[g + i] = s[f + i]

\* What a read between CR and LF leaves of a piece.
IsLeftOver(s, f, t) == Splits /\ t = f + 1 /\ s[t] = LF

\* s consists of m pieces that end at b, with all texts of q behind the at[0]-th.
Consists(s, q, m, b, at) ==
    /\ m \in Nat /\ b \in [0 .. m -> 0 .. Len(s)] /\ at \in [0 .. m -> 0 .. Len(q)]
    /\ b[0] = 0 /\ b[m] = Len(s) /\ at[m] = Len(q)
    /\ \A i, j \in 0 .. m : i < j => b[i] < b[j]
    /\ \A j \in 1 .. m :
          \/ IsPiece(s, q, b[j - 1], b[j], at[j - 1], at[j])
          \/ j = 1 /\ at[1] = at[0] /\ IsLeftOver(s, 0, b[1])
    /\ \A j \in 2 .. m : b[j] - b[j - 1] > 2

\* s is such a stream, with all texts behind the a-th.
Holds(s, q, a) == \E m, b, at : Consists(s, q, m, b, at) /\ at[0] = a

\* The bytes of a line.
LEMMA LineBytes ==
    ASSUME NEW c \in Text
    PROVE  LET l == Line[c]
               str == Encode(c, ArgLen)
           IN  /\ l \in Seq(Byte) /\ Len(l) = Len(str) + 3
               /\ str \in Seq(Graph) /\ Len(str) \in 1 .. ArgLen - 1
               /\ l[1] = Name /\ l[Len(l) - 1] = CR /\ l[Len(l)] = LF
               /\ \A i \in 1 .. Len(str) : l[i + 1] = str[i]
               /\ \A i \in 1 .. Len(l) - 2 : l[i] \notin Ended
<1> DEFINE l == Line[c]
           str == Encode(c, ArgLen)
           name == <<Name>>
           term == <<CR, LF>>
<1>1. c \in Seq(Byte) \ {<<>>} /\ ArgLen \in Nat /\ ArgLen > 3
  BY BoundsAssumption
<1>2. str \in Seq(Graph) /\ Len(str) \in 1 .. ArgLen - 1
  BY <1>1, EncodingOfText
<1>3. Graph \subseteq Byte /\ Name \in Byte /\ CR \in Byte /\ LF \in Byte
  BY DEF Graph, Byte, Name, CR, LF
<1>4. str \in Seq(Byte)
  BY <1>2, <1>3, SeqMonotonic
<1>5. name \in Seq(Byte) /\ Len(name) = 1 /\ name[1] = Name
  BY <1>3
<1>6. term \in Seq(Byte) /\ Len(term) = 2 /\ term[1] = CR /\ term[2] = LF
  BY <1>3
<1>7. l = (name \o str) \o term
  BY DEF Line
<1>8. PICK k \in 1 .. ArgLen - 1 : k = Len(str)
  BY <1>2
<1>9. k \in Nat /\ k >= 1
  BY <1>1
<1> HIDE DEF l, str, name, term
<1> DEFINE front == name \o str
<1>10. /\ front \in Seq(Byte) /\ Len(front) = Len(name) + Len(str)
       /\ \A i \in 1 .. Len(name) + Len(str) :
             front[i] = IF i <= Len(name) THEN name[i] ELSE str[i - Len(name)]
  BY <1>4, <1>5, ConcatProperties
<1>11. /\ front \in Seq(Byte) /\ Len(front) = 1 + k
       /\ \A i \in 1 .. 1 + k : front[i] = IF i <= 1 THEN name[i] ELSE str[i - 1]
  BY <1>5, <1>8, <1>10
<1> HIDE DEF front
<1>12. /\ l \in Seq(Byte) /\ Len(l) = Len(front) + Len(term)
       /\ \A i \in 1 .. Len(front) + Len(term) :
             l[i] = IF i <= Len(front) THEN front[i] ELSE term[i - Len(front)]
  <2>1. /\ front \o term \in Seq(Byte) /\ Len(front \o term) = Len(front) + Len(term)
        /\ \A i \in 1 .. Len(front) + Len(term) :
              (front \o term)[i] = IF i <= Len(front) THEN front[i] ELSE term[i - Len(front)]
    BY <1>6, <1>11, ConcatProperties
  <2>2. l = front \o term
    BY <1>7 DEF front
  <2> QED BY <2>1, <2>2
<1>13. /\ Len(l) = k + 3
       /\ \A i \in 1 .. k + 3 : l[i] = IF i <= 1 + k THEN front[i] ELSE term[i - (1 + k)]
  <2>1. (1 + k) + 2 = k + 3
    BY <1>9
  <2> QED BY <1>6, <1>11, <1>12, <2>1
<1>14. l[1] = Name
  BY <1>5, <1>9, <1>11, <1>13
<1>15. l[k + 2] = CR /\ l[k + 3] = LF
  <2>1. k + 2 \in 1 .. k + 3 /\ ~ (k + 2 <= 1 + k) /\ (k + 2) - (1 + k) = 1
    BY <1>9
  <2>2. k + 3 \in 1 .. k + 3 /\ ~ (k + 3 <= 1 + k) /\ (k + 3) - (1 + k) = 2
    BY <1>9
  <2> QED BY <1>6, <1>13, <2>1, <2>2
<1>16. \A i \in 1 .. k : l[i + 1] = str[i]
  <2> TAKE i \in 1 .. k
  <2>1. i + 1 \in 1 .. k + 3 /\ i + 1 <= 1 + k /\ i + 1 \in 1 .. 1 + k /\ ~ (i + 1 <= 1)
        /\ (i + 1) - 1 = i
    BY <1>9
  <2> QED BY <1>11, <1>13, <2>1
<1>17. \A i \in 1 .. k + 1 : l[i] \notin Ended
  <2> TAKE i \in 1 .. k + 1
  <2>1. CASE i = 1
    BY <1>14, <2>1 DEF Ended, Name, CR, LF
  <2>2. CASE i # 1
    <3>1. i - 1 \in 1 .. k /\ (i - 1) + 1 = i
      BY <1>9, <2>2
    <3>2. l[i] = str[i - 1] /\ str[i - 1] \in Graph
      BY <1>2, <1>8, <1>16, <3>1, ElementOfSeq
    <3> QED BY <3>2 DEF Graph, Ended, CR, LF
  <2> QED BY <2>1, <2>2
<1>18. Len(l) - 1 = k + 2 /\ Len(l) - 2 = k + 1
  BY <1>9, <1>13
<1> QED BY <1>2, <1>8, <1>12, <1>13, <1>14, <1>15, <1>16, <1>17, <1>18 DEF l, str

\* Where a piece ends.
LEMMA PieceEnds ==
    ASSUME NEW s, NEW q \in Seq(Text), NEW f \in Nat, NEW t \in Nat, NEW a, NEW z,
           IsPiece(s, q, f, t, a, z)
    PROVE  /\ t >= f + 2 /\ s[t - 1] = CR /\ s[t] = LF
           /\ \A i \in f + 1 .. t - 2 : s[i] \notin Ended
<1>1. CASE IsRest(s, f, t)
  <2>1. Other \notin Ended
    BY DEF Other, Ended, CR, LF
  <2> QED BY <1>1, <2>1 DEF IsRest
<1>2. CASE z \in 1 .. Len(q) /\ IsLine(s, f, t, q[z])
  <2> DEFINE l == Line[q[z]]
  <2>1. q[z] \in Text
    BY <1>2, ElementOfSeq
  <2>2. PICK k \in Nat : k = Len(Encode(q[z], ArgLen)) /\ k >= 1
    BY <2>1, LineBytes
  <2>3. /\ Len(l) = k + 3
        /\ l[(k + 3) - 1] = CR /\ l[k + 3] = LF
        /\ \A i \in 1 .. (k + 3) - 2 : l[i] \notin Ended
    BY <2>1, <2>2, LineBytes
  <2>4. t - f = k + 3 /\ \A i \in 1 .. t - f : s[f + i] = l[i]
    BY <1>2, <2>3 DEF IsLine
  <2> HIDE DEF l
  <2>5. \A i \in 1 .. k + 3 : s[f + i] = l[i]
    BY <2>4
  <2>6. s[t - 1] = CR /\ s[t] = LF /\ t >= f + 2
    <3>1. t - 1 = f + (k + 2) /\ t = f + (k + 3) /\ (k + 3) - 1 = k + 2
          /\ k + 2 \in 1 .. k + 3 /\ k + 3 \in 1 .. k + 3
      BY <2>2, <2>4
    <3> QED BY <2>2, <2>3, <2>5, <3>1
  <2>7. \A i \in f + 1 .. t - 2 : s[i] \notin Ended
    <3> TAKE i \in f + 1 .. t - 2
    <3>1. i - f \in 1 .. (k + 3) - 2 /\ i - f \in 1 .. k + 3 /\ f + (i - f) = i
      BY <2>2, <2>4
    <3> QED BY <2>3, <2>5, <3>1
  <2> QED BY <2>6, <2>7
<1> QED BY <1>1, <1>2 DEF IsPiece

\* A piece is one wherever it is found.
LEMMA PieceShifts ==
    ASSUME NEW s, NEW q \in Seq(Text), NEW f \in Nat, NEW t \in Nat, NEW a, NEW z,
           IsPiece(s, q, f, t, a, z),
           NEW u, NEW g \in Nat, NEW v \in Nat, v - g = t - f,
           Alike(u, g, s, f, t - f)
    PROVE  IsPiece(u, q, g, v, a, z)
<1>1. PICK x \in Nat : x = Len(q)
  BY LenProperties
<1>2. Len(q) <= Len(q) /\ \A i \in 1 .. Len(q) : q[i] = q[i]
  BY <1>1
<1>3. \A i \in 1 .. t - f : u[g + i] = s[f + i]
  BY DEF Alike
<1>4. CASE z = a /\ IsRest(s, f, t)
  <2>1. t - f >= 2 /\ s[t - 1] = CR /\ s[t] = LF /\ \A i \in f + 1 .. t - 2 : s[i] = Other
    BY <1>4 DEF IsRest
  <2>2. u[v - 1] = CR /\ u[v] = LF
    <3>1. /\ (t - f) - 1 \in 1 .. t - f /\ t - f \in 1 .. t - f
          /\ g + ((t - f) - 1) = v - 1 /\ f + ((t - f) - 1) = t - 1
          /\ g + (t - f) = v /\ f + (t - f) = t
      BY <2>1
    <3> QED BY <1>3, <2>1, <3>1
  <2>3. ASSUME NEW i \in g + 1 .. v - 2 PROVE u[i] = Other
    <3>1. /\ i - g \in 1 .. t - f /\ g + (i - g) = i
          /\ f + (i - g) \in f + 1 .. t - 2
      BY <2>1
    <3> QED BY <1>3, <2>1, <3>1
  <2> QED BY <1>4, <2>1, <2>2, <2>3 DEF IsPiece, IsRest
<1>5. CASE z = a + 1 /\ z \in 1 .. Len(q) /\ IsLine(s, f, t, q[z])
  <2>1. IsLine(u, g, v, q[z])
    BY <1>3, <1>5 DEF IsLine
  <2> QED BY <1>5, <2>1 DEF IsPiece
<1> QED BY <1>4, <1>5 DEF IsPiece

\* And when more texts are sent.
LEMMA PieceStays ==
    ASSUME NEW s, NEW q \in Seq(Text), NEW f, NEW t, NEW a, NEW z,
           IsPiece(s, q, f, t, a, z),
           NEW p \in Seq(Text), Len(q) <= Len(p), \A i \in 1 .. Len(q) : p[i] = q[i]
    PROVE  IsPiece(s, p, f, t, a, z)
<1>1. CASE z = a + 1 /\ z \in 1 .. Len(q) /\ IsLine(s, f, t, q[z])
  <2>1. p[z] = q[z]
    BY <1>1
  <2>2. z \in 1 .. Len(p)
    BY <1>1, LenProperties
  <2> QED BY <1>1, <2>1, <2>2 DEF IsPiece
<1> QED BY <1>1 DEF IsPiece

\* More is sent.
LEMMA StreamGrows ==
    ASSUME NEW s \in Seq(Byte), NEW q \in Seq(Text), NEW m, NEW b, NEW at,
           Consists(s, q, m, b, at),
           NEW w \in Seq(Byte), Len(w) > 2, NEW p \in Seq(Text),
           \/ p = q /\ IsRest(w, 0, Len(w))
           \/ \E c \in Text : p = Append(q, c) /\ w = Line[c]
    PROVE  Holds(s \o w, p, at[0])
<1>1. PICK k \in Nat : k = Len(s)
  BY LenProperties
<1>2. PICK j \in Nat : j = Len(w) /\ j > 2
  BY LenProperties
<1>3. PICK x \in Nat : x = Len(q)
  BY LenProperties
<1>0. m \in Nat
  BY DEF Consists
<1>4. PICK y \in Nat : y = Len(p) /\ x <= y /\ \A i \in 1 .. x : p[i] = q[i]
  <2>1. PICK y \in Nat : y = Len(p)
    BY LenProperties
  <2>2. CASE p = q
    BY <1>3, <2>1, <2>2
  <2>3. ASSUME NEW c \in Text, p = Append(q, c) PROVE x <= y /\ \A i \in 1 .. x : p[i] = q[i]
    <3>1. Len(p) = x + 1 /\ \A i \in 1 .. x : p[i] = q[i]
      BY <1>3, <2>3, AppendProperties
    <3> QED BY <2>1, <3>1
  <2> QED BY <2>1, <2>2, <2>3
<1> DEFINE u == s \o w
<1>5. /\ u \in Seq(Byte) /\ Len(u) = k + j
      /\ \A i \in 1 .. k : u[i] = s[i]
      /\ \A i \in 1 .. j : u[k + i] = w[i]
  <2>1. /\ u \in Seq(Byte) /\ Len(u) = Len(s) + Len(w)
        /\ \A i \in 1 .. Len(s) + Len(w) : u[i] = IF i <= Len(s) THEN s[i] ELSE w[i - Len(s)]
    BY ConcatProperties
  <2> HIDE DEF u
  <2>2. ASSUME NEW i \in 1 .. k PROVE u[i] = s[i]
    BY <1>1, <1>2, <2>1
  <2>3. ASSUME NEW i \in 1 .. j PROVE u[k + i] = w[i]
    <3>1. k + i \in 1 .. k + j /\ ~ (k + i <= k) /\ (k + i) - k = i
      BY <1>2
    <3> QED BY <1>1, <1>2, <2>1, <3>1
  <2> QED BY <1>1, <1>2, <2>1, <2>2, <2>3
<1> HIDE DEF u
<1>6. /\ m \in Nat /\ b \in [0 .. m -> 0 .. k] /\ at \in [0 .. m -> 0 .. x]
      /\ b[0] = 0 /\ b[m] = k /\ at[m] = x
      /\ \A i, h \in 0 .. m : i < h => b[i] < b[h]
      /\ \A h \in 1 .. m :
            \/ IsPiece(s, q, b[h - 1], b[h], at[h - 1], at[h])
            \/ h = 1 /\ at[1] = at[0] /\ IsLeftOver(s, 0, b[1])
      /\ \A h \in 2 .. m : b[h] - b[h - 1] > 2
  BY <1>1, <1>3 DEF Consists
<1>7. IsPiece(u, p, k, k + j, x, y)
  <2>1. CASE p = q /\ IsRest(w, 0, Len(w))
    <3>1. j - 0 >= 2 /\ w[j - 1] = CR /\ w[j] = LF /\ \A i \in 0 + 1 .. j - 2 : w[i] = Other
      BY <1>2, <2>1 DEF IsRest
    <3>2. u[(k + j) - 1] = CR /\ u[k + j] = LF
      <4>1. j - 1 \in 1 .. j /\ j \in 1 .. j /\ k + (j - 1) = (k + j) - 1
        BY <1>2
      <4> QED BY <1>5, <3>1, <4>1
    <3>3. ASSUME NEW i \in k + 1 .. (k + j) - 2 PROVE u[i] = Other
      <4>1. i - k \in 1 .. j /\ i - k \in 0 + 1 .. j - 2 /\ k + (i - k) = i
        BY <1>2
      <4> QED BY <1>5, <3>1, <4>1
    <3>4. (k + j) - k >= 2
      BY <1>2
    <3> QED BY <1>3, <1>4, <2>1, <3>2, <3>3, <3>4 DEF IsPiece, IsRest
  <2>2. ASSUME NEW c \in Text, p = Append(q, c), w = Line[c]
        PROVE  IsPiece(u, p, k, k + j, x, y)
    <3>1. y = x + 1 /\ p[y] = c
      BY <1>3, <1>4, <2>2, AppendProperties
    <3>2. (k + j) - k = j /\ y \in 1 .. y
      BY <1>2, <3>1
    <3>3. IsLine(u, k, k + j, c)
      BY <1>2, <1>5, <2>2, <3>2 DEF IsLine
    <3> QED BY <1>4, <3>1, <3>2, <3>3 DEF IsPiece
  <2> QED BY <2>1, <2>2
<1> DEFINE d == [i \in 0 .. m + 1 |-> IF i <= m THEN b[i] ELSE k + j]
           to == [i \in 0 .. m + 1 |-> IF i <= m THEN at[i] ELSE y]
<1>8. /\ \A i \in 0 .. m : d[i] = b[i] /\ to[i] = at[i] /\ b[i] \in 0 .. k /\ at[i] \in 0 .. x
      /\ d[m + 1] = k + j /\ to[m + 1] = y
  BY <1>6
<1>9. d \in [0 .. m + 1 -> 0 .. k + j] /\ to \in [0 .. m + 1 -> 0 .. y]
  <2>1. \A i \in 0 .. m : b[i] \in 0 .. k + j /\ at[i] \in 0 .. y
    <3> TAKE i \in 0 .. m
    <3>1. b[i] \in 0 .. k /\ at[i] \in 0 .. x
      BY <1>6
    <3> QED BY <1>4, <3>1
  <2>2. k + j \in 0 .. k + j /\ y \in 0 .. y
    BY <1>2
  <2>3. \A i \in 0 .. m + 1 : i <= m => i \in 0 .. m
    BY <1>6
  <2> QED BY <2>1, <2>2, <2>3
<1> HIDE DEF d, to
<1>10. \A i, h \in 0 .. m + 1 : i < h => d[i] < d[h]
  <2> TAKE i, h \in 0 .. m + 1
  <2> HAVE i < h
  <2>1. CASE h \in 0 .. m
    <3>1. i \in 0 .. m
      BY <1>0, <2>1
    <3> QED BY <1>6, <1>8, <2>1, <3>1
  <2>2. CASE h = m + 1
    <3>1. i \in 0 .. m
      BY <1>6, <2>2
    <3>2. d[i] \in 0 .. k /\ d[h] = k + j
      BY <1>8, <2>2, <3>1
    <3> QED BY <1>2, <3>2
  <2> QED BY <1>6, <2>1, <2>2
<1>11. ASSUME NEW h \in 1 .. m + 1
       PROVE  \/ IsPiece(u, p, d[h - 1], d[h], to[h - 1], to[h])
              \/ h = 1 /\ to[1] = to[0] /\ IsLeftOver(u, 0, d[1])
  <2>1. CASE h = m + 1
    <3>1. h - 1 = m /\ m \in 0 .. m
      BY <1>6, <2>1
    <3> QED BY <1>6, <1>7, <1>8, <2>1, <3>1
  <2>2. CASE h \in 1 .. m
    <3>1. h - 1 \in 0 .. m /\ h \in 0 .. m
      BY <1>0, <2>2
    <3>2. d[h - 1] = b[h - 1] /\ d[h] = b[h] /\ to[h - 1] = at[h - 1] /\ to[h] = at[h]
          /\ b[h - 1] \in 0 .. k /\ b[h] \in 0 .. k
      BY <1>8, <3>1
    <3>3. CASE IsPiece(s, q, b[h - 1], b[h], at[h - 1], at[h])
      <4>1. PICK f \in 0 .. k, t \in 0 .. k : f = b[h - 1] /\ t = b[h]
        BY <3>2
      <4>2. \A i \in 1 .. t - f : u[f + i] = s[f + i]
        <5> TAKE i \in 1 .. t - f
        <5>1. f + i \in 1 .. k
          OBVIOUS
        <5> QED BY <1>5, <5>1
      <4>3. f \in Nat /\ t \in Nat
        OBVIOUS
      <4>4. IsPiece(u, p, f, t, at[h - 1], at[h])
        <5>1. Len(q) <= Len(p) /\ \A i \in 1 .. Len(q) : p[i] = q[i]
          BY <1>3, <1>4
        <5>2. IsPiece(s, q, f, t, at[h - 1], at[h])
          BY <3>3, <4>1
        <5>3. IsPiece(s, p, f, t, at[h - 1], at[h])
          BY <5>1, <5>2, PieceStays
        <5>4. Alike(u, f, s, f, t - f)
          BY <4>2 DEF Alike
        <5> QED BY <4>3, <5>3, <5>4, PieceShifts
      <4> QED BY <3>2, <4>1, <4>4
    <3>4. CASE h = 1 /\ at[1] = at[0] /\ IsLeftOver(s, 0, b[1])
      <4>1. 0 \in 0 .. m
        BY <1>6
      <4>2. to[1] = to[0] /\ d[1] = b[1]
        BY <1>8, <3>1, <3>4, <4>1
      <4>3. b[1] = 1 /\ Splits /\ s[1] = LF
        BY <3>4 DEF IsLeftOver
      <4>4. u[1] = s[1]
        <5>1. 1 \in 1 .. k
          BY <3>2, <3>4, <4>3
        <5> QED BY <1>5, <5>1
      <4> QED BY <3>4, <4>2, <4>3, <4>4 DEF IsLeftOver
    <3> QED BY <1>6, <2>2, <3>3, <3>4
  <2> QED BY <1>6, <2>1, <2>2
<1>12. \A h \in 2 .. m + 1 : d[h] - d[h - 1] > 2
  <2> TAKE h \in 2 .. m + 1
  <2>1. CASE h = m + 1
    <3>1. h - 1 = m /\ m \in 0 .. m
      BY <1>6, <2>1
    <3>2. d[h] = k + j /\ d[h - 1] = k
      BY <1>6, <1>8, <2>1, <3>1
    <3> QED BY <1>2, <3>2
  <2>2. CASE h \in 2 .. m
    <3>1. h - 1 \in 0 .. m /\ h \in 0 .. m
      BY <1>0, <2>2
    <3> QED BY <1>6, <1>8, <2>2, <3>1
  <2> QED BY <1>6, <2>1, <2>2
<1>13. m + 1 \in Nat /\ 0 \in 0 .. m
  BY <1>6
<1>14. Consists(u, p, m + 1, d, to)
  BY <1>4, <1>5, <1>6, <1>8, <1>9, <1>10, <1>11, <1>12, <1>13 DEF Consists
<1> QED BY <1>8, <1>13, <1>14 DEF u, Holds

\* The first d bytes are k pieces, or k and a part of another of which the rest
\* is one.
IsCut(s, m, b, at, k, d, a) ==
    /\ k \in 0 .. m /\ d \in 0 .. Len(s)
    /\ \/ d = b[k] /\ a = at[k]
       \/ /\ k < m /\ b[k] < d /\ d < b[k + 1] /\ a = at[k + 1]
          /\ IsRest(s, d, b[k + 1]) \/ IsLeftOver(s, d, b[k + 1])

\* They are taken out.
LEMMA StreamCut ==
    ASSUME NEW s \in Seq(Byte), NEW q \in Seq(Text), NEW m, NEW b, NEW at,
           Consists(s, q, m, b, at), NEW k, NEW d, NEW a, IsCut(s, m, b, at, k, d, a)
    PROVE  Holds(SubSeq(s, d + 1, Len(s)), q, a)
<1>0. m \in Nat /\ k \in 0 .. m
  BY DEF Consists, IsCut
<1>1. PICK L \in Nat : L = Len(s) /\ d \in 0 .. L
  BY LenProperties DEF IsCut
<1>2. PICK x \in Nat : x = Len(q)
  BY LenProperties
<1>20. \/ d = b[k] /\ a = at[k]
       \/ /\ k < m /\ b[k] < d /\ d < b[k + 1] /\ a = at[k + 1]
          /\ IsRest(s, d, b[k + 1]) \/ IsLeftOver(s, d, b[k + 1])
  BY DEF IsCut
<1>21. a \in 0 .. x
  <2>1. CASE a = at[k]
    BY <1>0, <1>2, <2>1 DEF Consists
  <2>2. CASE k < m /\ a = at[k + 1]
    <3>1. k + 1 \in 0 .. m
      BY <1>0, <2>2
    <3> QED BY <1>2, <2>2, <3>1 DEF Consists
  <2> QED BY <1>20, <2>1, <2>2
<1> DEFINE u == SubSeq(s, d + 1, Len(s))
<1>3. u \in Seq(Byte) /\ Len(u) = L - d /\ \A i \in 1 .. L - d : u[i] = s[d + i]
  <2>1. \A i \in d + 1 .. L : s[i] \in Byte
    BY <1>1, ElementOfSeq
  <2>2. d + 1 \in Int /\ L \in Int
    BY <1>1
  <2>3. /\ u \in Seq(Byte) /\ Len(u) = (IF d + 1 <= L THEN L - (d + 1) + 1 ELSE 0)
        /\ \A i \in 1 .. L - (d + 1) + 1 : u[i] = s[(d + 1) + i - 1]
    BY <1>1, <2>1, <2>2, SubSeqProperties
  <2> HIDE DEF u
  <2>4. Len(u) = L - d
    BY <1>1, <2>3
  <2>5. ASSUME NEW i \in 1 .. L - d PROVE u[i] = s[d + i]
    <3>1. i \in 1 .. L - (d + 1) + 1 /\ (d + 1) + i - 1 = d + i
      BY <1>1
    <3> QED BY <2>3, <3>1
  <2> QED BY <2>3, <2>4, <2>5
<1> HIDE DEF u
<1>4. /\ b \in [0 .. m -> 0 .. L] /\ at \in [0 .. m -> 0 .. x]
      /\ b[0] = 0 /\ b[m] = L /\ at[m] = x
  BY <1>1, <1>2 DEF Consists
<1>5. \A i, h \in 0 .. m : i < h => b[i] < b[h]
  BY DEF Consists
<1>6. \A h \in 1 .. m :
            \/ IsPiece(s, q, b[h - 1], b[h], at[h - 1], at[h])
            \/ h = 1 /\ at[1] = at[0] /\ IsLeftOver(s, 0, b[1])
  BY DEF Consists
<1>7. \A h \in 2 .. m : b[h] - b[h - 1] > 2
  BY DEF Consists
<1>8. PICK n \in Nat : n = m - k
  BY <1>0
<1>9. \A i \in 1 .. n : k + i \in 1 .. m /\ k + i \in 0 .. m /\ k < k + i
  BY <1>0, <1>8
<1>10. ASSUME NEW i \in 1 .. n PROVE b[k + i] > d /\ b[k + i] \in 0 .. L /\ at[k + i] \in 0 .. x
  <2>1. k + i \in 0 .. m /\ k < k + i
    BY <1>9
  <2>2. b[k + i] \in 0 .. L /\ at[k + i] \in 0 .. x
    BY <1>4, <2>1
  <2>3. b[k] < b[k + i]
    BY <1>0, <1>5, <2>1
  <2>4. CASE d = b[k]
    BY <2>2, <2>3, <2>4
  <2>5. CASE d < b[k + 1] /\ i = 1
    BY <2>2, <2>5
  <2>6. CASE d < b[k + 1] /\ i # 1
    <3>1. k + 1 \in 0 .. m /\ k + 1 < k + i
      BY <1>0, <1>9, <2>1, <2>6
    <3>2. b[k + 1] < b[k + i] /\ b[k + 1] \in 0 .. L
      BY <1>4, <1>5, <2>1, <3>1
    <3> QED BY <1>1, <2>2, <2>6, <3>2
  <2> QED BY <1>20, <2>2, <2>4, <2>5, <2>6
<1> DEFINE e == [i \in 0 .. n |-> IF i = 0 THEN 0 ELSE b[k + i] - d]
           to == [i \in 0 .. n |-> IF i = 0 THEN a ELSE at[k + i]]
<1>11. e[0] = 0 /\ to[0] = a
  BY <1>8
<1>12. \A i \in 1 .. n : e[i] = b[k + i] - d /\ to[i] = at[k + i]
  OBVIOUS
<1>13. e \in [0 .. n -> 0 .. L - d] /\ to \in [0 .. n -> 0 .. x]
  <2>1. ASSUME NEW i \in 1 .. n PROVE b[k + i] - d \in 0 .. L - d /\ at[k + i] \in 0 .. x
    <3>1. b[k + i] > d /\ b[k + i] \in 0 .. L /\ at[k + i] \in 0 .. x
      BY <1>10
    <3>2. d \in 0 .. L
      BY <1>1
    <3>3. \A y \in 0 .. L : y > d => y - d \in 0 .. L - d
      BY <3>2
    <3> QED BY <3>1, <3>3
  <2>2. 0 \in 0 .. L - d /\ a \in 0 .. x
    BY <1>1, <1>21
  <2>3. \A i \in 0 .. n : i # 0 => i \in 1 .. n
    BY <1>8
  <2> QED BY <2>1, <2>2, <2>3
<1> HIDE DEF e, to
<1>14. e[n] = L - d /\ to[n] = x
  <2>1. CASE n = 0
    <3>1. k = m /\ ~ (k < m)
      BY <1>0, <1>8, <2>1
    <3>2. d = L /\ a = x
      BY <1>4, <1>20, <3>1
    <3> QED BY <1>1, <1>11, <2>1, <3>2
  <2>2. CASE n # 0
    <3>1. n \in 1 .. n /\ k + n = m
      BY <1>0, <1>8, <2>2
    <3> QED BY <1>4, <1>12, <3>1
  <2> QED BY <2>1, <2>2
<1>15. \A i, h \in 0 .. n : i < h => e[i] < e[h]
  <2> TAKE i, h \in 0 .. n
  <2> HAVE i < h
  <2>1. h \in 1 .. n
    BY <1>8
  <2>2. e[h] = b[k + h] - d /\ b[k + h] > d /\ b[k + h] \in 0 .. L
    BY <1>10, <1>12, <2>1
  <2>3. CASE i = 0
    BY <1>1, <1>11, <2>2, <2>3
  <2>4. CASE i # 0
    <3>1. i \in 1 .. n
      BY <1>8, <2>4
    <3>2. e[i] = b[k + i] - d /\ b[k + i] \in 0 .. L
      BY <1>10, <1>12, <3>1
    <3>3. k + i \in 0 .. m /\ k + h \in 0 .. m /\ k + i < k + h
      <4>1. k + i \in 0 .. m /\ k + h \in 0 .. m
        BY <1>9, <2>1, <3>1
      <4>2. k \in Nat /\ i \in Nat /\ h \in Nat /\ i < h
        BY <1>0, <1>8
      <4> QED BY <4>1, <4>2
    <3>4. b[k + i] < b[k + h]
      BY <1>5, <3>3
    <3> QED BY <1>1, <2>2, <3>2, <3>4
  <2> QED BY <2>3, <2>4
\* A piece behind the cut is one from there on.
<1>16. ASSUME NEW f \in d .. L, NEW t \in f .. L, NEW y, NEW z, IsPiece(s, q, f, t, y, z)
       PROVE  IsPiece(u, q, f - d, t - d, y, z)
  <2>1. f \in Nat /\ t \in Nat /\ f - d \in Nat /\ t - d \in Nat /\ (t - d) - (f - d) = t - f
    BY <1>1
  <2>2. \A i \in 1 .. t - f : u[(f - d) + i] = s[f + i]
    <3> TAKE i \in 1 .. t - f
    <3>1. (f - d) + i \in 1 .. L - d /\ d + ((f - d) + i) = f + i
      BY <1>1, <2>1
    <3> QED BY <1>3, <3>1
  <2> DEFINE g == f - d
             o == t - d
  <2>3. g \in Nat /\ o \in Nat /\ o - g = t - f /\ Alike(u, g, s, f, t - f)
    BY <2>1, <2>2 DEF Alike
  <2>5. IsPiece(s, q, f, t, y, z)
    BY <1>16
  <2> HIDE DEF g, o
  <2>6. IsPiece(u, q, g, o, y, z)
    BY <2>1, <2>3, <2>5, PieceShifts
  <2> QED BY <2>6 DEF g, o
<1>17. ASSUME NEW h \in 1 .. n
       PROVE  \/ IsPiece(u, q, e[h - 1], e[h], to[h - 1], to[h])
              \/ h = 1 /\ to[1] = to[0] /\ IsLeftOver(u, 0, e[1])
  <2> DEFINE j == k + h
  <2>1. j \in 1 .. m /\ j \in 0 .. m /\ j - 1 \in 0 .. m /\ j - 1 = k + (h - 1)
    BY <1>0, <1>9
  <2>2. e[h] = b[j] - d /\ to[h] = at[j] /\ b[j] > d /\ b[j] \in 0 .. L
    BY <1>10, <1>12
  <2>3. b[j - 1] < b[j] /\ b[j - 1] \in 0 .. L
    <3>1. j - 1 < j
      BY <2>1
    <3> QED BY <1>4, <1>5, <2>1, <3>1
  <2>4. \/ IsPiece(s, q, b[j - 1], b[j], at[j - 1], at[j])
        \/ j = 1 /\ at[1] = at[0] /\ IsLeftOver(s, 0, b[1])
    BY <1>6, <2>1
  <2> HIDE DEF j
  <2>5. CASE h > 1
    <3>1. h - 1 \in 1 .. n /\ j # 1
      BY <1>0, <2>5 DEF j
    <3>2. e[h - 1] = b[j - 1] - d /\ to[h - 1] = at[j - 1] /\ b[j - 1] > d
      BY <1>10, <1>12, <2>1, <3>1
    <3>3. b[j - 1] \in d .. L /\ b[j] \in b[j - 1] .. L
      BY <1>1, <2>2, <2>3, <3>2
    <3>4. IsPiece(u, q, b[j - 1] - d, b[j] - d, at[j - 1], at[j])
      BY <1>16, <2>4, <3>1, <3>3
    <3> QED BY <2>2, <3>2, <3>4
  <2>6. CASE h = 1 /\ d = b[k] /\ a = at[k]
    <3>1. j = k + 1 /\ j - 1 = k /\ h - 1 = 0
      BY <1>0, <2>1, <2>6 DEF j
    <3>2. e[h - 1] = b[j - 1] - d /\ to[h - 1] = at[j - 1]
      BY <1>1, <1>11, <2>6, <3>1
    <3>3. CASE IsPiece(s, q, b[j - 1], b[j], at[j - 1], at[j])
      <4>1. b[j - 1] \in d .. L /\ b[j] \in b[j - 1] .. L
        BY <1>1, <2>2, <2>3, <2>6, <3>1
      <4>2. IsPiece(u, q, b[j - 1] - d, b[j] - d, at[j - 1], at[j])
        BY <1>16, <3>3, <4>1
      <4> QED BY <2>2, <3>2, <4>2
    <3>4. CASE j = 1 /\ at[1] = at[0] /\ IsLeftOver(s, 0, b[1])
      <4>1. k = 0 /\ d = 0
        BY <1>4, <2>6, <3>1, <3>4
      <4>2. Splits /\ b[1] = 1 /\ s[1] = LF
        BY <3>4 DEF IsLeftOver
      <4>3. e[1] = 1 /\ to[1] = to[0]
        BY <1>11, <2>2, <2>6, <3>2, <3>4, <4>1, <4>2
      <4>4. u[1] = s[1]
        <5>1. 1 \in 1 .. L - d /\ d + 1 = 1
          BY <2>2, <3>4, <4>1, <4>2
        <5> QED BY <1>3, <5>1
      <4> QED BY <2>6, <4>2, <4>3, <4>4 DEF IsLeftOver
    <3> QED BY <2>4, <3>3, <3>4
  <2>7. CASE h = 1 /\ d < b[k + 1] /\ a = at[k + 1]
             /\ (IsRest(s, d, b[k + 1]) \/ IsLeftOver(s, d, b[k + 1]))
    <3>1. j = k + 1 /\ h - 1 = 0
      BY <2>7 DEF j
    <3>2. e[h - 1] = d - d /\ to[h - 1] = a /\ to[h] = a
      BY <1>1, <1>11, <2>2, <2>7, <3>1
    <3>3. CASE IsRest(s, d, b[j])
      <4>1. IsPiece(s, q, d, b[j], a, a)
        BY <3>3 DEF IsPiece
      <4>2. d \in d .. L /\ b[j] \in d .. L
        BY <1>1, <2>2
      <4>3. IsPiece(u, q, d - d, b[j] - d, a, a)
        BY <1>16, <4>1, <4>2
      <4> QED BY <2>2, <3>2, <4>3
    <3>4. CASE IsLeftOver(s, d, b[j])
      <4>1. Splits /\ b[j] = d + 1 /\ s[d + 1] = LF
        BY <3>4 DEF IsLeftOver
      <4>2. e[1] = 0 + 1
        BY <1>1, <2>2, <2>7, <4>1
      <4>3. u[1] = s[d + 1]
        <5>1. 1 \in 1 .. L - d
          BY <1>1, <2>2, <4>1
        <5> QED BY <1>3, <5>1
      <4> QED BY <2>7, <3>1, <3>2, <4>1, <4>2, <4>3 DEF IsLeftOver
    <3> QED BY <2>7, <3>1, <3>3, <3>4
  <2> QED BY <1>20, <2>5, <2>6, <2>7
<1>18. \A h \in 2 .. n : e[h] - e[h - 1] > 2
  <2> TAKE h \in 2 .. n
  <2>1. h \in 1 .. n /\ h - 1 \in 1 .. n /\ k + h \in 2 .. m /\ (k + h) - 1 = k + (h - 1)
    BY <1>0, <1>8
  <2>2. /\ e[h] = b[k + h] - d /\ e[h - 1] = b[k + (h - 1)] - d
        /\ b[k + h] \in 0 .. L /\ b[k + (h - 1)] \in 0 .. L
    BY <1>10, <1>12, <2>1
  <2>3. b[k + h] - b[k + (h - 1)] > 2
    BY <1>7, <2>1
  <2> QED BY <1>1, <2>2, <2>3
<1>19. Consists(u, q, n, e, to)
  BY <1>2, <1>3, <1>11, <1>13, <1>14, <1>15, <1>17, <1>18 DEF Consists
<1> QED BY <1>11, <1>19 DEF u, Holds

-----------------------------------------------------------------------------
(* The end of the first line.                                              *)

\* The first CR is the end of the line.
LEMMA EndsAt ==
    ASSUME NEW v \in Seq(Byte), NEW e \in 1 .. Len(v), v[e] = CR,
           \A i \in 1 .. e - 1 : v[i] # CR
    PROVE  Ends(v) # {} /\ Min(Ends(v)) = e
<1>1. PICK h \in Nat : h = Len(v)
  BY LenProperties
<1>2. DOMAIN v = 1 .. h
  BY <1>1, LenProperties
<1>3. Contains(v, CR)
  BY DEF Contains
<1> DEFINE S == {j \in DOMAIN v : v[j] = CR}
<1>4. Ends(v) = S
  BY <1>3 DEF Ends
<1>5. S \in SUBSET Nat /\ e \in S /\ \A j \in S : j \in 1 .. h /\ v[j] = CR
  BY <1>1, <1>2
<1> HIDE DEF S
<1>6. Min(S) \in S /\ Min(S) <= e
  BY <1>5, MinIsIn
<1>7. PICK j \in 1 .. h : j = Min(S) /\ v[j] = CR /\ j <= e
  BY <1>5, <1>6
<1>8. ~ (j < e)
  <2>1. j < e => j \in 1 .. e - 1
    BY <1>1
  <2> QED BY <1>7, <2>1
<1>9. j = e
  BY <1>1, <1>7, <1>8
<1> QED BY <1>4, <1>5, <1>7, <1>9

\* The terminator reaches up to a byte that is none of its.
LEMMA SkipTo ==
    ASSUME NEW v \in Seq(Byte), NEW e \in 1 .. Len(v), NEW t \in e .. Len(v),
           \A i \in e .. t : v[i] \in Ended, t = Len(v) \/ v[t + 1] \notin Ended
    PROVE  Skip(v, e) = t
<1>1. PICK h \in Nat : h = Len(v)
  BY LenProperties
<1> DEFINE S == {j \in e .. Len(v) : \A k \in e .. j : v[k] \in {CR, LF}}
<1>2. t \in S
  BY DEF Ended
<1>3. \A j \in S : j \in e .. h /\ j <= t
  <2> SUFFICES ASSUME NEW j \in S, ~ (j <= t) PROVE FALSE
    BY <1>1
  <2>1. j \in e .. h /\ \A k \in e .. j : v[k] \in {CR, LF}
    BY <1>1
  <2>2. t # h /\ t + 1 \in e .. j
    BY <1>1, <2>1
  <2>3. v[t + 1] \in {CR, LF}
    BY <2>1, <2>2
  <2> QED BY <1>1, <2>2, <2>3 DEF Ended
<1>4. S \subseteq Int /\ t \in Int
  BY <1>1, <1>3
<1> HIDE DEF S
<1>5. Max(S) = CHOOSE x \in S : \A y \in S : x >= y
  BY DEF Max
<1>6. \A y \in S : t >= y
  BY <1>3, <1>4
<1>7. Max(S) \in S /\ \A y \in S : Max(S) >= y
  BY <1>2, <1>5, <1>6
<1>8. Max(S) >= t /\ Max(S) <= t /\ Max(S) \in Int
  BY <1>2, <1>3, <1>4, <1>7
<1>9. Max(S) = t
  BY <1>4, <1>8
<1> QED BY <1>9 DEF Skip, S

\* What is behind d bytes of a buffer and what is on the wire.
LEMMA CutFront ==
    ASSUME NEW v \in Seq(Byte), NEW w \in Seq(Byte), NEW d \in 0 .. Len(v)
    PROVE  /\ SubSeq(v \o w, d + 1, Len(v \o w)) = SubSeq(v, d + 1, Len(v)) \o w
           /\ SubSeq(v, d + 1, Len(v)) \in Seq(Byte)
           /\ Len(SubSeq(v, d + 1, Len(v))) = Len(v) - d
           /\ \A i \in 1 .. Len(v) - d : SubSeq(v, d + 1, Len(v))[i] = v[d + i]
<1>1. PICK h \in Nat : h = Len(v)
  BY LenProperties
<1>2. PICK j \in Nat : j = Len(w)
  BY LenProperties
<1>3. d \in 0 .. h
  BY <1>1
<1> DEFINE s == v \o w
           x == SubSeq(v, d + 1, h)
           y == SubSeq(s, d + 1, h + j)
           z == x \o w
<1>4. s \in Seq(Byte) /\ Len(s) = h + j
      /\ \A i \in 1 .. h + j : s[i] = IF i <= h THEN v[i] ELSE w[i - h]
  BY <1>1, <1>2, ConcatProperties
<1> HIDE DEF s
<1>5. x \in Seq(Byte) /\ Len(x) = h - d /\ \A i \in 1 .. h - d : x[i] = v[d + i]
  <2>1. /\ x \in Seq(Byte) /\ Len(x) = (IF d + 1 <= h THEN h - (d + 1) + 1 ELSE 0)
        /\ \A i \in 1 .. h - (d + 1) + 1 : x[i] = v[(d + 1) + i - 1]
    <3>1. \A i \in d + 1 .. h : v[i] \in Byte
      BY <1>1, ElementOfSeq
    <3> QED BY <1>1, <3>1, SubSeqProperties
  <2> HIDE DEF x
  <2>2. ASSUME NEW i \in 1 .. h - d PROVE x[i] = v[d + i]
    <3>1. i \in 1 .. h - (d + 1) + 1 /\ (d + 1) + i - 1 = d + i
      BY <1>3
    <3> QED BY <2>1, <3>1
  <2> QED BY <1>3, <2>1, <2>2
<1>6. /\ y \in Seq(Byte) /\ Len(y) = (h + j) - d
      /\ \A i \in 1 .. (h + j) - d : y[i] = s[d + i]
  <2>1. /\ y \in Seq(Byte) /\ Len(y) = (IF d + 1 <= h + j THEN (h + j) - (d + 1) + 1 ELSE 0)
        /\ \A i \in 1 .. (h + j) - (d + 1) + 1 : y[i] = s[(d + 1) + i - 1]
    <3>1. \A i \in d + 1 .. h + j : s[i] \in Byte
      <4> TAKE i \in d + 1 .. h + j
      <4>1. i \in 1 .. Len(s)
        BY <1>3, <1>4
      <4> QED BY <1>4, <4>1, ElementOfSeq
    <3>2. d + 1 \in Int /\ h + j \in Int
      BY <1>3
    <3> QED BY <3>1, <3>2, SubSeqProperties
  <2> HIDE DEF y
  <2>2. ASSUME NEW i \in 1 .. (h + j) - d PROVE y[i] = s[d + i]
    <3>1. i \in 1 .. (h + j) - (d + 1) + 1 /\ (d + 1) + i - 1 = d + i
      BY <1>3
    <3> QED BY <2>1, <3>1
  <2> QED BY <1>3, <2>1, <2>2
<1> HIDE DEF x, y
<1>7. /\ z \in Seq(Byte) /\ Len(z) = (h - d) + j
      /\ \A i \in 1 .. (h - d) + j : z[i] = IF i <= h - d THEN x[i] ELSE w[i - (h - d)]
  <2>1. /\ z \in Seq(Byte) /\ Len(z) = Len(x) + Len(w)
        /\ \A i \in 1 .. Len(x) + Len(w) : z[i] = IF i <= Len(x) THEN x[i] ELSE w[i - Len(x)]
    BY <1>5, ConcatProperties
  <2> HIDE DEF z
  <2> QED BY <1>2, <1>5, <2>1
<1> HIDE DEF z
<1>8. Len(y) = (h - d) + j
  BY <1>3, <1>6
<1>9. ASSUME NEW i \in 1 .. (h - d) + j PROVE y[i] = z[i]
  <2>1. i \in 1 .. (h + j) - d /\ d + i \in 1 .. h + j
    BY <1>3
  <2>2. y[i] = IF d + i <= h THEN v[d + i] ELSE w[(d + i) - h]
    BY <1>4, <1>6, <2>1
  <2>3. CASE i <= h - d
    <3>1. d + i <= h /\ i \in 1 .. h - d
      BY <1>3, <2>3
    <3> QED BY <1>5, <1>7, <2>2, <2>3, <3>1
  <2>4. CASE ~ (i <= h - d)
    <3>1. ~ (d + i <= h) /\ (d + i) - h = i - (h - d)
      BY <1>3, <2>4
    <3> QED BY <1>7, <2>2, <2>4, <3>1
  <2> QED BY <2>3, <2>4
<1>10. y = z
  BY <1>6, <1>7, <1>8, <1>9, SeqEqual
<1> QED BY <1>1, <1>4, <1>5, <1>10 DEF s, x, y, z

-----------------------------------------------------------------------------
(* What is done with the front of a stream.                                *)

\* A line that does not end in a full buffer is no command.
LEMMA FrontIsRest ==
    ASSUME NEW v \in Seq(Byte), NEW w \in Seq(Byte), NEW q \in Seq(Text), NEW m, NEW b, NEW at,
           Consists(v \o w, q, m, b, at), Ends(v) = {}, Len(v) >= ArgLen + 2
    PROVE  Holds(w, q, at[0])
<1>0. ArgLen \in Nat /\ m \in Nat
  BY BoundsAssumption DEF Consists
<1>1. PICK h \in Nat : h = Len(v) /\ h >= ArgLen + 2
  BY LenProperties
<1>2. PICK j \in Nat : j = Len(w)
  BY LenProperties
<1> DEFINE s == v \o w
<1>3. s \in Seq(Byte) /\ Len(s) = h + j
      /\ \A i \in 1 .. h : s[i] = v[i]
  <2>1. /\ s \in Seq(Byte) /\ Len(s) = h + j
        /\ \A i \in 1 .. h + j : s[i] = IF i <= h THEN v[i] ELSE w[i - h]
    BY <1>1, <1>2, ConcatProperties
  <2> HIDE DEF s
  <2>2. ASSUME NEW i \in 1 .. h PROVE s[i] = v[i]
    <3>1. i \in 1 .. h + j /\ i <= h
      OBVIOUS
    <3> QED BY <2>1, <3>1
  <2> QED BY <2>1, <2>2
<1>4. \A i \in 1 .. h : v[i] \notin Ended
  <2>1. DOMAIN v = 1 .. h
    BY <1>1, LenProperties
  <2>2. ~ Contains(v, CR)
    BY <1>1, <2>1 DEF Ends, Contains
  <2>3. \A i \in 1 .. h : v[i] # CR
    BY <1>1, <2>2 DEF Contains
  <2>4. \A i \in 1 .. h : v[i] # LF
    BY <2>1, <2>2 DEF Ends
  <2> QED BY <2>3, <2>4 DEF Ended
<1>5. Consists(s, q, m, b, at)
  OBVIOUS
<1> HIDE DEF s
<1>6. b[0] = 0 /\ b[m] = h + j /\ b \in [0 .. m -> 0 .. h + j] /\ at \in [0 .. m -> 0 .. Len(q)]
  BY <1>3, <1>5 DEF Consists
<1>7. m # 0
  BY <1>0, <1>1, <1>6
<1>8. 1 \in 1 .. m /\ 1 \in 0 .. m /\ 0 \in 0 .. m /\ 0 < m /\ 1 - 1 = 0
  BY <1>0, <1>7
<1>9. \/ IsPiece(s, q, b[0], b[1], at[0], at[1])
      \/ IsLeftOver(s, 0, b[1])
  BY <1>5, <1>8 DEF Consists
<1>10. PICK t \in 0 .. h + j : t = b[1]
  BY <1>6, <1>8
<1>11. ~ IsLeftOver(s, 0, t)
  <2>1. 1 \in 1 .. h
    BY <1>0, <1>1
  <2>2. s[1] \notin Ended
    BY <1>3, <1>4, <2>1
  <2>3. IsLeftOver(s, 0, t) => s[1] = LF
    BY DEF IsLeftOver
  <2> QED BY <2>2, <2>3 DEF Ended
<1>12. IsPiece(s, q, 0, t, at[0], at[1])
  BY <1>6, <1>9, <1>10, <1>11
<1>13. 0 \in Nat /\ t \in Nat
  BY <1>10
<1>14. t >= 0 + 2 /\ s[t - 1] = CR /\ s[t] = LF
  BY <1>12, <1>13, PieceEnds
<1>15. t - 1 > h
  <2>1. s[t - 1] \in Ended
    BY <1>14 DEF Ended
  <2>2. t - 1 \notin 1 .. h
    BY <1>3, <1>4, <2>1
  <2> QED BY <1>13, <1>14, <2>2
<1>16. at[1] = at[0] /\ IsRest(s, 0, t)
  <2> SUFFICES ASSUME at[1] \in 1 .. Len(q), IsLine(s, 0, t, q[at[1]]) PROVE FALSE
    BY <1>12 DEF IsPiece
  <2>1. q[at[1]] \in Text
    BY ElementOfSeq
  <2>2. PICK l \in 1 .. ArgLen - 1 : Len(Line[q[at[1]]]) = l + 3
    BY <2>1, LineBytes
  <2>3. t - 0 = l + 3
    BY <2>2 DEF IsLine
  <2> QED BY <1>0, <1>1, <1>15, <2>3
<1>17. IsRest(s, h, t)
  <2>1. t - h >= 2
    BY <1>13, <1>15
  <2>2. ASSUME NEW i \in h + 1 .. t - 2 PROVE s[i] = Other
    <3>1. i \in 0 + 1 .. t - 2
      OBVIOUS
    <3> QED BY <1>16, <3>1 DEF IsRest
  <2> QED BY <1>14, <2>1, <2>2 DEF IsRest
<1>18. IsCut(s, m, b, at, 0, h, at[1])
  <2>1. b[0] < h /\ h < t /\ h \in 0 .. h + j
    BY <1>0, <1>1, <1>6, <1>13, <1>15
  <2>2. 0 < m /\ b[0] < h /\ h < b[0 + 1] /\ at[1] = at[0 + 1] /\ IsRest(s, h, b[0 + 1])
    BY <1>8, <1>10, <1>17, <2>1
  <2>3. 0 \in 0 .. m /\ h \in 0 .. Len(s)
    BY <1>3, <1>8, <2>1
  <2> QED BY <2>2, <2>3 DEF IsCut
<1>20. Holds(SubSeq(s, h + 1, Len(s)), q, at[1])
  BY <1>3, <1>5, <1>18, StreamCut
<1>21. SubSeq(s, h + 1, Len(s)) = w
  <2> DEFINE x == SubSeq(v, h + 1, Len(v))
  <2>1. h \in 0 .. Len(v)
    BY <1>1
  <2>2. SubSeq(s, h + 1, Len(s)) = x \o w /\ x \in Seq(Byte) /\ Len(x) = h - h
    BY <1>1, <2>1, CutFront DEF s
  <2> HIDE DEF x
  <2>3. Len(x) = 0
    BY <2>2
  <2>4. x = <<>>
    BY <2>2, <2>3, EmptySeq
  <2>5. << >> \o w = w
    BY ConcatEmptySeq
  <2> QED BY <2>2, <2>4, <2>5
<1> QED BY <1>16, <1>20, <1>21

\* The k-th piece is taken out with what is in front of it, when no CR is there and
\* its own is in the buffer.
LEMMA PieceOut ==
    ASSUME NEW v \in Seq(Byte), NEW w \in Seq(Byte), NEW q \in Seq(Text), NEW m, NEW b, NEW at,
           Consists(v \o w, q, m, b, at), Splits \/ v[Len(v)] # CR, NEW k \in 1 .. m,
           IsPiece(v \o w, q, b[k - 1], b[k], at[k - 1], at[k]),
           \A i \in 1 .. b[k - 1] : (v \o w)[i] # CR, b[k] - 1 <= Len(v)
    PROVE  /\ b[k] - 1 \in 1 .. Len(v) /\ Min(Ends(v)) = b[k] - 1
           /\ Skip(v, b[k] - 1) \in 1 .. Len(v)
           /\ Holds(SubSeq(v, Skip(v, b[k] - 1) + 1, Len(v)) \o w, q, at[k])
<1>0. m \in Nat
  BY DEF Consists
<1>1. PICK h \in Nat : h = Len(v)
  BY LenProperties
<1>2. PICK j \in Nat : j = Len(w)
  BY LenProperties
<1> DEFINE s == v \o w
<1>3. s \in Seq(Byte) /\ Len(s) = h + j /\ \A i \in 1 .. h : s[i] = v[i]
  <2>1. /\ s \in Seq(Byte) /\ Len(s) = h + j
        /\ \A i \in 1 .. h + j : s[i] = IF i <= h THEN v[i] ELSE w[i - h]
    BY <1>1, <1>2, ConcatProperties
  <2> HIDE DEF s
  <2>2. ASSUME NEW i \in 1 .. h PROVE s[i] = v[i]
    <3>1. i \in 1 .. h + j /\ i <= h
      OBVIOUS
    <3> QED BY <2>1, <3>1
  <2> QED BY <2>1, <2>2
<1>4. Consists(s, q, m, b, at) /\ IsPiece(s, q, b[k - 1], b[k], at[k - 1], at[k])
      /\ \A i \in 1 .. b[k - 1] : s[i] # CR
  OBVIOUS
<1> HIDE DEF s
<1>5. k \in 0 .. m /\ k - 1 \in 0 .. m /\ k - 1 < m /\ (k - 1) + 1 = k
  BY <1>0
<1>6. b \in [0 .. m -> 0 .. h + j]
  BY <1>3, <1>4 DEF Consists
<1>7. PICK f \in 0 .. h + j, t \in 0 .. h + j : f = b[k - 1] /\ t = b[k]
  BY <1>5, <1>6
<1>8. f \in Nat /\ t \in Nat
  BY <1>7
<1>9. IsPiece(s, q, f, t, at[k - 1], at[k])
  BY <1>4, <1>7
<1>10. t >= f + 2 /\ s[t - 1] = CR /\ s[t] = LF /\ \A i \in f + 1 .. t - 2 : s[i] \notin Ended
  BY <1>8, <1>9, PieceEnds
<1>11. t - 1 \in 1 .. h
  BY <1>1, <1>7, <1>8, <1>10
<1>12. Min(Ends(v)) = t - 1
  <2>1. v[t - 1] = CR
    BY <1>3, <1>10, <1>11
  <2>2. ASSUME NEW i \in 1 .. (t - 1) - 1 PROVE v[i] # CR
    <3>1. i \in 1 .. h
      BY <1>11
    <3>2. CASE i <= f
      <4>1. i \in 1 .. f
        BY <1>8, <3>2
      <4> QED BY <1>3, <1>4, <1>7, <3>1, <4>1
    <3>3. CASE ~ (i <= f)
      <4>1. i \in f + 1 .. t - 2
        BY <1>8, <3>3
      <4> QED BY <1>3, <1>10, <3>1, <4>1 DEF Ended
    <3> QED BY <3>2, <3>3
  <2>3. t - 1 \in 1 .. Len(v)
    BY <1>1, <1>11
  <2> DEFINE e == t - 1
  <2>4. e \in 1 .. Len(v) /\ v[e] = CR /\ \A i \in 1 .. e - 1 : v[i] # CR
    BY <2>1, <2>2, <2>3
  <2> HIDE DEF e
  <2>5. Min(Ends(v)) = e
    BY <2>4, EndsAt
  <2> QED BY <2>5 DEF e
<1> DEFINE d == IF t <= h THEN t ELSE h
<1>13. d \in 1 .. h /\ t - 1 <= d
  BY <1>11
<1>14. Skip(v, t - 1) = d
  <2>1. CASE t <= h
    <3>1. t - 1 \in 1 .. Len(v) /\ t \in t - 1 .. Len(v)
      BY <1>1, <1>11, <2>1
    <3>2. \A i \in t - 1 .. t : v[i] \in Ended
      <4> TAKE i \in t - 1 .. t
      <4>1. i = t - 1 \/ i = t
        BY <1>8
      <4>2. t - 1 \in 1 .. h /\ t \in 1 .. h
        BY <1>8, <1>11, <2>1
      <4> QED BY <1>3, <1>10, <4>1, <4>2 DEF Ended
    <3>3. t = Len(v) \/ v[t + 1] \notin Ended
      <4> SUFFICES ASSUME t # h PROVE v[t + 1] \notin Ended
        BY <1>1
      <4>1. t < h + j
        BY <2>1
      <4>2. k # m
        BY <1>3, <1>4, <1>7, <4>1 DEF Consists
      <4>3. k + 1 \in 1 .. m /\ k + 1 \in 2 .. m /\ k + 1 # 1 /\ (k + 1) - 1 = k /\ k + 1 \in 0 .. m
        BY <1>0, <4>2
      <4>4. PICK u \in 0 .. h + j : u = b[k + 1]
        BY <1>6, <4>3
      <4>5. u - t > 2
        BY <1>4, <1>7, <4>3, <4>4 DEF Consists
      <4>6. IsPiece(s, q, t, u, at[k], at[k + 1])
        BY <1>4, <1>7, <4>3, <4>4 DEF Consists
      <4>7. \A i \in t + 1 .. u - 2 : s[i] \notin Ended
        <5>1. u \in Nat
          BY <4>4
        <5> QED BY <1>8, <4>6, <5>1, PieceEnds
      <4>8. t + 1 \in t + 1 .. u - 2 /\ t + 1 \in 1 .. h
        BY <1>8, <2>1, <4>5
      <4> QED BY <1>3, <4>7, <4>8
    <3> DEFINE e == t - 1
    <3>4. e \in 1 .. Len(v) /\ t \in e .. Len(v) /\ \A i \in e .. t : v[i] \in Ended
      BY <3>1, <3>2
    <3> HIDE DEF e
    <3>5. Skip(v, e) = t
      BY <3>3, <3>4, SkipTo
    <3> QED BY <2>1, <3>5 DEF e
  <2>2. CASE ~ (t <= h)
    <3>1. t - 1 = h
      BY <1>8, <1>11, <2>2
    <3>2. h \in 1 .. Len(v) /\ h \in h .. Len(v) /\ h = Len(v)
      BY <1>1, <1>11
    <3>3. \A i \in h .. h : v[i] \in Ended
      <4>1. v[h] \in Ended
        BY <1>3, <1>10, <1>11, <3>1 DEF Ended
      <4> QED BY <4>1
    <3>4. Skip(v, h) = h
      BY <3>2, <3>3, SkipTo
    <3> QED BY <2>2, <3>1, <3>4
  <2> QED BY <2>1, <2>2
<1>15. \E i : IsCut(s, m, b, at, i, d, at[k])
  <2>1. d \in 0 .. Len(s)
    BY <1>3, <1>13
  <2>2. CASE t <= h
    <3>1. d = b[k]
      BY <1>7, <2>2
    <3> HIDE DEF d
    <3>2. IsCut(s, m, b, at, k, d, at[k])
      BY <1>5, <2>1, <3>1 DEF IsCut
    <3> QED BY <3>2
  <2>3. CASE ~ (t <= h)
    <3>1. t - 1 = h /\ d = h
      BY <1>8, <1>11, <2>3
    <3>2. v[Len(v)] = CR
      BY <1>1, <1>3, <1>10, <1>11, <3>1
    <3>3. Splits
      BY <3>2
    <3>4. t = h + 1 /\ f < h /\ h < t
      <4>1. t >= f + 2 /\ t - 1 = h
        BY <1>10, <3>1
      <4> HIDE DEF d
      <4> QED BY <1>8, <4>1
    <3>5. IsLeftOver(s, h, t)
      BY <1>10, <3>3, <3>4 DEF IsLeftOver
    <3> HIDE DEF d
    <3> DEFINE i == k - 1
    <3>6. i \in 0 .. m /\ i < m /\ b[i] < d /\ d < b[i + 1] /\ at[k] = at[i + 1]
          /\ IsLeftOver(s, d, b[i + 1])
      BY <1>5, <1>7, <3>1, <3>4, <3>5
    <3> HIDE DEF i
    <3>7. IsCut(s, m, b, at, i, d, at[k])
      BY <2>1, <3>6 DEF IsCut
    <3> QED BY <3>7
  <2> QED BY <2>2, <2>3
<1> HIDE DEF d
<1>16. Holds(SubSeq(s, d + 1, Len(s)), q, at[k])
  <2>1. PICK i : IsCut(s, m, b, at, i, d, at[k])
    BY <1>15
  <2> QED BY <1>3, <1>4, <2>1, StreamCut
<1>17. SubSeq(s, d + 1, Len(s)) = SubSeq(v, d + 1, Len(v)) \o w
  <2>1. d \in 0 .. Len(v)
    BY <1>1, <1>13
  <2> QED BY <2>1, CutFront DEF s
<1> QED BY <1>1, <1>7, <1>11, <1>12, <1>13, <1>14, <1>16, <1>17

\* What the front of a buffer is.
FirstOut(v, w, q, a, e, d) ==
    /\ e \in 1 .. Len(v) /\ d \in 1 .. Len(v)
    /\ \E z \in 0 .. Len(q) :
          /\ Holds(SubSeq(v, d + 1, Len(v)) \o w, q, z)
          /\ \/ ~ (e > 2 /\ v[1] = Name) /\ (Splits \/ z = a)
             \/ /\ e > 2 /\ v[1] = Name /\ z = a + 1 /\ z \in 1 .. Len(q)
                /\ SubSeq(v, 2, e - 1) = Encode(q[z], ArgLen)

\* A line that the end of which is found is no command, or it is the next one and
\* its argument is whole.
LEMMA FrontIsOut ==
    ASSUME NEW v \in Seq(Byte), NEW w \in Seq(Byte), NEW q \in Seq(Text), NEW m, NEW b, NEW at,
           Consists(v \o w, q, m, b, at), Ends(v) # {}, Splits \/ v[Len(v)] # CR
    PROVE  FirstOut(v, w, q, at[0], Min(Ends(v)), Skip(v, Min(Ends(v))))
<1>0. m \in Nat
  BY DEF Consists
<1>1. PICK h \in Nat : h = Len(v)
  BY LenProperties
<1>2. PICK j \in Nat : j = Len(w)
  BY LenProperties
<1> DEFINE s == v \o w
<1>3. s \in Seq(Byte) /\ Len(s) = h + j /\ \A i \in 1 .. h : s[i] = v[i]
  <2>1. /\ s \in Seq(Byte) /\ Len(s) = h + j
        /\ \A i \in 1 .. h + j : s[i] = IF i <= h THEN v[i] ELSE w[i - h]
    BY <1>1, <1>2, ConcatProperties
  <2> HIDE DEF s
  <2>2. ASSUME NEW i \in 1 .. h PROVE s[i] = v[i]
    <3>1. i \in 1 .. h + j /\ i <= h
      OBVIOUS
    <3> QED BY <2>1, <3>1
  <2> QED BY <2>1, <2>2
<1>4. Consists(s, q, m, b, at)
  OBVIOUS
<1> HIDE DEF s
<1>5. DOMAIN v = 1 .. h
  BY <1>1, LenProperties
<1>6. PICK l \in 1 .. h : v[l] \in Ended
  BY <1>5 DEF Ends, Ended
<1>7. /\ b \in [0 .. m -> 0 .. h + j] /\ at \in [0 .. m -> 0 .. Len(q)]
      /\ b[0] = 0 /\ b[m] = h + j
  BY <1>3, <1>4 DEF Consists
<1>8. m # 0
  BY <1>6, <1>7
<1>9. 1 \in 1 .. m /\ 1 \in 0 .. m /\ 0 \in 0 .. m /\ 1 - 1 = 0
  BY <1>0, <1>8
<1>10. \/ IsPiece(s, q, b[0], b[1], at[0], at[1])
       \/ at[1] = at[0] /\ IsLeftOver(s, 0, b[1])
  BY <1>4, <1>9 DEF Consists
<1>11. PICK t \in 0 .. h + j : t = b[1]
  BY <1>7, <1>9
<1>12. PICK z \in 0 .. Len(q) : z = at[1]
  BY <1>7, <1>9
<1> DEFINE e == Min(Ends(v))
           d == Skip(v, e)
\* The first line is a whole one.
<1>13. CASE IsPiece(s, q, 0, t, at[0], z)
  <2>1. 0 \in Nat /\ t \in Nat
    BY <1>11
  <2>2. t >= 0 + 2 /\ \A i \in 0 + 1 .. t - 2 : s[i] \notin Ended
    BY <1>13, <2>1, PieceEnds
  <2>3. t - 1 <= h
    <3> SUFFICES ASSUME t - 1 > h PROVE FALSE
      BY <2>1
    <3>1. l \in 0 + 1 .. t - 2
      BY <1>6, <2>1
    <3> QED BY <1>3, <1>6, <2>2, <3>1
  <2>4. \A i \in 1 .. 0 : s[i] # CR
    OBVIOUS
  <2>5. /\ b[1] - 1 \in 1 .. Len(v) /\ Min(Ends(v)) = b[1] - 1
        /\ Skip(v, b[1] - 1) \in 1 .. Len(v)
        /\ Holds(SubSeq(v, Skip(v, b[1] - 1) + 1, Len(v)) \o w, q, at[1])
    <3> DEFINE k == 1
    <3>1. /\ k \in 1 .. m /\ IsPiece(v \o w, q, b[k - 1], b[k], at[k - 1], at[k])
          /\ (\A i \in 1 .. b[k - 1] : (v \o w)[i] # CR) /\ b[k] - 1 <= Len(v)
      BY <1>1, <1>7, <1>9, <1>11, <1>12, <1>13, <2>3, <2>4 DEF s
    <3>2. Consists(v \o w, q, m, b, at)
      OBVIOUS
    <3> HIDE DEF k
    <3>3. /\ b[k] - 1 \in 1 .. Len(v) /\ Min(Ends(v)) = b[k] - 1
          /\ Skip(v, b[k] - 1) \in 1 .. Len(v)
          /\ Holds(SubSeq(v, Skip(v, b[k] - 1) + 1, Len(v)) \o w, q, at[k])
      BY <3>1, <3>2, PieceOut
    <3> QED BY <3>3 DEF k
  <2>6. /\ e = t - 1 /\ e \in 1 .. Len(v) /\ d \in 1 .. Len(v)
        /\ Holds(SubSeq(v, d + 1, Len(v)) \o w, q, z)
    BY <1>11, <1>12, <2>5
  <2> HIDE DEF e, d
  <2>7. CASE z = at[0] /\ IsRest(s, 0, t)
    <3>1. ~ (e > 2 /\ v[1] = Name)
      <4> SUFFICES ASSUME e > 2 PROVE v[1] = Other
        BY DEF Other, Name
      <4>1. 1 \in 0 + 1 .. t - 2 /\ 1 \in 1 .. h
        BY <1>1, <2>1, <2>6
      <4> QED BY <1>3, <2>7, <4>1 DEF IsRest
    <3>2. Splits \/ z = at[0]
      BY <2>7
    <3>3. FirstOut(v, w, q, at[0], e, d)
      BY <2>6, <3>1, <3>2 DEF FirstOut
    <3> QED BY <3>3 DEF e, d
  <2>8. CASE z = at[0] + 1 /\ z \in 1 .. Len(q) /\ IsLine(s, 0, t, q[z])
    <3>1. q[z] \in Text
      BY <2>8, ElementOfSeq
    <3> DEFINE str == Encode(q[z], ArgLen)
               x == Line[q[z]]
    <3>2. PICK c \in Nat : c = Len(str) /\ c >= 1
      BY <3>1, LineBytes
    <3>3. str \in Seq(Graph) /\ Len(x) = c + 3 /\ x[1] = Name
          /\ \A i \in 1 .. c : x[i + 1] = str[i]
      BY <3>1, <3>2, LineBytes
    <3>4. t - 0 = Len(x) /\ \A i \in 1 .. t - 0 : s[0 + i] = x[i]
      BY <2>8 DEF IsLine
    <3> HIDE DEF x
    <3>5. t = c + 3 /\ \A i \in 1 .. c + 3 : s[i] = x[i]
      BY <2>1, <3>3, <3>4
    <3>6. e = c + 2 /\ c + 2 \in 1 .. h
      BY <1>1, <2>6, <3>5
    <3>7. v[1] = Name
      <4>1. 1 \in 1 .. c + 3 /\ 1 \in 1 .. h
        BY <3>6
      <4> QED BY <1>3, <3>3, <3>5, <4>1
    <3>8. \A i \in 1 .. c : v[i + 1] = str[i]
      <4> TAKE i \in 1 .. c
      <4>1. i + 1 \in 1 .. c + 3 /\ i + 1 \in 1 .. h
        BY <3>6
      <4> QED BY <1>3, <3>3, <3>5, <4>1
    <3> HIDE DEF str
    <3>9. SubSeq(v, 2, e - 1) = str
      <4> DEFINE y == SubSeq(v, 2, c + 1)
      <4>1. \A i \in 2 .. c + 1 : v[i] \in Byte
        <5> TAKE i \in 2 .. c + 1
        <5>1. i \in 1 .. Len(v)
          BY <1>1, <3>6
        <5> QED BY <5>1, ElementOfSeq
      <4>2. 2 \in Int /\ c + 1 \in Int
        OBVIOUS
      <4>3. /\ y \in Seq(Byte) /\ Len(y) = (IF 2 <= c + 1 THEN (c + 1) - 2 + 1 ELSE 0)
            /\ \A i \in 1 .. (c + 1) - 2 + 1 : y[i] = v[2 + i - 1]
        BY <4>1, <4>2, SubSeqProperties
      <4> HIDE DEF y
      <4>4. Len(y) = c
        BY <3>2, <4>3
      <4>5. ASSUME NEW i \in 1 .. c PROVE y[i] = str[i]
        <5>1. i \in 1 .. (c + 1) - 2 + 1 /\ 2 + i - 1 = i + 1
          OBVIOUS
        <5> QED BY <3>8, <4>3, <5>1
      <4>6. str \in Seq(Byte)
        <5>1. Graph \subseteq Byte
          BY DEF Graph, Byte
        <5> QED BY <3>3, <5>1, SeqMonotonic
      <4>7. y = str
        BY <3>2, <4>3, <4>4, <4>5, <4>6, SeqEqual
      <4>8. e - 1 = c + 1
        BY <3>6
      <4> QED BY <4>7, <4>8 DEF y
    <3>10. e > 2
      BY <3>2, <3>6
    <3>11. SubSeq(v, 2, e - 1) = Encode(q[z], ArgLen)
      BY <3>9 DEF str
    <3>12. z = at[0] + 1 /\ z \in 1 .. Len(q)
      BY <2>8
    <3>13. FirstOut(v, w, q, at[0], e, d)
      BY <2>6, <3>7, <3>10, <3>11, <3>12 DEF FirstOut
    <3> QED BY <3>13 DEF e, d
  <2> QED BY <1>13, <2>7, <2>8 DEF IsPiece, e, d
\* It begins with what was left of another terminator.
<1>14. CASE z = at[0] /\ IsLeftOver(s, 0, t)
  <2>1. Splits /\ t = 1 /\ s[1] = LF
    BY <1>14 DEF IsLeftOver
  <2>2. 1 \in 1 .. h
    BY <1>6
  <2>3. v[1] = LF
    BY <1>3, <2>1, <2>2
  <2>4. v[1] # Name /\ v[1] # CR
    BY <2>3 DEF Name, LF, CR
  <2>5. CASE ~ Contains(v, CR)
    <3> DEFINE S == {i \in DOMAIN v : v[i] = LF}
    <3>1. Ends(v) = S
      BY <2>5 DEF Ends
    <3>2. S \in SUBSET Nat /\ 1 \in S /\ \A i \in S : i \in 1 .. h
      BY <1>5, <2>2, <2>3
    <3> HIDE DEF S
    <3>3. e = 1
      <4>1. Min(S) \in S /\ Min(S) <= 1
        BY <3>2, MinIsIn
      <4>2. Min(S) \in 1 .. h
        BY <3>2, <4>1
      <4>3. Min(S) = 1
        BY <4>1, <4>2
      <4> QED BY <3>1, <4>3
    <3>4. Skip(v, 1) = 1
      <4>1. 1 \in 1 .. Len(v) /\ 1 \in 1 .. Len(v)
        BY <1>1, <2>2
      <4>2. \A i \in 1 .. 1 : v[i] \in Ended
        BY <2>3 DEF Ended
      <4>3. 1 = Len(v) \/ v[1 + 1] \notin Ended
        <5> SUFFICES ASSUME h # 1 PROVE v[2] \notin Ended
          BY <1>1
        <5>1. h + j # t
          BY <2>1, <2>2
        <5>2. m # 1
          BY <1>7, <1>11, <5>1
        <5>3. 2 \in 1 .. m /\ 2 \in 2 .. m /\ 2 # 1 /\ 2 - 1 = 1 /\ 2 \in 0 .. m
          BY <1>0, <1>8, <5>2
        <5>4. PICK u \in 0 .. h + j : u = b[2]
          BY <1>7, <5>3
        <5>5. u - t > 2
          BY <1>4, <1>11, <5>3, <5>4 DEF Consists
        <5>6. IsPiece(s, q, t, u, at[1], at[2])
          BY <1>4, <1>11, <5>3, <5>4 DEF Consists
        <5>7. \A i \in t + 1 .. u - 2 : s[i] \notin Ended
          <6>1. u \in Nat /\ t \in Nat
            BY <1>11, <5>4
          <6> QED BY <5>6, <6>1, PieceEnds
        <5>8. 2 \in t + 1 .. u - 2 /\ 2 \in 1 .. h
          BY <2>1, <2>2, <5>4, <5>5
        <5> QED BY <1>3, <5>7, <5>8
      <4> QED BY <4>1, <4>2, <4>3, SkipTo
    <3>5. IsCut(s, m, b, at, 1, 1, z)
      <4>1. 1 \in 0 .. Len(s)
        BY <1>3, <2>2
      <4> QED BY <1>9, <1>11, <1>12, <2>1, <4>1 DEF IsCut
    <3>6. Holds(SubSeq(s, 1 + 1, Len(s)), q, z)
      BY <1>3, <1>4, <3>5, StreamCut
    <3>7. SubSeq(s, 1 + 1, Len(s)) = SubSeq(v, 1 + 1, Len(v)) \o w
      <4>1. 1 \in 0 .. Len(v)
        BY <1>1, <2>2
      <4> QED BY <4>1, CutFront DEF s
    <3>8. e = 1 /\ d = 1 /\ 1 \in 1 .. Len(v) /\ ~ (1 > 2)
      BY <1>1, <2>2, <3>3, <3>4
    <3> HIDE DEF e, d
    <3>9. FirstOut(v, w, q, at[0], e, d)
      BY <2>1, <3>6, <3>7, <3>8 DEF FirstOut
    <3> QED BY <3>9 DEF e, d
  <2>6. CASE Contains(v, CR)
    <3>1. PICK c \in 1 .. h : v[c] = CR
      BY <1>1, <2>6 DEF Contains
    <3>2. c # 1 /\ h # 1
      BY <2>4, <3>1
    <3>3. m # 1
      <4>1. h + j # t
        BY <2>1, <2>2, <3>2
      <4> QED BY <1>7, <1>11, <4>1
    <3>4. 2 \in 1 .. m /\ 2 \in 2 .. m /\ 2 # 1 /\ 2 - 1 = 1 /\ 2 \in 0 .. m
      BY <1>0, <1>8, <3>3
    <3>5. PICK u \in 0 .. h + j : u = b[2]
      BY <1>7, <3>4
    <3>6. IsPiece(s, q, b[2 - 1], b[2], at[2 - 1], at[2])
      BY <1>4, <3>4 DEF Consists
    <3>7. IsPiece(s, q, t, u, at[1], at[2])
      BY <1>11, <3>4, <3>5, <3>6
    <3>8. u - 1 <= h
      <4> SUFFICES ASSUME u - 1 > h PROVE FALSE
        BY <3>5
      <4>1. u \in Nat /\ t \in Nat
        BY <1>11, <3>5
      <4>2. \A i \in t + 1 .. u - 2 : s[i] \notin Ended
        BY <3>7, <4>1, PieceEnds
      <4>3. c \in t + 1 .. u - 2
        BY <2>1, <3>1, <3>2, <4>1
      <4> QED BY <1>3, <3>1, <4>2, <4>3 DEF Ended
    <3>9. \A i \in 1 .. b[2 - 1] : s[i] # CR
      <4>1. \A i \in 1 .. 1 : s[i] # CR
        BY <2>1 DEF CR, LF
      <4> QED BY <1>11, <2>1, <3>4, <4>1
    <3>10. /\ b[2] - 1 \in 1 .. Len(v) /\ Min(Ends(v)) = b[2] - 1
           /\ Skip(v, b[2] - 1) \in 1 .. Len(v)
           /\ Holds(SubSeq(v, Skip(v, b[2] - 1) + 1, Len(v)) \o w, q, at[2])
      <4> DEFINE k == 2
      <4>1. /\ k \in 1 .. m /\ IsPiece(v \o w, q, b[k - 1], b[k], at[k - 1], at[k])
            /\ (\A i \in 1 .. b[k - 1] : (v \o w)[i] # CR) /\ b[k] - 1 <= Len(v)
        BY <1>1, <3>4, <3>5, <3>6, <3>8, <3>9 DEF s
      <4>2. Consists(v \o w, q, m, b, at)
        OBVIOUS
      <4> HIDE DEF k
      <4>3. /\ b[k] - 1 \in 1 .. Len(v) /\ Min(Ends(v)) = b[k] - 1
            /\ Skip(v, b[k] - 1) \in 1 .. Len(v)
            /\ Holds(SubSeq(v, Skip(v, b[k] - 1) + 1, Len(v)) \o w, q, at[k])
        BY <4>1, <4>2, PieceOut
      <4> QED BY <4>3 DEF k
    <3>11. /\ e \in 1 .. Len(v) /\ d \in 1 .. Len(v) /\ at[2] \in 0 .. Len(q)
           /\ Holds(SubSeq(v, d + 1, Len(v)) \o w, q, at[2])
      BY <1>7, <3>4, <3>10
    <3> HIDE DEF e, d
    <3>12. FirstOut(v, w, q, at[0], e, d)
      BY <2>1, <2>4, <3>11 DEF FirstOut
    <3> QED BY <3>12 DEF e, d
  <2> QED BY <2>5, <2>6
<1> QED BY <1>7, <1>10, <1>11, <1>12, <1>13, <1>14

\* A piece is read.
LEMMA PieceRead ==
    ASSUME NEW v \in Seq(Byte), NEW w \in Seq(Byte), NEW n \in 1 .. Len(w)
    PROVE  LET x == v \o SubSeq(w, 1, n)
               y == SubSeq(w, n + 1, Len(w))
           IN  /\ x \in Seq(Byte) /\ y \in Seq(Byte) /\ x \o y = v \o w
               /\ Len(x) = Len(v) + n /\ x[Len(x)] = w[n]
<1>1. PICK h \in Nat : h = Len(v)
  BY LenProperties
<1>2. PICK j \in Nat : j = Len(w)
  BY LenProperties
<1>3. n \in 1 .. j
  BY <1>2
<1> DEFINE p == SubSeq(w, 1, n)
           x == v \o p
           y == SubSeq(w, n + 1, j)
           z == x \o y
           s == v \o w
<1>4. p \in Seq(Byte) /\ Len(p) = n /\ \A i \in 1 .. n : p[i] = w[i]
  <2>1. \A i \in 1 .. n : w[i] \in Byte
    <3> TAKE i \in 1 .. n
    <3>1. i \in 1 .. Len(w)
      BY <1>2, <1>3
    <3> QED BY <3>1, ElementOfSeq
  <2>2. /\ p \in Seq(Byte) /\ Len(p) = (IF 1 <= n THEN n - 1 + 1 ELSE 0)
        /\ \A i \in 1 .. n - 1 + 1 : p[i] = w[1 + i - 1]
    BY <1>3, <2>1, SubSeqProperties
  <2> HIDE DEF p
  <2>3. ASSUME NEW i \in 1 .. n PROVE p[i] = w[i]
    <3>1. i \in 1 .. n - 1 + 1 /\ 1 + i - 1 = i
      BY <1>3
    <3> QED BY <2>2, <3>1
  <2> QED BY <1>3, <2>2, <2>3
<1>5. y \in Seq(Byte) /\ Len(y) = j - n /\ \A i \in 1 .. j - n : y[i] = w[n + i]
  <2>1. n \in 0 .. Len(w)
    BY <1>2, <1>3
  <2>2. /\ SubSeq(w, n + 1, Len(w)) \in Seq(Byte)
        /\ Len(SubSeq(w, n + 1, Len(w))) = Len(w) - n
        /\ \A i \in 1 .. Len(w) - n : SubSeq(w, n + 1, Len(w))[i] = w[n + i]
    BY <2>1, CutFront
  <2> QED BY <1>2, <2>2
<1> HIDE DEF p, y
<1>6. /\ x \in Seq(Byte) /\ Len(x) = h + n
      /\ \A i \in 1 .. h + n : x[i] = IF i <= h THEN v[i] ELSE p[i - h]
  <2>1. /\ x \in Seq(Byte) /\ Len(x) = Len(v) + Len(p)
        /\ \A i \in 1 .. Len(v) + Len(p) : x[i] = IF i <= Len(v) THEN v[i] ELSE p[i - Len(v)]
    BY <1>4, ConcatProperties
  <2> HIDE DEF x
  <2> QED BY <1>1, <1>4, <2>1
<1> HIDE DEF x
<1>7. /\ z \in Seq(Byte) /\ Len(z) = (h + n) + (j - n)
      /\ \A i \in 1 .. (h + n) + (j - n) : z[i] = IF i <= h + n THEN x[i] ELSE y[i - (h + n)]
  <2>1. /\ z \in Seq(Byte) /\ Len(z) = Len(x) + Len(y)
        /\ \A i \in 1 .. Len(x) + Len(y) : z[i] = IF i <= Len(x) THEN x[i] ELSE y[i - Len(x)]
    BY <1>5, <1>6, ConcatProperties
  <2> HIDE DEF z
  <2> QED BY <1>5, <1>6, <2>1
<1>8. /\ s \in Seq(Byte) /\ Len(s) = h + j
      /\ \A i \in 1 .. h + j : s[i] = IF i <= h THEN v[i] ELSE w[i - h]
  BY <1>1, <1>2, ConcatProperties
<1> HIDE DEF z, s
<1>9. (h + n) + (j - n) = h + j
  BY <1>3
<1>10. ASSUME NEW i \in 1 .. h + j PROVE z[i] = s[i]
  <2>1. CASE i <= h
    <3>1. i <= h + n /\ i \in 1 .. h + n
      BY <1>3, <2>1
    <3> QED BY <1>6, <1>7, <1>8, <1>9, <2>1, <3>1
  <2>2. CASE ~ (i <= h) /\ i <= h + n
    <3>1. i \in 1 .. h + n /\ i - h \in 1 .. n
      BY <1>3, <2>2
    <3> QED BY <1>4, <1>6, <1>7, <1>8, <1>9, <2>2, <3>1
  <2>3. CASE ~ (i <= h + n)
    <3>1. i - (h + n) \in 1 .. j - n /\ n + (i - (h + n)) = i - h /\ ~ (i <= h)
      BY <1>3, <2>3
    <3> QED BY <1>5, <1>7, <1>8, <1>9, <2>3, <3>1
  <2> QED BY <2>1, <2>2, <2>3
<1>11. z = s
  BY <1>7, <1>8, <1>9, <1>10, SeqEqual
<1>12. x[h + n] = w[n]
  <2>1. h + n \in 1 .. h + n /\ ~ (h + n <= h) /\ (h + n) - h = n
    BY <1>3
  <2> QED BY <1>3, <1>4, <1>6, <2>1
<1> QED BY <1>1, <1>2, <1>5, <1>6, <1>11, <1>12 DEF p, x, y, z, s

-----------------------------------------------------------------------------
(* The stream.                                                             *)

\* The texts as they may arrive.
Arrived == Range(Received)

LEMMA ReceivedText ==
    ASSUME NEW c \in Text
    PROVE  /\ Received[c] \in Arrived
           /\ Received[c] \in Seq(Byte) /\ IsPrefix(Received[c], Legible(c))
           /\ 3 * Len(c) < ArgLen => Received[c] = Legible(c)
<1>1. c \in Seq(Byte) /\ ArgLen \in Nat \ {0}
  BY BoundsAssumption
<1>2. Received[c] = Decode(Encode(c, ArgLen), ArgLen)
  BY DEF Received
<1>3. Survives(c, 0, ArgLen - 1, Received[c])
  BY <1>1, <1>2, CodingRestores
<1>4. Received[c] \in Arrived
  <2>1. DOMAIN Received = Text
    BY DEF Received
  <2> QED BY <2>1 DEF Arrived, Range
<1> QED BY <1>1, <1>3, <1>4, SurvivorIsLegible

LEMMA ArrivedIsText == /\ Arrived \subseteq Seq(Byte)
                       /\ \A x \in Arrived : \E c \in Text : x = Received[c]
<1>1. DOMAIN Received = Text
  BY DEF Received
<1>2. \A x \in Arrived : \E c \in Text : x = Received[c]
  BY <1>1 DEF Arrived, Range
<1> QED BY <1>2, ReceivedText

\* Without a read between CR and LF every text that came is the next one.
Whole ==
    /\ Len(got) <= Len(sent)
    /\ \A k \in 1 .. Len(got) : got[k] = Received[sent[k]]
    /\ buf = <<>> \/ buf[Len(buf)] # CR

Typed ==
    /\ sent \in Seq(Text)
    /\ overlong \in 0 .. MaxOverlong
    /\ wire \in Seq(Byte)
    /\ buf \in Seq(Byte)
    /\ Len(buf) < BufLen
    /\ got \in Seq(Arrived)

\* What is in the buffer and on the wire are the lines of the texts to come.
Streaming ==
    /\ Typed
    /\ \E a : Holds(buf \o wire, sent, a) /\ (Splits \/ a = Len(got))
    /\ Splits \/ Whole

LEMMA InitStreaming == Init => Streaming
<1> SUFFICES ASSUME Init PROVE Streaming
  OBVIOUS
<1>1. sent = <<>> /\ overlong = 0 /\ wire = <<>> /\ buf = <<>> /\ got = <<>>
  BY DEF Init
<1>2. BufLen \in Nat /\ 0 < BufLen /\ MaxOverlong \in Nat
  BY BoundsAssumption
<1>3. <<>> \in Seq(Byte) /\ <<>> \in Seq(Text) /\ <<>> \in Seq(Arrived) /\ Len(<<>>) = 0
  BY EmptySeq
<1>4. Typed
  BY <1>1, <1>2, <1>3 DEF Typed
<1>5. buf \o wire = <<>>
  BY <1>1, <1>3, ConcatEmptySeq
<1> DEFINE z == [i \in 0 .. 0 |-> 0]
<1>6. z \in [0 .. 0 -> 0 .. 0] /\ z[0] = 0
  OBVIOUS
<1> HIDE DEF z
<1>7. Consists(<<>>, <<>>, 0, z, z)
  <2>1. \A i, h \in 0 .. 0 : ~ (i < h)
    OBVIOUS
  <2>2. 1 .. 0 = {} /\ 2 .. 0 = {}
    OBVIOUS
  <2> QED BY <1>3, <1>6, <2>1, <2>2 DEF Consists
<1>8. Holds(<<>>, <<>>, 0)
  BY <1>6, <1>7 DEF Holds
<1>9. Whole
  BY <1>1, <1>3 DEF Whole
<1> QED BY <1>1, <1>3, <1>4, <1>5, <1>8, <1>9 DEF Streaming

LEMMA BytesAssociate ==
    ASSUME NEW v \in Seq(Byte), NEW w \in Seq(Byte), NEW x \in Seq(Byte)
    PROVE  (v \o w) \o x = v \o (w \o x)
BY ConcatAssociative

\* Bytes are appended to the wire.
LEMMA WireGrows ==
    ASSUME Streaming, NEW w \in Seq(Byte), Len(w) > 2, wire' = wire \o w,
           sent' \in Seq(Text), overlong' \in 0 .. MaxOverlong, UNCHANGED <<buf, got>>,
           \/ sent' = sent /\ IsRest(w, 0, Len(w))
           \/ \E c \in Text : sent' = Append(sent, c) /\ w = Line[c]
    PROVE  Streaming'
<1>1. Typed
  BY DEF Streaming
<1>2. PICK a : Holds(buf \o wire, sent, a) /\ (Splits \/ a = Len(got))
  BY DEF Streaming
<1>3. PICK m, b, at : Consists(buf \o wire, sent, m, b, at) /\ at[0] = a
  BY <1>2 DEF Holds
<1>4. buf \o wire \in Seq(Byte) /\ wire \o w \in Seq(Byte)
  BY <1>1, ConcatProperties DEF Typed
<1>5. Holds((buf \o wire) \o w, sent', a)
  <2> DEFINE s == buf \o wire
             p == sent'
  <2>1. /\ s \in Seq(Byte) /\ p \in Seq(Text) /\ sent \in Seq(Text)
        /\ Consists(s, sent, m, b, at)
        /\ \/ p = sent /\ IsRest(w, 0, Len(w))
           \/ \E c \in Text : p = Append(sent, c) /\ w = Line[c]
    BY <1>1, <1>3, <1>4 DEF Typed
  <2> HIDE DEF s, p
  <2>2. Holds(s \o w, p, at[0])
    BY <2>1, StreamGrows
  <2> QED BY <1>3, <2>2 DEF s, p
<1>6. (buf \o wire) \o w = buf' \o wire'
  <2>1. buf \in Seq(Byte) /\ wire \in Seq(Byte) /\ w \in Seq(Byte)
    BY <1>1 DEF Typed
  <2>2. (buf \o wire) \o w = buf \o (wire \o w)
    BY <2>1, BytesAssociate
  <2> QED BY <2>2
<1>7. Typed'
  BY <1>1, <1>4 DEF Typed
<1>8. Splits \/ Whole'
  <2> SUFFICES ASSUME ~ Splits PROVE Whole'
    OBVIOUS
  <2>1. Whole
    BY DEF Streaming
  <2>2. PICK x \in Nat : x = Len(sent)
    BY <1>1, LenProperties DEF Typed
  <2>3. PICK g \in Nat : g = Len(got)
    BY <1>1, LenProperties DEF Typed
  <2>4. x <= Len(sent') /\ \A k \in 1 .. x : sent'[k] = sent[k]
    <3>1. CASE sent' = sent
      BY <2>2, <3>1
    <3>2. ASSUME NEW c \in Text, sent' = Append(sent, c)
          PROVE  x <= Len(sent') /\ \A k \in 1 .. x : sent'[k] = sent[k]
      <4>1. Len(sent') = x + 1 /\ \A k \in 1 .. x : sent'[k] = sent[k]
        BY <1>1, <2>2, <3>2, AppendProperties DEF Typed
      <4> QED BY <4>1
    <3> QED BY <3>1, <3>2
  <2>5. g <= x /\ \A k \in 1 .. g : got[k] = Received[sent[k]]
    BY <2>1, <2>2, <2>3 DEF Whole
  <2>6. g <= Len(sent')
    <3>1. PICK y \in Nat : y = Len(sent')
      BY LenProperties
    <3> QED BY <2>4, <2>5, <3>1
  <2>7. \A k \in 1 .. g : got[k] = Received[sent'[k]]
    <3> TAKE k \in 1 .. g
    <3>1. k \in 1 .. x
      BY <2>5
    <3> QED BY <2>4, <2>5, <3>1
  <2> QED BY <2>1, <2>3, <2>6, <2>7 DEF Whole
<1> QED BY <1>2, <1>5, <1>6, <1>7, <1>8 DEF Streaming

LEMMA SendStreaming ==
    ASSUME Streaming, NEW c \in Text, Send(c)
    PROVE  Streaming'
<1>1. sent \in Seq(Text) /\ overlong \in 0 .. MaxOverlong
  BY DEF Streaming, Typed
<1>2. sent' = Append(sent, c) /\ wire' = wire \o Line[c] /\ UNCHANGED <<overlong, buf, got>>
  BY DEF Send
<1>3. sent' \in Seq(Text)
  BY <1>1, <1>2, AppendProperties
<1>4. PICK k \in Nat : k = Len(Encode(c, ArgLen)) /\ k >= 1
  BY LineBytes
<1>5. Line[c] \in Seq(Byte) /\ Len(Line[c]) = k + 3
  BY <1>4, LineBytes
<1>6. Len(Line[c]) > 2
  BY <1>5
<1> DEFINE w == Line[c]
<1>7. w \in Seq(Byte) /\ Len(w) > 2 /\ wire' = wire \o w
      /\ \E d \in Text : sent' = Append(sent, d) /\ w = Line[d]
  BY <1>2, <1>5, <1>6
<1> HIDE DEF w
<1> QED BY <1>1, <1>2, <1>3, <1>7, WireGrows

LEMMA OverlongStreaming ==
    ASSUME Streaming, SendOverlong
    PROVE  Streaming'
<1>1. sent \in Seq(Text) /\ overlong \in 0 .. MaxOverlong
  BY DEF Streaming, Typed
<1>2. PICK n \in BufLen - 1 .. BufLen :
         wire' = wire \o [j \in 1 .. n |-> Other] \o <<CR, LF>>
  BY DEF SendOverlong
<1>3. UNCHANGED <<sent, buf, got>> /\ overlong' \in 0 .. MaxOverlong
  <2>1. MaxOverlong \in Nat
    BY BoundsAssumption
  <2> QED BY <1>1, <2>1 DEF SendOverlong
<1>4. n \in Nat /\ n > 0
  BY <1>2, BoundsAssumption
<1> DEFINE x == [j \in 1 .. n |-> Other]
           y == <<CR, LF>>
           w == x \o y
<1>5. Other \in Byte /\ CR \in Byte /\ LF \in Byte
  BY DEF Other, CR, LF, Byte
<1>6. x \in Seq(Byte) /\ Len(x) = n /\ \A j \in 1 .. n : x[j] = Other
  <2>1. x \in [1 .. n -> Byte]
    BY <1>5
  <2> QED BY <1>4, <2>1, SeqDef, LenProperties
<1>7. y \in Seq(Byte) /\ Len(y) = 2 /\ y[1] = CR /\ y[2] = LF
  BY <1>5
<1>8. wire \in Seq(Byte) /\ wire' = (wire \o x) \o y
  BY <1>2 DEF Streaming, Typed
<1> HIDE DEF x, y
<1>9. /\ w \in Seq(Byte) /\ Len(w) = n + 2
      /\ \A i \in 1 .. n + 2 : w[i] = IF i <= n THEN x[i] ELSE y[i - n]
  <2>1. /\ w \in Seq(Byte) /\ Len(w) = Len(x) + Len(y)
        /\ \A i \in 1 .. Len(x) + Len(y) : w[i] = IF i <= Len(x) THEN x[i] ELSE y[i - Len(x)]
    BY <1>6, <1>7, ConcatProperties
  <2> HIDE DEF w
  <2> QED BY <1>6, <1>7, <2>1
<1>10. wire' = wire \o w
  BY <1>6, <1>7, <1>8, ConcatAssociative
<1> HIDE DEF w
<1>11. IsRest(w, 0, n + 2)
  <2>1. w[(n + 2) - 1] = CR /\ w[n + 2] = LF
    <3>1. /\ (n + 2) - 1 \in 1 .. n + 2 /\ ~ ((n + 2) - 1 <= n) /\ ((n + 2) - 1) - n = 1
          /\ n + 2 \in 1 .. n + 2 /\ ~ (n + 2 <= n) /\ (n + 2) - n = 2
      BY <1>4
    <3> QED BY <1>7, <1>9, <3>1
  <2>2. ASSUME NEW i \in 0 + 1 .. (n + 2) - 2 PROVE w[i] = Other
    <3>1. i \in 1 .. n + 2 /\ i <= n /\ i \in 1 .. n
      BY <1>4
    <3> QED BY <1>6, <1>9, <3>1
  <2>3. (n + 2) - 0 >= 2
    BY <1>4
  <2> QED BY <2>1, <2>2, <2>3 DEF IsRest
<1>12. Len(w) > 2 /\ IsRest(w, 0, Len(w))
  BY <1>4, <1>9, <1>11
<1>13. sent' \in Seq(Text) /\ sent' = sent
  BY <1>1, <1>3
<1> QED BY <1>3, <1>9, <1>10, <1>12, <1>13, WireGrows

LEMMA RecvStreaming ==
    ASSUME Streaming, Recv
    PROVE  Streaming'
<1>1. Typed
  BY DEF Streaming
<1>2. PICK n \in 1 .. Len(wire) :
         /\ n <= BufLen - 1 - Len(buf)
         /\ wire[n] # CR \/ Splits
         /\ buf' = buf \o SubSeq(wire, 1, n)
         /\ wire' = SubSeq(wire, n + 1, Len(wire))
  BY DEF Recv
<1>3. UNCHANGED <<sent, overlong, got>>
  BY DEF Recv
<1>4. /\ buf' \in Seq(Byte) /\ wire' \in Seq(Byte) /\ buf' \o wire' = buf \o wire
      /\ Len(buf') = Len(buf) + n /\ buf'[Len(buf')] = wire[n]
  BY <1>1, <1>2, PieceRead DEF Typed
<1>5. Typed'
  <2>1. PICK h \in Nat : h = Len(buf)
    BY <1>1, LenProperties DEF Typed
  <2>2. PICK j \in Nat : j = Len(wire)
    BY <1>1, LenProperties DEF Typed
  <2>3. BufLen \in Nat /\ n \in 1 .. j
    BY <2>2, BoundsAssumption
  <2>4. Len(buf') < BufLen
    BY <1>2, <1>4, <2>1, <2>3
  <2> QED BY <1>1, <1>3, <1>4, <2>4 DEF Typed
<1>6. Splits \/ Whole'
  <2> SUFFICES ASSUME ~ Splits PROVE Whole'
    OBVIOUS
  <2>1. Whole
    BY DEF Streaming
  <2>2. buf'[Len(buf')] # CR
    BY <1>2, <1>4
  <2> QED BY <1>3, <2>1, <2>2 DEF Whole
<1> QED BY <1>3, <1>4, <1>5, <1>6 DEF Streaming

LEMMA OverflowStreaming ==
    ASSUME Streaming, Overflow
    PROVE  Streaming'
<1>1. Typed
  BY DEF Streaming
<1>2. PICK a : Holds(buf \o wire, sent, a) /\ (Splits \/ a = Len(got))
  BY DEF Streaming
<1>3. PICK m, b, at : Consists(buf \o wire, sent, m, b, at) /\ at[0] = a
  BY <1>2 DEF Holds
<1>4. Ends(buf) = {} /\ buf' = <<>> /\ UNCHANGED <<sent, overlong, wire, got>>
  BY DEF Overflow
<1>5. Len(buf) >= ArgLen + 2
  <2>1. PICK h \in Nat : h = Len(buf)
    BY <1>1, LenProperties DEF Typed
  <2> QED BY <2>1, BoundsAssumption DEF Overflow
<1>6. Holds(wire, sent, a)
  BY <1>1, <1>3, <1>4, <1>5, FrontIsRest DEF Typed
<1>7. buf' \o wire' = wire /\ buf' \in Seq(Byte) /\ Len(buf') = 0
  BY <1>1, <1>4, ConcatEmptySeq, EmptySeq DEF Typed
<1>8. Typed'
  BY <1>1, <1>4, <1>7, BoundsAssumption DEF Typed
<1>9. Splits \/ Whole'
  BY <1>4 DEF Streaming, Whole
<1> QED BY <1>2, <1>4, <1>6, <1>7, <1>8, <1>9 DEF Streaming

\* A line is taken out: with a command the next text comes.
Comes ==
    \/ got' = got
    \/ /\ Len(got) < Len(sent)
       /\ got' = Append(got, Received[sent[Len(got) + 1]])

LEMMA ExtractStreaming ==
    ASSUME Streaming, Extract
    PROVE  Streaming' /\ (Splits \/ Comes)
<1>1. Typed
  BY DEF Streaming
<1>2. PICK a : Holds(buf \o wire, sent, a) /\ (Splits \/ a = Len(got))
  BY DEF Streaming
<1>3. PICK m, b, at : Consists(buf \o wire, sent, m, b, at) /\ at[0] = a
  BY <1>2 DEF Holds
<1> DEFINE e == Min(Ends(buf))
           d == Skip(buf, e)
           text == Decode(SubSeq(buf, 2, e - 1), ArgLen)
<1>4. /\ Ends(buf) # {} /\ UNCHANGED <<sent, overlong, wire>>
      /\ buf' = SubSeq(buf, d + 1, Len(buf))
      /\ got' = IF e > 2 /\ buf[1] = Name THEN Append(got, text) ELSE got
  BY DEF Extract
<1>5. PICK h \in Nat : h = Len(buf)
  BY <1>1, LenProperties DEF Typed
<1>6. PICK x \in Nat : x = Len(sent)
  BY <1>1, LenProperties DEF Typed
<1>7. PICK g \in Nat : g = Len(got)
  BY <1>1, LenProperties DEF Typed
<1>8. buf # <<>>
  <2>1. DOMAIN <<>> = {}
    OBVIOUS
  <2>2. Ends(buf) \subseteq DOMAIN buf
    BY DEF Ends
  <2> QED BY <1>4, <2>1, <2>2
<1>9. Splits \/ buf[Len(buf)] # CR
  BY <1>8 DEF Streaming, Whole
<1>10. FirstOut(buf, wire, sent, at[0], e, d)
  BY <1>1, <1>3, <1>4, <1>9, FrontIsOut DEF Typed
<1> HIDE DEF e, d
<1>11. PICK z \in 0 .. x :
          /\ Holds(SubSeq(buf, d + 1, h) \o wire, sent, z)
          /\ \/ ~ (e > 2 /\ buf[1] = Name) /\ (Splits \/ z = a)
             \/ /\ e > 2 /\ buf[1] = Name /\ z = a + 1 /\ z \in 1 .. x
                /\ SubSeq(buf, 2, e - 1) = Encode(sent[z], ArgLen)
  BY <1>3, <1>5, <1>6, <1>10 DEF FirstOut
<1>12. d \in 1 .. h
  BY <1>5, <1>10 DEF FirstOut
<1>13. buf' \in Seq(Byte) /\ Len(buf') = h - d /\ \A i \in 1 .. h - d : buf'[i] = buf[d + i]
  <2>1. d \in 0 .. Len(buf)
    BY <1>5, <1>12
  <2>2. /\ SubSeq(buf, d + 1, Len(buf)) \in Seq(Byte)
        /\ Len(SubSeq(buf, d + 1, Len(buf))) = Len(buf) - d
        /\ \A i \in 1 .. Len(buf) - d : SubSeq(buf, d + 1, Len(buf))[i] = buf[d + i]
    BY <1>1, <2>1, CutFront DEF Typed
  <2> QED BY <1>4, <1>5, <2>2
<1>14. Holds(buf' \o wire', sent', z)
  BY <1>4, <1>5, <1>11
<1>15. Len(buf') < BufLen
  <2>1. BufLen \in Nat /\ h < BufLen
    BY <1>1, <1>5, BoundsAssumption DEF Typed
  <2> QED BY <1>12, <1>13, <2>1
<1>16. buf' = <<>> \/ buf'[Len(buf')] = buf[h]
  <2> SUFFICES ASSUME buf' # <<>> PROVE buf'[h - d] = buf[h]
    BY <1>13
  <2>1. h - d # 0
    BY <1>13, EmptySeq
  <2>2. h - d \in 1 .. h - d /\ d + (h - d) = h
    BY <1>12, <2>1
  <2> QED BY <1>13, <2>2
<1>17. CASE ~ (e > 2 /\ buf[1] = Name)
  <2>1. got' = got /\ (Splits \/ z = a)
    BY <1>4, <1>11, <1>17
  <2>2. Typed'
    BY <1>1, <1>4, <1>13, <1>15, <2>1 DEF Typed
  <2>3. Splits \/ Whole'
    <3> SUFFICES ASSUME ~ Splits PROVE Whole'
      OBVIOUS
    <3>1. Whole
      BY DEF Streaming
    <3>2. buf' = <<>> \/ buf'[Len(buf')] # CR
      BY <1>5, <1>9, <1>16
    <3> QED BY <1>4, <2>1, <3>1, <3>2 DEF Whole
  <2> QED BY <1>2, <1>14, <2>1, <2>2, <2>3 DEF Streaming, Comes
<1>18. CASE e > 2 /\ buf[1] = Name
  <2>1. z = a + 1 /\ z \in 1 .. x /\ SubSeq(buf, 2, e - 1) = Encode(sent[z], ArgLen)
    BY <1>11, <1>18
  <2>2. sent[z] \in Text
    BY <1>1, <1>6, <2>1, ElementOfSeq DEF Typed
  <2>3. text = Received[sent[z]] /\ text \in Arrived
    BY <2>1, <2>2, ReceivedText DEF Received
  <2>4. got' = Append(got, text)
    BY <1>4, <1>18
  <2> HIDE DEF text
  <2>5. /\ got' \in Seq(Arrived) /\ Len(got') = g + 1
        /\ \A k \in 1 .. g : got'[k] = got[k]
        /\ got'[g + 1] = text
    BY <1>1, <1>7, <2>3, <2>4, AppendProperties DEF Typed
  <2>6. Typed'
    BY <1>1, <1>4, <1>13, <1>15, <2>5 DEF Typed
  <2>7. Splits \/ z = g + 1
    BY <1>2, <1>7, <2>1
  <2>8. Splits \/ (Whole' /\ Comes)
    <3> SUFFICES ASSUME ~ Splits PROVE Whole' /\ Comes
      OBVIOUS
    <3>1. z = g + 1 /\ g < x
      BY <2>1, <2>7
    <3>2. g <= x /\ \A k \in 1 .. g : got[k] = Received[sent[k]]
      BY <1>6, <1>7 DEF Streaming, Whole
    <3>3. ASSUME NEW k \in 1 .. g + 1 PROVE got'[k] = Received[sent[k]]
      <4>1. k \in 1 .. g \/ k = g + 1
        OBVIOUS
      <4> QED BY <2>3, <2>5, <3>1, <3>2, <4>1
    <3>4. Len(got') <= Len(sent')
      BY <1>4, <1>6, <2>5, <3>1
    <3>5. \A k \in 1 .. Len(got') : got'[k] = Received[sent'[k]]
      BY <1>4, <2>5, <3>3
    <3>6. buf' = <<>> \/ buf'[Len(buf')] # CR
      BY <1>5, <1>9, <1>16
    <3>7. Comes
      BY <1>6, <1>7, <2>3, <2>4, <3>1 DEF Comes
    <3> QED BY <3>4, <3>5, <3>6, <3>7 DEF Whole
  <2> QED BY <1>14, <2>5, <2>6, <2>7, <2>8 DEF Streaming
<1> QED BY <1>17, <1>18

LEMMA NextStreaming == Streaming /\ [Next]_vars => Streaming'
<1> SUFFICES ASSUME Streaming, [Next]_vars PROVE Streaming'
  OBVIOUS
<1>1. CASE UNCHANGED <<sent, overlong, wire, buf, got>>
  BY <1>1 DEF Streaming, Typed, Whole
<1>2. Process \/ UNCHANGED vars => UNCHANGED <<sent, overlong, wire, buf, got>>
  BY DEF Process, vars
<1> QED BY <1>1, <1>2, SendStreaming, OverlongStreaming, RecvStreaming, OverflowStreaming,
           ExtractStreaming DEF Next, Receive

-----------------------------------------------------------------------------
(* The backlog.                                                            *)

\* The backlog is a list, and its n items are the last n texts that came.
LastOf(n) ==
    /\ n <= Len(got)
    /\ \A k \in 1 .. n : Values(ctl_cmd_backlog)[k] = got[Len(got) - n + k]

Waiting ==
    /\ \E texts : got \in Seq(texts)
    /\ IsList(ctl_cmd_backlog)
    /\ LastOf(GetSize(ctl_cmd_backlog))

LEMMA InitWaiting == Init => Waiting
<1> SUFFICES ASSUME Init PROVE Waiting
  OBVIOUS
<1>1. got = <<>> /\ ctl_cmd_backlog = EmptyList
  BY DEF Init
<1>2. got \in Seq({})
  BY <1>1
<1> QED BY <1>1, <1>2, EmptyIsList DEF Waiting, LastOf

\* A text joins both the history and the list, behind what is there.
LEMMA JoinWaiting ==
    ASSUME Waiting, NEW text, got' = Append(got, text),
           ctl_cmd_backlog' = Add(ctl_cmd_backlog, text)
    PROVE  Waiting'
<1> DEFINE l == ctl_cmd_backlog
<1>1. PICK texts : got \in Seq(texts)
  BY DEF Waiting
<1>2. IsList(l) /\ LastOf(GetSize(l))
  BY DEF Waiting
<1>3. PICK n \in Nat : n = GetSize(l)
  BY <1>2, ListFacts
<1>4. got \in Seq(texts \cup {text})
  BY <1>1
<1>5. /\ got' \in Seq(texts \cup {text})
      /\ Len(got') = Len(got) + 1
      /\ \A i \in 1 .. Len(got) : got'[i] = got[i]
      /\ got'[Len(got) + 1] = text
  BY <1>4, AppendProperties
<1>6. /\ IsList(l') /\ GetSize(l') = n + 1
      /\ \A k \in 1 .. n + 1 : Values(l')[k] = IF k <= n THEN Values(l)[k] ELSE text
  BY <1>2, <1>3, AddIsList
<1>7. PICK m \in Nat : m = Len(got)
  BY <1>1, LenProperties
<1>8. n <= m /\ \A k \in 1 .. n : Values(l)[k] = got[m - n + k]
  BY <1>2, <1>3, <1>7 DEF LastOf
<1>9. ASSUME NEW k \in 1 .. n + 1
      PROVE  Values(l')[k] = got'[(m + 1) - (n + 1) + k]
  <2>1. (m + 1) - (n + 1) + k = m - n + k
    OBVIOUS
  <2>2. CASE k <= n
    <3>1. k \in 1 .. n /\ m - n + k \in 1 .. m
      BY <1>8, <2>2
    <3>2. got'[m - n + k] = got[m - n + k]
      BY <1>5, <1>7, <3>1
    <3> QED BY <1>6, <1>8, <2>1, <2>2, <3>1, <3>2
  <2>3. CASE k = n + 1
    <3>1. m - n + k = m + 1 /\ ~ (k <= n)
      BY <2>3
    <3> QED BY <1>5, <1>6, <1>7, <2>1, <3>1
  <2>4. k <= n \/ k = n + 1
    OBVIOUS
  <2> HIDE DEF l
  <2> QED BY <2>2, <2>3, <2>4
<1>10. LastOf(n + 1)'
  <2>1. Len(got') = m + 1 /\ n + 1 <= m + 1
    BY <1>5, <1>7, <1>8
  <2> QED BY <1>9, <2>1 DEF LastOf
<1> QED BY <1>5, <1>6, <1>10 DEF Waiting

\* Everything is processed: nothing is left to compare.
LEMMA ProcessWaiting ==
    ASSUME Waiting, Process
    PROVE  Waiting'
<1>1. got' = got /\ ctl_cmd_backlog' = RemAllEntries(ctl_cmd_backlog)
  BY DEF Process
<1>2. IsList(ctl_cmd_backlog') /\ GetSize(ctl_cmd_backlog') = 0
  BY <1>1, RemAllEntriesEmpties DEF Waiting
<1>3. PICK texts : got \in Seq(texts)
  BY DEF Waiting
<1>4. 0 <= Len(got)
  BY <1>3, LenProperties
<1> QED BY <1>1, <1>2, <1>3, <1>4 DEF Waiting, LastOf

LEMMA NextWaiting == Waiting /\ [Next]_vars => Waiting'
<1> SUFFICES ASSUME Waiting, [Next]_vars PROVE Waiting'
  OBVIOUS
<1>1. CASE UNCHANGED <<got, ctl_cmd_backlog>>
  BY <1>1 DEF Waiting, LastOf
<1>2. CASE Extract
  <2> DEFINE text == Decode(SubSeq(buf, 2, Min(Ends(buf)) - 1), ArgLen)
  <2>1. \/ got' = Append(got, text) /\ ctl_cmd_backlog' = Add(ctl_cmd_backlog, text)
        \/ UNCHANGED <<got, ctl_cmd_backlog>>
    BY <1>2 DEF Extract
  <2> HIDE DEF text
  <2> QED BY <1>1, <2>1, JoinWaiting
<1> QED BY <1>1, <1>2, ProcessWaiting DEF Next, Receive, Recv, Overflow, Send, SendOverlong, vars

-----------------------------------------------------------------------------
(* From positions to suffixes.                                             *)

LEMMA LastIsSuffix ==
    ASSUME NEW S, NEW v \in Seq(S), NEW w \in Seq(S), Len(v) <= Len(w),
           \A k \in 1 .. Len(v) : v[k] = w[Len(w) - Len(v) + k]
    PROVE  IsSuffix(v, w)
<1> DEFINE m == Len(v)
           n == Len(w)
           rv == [i \in 1 .. m |-> v[(m - i) + 1]]
           rw == [i \in 1 .. n |-> w[(n - i) + 1]]
<1>1. m \in Nat /\ n \in Nat /\ v \in [1 .. m -> S] /\ w \in [1 .. n -> S] /\ m <= n
  BY LenProperties
<1>0. \A k \in 1 .. m : v[k] = w[n - m + k]
  OBVIOUS
<1> HIDE DEF m, n
<1>2. rv \in [1 .. m -> S]
  BY <1>1
<1>3. rw \in [1 .. n -> S]
  BY <1>1
<1>4. rv \in Seq(S) /\ Len(rv) = m /\ rw \in Seq(S) /\ Len(rw) = n
  BY <1>1, <1>2, <1>3, SeqDef, LenProperties
<1>5. \A i \in 1 .. m : rv[i] = rw[i]
  <2> SUFFICES ASSUME NEW i \in 1 .. m PROVE v[(m - i) + 1] = w[(n - i) + 1]
    BY <1>1
  <2>1. (m - i) + 1 \in 1 .. m /\ n - m + ((m - i) + 1) = (n - i) + 1
    BY <1>1
  <2> QED BY <1>0, <2>1
<1>6. Reverse(v) = rv /\ Reverse(w) = rw
  BY DEF Reverse, m, n
<1> HIDE DEF rv, rw
<1>7. SubSeq(rv, 1, m) = SubSeq(rw, 1, m)
  BY <1>1, <1>2, <1>3, <1>4, <1>5, SubSeqProperties
<1> QED BY <1>1, <1>4, <1>6, <1>7 DEF IsSuffix, IsPrefix

-----------------------------------------------------------------------------
(* The theorems.                                                           *)

\* What waits is of the kind of what came.
LEMMA WaitingValues ==
    ASSUME Waiting, NEW S, got \in Seq(S)
    PROVE  /\ Values(ctl_cmd_backlog) \in Seq(S)
           /\ Len(Values(ctl_cmd_backlog)) = GetSize(ctl_cmd_backlog)
<1> DEFINE l == ctl_cmd_backlog
           n == GetSize(l)
           v == Values(l)
<1>1. IsList(l) /\ LastOf(n)
  BY DEF Waiting
<1>2. n \in Nat /\ DOMAIN v = 1 .. n /\ v = [k \in 1 .. n |-> l.cell[Items(l)[k]].value]
  BY <1>1, ListFacts
<1>3. Len(got) \in Nat /\ got \in [1 .. Len(got) -> S]
  BY LenProperties
<1> HIDE DEF n, v
<1>4. n <= Len(got) /\ \A k \in 1 .. n : v[k] = got[Len(got) - n + k]
  BY <1>1 DEF LastOf, v
<1>5. ASSUME NEW k \in 1 .. n PROVE v[k] \in S
  <2>1. PICK m \in Nat : m = Len(got)
    BY <1>3
  <2>2. m - n + k \in 1 .. m
    BY <1>2, <1>4, <2>1
  <2> QED BY <1>3, <1>4, <2>1, <2>2
<1>6. v \in [1 .. n -> S]
  BY <1>2, <1>5
<1>7. v \in Seq(S)
  BY <1>2, <1>6, SeqDef
<1>8. Len(v) = n
  BY <1>2, <1>7, LenProperties
<1> QED BY <1>7, <1>8 DEF v, n

\* The backlog always holds the last commands that came, in their order, and
\* any item of its list can be removed without harm to the others: what adding,
\* emptying and adding again leave behind is a list like any other.
THEOREM BacklogIsSequenceHolds == Spec => []BacklogIsSequence
<1>1. Waiting => BacklogIsSequence
  <2> SUFFICES ASSUME Waiting PROVE BacklogIsSequence
    OBVIOUS
  <2> DEFINE l == ctl_cmd_backlog
             v == Values(l)
  <2>1. PICK texts : got \in Seq(texts)
    BY DEF Waiting
  <2>2. IsList(l) /\ LastOf(GetSize(l))
    BY DEF Waiting
  <2>3. v \in Seq(texts) /\ Len(v) = GetSize(l)
    BY <2>1, WaitingValues
  <2> HIDE DEF v
  <2>4. Len(v) <= Len(got) /\ \A k \in 1 .. Len(v) : v[k] = got[Len(got) - Len(v) + k]
    BY <2>2, <2>3 DEF LastOf, v
  <2>5. IsSuffix(v, got)
    BY <2>1, <2>3, <2>4, LastIsSuffix
  <2> QED BY <2>2, <2>5, ListIsRemovable DEF BacklogIsSequence, v
<1> QED BY <1>1, InitWaiting, NextWaiting, PTL DEF Spec

\* However the stream is cut, between CR and LF too: all that is sent, on the wire,
\* in the buffer and in the backlog is of bytes, and the buffer never overflows.
THEOREM TypeCorrect == Spec => []TypeOK
<1>1. Streaming /\ Waiting => TypeOK
  <2> SUFFICES ASSUME Streaming, Waiting PROVE TypeOK
    OBVIOUS
  <2>1. Typed
    BY DEF Streaming
  <2>2. Values(ctl_cmd_backlog) \in Seq(Arrived)
    BY <2>1, WaitingValues DEF Typed
  <2>3. Seq(Arrived) \subseteq Seq(Seq(Byte))
    <3>1. Arrived \subseteq Seq(Byte)
      BY ArrivedIsText
    <3> DEFINE Texts == Seq(Byte)
    <3>2. Arrived \subseteq Texts
      BY <3>1
    <3> HIDE DEF Texts
    <3>3. Seq(Arrived) \subseteq Seq(Texts)
      BY <3>2, SeqMonotonic
    <3> QED BY <3>3 DEF Texts
  <2> QED BY <2>1, <2>2, <2>3 DEF Typed, TypeOK
<1> QED BY <1>1, InitStreaming, NextStreaming, InitWaiting, NextWaiting, PTL DEF Spec

\* Unless a read ends between CR and LF, the k-th text that comes is the k-th that
\* was sent, and it is as legible as the room for an argument allows.
THEOREM TextArrivesHolds ==
    ASSUME ~ Splits
    PROVE  Spec => []TextArrives
<1>1. Streaming => TextArrives
  <2> SUFFICES ASSUME Streaming PROVE TextArrives
    OBVIOUS
  <2>1. Typed /\ Whole
    BY DEF Streaming
  <2>2. PICK g \in Nat : g = Len(got)
    BY <2>1, LenProperties DEF Typed
  <2>3. PICK x \in Nat : x = Len(sent)
    BY <2>1, LenProperties DEF Typed
  <2>4. DOMAIN got = 1 .. g
    BY <2>1, <2>2, LenProperties DEF Typed
  <2>5. ASSUME NEW i \in 1 .. g
        PROVE  /\ IsPrefix(got[i], Legible(sent[i]))
               /\ 3 * Len(sent[i]) < ArgLen => got[i] = Legible(sent[i])
    <3>1. i \in 1 .. x /\ got[i] = Received[sent[i]]
      BY <2>1, <2>2, <2>3 DEF Whole
    <3>2. sent[i] \in Text
      BY <2>1, <2>3, <3>1, ElementOfSeq DEF Typed
    <3> QED BY <3>1, <3>2, ReceivedText
  <2> QED BY <2>4, <2>5 DEF TextArrives
<1> QED BY <1>1, InitStreaming, NextStreaming, PTL DEF Spec

\* Unless a read ends between CR and LF, the commands that come are the first of
\* those sent: such a read is all that the extraction of "all messages" cannot take.
THEOREM AllExtractedHolds ==
    ASSUME ~ Splits
    PROVE  Spec => []AllExtracted
<1>1. Streaming => AllExtracted
  <2> SUFFICES ASSUME Streaming PROVE AllExtracted
    OBVIOUS
  <2>1. Typed /\ Whole
    BY DEF Streaming
  <2>2. PICK x \in Nat : x = Len(sent)
    BY <2>1, LenProperties DEF Typed
  <2> DEFINE all == [i \in DOMAIN sent |-> Received[sent[i]]]
  <2>3. DOMAIN sent = 1 .. x
    BY <2>1, <2>2, LenProperties DEF Typed
  <2>4. \A i \in 1 .. x : Received[sent[i]] \in Arrived
    BY <2>1, <2>2, ElementOfSeq, ReceivedText DEF Typed
  <2>5. all \in [1 .. x -> Arrived] /\ \A i \in 1 .. x : all[i] = Received[sent[i]]
    BY <2>3, <2>4
  <2> HIDE DEF all
  <2>6. all \in Seq(Arrived) /\ Len(all) = x
    BY <2>2, <2>5, SeqDef, LenProperties
  <2>7. PICK g \in Nat : g = Len(got)
    BY <2>1, LenProperties DEF Typed
  <2>8. g <= x /\ \A k \in 1 .. g : k \in 1 .. x /\ got[k] = Received[sent[k]]
    BY <2>1, <2>2, <2>7 DEF Whole
  <2>9. IsPrefix(got, all)
    BY <2>1, <2>5, <2>6, <2>7, <2>8, FirstIsPrefix DEF Typed
  <2> QED BY <2>9 DEF AllExtracted, all
<1> QED BY <1>1, InitStreaming, NextStreaming, PTL DEF Spec

\* The texts that are sent and did not come, as they will come.
Queue(q, g) == [i \in 1 .. Len(q) - g |-> Received[q[g + i]]]

LEMMA QueueFacts ==
    ASSUME NEW q \in Seq(Text), NEW g \in 0 .. Len(q)
    PROVE  /\ Queue(q, g) \in Seq(Arrived) /\ Len(Queue(q, g)) = Len(q) - g
           /\ \A i \in 1 .. Len(q) - g : Queue(q, g)[i] = Received[q[g + i]]
<1>1. PICK x \in Nat : x = Len(q)
  BY LenProperties
<1>2. ASSUME NEW i \in 1 .. x - g PROVE Received[q[g + i]] \in Arrived
  <2>1. g + i \in 1 .. Len(q)
    BY <1>1
  <2> QED BY <2>1, ElementOfSeq, ReceivedText
<1> DEFINE f == [i \in 1 .. x - g |-> Received[q[g + i]]]
<1>3. f \in [1 .. x - g -> Arrived]
  BY <1>2
<1>4. x - g \in Nat
  BY <1>1
<1>5. \A i \in 1 .. x - g : f[i] = Received[q[g + i]]
  OBVIOUS
<1> HIDE DEF f
<1>6. f \in Seq(Arrived) /\ Len(f) = x - g
  BY <1>3, <1>4, SeqDef, LenProperties
<1>7. Queue(q, g) = f
  BY <1>1 DEF Queue, f
<1> QED BY <1>1, <1>5, <1>6, <1>7

\* Unless a read ends between CR and LF, the stream is the channel that the
\* negotiation takes for granted: commands come in the order in which they were
\* sent, each once, none is skipped and none comes that was not sent.
THEOREM StreamIsChannel ==
    ASSUME ~ Splits
    PROVE  Spec => Channel!Safe
<1> DEFINE queue == Queue(sent, Len(got))
<1>1. Init => Channel!Init
  <2> SUFFICES ASSUME Init PROVE queue = <<>> /\ got = <<>>
    BY DEF Channel!Init, Queue
  <2>1. sent = <<>> /\ got = <<>>
    BY DEF Init
  <2>2. Len(sent) = 0 /\ Len(got) = 0 /\ sent \in Seq(Text)
    BY <2>1, EmptySeq
  <2>3. Len(got) \in 0 .. Len(sent) /\ Len(sent) - Len(got) = 0
    BY <2>2
  <2>4. queue \in Seq(Arrived) /\ Len(queue) = 0
    BY <2>2, <2>3, QueueFacts
  <2> HIDE DEF queue
  <2> QED BY <2>1, <2>4, EmptySeq
<1>2. Streaming /\ Streaming' /\ [Next]_vars => [Channel!Next]_<<queue, got>>
  <2> SUFFICES ASSUME Streaming, Streaming', [Next]_vars
               PROVE  [Channel!Next]_<<queue, got>>
    OBVIOUS
  <2>1. Typed /\ Whole /\ Typed' /\ Whole'
    BY DEF Streaming
  <2>2. PICK g \in Nat : g = Len(got)
    BY <2>1, LenProperties DEF Typed
  <2>3. PICK x \in Nat : x = Len(sent)
    BY <2>1, LenProperties DEF Typed
  <2>4. g <= x
    BY <2>1, <2>2, <2>3 DEF Whole
  <2>5. /\ queue \in Seq(Arrived) /\ Len(queue) = x - g
        /\ \A i \in 1 .. x - g : queue[i] = Received[sent[g + i]]
    <3>1. g \in 0 .. Len(sent) /\ sent \in Seq(Text)
      BY <2>1, <2>3, <2>4 DEF Typed
    <3> QED BY <2>2, <2>3, <3>1, QueueFacts
  <2>6. /\ queue' \in Seq(Arrived) /\ Len(queue') = Len(sent') - Len(got')
        /\ \A i \in 1 .. Len(sent') - Len(got') : queue'[i] = Received[sent'[Len(got') + i]]
    <3> DEFINE p == sent'
               y == Len(got')
    <3>1. p \in Seq(Text) /\ Len(p) \in Nat /\ y \in Nat /\ y <= Len(p)
      BY <2>1, LenProperties DEF Typed, Whole
    <3>2. queue' = Queue(p, y)
      BY DEF Queue
    <3> HIDE DEF p, y, queue
    <3>3. y \in 0 .. Len(p)
      BY <3>1
    <3>4. /\ Queue(p, y) \in Seq(Arrived) /\ Len(Queue(p, y)) = Len(p) - y
          /\ \A i \in 1 .. Len(p) - y : Queue(p, y)[i] = Received[p[y + i]]
      BY <3>1, <3>3, QueueFacts
    <3> QED BY <3>2, <3>4 DEF p, y
  <2> HIDE DEF queue
  <2>7. CASE UNCHANGED <<sent, got>>
    <3>1. queue' = queue
      BY <2>7 DEF queue, Queue
    <3> QED BY <2>7, <3>1
  <2>8. ASSUME NEW c \in Text, Send(c) PROVE Channel!Next
    <3>1. sent' = Append(sent, c) /\ got' = got /\ x < MaxSent
      BY <2>3, <2>8 DEF Send
    <3>2. Len(sent') = x + 1 /\ sent'[x + 1] = c /\ \A i \in 1 .. x : sent'[i] = sent[i]
      BY <2>1, <2>3, <3>1, AppendProperties DEF Typed
    <3> DEFINE r == Received[c]
               new == Append(queue, r)
    <3>3. r \in Range(Received)
      BY ReceivedText DEF Arrived
    <3>4. /\ new \in Seq(Arrived) /\ Len(new) = (x - g) + 1
          /\ \A i \in 1 .. x - g : new[i] = queue[i]
          /\ new[(x - g) + 1] = r
      BY <2>5, <3>3, AppendProperties DEF Arrived
    <3>5. Len(queue') = (x + 1) - g
          /\ \A i \in 1 .. (x + 1) - g : queue'[i] = Received[sent'[g + i]]
      BY <2>2, <2>6, <3>1, <3>2
    <3>6. (x - g) + 1 = (x + 1) - g /\ (x + 1) - g \in Nat
      BY <2>4
    <3> HIDE DEF new
    <3>7. ASSUME NEW i \in 1 .. (x + 1) - g PROVE queue'[i] = new[i]
      <4>1. CASE i \in 1 .. x - g
        <5>1. g + i \in 1 .. x
          BY <2>4, <4>1
        <5>2. queue'[i] = Received[sent'[g + i]] /\ sent'[g + i] = sent[g + i]
          BY <3>2, <3>5, <5>1
        <5>3. new[i] = queue[i] /\ queue[i] = Received[sent[g + i]]
          BY <2>5, <3>4, <4>1
        <5> QED BY <5>2, <5>3
      <4>2. CASE i = (x + 1) - g
        <5>1. g + i = x + 1
          BY <2>4, <4>2
        <5> QED BY <3>2, <3>4, <3>5, <3>6, <4>2, <5>1
      <4> QED BY <2>4, <4>1, <4>2
    <3>8. queue' = new
      BY <2>6, <3>4, <3>5, <3>6, <3>7, SeqEqual
    <3>9. Len(got) + Len(queue) < MaxSent
      BY <2>2, <2>4, <2>5, <3>1
    <3>10. Channel!Send(r)
      BY <3>1, <3>8, <3>9 DEF Channel!Send, queue, Queue, new
    <3> HIDE DEF r
    <3> QED BY <3>3, <3>10 DEF Channel!Next
  <2>9. CASE Extract
    <3>1. sent' = sent /\ Comes
      BY <2>9, ExtractStreaming DEF Extract
    <3>2. SUFFICES ASSUME g < x, got' = Append(got, Received[sent[g + 1]]) PROVE Channel!Next
      BY <2>2, <2>3, <2>7, <3>1 DEF Comes
    <3>3. Len(got') = g + 1
      BY <2>1, <2>2, <3>2, AppendProperties, ReceivedText, ElementOfSeq DEF Typed
    <3>4. 1 \in 1 .. x - g /\ x - g > 0 /\ (x - g) - 1 = x - (g + 1) /\ x - (g + 1) \in Nat
      BY <3>2
    <3>5. queue # <<>>
      BY <2>5, <3>4, EmptySeq
    <3>6. Head(queue) = Received[sent[g + 1]]
      BY <2>5, <3>4, <3>5, HeadTailProperties
    <3> DEFINE rest == Tail(queue)
    <3>7. /\ rest \in Seq(Arrived) /\ Len(rest) = (x - g) - 1
          /\ \A i \in 1 .. (x - g) - 1 : rest[i] = queue[i + 1]
      BY <2>5, <3>5, HeadTailProperties
    <3>8. Len(queue') = x - (g + 1)
          /\ \A i \in 1 .. x - (g + 1) : queue'[i] = Received[sent[(g + 1) + i]]
      BY <2>3, <2>6, <3>1, <3>3
    <3> HIDE DEF rest
    <3>9. ASSUME NEW i \in 1 .. x - (g + 1) PROVE queue'[i] = rest[i]
      <4>1. i + 1 \in 1 .. x - g /\ g + (i + 1) = (g + 1) + i /\ i \in 1 .. (x - g) - 1
        BY <3>4
      <4>2. queue[i + 1] = Received[sent[g + (i + 1)]]
        BY <2>5, <4>1
      <4> QED BY <3>7, <3>8, <4>1, <4>2
    <3>10. queue' = rest
      BY <2>6, <3>4, <3>7, <3>8, <3>9, SeqEqual
    <3>11. Channel!Deliver
      BY <3>2, <3>5, <3>6, <3>10 DEF Channel!Deliver, queue, Queue, rest
    <3> QED BY <3>11 DEF Channel!Next
  <2> QED BY <2>7, <2>8, <2>9 DEF Next, Receive, Recv, Overflow, Process, SendOverlong, vars
<1> QED BY <1>1, <1>2, InitStreaming, NextStreaming, PTL DEF Spec, Channel!Safe, queue, Queue

=============================================================================
