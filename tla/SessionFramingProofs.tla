------------------------ MODULE SessionFramingProofs ------------------------
(***************************************************************************)
(* Proofs about SessionFraming, for any sizes of buffers and reads, any    *)
(* messages, and wherever a foreign sender and the reads cut them.         *)
(***************************************************************************)
EXTENDS SessionFraming, SequenceTheorems, Extremes

Byte == 0 .. 255

-----------------------------------------------------------------------------
(* Induction: a set of numbers that is not empty has a least element.      *)

\* Nothing below the least element of a set is in it.
LEMMA LeastOf ==
    ASSUME NEW T \in SUBSET Nat, T # {}
    PROVE  \E i \in T : \A j \in Nat : j < i => j \notin T
<1>1. Min(T) \in T /\ \A y \in T : Min(T) =< y
  BY MinIsLeast
<1> DEFINE i == Min(T)
<1> HIDE DEF i
<1>2. i \in T /\ i \in Nat /\ \A y \in T : y \in Nat /\ i =< y
  BY <1>1 DEF i
<1>3. QED
  BY <1>2

-----------------------------------------------------------------------------
(* Flattened sequences.                                                    *)

\* x is what the sequences of ss make, one after the other: f has what the first
\* ones make.
IsFlat(ss, x) ==
    \E f \in [1 .. Len(ss) -> Seq(Byte)] :
        /\ f[1] = ss[1]
        /\ \A i \in 2 .. Len(ss) : f[i] = f[i - 1] \o ss[i]
        /\ f[Len(ss)] = x

\* The parts of a sequence of sequences, and the path of IsFlat.
LEMMA FlatPath ==
    ASSUME NEW ss \in Seq(Seq(Byte)), ss # <<>>, NEW x, IsFlat(ss, x)
    PROVE  \E n \in Nat \ {0} : \E f \in [1 .. n -> Seq(Byte)] :
               /\ n = Len(ss) /\ ss \in [1 .. n -> Seq(Byte)]
               /\ f[1] = ss[1]
               /\ \A i \in 2 .. n : f[i] = f[i - 1] \o ss[i]
               /\ f[n] = x /\ x \in Seq(Byte)
<1>1. Len(ss) \in Nat \ {0} /\ ss \in [1 .. Len(ss) -> Seq(Byte)]
  BY EmptySeq, LenProperties
<1>2. PICK f \in [1 .. Len(ss) -> Seq(Byte)] :
          f[1] = ss[1] /\ (\A i \in 2 .. Len(ss) : f[i] = f[i - 1] \o ss[i]) /\ f[Len(ss)] = x
  BY DEF IsFlat
<1>3. Len(ss) \in 1 .. Len(ss)
  BY <1>1
<1>4. x \in Seq(Byte)
  BY <1>2, <1>3
<1>5. QED
  BY <1>1, <1>2, <1>4

\* IsFlat is what FlattenSeq computes.
LEMMA FlatEqual ==
    ASSUME NEW ss \in Seq(Seq(Byte)), ss # <<>>, NEW x, IsFlat(ss, x)
    PROVE  FlattenSeq(ss) = x
<1>1. PICK n \in Nat \ {0} : \E f \in [1 .. n -> Seq(Byte)] :
          /\ n = Len(ss) /\ ss \in [1 .. n -> Seq(Byte)]
          /\ f[1] = ss[1]
          /\ \A i \in 2 .. n : f[i] = f[i - 1] \o ss[i]
          /\ f[n] = x /\ x \in Seq(Byte)
  BY FlatPath
<1>2. PICK f \in [1 .. n -> Seq(Byte)] :
          /\ n = Len(ss) /\ ss \in [1 .. n -> Seq(Byte)]
          /\ f[1] = ss[1]
          /\ \A i \in 2 .. n : f[i] = f[i - 1] \o ss[i]
          /\ f[n] = x
  BY <1>1
<1> DEFINE IsFlatten(g) == g = [i \in 1 .. n |-> IF i = 1 THEN ss[i] ELSE g[i - 1] \o ss[i]]
           flatten == CHOOSE g : IsFlatten(g)
<1>3. \A i \in 1 .. n : i # 1 => i \in 2 .. n /\ i - 1 \in 1 .. n /\ i - 1 \in Nat /\ i - 1 < i
  OBVIOUS
<1>4. \A i \in 1 .. n : f[i] = IF i = 1 THEN ss[i] ELSE f[i - 1] \o ss[i]
  BY <1>2, <1>3
<1>5. IsFlatten(f)
  BY <1>4
<1>6. IsFlatten(flatten)
  BY <1>5
<1>7. FlattenSeq(ss) = flatten[n]
  BY <1>2 DEF FlattenSeq
<1> HIDE DEF flatten
<1>8. \A i \in 1 .. n : flatten[i] = IF i = 1 THEN ss[i] ELSE flatten[i - 1] \o ss[i]
  BY <1>6
<1> DEFINE Bad == {i \in 1 .. n : flatten[i] # f[i]}
<1>9. Bad = {}
  <2> SUFFICES ASSUME Bad # {} PROVE FALSE
    OBVIOUS
  <2>0. Bad \in SUBSET Nat
    OBVIOUS
  <2>1. PICK i \in Bad : \A j \in Nat : j < i => j \notin Bad
    BY <2>0, LeastOf
  <2>2. i \in 1 .. n /\ flatten[i] # f[i]
    OBVIOUS
  <2>3. i # 1
    BY <1>4, <1>8, <2>2
  <2>4. flatten[i - 1] = f[i - 1]
    BY <1>3, <2>1, <2>2, <2>3
  <2>5. flatten[i] = flatten[i - 1] \o ss[i]
    BY <1>8, <2>2, <2>3
  <2>6. f[i] = f[i - 1] \o ss[i]
    BY <1>4, <2>2, <2>3
  <2>7. QED
    BY <2>2, <2>4, <2>5, <2>6
<1>10. flatten[n] = f[n]
  BY <1>9
<1>11. QED
  BY <1>2, <1>7, <1>10

\* One sequence makes itself.
LEMMA FlatOne ==
    ASSUME NEW x \in Seq(Byte)
    PROVE  IsFlat(<<x>>, x)
<1> DEFINE f == [i \in 1 .. 1 |-> x]
<1>1. Len(<<x>>) = 1 /\ <<x>>[1] = x
  OBVIOUS
<1>2. f \in [1 .. 1 -> Seq(Byte)] /\ f[1] = x
  OBVIOUS
<1> HIDE DEF f
<1>3. QED
  BY <1>1, <1>2 DEF IsFlat

\* One more sequence is added to the end.
LEMMA FlatAppend ==
    ASSUME NEW ss \in Seq(Seq(Byte)), ss # <<>>, NEW x, IsFlat(ss, x), NEW y \in Seq(Byte)
    PROVE  IsFlat(Append(ss, y), x \o y)
<1>1. PICK n \in Nat \ {0} : \E f \in [1 .. n -> Seq(Byte)] :
          /\ n = Len(ss) /\ ss \in [1 .. n -> Seq(Byte)]
          /\ f[1] = ss[1]
          /\ \A i \in 2 .. n : f[i] = f[i - 1] \o ss[i]
          /\ f[n] = x /\ x \in Seq(Byte)
  BY FlatPath
<1>2. PICK f \in [1 .. n -> Seq(Byte)] :
          /\ n = Len(ss)
          /\ f[1] = ss[1]
          /\ \A i \in 2 .. n : f[i] = f[i - 1] \o ss[i]
          /\ f[n] = x
  BY <1>1
<1> DEFINE g == [i \in 1 .. n + 1 |-> IF i = n + 1 THEN x \o y ELSE f[i]]
           tt == Append(ss, y)
<1>3. Len(tt) = n + 1 /\ tt[n + 1] = y /\ \A i \in 1 .. n : tt[i] = ss[i]
  BY <1>2
<1>4. x \o y \in Seq(Byte)
  BY <1>1
<1>5. g \in [1 .. n + 1 -> Seq(Byte)]
  BY <1>4
<1>6. g[1] = tt[1] /\ g[n + 1] = x \o y
  BY <1>2, <1>3
<1>7. ASSUME NEW i \in 2 .. n + 1
      PROVE  g[i] = g[i - 1] \o tt[i]
  <2>1. i - 1 \in 1 .. n /\ i - 1 # n + 1 /\ i - 1 \in 1 .. n + 1
    OBVIOUS
  <2>2. g[i - 1] = f[i - 1]
    BY <2>1
  <2>3. CASE i = n + 1
    <3>1. g[i] = x \o y /\ tt[i] = y /\ g[i - 1] = f[n]
      BY <1>3, <2>2, <2>3
    <3>2. QED
      BY <1>2, <3>1
  <2>4. CASE i # n + 1
    <3>1. i \in 2 .. n /\ i \in 1 .. n
      BY <2>4
    <3>2. g[i] = f[i]
      BY <3>1
    <3>3. QED
      BY <1>2, <1>3, <2>2, <3>1, <3>2
  <2>5. QED
    BY <2>3, <2>4
<1> HIDE DEF g, tt
<1>8. QED
  BY <1>3, <1>5, <1>6, <1>7 DEF IsFlat, tt

\* The last sequence is the end of what is made.
LEMMA FlatFront ==
    ASSUME NEW ss \in Seq(Seq(Byte)), Len(ss) > 1, NEW x, IsFlat(ss, x)
    PROVE  \E y \in Seq(Byte) : IsFlat(Front(ss), y) /\ x = y \o Last(ss)
<1>1. PICK n \in Nat \ {0} : \E f \in [1 .. n -> Seq(Byte)] :
          /\ n = Len(ss) /\ ss \in [1 .. n -> Seq(Byte)]
          /\ f[1] = ss[1]
          /\ \A i \in 2 .. n : f[i] = f[i - 1] \o ss[i]
          /\ f[n] = x /\ x \in Seq(Byte)
  <2>1. ss # <<>>
    OBVIOUS
  <2>2. QED
    BY <2>1, FlatPath
<1>2. PICK f \in [1 .. n -> Seq(Byte)] :
          /\ n = Len(ss)
          /\ f[1] = ss[1]
          /\ \A i \in 2 .. n : f[i] = f[i - 1] \o ss[i]
          /\ f[n] = x
  BY <1>1
<1> DEFINE g == [i \in 1 .. n - 1 |-> f[i]]
<1>3. n - 1 \in 1 .. n - 1 /\ n - 1 \in 1 .. n /\ n \in 2 .. n
  BY <1>2
<1>4. Len(Front(ss)) = n - 1 /\ \A i \in 1 .. n - 1 : Front(ss)[i] = ss[i]
  BY <1>2 DEF Front
<1>5. g \in [1 .. n - 1 -> Seq(Byte)] /\ g[1] = ss[1] /\ g[n - 1] = f[n - 1]
  BY <1>2, <1>3
<1>6. ASSUME NEW i \in 2 .. n - 1
      PROVE  g[i] = g[i - 1] \o Front(ss)[i]
  <2>1. i \in 1 .. n - 1 /\ i - 1 \in 1 .. n - 1 /\ i \in 2 .. n
    OBVIOUS
  <2>2. g[i] = f[i] /\ g[i - 1] = f[i - 1]
    BY <2>1
  <2>3. QED
    BY <1>2, <1>4, <2>1, <2>2
<1> HIDE DEF g
<1>7. IsFlat(Front(ss), f[n - 1])
  <2>1. Front(ss)[1] = ss[1]
    BY <1>3, <1>4
  <2>2. QED
    BY <1>4, <1>5, <1>6, <2>1 DEF IsFlat
<1>8. x = f[n - 1] \o Last(ss) /\ f[n - 1] \in Seq(Byte)
  BY <1>2, <1>3 DEF Last
<1>9. QED
  BY <1>7, <1>8

-----------------------------------------------------------------------------
(* Decimal numbers.                                                        *)

\* A number of two digits or more, its last digit and the number before it.
LEMMA DivTen ==
    ASSUME NEW n \in Nat, n >= 10
    PROVE  /\ n \div 10 \in Nat /\ n \div 10 >= 1 /\ n \div 10 < n
           /\ n % 10 \in 0 .. 9
           /\ n = 10 * (n \div 10) + (n % 10)
OBVIOUS

\* f is Decimal, up to N.
IsDecimal(f, N) ==
    /\ f \in [0 .. N -> Seq(Digit)]
    /\ \A n \in 0 .. N :
        /\ n < 10 => f[n] = <<48 + n>>
        /\ n >= 10 => f[n] = Append(f[n \div 10], 48 + (n % 10))

\* Up to every number there is such a function.
LEMMA SomeDecimal ==
    \A N \in Nat : \E f : IsDecimal(f, N)
<1> DEFINE Bad == {N \in Nat : ~ \E f : IsDecimal(f, N)}
<1> SUFFICES ASSUME Bad # {} PROVE FALSE
  OBVIOUS
<1>1. Bad \in SUBSET Nat
  OBVIOUS
<1>2. PICK N \in Bad : \A j \in Nat : j < N => j \notin Bad
  BY <1>1, LeastOf
<1>3. N \in Nat /\ ~ \E f : IsDecimal(f, N)
  OBVIOUS
<1>4. CASE N = 0
  <2> DEFINE f == [n \in 0 .. 0 |-> <<48>>]
  <2>1. <<48>> \in Seq(Digit)
    BY DEF Digit
  <2>2. f \in [0 .. 0 -> Seq(Digit)]
    BY <2>1
  <2>3. \A n \in 0 .. 0 : n < 10 /\ ~(n >= 10) /\ f[n] = <<48 + n>>
    OBVIOUS
  <2> HIDE DEF f
  <2>4. IsDecimal(f, 0)
    BY <2>2, <2>3 DEF IsDecimal
  <2>5. QED
    BY <1>3, <1>4, <2>4
<1>5. CASE N # 0
  <2>1. N - 1 \in Nat /\ N - 1 < N
    BY <1>3, <1>5
  <2>2. PICK g : IsDecimal(g, N - 1)
    BY <1>2, <2>1
  <2> DEFINE last == IF N < 10 THEN <<48 + N>> ELSE Append(g[N \div 10], 48 + (N % 10))
             f == [n \in 0 .. N |-> IF n = N THEN last ELSE g[n]]
  <2>3. N >= 10 => N \div 10 \in 0 .. N - 1 /\ N % 10 \in 0 .. 9
    BY <1>3, DivTen
  <2>4. last \in Seq(Digit)
    <3>1. CASE N < 10
      <4>1. 48 + N \in Digit
        BY <1>3, <3>1 DEF Digit
      <4>2. QED
        BY <3>1, <4>1
    <3>2. CASE ~(N < 10)
      <4>1. N >= 10
        BY <1>3, <3>2
      <4>2. g[N \div 10] \in Seq(Digit) /\ 48 + (N % 10) \in Digit
        BY <2>2, <2>3, <4>1 DEF IsDecimal, Digit
      <4>3. QED
        BY <3>2, <4>2
    <3>3. QED
      BY <3>1, <3>2
  <2> HIDE DEF last
  <2>5. \A n \in 0 .. N : n # N => n \in 0 .. N - 1
    BY <1>3
  <2>6. f \in [0 .. N -> Seq(Digit)]
    BY <2>2, <2>4, <2>5 DEF IsDecimal
  <2>7. f[N] = last /\ \A n \in 0 .. N - 1 : f[n] = g[n]
    BY <1>3
  <2> HIDE DEF f
  <2>8. ASSUME NEW n \in 0 .. N, n < 10
        PROVE  f[n] = <<48 + n>>
    BY <2>2, <2>5, <2>7, <2>8 DEF IsDecimal, last
  <2>9. ASSUME NEW n \in 0 .. N, n >= 10
        PROVE  f[n] = Append(f[n \div 10], 48 + (n % 10))
    <3>1. n \div 10 \in 0 .. N - 1
      BY <1>3, <2>9, DivTen
    <3>2. f[n \div 10] = g[n \div 10]
      BY <2>7, <3>1
    <3>3. CASE n = N
      <4>1. ~(N < 10)
        BY <1>3, <2>9, <3>3
      <4>2. last = Append(g[N \div 10], 48 + (N % 10))
        BY <4>1 DEF last
      <4>3. QED
        BY <2>7, <3>2, <3>3, <4>2
    <3>4. CASE n # N
      <4>1. n \in 0 .. N - 1
        BY <2>5, <3>4
      <4>2. g[n] = Append(g[n \div 10], 48 + (n % 10))
        BY <2>2, <2>9, <4>1 DEF IsDecimal
      <4>3. QED
        BY <2>7, <3>2, <4>1, <4>2
    <3>5. QED
      BY <3>3, <3>4
  <2>10. IsDecimal(f, N)
    BY <2>6, <2>8, <2>9 DEF IsDecimal
  <2>11. QED
    BY <1>3, <2>10
<1>6. QED
  BY <1>4, <1>5

\* Two of them agree as far as both go.
LEMMA OneDecimal ==
    ASSUME NEW M \in Nat, NEW N \in Nat, NEW f, NEW g, IsDecimal(f, M), IsDecimal(g, N),
           NEW n \in 0 .. M, n <= N
    PROVE  f[n] = g[n]
<1> DEFINE Bad == {k \in 0 .. n : f[k] # g[k]}
<1> SUFFICES ASSUME Bad # {} PROVE FALSE
  OBVIOUS
<1>1. Bad \in SUBSET Nat
  OBVIOUS
<1>2. PICK k \in Bad : \A j \in Nat : j < k => j \notin Bad
  BY <1>1, LeastOf
<1>3. k \in 0 .. n /\ f[k] # g[k]
  OBVIOUS
<1>4. k \in Nat /\ k \in 0 .. M /\ k \in 0 .. N /\ (k < 10 \/ k >= 10)
  BY <1>3
<1>5. CASE k < 10
  BY <1>3, <1>4, <1>5 DEF IsDecimal
<1>6. CASE k >= 10
  <2>1. k \div 10 \in Nat /\ k \div 10 < k
    BY <1>4, <1>6, DivTen
  <2>2. k \div 10 \in 0 .. n
    BY <1>3, <2>1
  <2>3. f[k \div 10] = g[k \div 10]
    BY <1>2, <2>1, <2>2
  <2>4. f[k] = Append(f[k \div 10], 48 + (k % 10)) /\ g[k] = Append(g[k \div 10], 48 + (k % 10))
    BY <1>4, <1>6 DEF IsDecimal
  <2>5. QED
    BY <1>3, <2>3, <2>4
<1>7. QED
  BY <1>4, <1>5, <1>6

\* Decimal is the function its definition describes.
LEMMA DecimalDef ==
    ASSUME NEW n \in Nat
    PROVE  Decimal[n] = IF n < 10 THEN <<48 + n>> ELSE Append(Decimal[n \div 10], 48 + (n % 10))
<1> DEFINE F(k) == CHOOSE f : IsDecimal(f, k)
           Satisfies(d) ==
               d = [k \in Nat |-> IF k < 10 THEN <<48 + k>>
                                  ELSE Append(d[k \div 10], 48 + (k % 10))]
           D == [k \in Nat |-> F(k)[k]]
<1>1. \A k \in Nat : IsDecimal(F(k), k)
  BY SomeDecimal
<1> HIDE DEF F
<1>2. \A k \in Nat : D[k] = F(k)[k]
  OBVIOUS
<1>3. ASSUME NEW k \in Nat
      PROVE  D[k] = IF k < 10 THEN <<48 + k>> ELSE Append(D[k \div 10], 48 + (k % 10))
  <2>0. k \in 0 .. k
    OBVIOUS
  <2>1. CASE k < 10
    BY <1>1, <1>2, <2>0, <2>1 DEF IsDecimal
  <2>2. CASE ~(k < 10)
    <3>1. k >= 10
      BY <2>2
    <3>2. k \div 10 \in Nat /\ k \div 10 <= k /\ k \div 10 \in 0 .. (k \div 10)
      BY <3>1, DivTen
    <3>3. F(k \div 10)[k \div 10] = F(k)[k \div 10]
      BY <1>1, <3>2, OneDecimal
    <3>4. F(k)[k] = Append(F(k)[k \div 10], 48 + (k % 10))
      BY <1>1, <2>0, <3>1 DEF IsDecimal
    <3>5. D[k] = Append(D[k \div 10], 48 + (k % 10))
      BY <1>2, <3>2, <3>3, <3>4
    <3>6. QED
      BY <2>2, <3>5
  <2>3. QED
    BY <2>1, <2>2
<1>4. Satisfies(D)
  <2>1. D = [k \in Nat |-> D[k]]
    OBVIOUS
  <2> HIDE DEF D
  <2>2. [k \in Nat |-> D[k]] = [k \in Nat |-> IF k < 10 THEN <<48 + k>>
                                  ELSE Append(D[k \div 10], 48 + (k % 10))]
    BY <1>3
  <2>3. QED
    BY <2>1, <2>2
<1> HIDE DEF D
<1>5. Decimal = CHOOSE d : Satisfies(d)
  BY DEF Decimal
<1>6. Satisfies(Decimal)
  BY <1>4, <1>5
<1> DEFINE E == Decimal
<1> HIDE DEF E
<1>7. E = [k \in Nat |-> IF k < 10 THEN <<48 + k>> ELSE Append(E[k \div 10], 48 + (k % 10))]
  BY <1>6 DEF E
<1>8. E[n] = IF n < 10 THEN <<48 + n>> ELSE Append(E[n \div 10], 48 + (n % 10))
  BY <1>7
<1>9. QED
  BY <1>8 DEF E

\* v is the number the digits of s write: a has the numbers of the first ones.
IsNumber(s, v) ==
    /\ s \in Seq(Digit) /\ s # <<>>
    /\ \E a \in [1 .. Len(s) -> Nat] :
        /\ a[1] = s[1] - 48
        /\ \A i \in 2 .. Len(s) : a[i] = 10 * a[i - 1] + s[i] - 48
        /\ a[Len(s)] = v

\* A digit writes a number.
LEMMA NumberOne ==
    ASSUME NEW d \in Digit
    PROVE  IsNumber(<<d>>, d - 48)
<1> DEFINE a == [i \in 1 .. 1 |-> d - 48]
<1>1. Len(<<d>>) = 1 /\ <<d>>[1] = d /\ <<d>> \in Seq(Digit)
  OBVIOUS
<1>2. a \in [1 .. 1 -> Nat] /\ a[1] = d - 48
  BY DEF Digit
<1> HIDE DEF a
<1>3. QED
  BY <1>1, <1>2 DEF IsNumber

\* One more digit.
LEMMA NumberAppend ==
    ASSUME NEW s, NEW v, IsNumber(s, v), NEW d \in Digit
    PROVE  v \in Nat /\ IsNumber(Append(s, d), 10 * v + d - 48)
<1> DEFINE n == Len(s)
<1>1. n \in Nat \ {0} /\ n \in 1 .. n /\ s \in Seq(Digit)
  BY EmptySeq, LenProperties DEF IsNumber
<1>2. PICK a \in [1 .. n -> Nat] :
          /\ a[1] = s[1] - 48
          /\ \A i \in 2 .. n : a[i] = 10 * a[i - 1] + s[i] - 48
          /\ a[n] = v
  BY DEF IsNumber
<1>3. v \in Nat
  BY <1>1, <1>2
<1> DEFINE t == Append(s, d)
           w == 10 * v + d - 48
           b == [i \in 1 .. n + 1 |-> IF i = n + 1 THEN w ELSE a[i]]
<1>4. t \in Seq(Digit) /\ Len(t) = n + 1 /\ t[n + 1] = d /\ \A i \in 1 .. n : t[i] = s[i]
  BY <1>1
<1> HIDE DEF n
<1>5. w \in Nat
  BY <1>3 DEF Digit
<1>6. b \in [1 .. n + 1 -> Nat]
  <2> HIDE DEF w
  <2>1. \A i \in 1 .. n + 1 : i # n + 1 => i \in 1 .. n
    BY <1>1
  <2>2. QED
    BY <1>5, <2>1
<1>7. b[n + 1] = w /\ b[1] = t[1] - 48
  BY <1>1, <1>2, <1>4
<1>8. ASSUME NEW i \in 2 .. n + 1
      PROVE  b[i] = 10 * b[i - 1] + t[i] - 48
  <2>1. i - 1 \in 1 .. n /\ i - 1 # n + 1 /\ i - 1 \in 1 .. n + 1
    BY <1>1
  <2>2. b[i - 1] = a[i - 1]
    BY <2>1
  <2>3. CASE i = n + 1
    <3>1. b[i] = w /\ t[i] = d /\ b[i - 1] = v
      BY <1>1, <1>2, <1>4, <2>2, <2>3
    <3>2. QED
      BY <3>1
  <2>4. CASE i # n + 1
    <3>1. i \in 2 .. n /\ i \in 1 .. n /\ i \in 1 .. n + 1
      BY <1>1, <2>4
    <3>2. b[i] = a[i] /\ t[i] = s[i]
      BY <1>4, <2>4, <3>1
    <3>3. QED
      BY <1>2, <2>2, <3>1, <3>2
  <2>5. QED
    BY <2>3, <2>4
<1> HIDE DEF b, t
<1>9. t # <<>>
  BY <1>1, <1>4
<1> HIDE DEF w
<1>10. IsNumber(t, w)
  BY <1>4, <1>6, <1>7, <1>8, <1>9 DEF IsNumber
<1>11. QED
  BY <1>3, <1>10 DEF t, w

\* IsNumber is what Number computes.
LEMMA NumberEqual ==
    ASSUME NEW s, NEW v, IsNumber(s, v)
    PROVE  v \in Nat /\ Number(s) = v
<1> DEFINE n == Len(s)
<1>1. n \in Nat \ {0} /\ n \in 1 .. n /\ s \in [1 .. n -> Digit]
  BY EmptySeq, LenProperties DEF IsNumber
<1>2. PICK a \in [1 .. n -> Nat] :
          /\ a[1] = s[1] - 48
          /\ \A i \in 2 .. n : a[i] = 10 * a[i - 1] + s[i] - 48
          /\ a[n] = v
  BY DEF IsNumber
<1> DEFINE IsNumbers(g) ==
               g = [i \in 1 .. n |-> (IF i = 1 THEN 0 ELSE 10 * g[i - 1]) + s[i] - 48]
           number == CHOOSE g : IsNumbers(g)
<1>3. Number(s) = number[n]
  BY DEF Number
<1> HIDE DEF n
<1>4. \A i \in 1 .. n : i # 1 => i \in 2 .. n /\ i - 1 \in 1 .. n /\ i - 1 \in Nat /\ i - 1 < i
  BY <1>1
<1>5. \A i \in 1 .. n : s[i] \in Int
  BY <1>1 DEF Digit
<1>6. \A i \in 1 .. n : a[i] = (IF i = 1 THEN 0 ELSE 10 * a[i - 1]) + s[i] - 48
  BY <1>2, <1>4, <1>5
<1>7. IsNumbers(a)
  BY <1>6
<1>8. IsNumbers(number)
  BY <1>7
<1> HIDE DEF number
<1>9. \A i \in 1 .. n : number[i] = (IF i = 1 THEN 0 ELSE 10 * number[i - 1]) + s[i] - 48
  BY <1>8
<1> DEFINE Bad == {i \in 1 .. n : number[i] # a[i]}
<1>10. Bad = {}
  <2> SUFFICES ASSUME Bad # {} PROVE FALSE
    OBVIOUS
  <2>0. Bad \in SUBSET Nat
    OBVIOUS
  <2>1. PICK i \in Bad : \A j \in Nat : j < i => j \notin Bad
    BY <2>0, LeastOf
  <2>2. i \in 1 .. n /\ number[i] # a[i]
    OBVIOUS
  <2>3. i # 1
    BY <1>6, <1>9, <2>2
  <2>4. number[i - 1] = a[i - 1]
    BY <1>4, <2>1, <2>2, <2>3
  <2>5. number[i] = 10 * number[i - 1] + s[i] - 48
    BY <1>9, <2>2, <2>3
  <2>6. a[i] = 10 * a[i - 1] + s[i] - 48
    BY <1>6, <2>2, <2>3
  <2>7. QED
    BY <2>2, <2>4, <2>5, <2>6
<1>11. number[n] = a[n]
  BY <1>1, <1>10
<1>12. QED
  BY <1>1, <1>2, <1>3, <1>11

\* The decimal digits of a number write it, and the first one is not zero.
LEMMA DecimalIsNumber ==
    ASSUME NEW n \in Nat \ {0}
    PROVE  Decimal[n] \in Seq(Digit) /\ Decimal[n][1] \in Digit1 /\ IsNumber(Decimal[n], n)
<1> DEFINE Good(k) == Decimal[k] \in Seq(Digit) /\ Decimal[k][1] \in Digit1 /\ IsNumber(Decimal[k], k)
           Bad == {k \in Nat \ {0} : ~Good(k)}
<1> SUFFICES ASSUME Bad # {} PROVE FALSE
  OBVIOUS
<1>1. Bad \in SUBSET Nat
  OBVIOUS
<1>2. PICK k \in Bad : \A j \in Nat : j < k => j \notin Bad
  BY <1>1, LeastOf
<1>3. k \in Nat \ {0} /\ ~Good(k)
  OBVIOUS
<1>4. CASE k < 10
  <2>1. Decimal[k] = <<48 + k>>
    BY <1>3, <1>4, DecimalDef
  <2>2. 48 + k \in Digit /\ 48 + k \in Digit1 /\ (48 + k) - 48 = k
    BY <1>3, <1>4 DEF Digit, Digit1
  <2>3. IsNumber(<<48 + k>>, k)
    BY <2>2, NumberOne
  <2>4. QED
    BY <1>3, <2>1, <2>2, <2>3
<1>5. CASE ~(k < 10)
  <2> DEFINE q == k \div 10
             r == k % 10
  <2>1. q \in Nat \ {0} /\ q < k /\ r \in 0 .. 9 /\ k = 10 * q + r
    <3>1. k >= 10
      BY <1>3, <1>5
    <3>2. q >= 1
      BY <1>3, <3>1, DivTen
    <3>3. QED
      BY <1>3, <3>1, <3>2, DivTen
  <2>2. Decimal[k] = Append(Decimal[q], 48 + r)
    BY <1>3, <1>5, DecimalDef
  <2> HIDE DEF q, r
  <2>3. Good(q)
    BY <1>2, <2>1
  <2>4. 48 + r \in Digit
    BY <2>1 DEF Digit
  <2>5. IsNumber(Append(Decimal[q], 48 + r), 10 * q + (48 + r) - 48)
    BY <2>3, <2>4, NumberAppend
  <2>6. 10 * q + (48 + r) - 48 = k
    BY <2>1
  <2>7. Decimal[q] # <<>>
    BY <2>3 DEF IsNumber
  <2>8. Append(Decimal[q], 48 + r) \in Seq(Digit) /\ Append(Decimal[q], 48 + r)[1] = Decimal[q][1]
    BY <2>3, <2>4, <2>7
  <2>9. QED
    BY <1>3, <2>2, <2>3, <2>5, <2>6, <2>8
<1>6. QED
  BY <1>4, <1>5

-----------------------------------------------------------------------------
(* The buffers of a message.                                               *)

\* The buffers of the reader.
Buffer == {b \in [buff : Seq(Byte), bufflen : Nat] : b.bufflen <= Len(b.buff) /\ Len(b.buff) <= BuffSize}
FullBuffer == {b \in Buffer : b.bufflen = BuffSize /\ Len(b.buff) = BuffSize}

\* What of the buffers belongs to the message, and the sequence these parts make.
Texts(q) == [i \in DOMAIN q |-> SubSeq(q[i].buff, 1, q[i].bufflen)]

Joined(ss, y) ==
    /\ ss \in Seq(Seq(Byte))
    /\ (ss = <<>> /\ y = <<>>) \/ (ss # <<>> /\ IsFlat(ss, y))

\* A sequence of bytes in two parts.
Split(x, y, z) == y \in Seq(Byte) /\ z \in Seq(Byte) /\ x = y \o z

\* The buffers of a message that has x so far: all are full but the last one.
Stores(q, x) ==
    \E o \in Seq(FullBuffer), y \in Seq(Byte), b \in Seq(Byte) :
        /\ q = Append(o, [buff |-> b, bufflen |-> 0])
        /\ Len(b) <= BuffSize
        /\ Joined(Texts(o), y)
        /\ Split(x, y, b)

\* The numbers among the parameters.
LEMMA Sizes ==
    /\ BuffSize \in Nat /\ BuffSize > 0 /\ Len(EOM) = 6 /\ 6 <= BuffSize
    /\ EOM \in Seq(Byte)
BY FramingAssumption DEF EOM, Byte

\* What is joined is a sequence of bytes; one more part goes to the end of it.
LEMMA JoinedAppend ==
    ASSUME NEW ss, NEW y, Joined(ss, y), NEW z \in Seq(Byte)
    PROVE  y \in Seq(Byte) /\ Joined(Append(ss, z), y \o z)
<1>1. ss \in Seq(Seq(Byte)) /\ Append(ss, z) \in Seq(Seq(Byte)) /\ Append(ss, z) # <<>>
  <2>1. ss \in Seq(Seq(Byte))
    BY DEF Joined
  <2>2. QED
    BY <2>1, AppendProperties
<1>2. CASE ss = <<>>
  <2>1. y = <<>> /\ y \o z = z /\ Append(ss, z) = <<z>>
    BY <1>2 DEF Joined
  <2>2. QED
    BY <1>1, <2>1, FlatOne DEF Joined
<1>3. CASE ss # <<>>
  <2>1. IsFlat(ss, y)
    BY <1>3 DEF Joined
  <2>2. IsFlat(Append(ss, z), y \o z)
    BY <1>1, <1>3, <2>1, FlatAppend
  <2>3. y \in Seq(Byte)
    BY <1>1, <1>3, <2>1, FlatPath
  <2>4. QED
    BY <1>1, <2>2, <2>3 DEF Joined
<1>4. QED
  BY <1>2, <1>3

\* The last part is the end of it.
LEMMA JoinedFront ==
    ASSUME NEW ss \in Seq(Seq(Byte)), NEW z \in Seq(Byte), NEW x, Joined(Append(ss, z), x)
    PROVE  \E y : Joined(ss, y) /\ Split(x, y, z)
<1> DEFINE tt == Append(ss, z)
<1>1. tt \in Seq(Seq(Byte)) /\ tt # <<>> /\ IsFlat(tt, x)
  BY DEF Joined
<1>2. CASE ss = <<>>
  <2>0. FlattenSeq(tt) = x
    BY <1>1, FlatEqual
  <2>1. tt = <<z>> /\ FlattenSeq(tt) = x
    BY <1>2, <2>0
  <2>2. FlattenSeq(tt) = z
    BY <1>1, <2>1, FlatEqual, FlatOne
  <2>3. x = <<>> \o z /\ <<>> \in Seq(Byte)
    BY <2>1, <2>2
  <2>4. QED
    BY <1>2, <2>3 DEF Joined, Split
<1>3. CASE ss # <<>>
  <2>1. Len(tt) > 1 /\ Front(tt) = ss /\ Last(tt) = z
    <3>1. Len(ss) \in Nat \ {0} /\ Len(tt) = Len(ss) + 1 /\ tt[Len(ss) + 1] = z
      BY <1>3, EmptySeq
    <3>2. SubSeq(tt, 1, Len(ss)) = ss
      BY <3>1
    <3>3. QED
      BY <3>1, <3>2 DEF Front, Last
  <2>2. PICK y \in Seq(Byte) : IsFlat(Front(tt), y) /\ x = y \o Last(tt)
    BY <1>1, <2>1, FlatFront
  <2>3. QED
    BY <1>3, <2>1, <2>2 DEF Joined, Split
<1>4. QED
  BY <1>2, <1>3

\* The parts of the buffers, one by one.
LEMMA TextsAppend ==
    ASSUME NEW q \in Seq(Buffer), NEW b \in Buffer
    PROVE  /\ Texts(q) \in Seq(Seq(Byte))
           /\ SubSeq(b.buff, 1, b.bufflen) \in Seq(Byte)
           /\ Texts(Append(q, b)) = Append(Texts(q), SubSeq(b.buff, 1, b.bufflen))
<1> DEFINE T(c) == SubSeq(c.buff, 1, c.bufflen)
           n == Len(q)
<1>1. ASSUME NEW c \in Buffer
      PROVE  T(c) \in Seq(Byte)
  <2>1. c.buff \in Seq(Byte) /\ c.bufflen \in Nat /\ c.bufflen <= Len(c.buff)
    BY DEF Buffer
  <2>2. QED
    BY <2>1
<1>2. n \in Nat /\ DOMAIN q = 1 .. n /\ q \in [1 .. n -> Buffer]
  BY LenProperties
<1> DEFINE p == Append(q, b)
<1>3. DOMAIN p = 1 .. n + 1 /\ p[n + 1] = b /\ \A i \in 1 .. n : p[i] = q[i]
  BY <1>2
<1> HIDE DEF T, n
<1>4. Texts(q) = [i \in 1 .. n |-> T(q[i])]
  BY <1>2 DEF Texts, T
<1>5. Texts(p) = [i \in 1 .. n + 1 |-> T(p[i])]
  BY <1>3 DEF Texts, T
<1>6. Texts(q) \in [1 .. n -> Seq(Byte)]
  BY <1>1, <1>2, <1>4
<1>7. Texts(q) \in Seq(Seq(Byte)) /\ Len(Texts(q)) = n
  BY <1>2, <1>6, SeqDef
<1> HIDE DEF p
<1> DEFINE a == Append(Texts(q), T(b))
<1>8. a \in Seq(Seq(Byte)) /\ Len(a) = n + 1 /\ a[n + 1] = T(b) /\ \A i \in 1 .. n : a[i] = Texts(q)[i]
  BY <1>1, <1>7
<1>9. \A i \in 1 .. n + 1 : a[i] = T(p[i])
  BY <1>2, <1>3, <1>4, <1>8
<1> HIDE DEF a
<1>10. a = [i \in 1 .. n + 1 |-> T(p[i])]
  BY <1>8, <1>9
<1>11. QED
  BY <1>1, <1>5, <1>7, <1>10 DEF a, p, T

\* A message begins with an empty buffer.
LEMMA StoresNothing ==
    Stores(<<NewBuff>>, <<>>)
<1>1. <<>> \in Seq(FullBuffer) /\ <<>> \in Seq(Byte) /\ Len(<<>>) <= BuffSize
  BY Sizes
<1>2. Texts(<<>>) = <<>>
  BY DEF Texts
<1>3. Joined(<<>>, <<>>)
  BY DEF Joined
<1>4. <<NewBuff>> = Append(<<>>, [buff |-> <<>>, bufflen |-> 0]) /\ <<>> \o <<>> = <<>>
  BY DEF NewBuff
<1>5. QED
  BY <1>1, <1>2, <1>3, <1>4 DEF Stores, Split

\* The last element of a sequence is exchanged.
LEMMA LastExchanged ==
    ASSUME NEW S, NEW o \in Seq(S), NEW b \in S, NEW c \in S
    PROVE  /\ Append(o, b) \in Seq(S) /\ Len(Append(o, b)) = Len(o) + 1 /\ Append(o, b) # <<>>
           /\ Len(o) \in Nat
           /\ Append(o, b)[Len(o) + 1] = b /\ \A i \in 1 .. Len(o) : Append(o, b)[i] = o[i]
           /\ Last(Append(o, b)) = b /\ Front(Append(o, b)) = o
           /\ [Append(o, b) EXCEPT ![Len(Append(o, b))] = c] = Append(o, c)
<1> DEFINE n == Len(o)
           p == Append(o, b)
           r == Append(o, c)
<1>1. n \in Nat /\ p \in Seq(S) /\ r \in Seq(S) /\ Len(p) = n + 1 /\ Len(r) = n + 1
  OBVIOUS
<1>2. p[n + 1] = b /\ r[n + 1] = c /\ \A i \in 1 .. n : p[i] = o[i] /\ r[i] = o[i]
  OBVIOUS
<1>3. SubSeq(p, 1, n) = o
  OBVIOUS
<1>8. Last(p) = b /\ Front(p) = o /\ p # <<>>
  <2>1. Last(p) = b
    BY <1>1, <1>2 DEF Last
  <2>2. Len(p) - 1 = n
    BY <1>1
  <2>3. Front(p) = o
    BY <1>3, <2>2 DEF Front
  <2>4. p # <<>>
    BY <1>1, EmptySeq
  <2>5. QED
    BY <2>1, <2>3, <2>4
<1> DEFINE e == [p EXCEPT ![n + 1] = c]
<1> HIDE DEF n, p, r
<1>4. n + 1 \in 1 .. Len(p)
  BY <1>1
<1>5. e \in Seq(S) /\ Len(e) = n + 1 /\ \A i \in 1 .. n + 1 : e[i] = IF i = n + 1 THEN c ELSE p[i]
  BY <1>1, <1>4, ExceptSeq
<1> HIDE DEF e
<1>6. ASSUME NEW i \in 1 .. n + 1
      PROVE  e[i] = r[i]
  <2>1. CASE i = n + 1
    BY <1>2, <1>5, <2>1
  <2>2. CASE i # n + 1
    <3>1. i \in 1 .. n
      BY <1>1, <2>2
    <3>2. QED
      BY <1>2, <1>5, <2>2, <3>1
  <2>3. QED
    BY <2>1, <2>2
<1>7. e = r
  BY <1>1, <1>5, <1>6, SeqEqual
<1>9. [p EXCEPT ![Len(p)] = c] = r
  BY <1>1, <1>7 DEF e
<1>10. QED
  BY <1>1, <1>2, <1>8, <1>9 DEF p, r, n

\* A full buffer is closed, and an empty one follows it (WithRoom).
LEMMA StoresRoom ==
    ASSUME NEW q, NEW x, Stores(q, x), ~(Len(Last(q).buff) < BuffSize)
    PROVE  Stores(Append([q EXCEPT ![Len(q)].bufflen = BuffSize], NewBuff), x)
<1>1. PICK o \in Seq(FullBuffer), y \in Seq(Byte), b \in Seq(Byte) :
          /\ q = Append(o, [buff |-> b, bufflen |-> 0])
          /\ Len(b) <= BuffSize
          /\ Joined(Texts(o), y)
          /\ x = y \o b
  BY DEF Stores, Split
<1> DEFINE last == [buff |-> b, bufflen |-> 0]
           full == [buff |-> b, bufflen |-> BuffSize]
<1>o. o \in Seq(Buffer)
  BY SeqMonotonic DEF FullBuffer
<1>b. last \in Buffer
  BY <1>1 DEF Buffer
<1>2. Last(q) = last /\ Len(q) = Len(o) + 1
  BY <1>1, <1>o, <1>b, LastExchanged
<1>3. Len(b) = BuffSize
  <2>1. last.buff = b
    OBVIOUS
  <2>2. QED
    BY <1>1, <1>2, <2>1, Sizes
<1>4. full \in FullBuffer /\ full \in Buffer
  BY <1>3, Sizes DEF FullBuffer, Buffer
<1>5. [q EXCEPT ![Len(q)].bufflen = BuffSize] = [q EXCEPT ![Len(q)] = full]
  <2>1. q[Len(q)] = last
    BY <1>2 DEF Last
  <2>2. [last EXCEPT !.bufflen = BuffSize] = full
    OBVIOUS
  <2> HIDE DEF last, full
  <2>3. QED
    BY <2>1, <2>2
<1> HIDE DEF full, last
<1>6. [q EXCEPT ![Len(q)] = full] = Append(o, full)
  BY <1>1, <1>4, <1>o, <1>b, LastExchanged DEF last
<1> DEFINE p == Append(o, full)
<1>7. p \in Seq(FullBuffer)
  BY <1>4
<1>9. SubSeq(full.buff, 1, full.bufflen) = b
  BY <1>3 DEF full
<1>10. Texts(p) = Append(Texts(o), b)
  BY <1>4, <1>o, <1>9, TextsAppend
<1>11. Joined(Texts(p), x)
  BY <1>1, <1>10, JoinedAppend
<1>12. x \in Seq(Byte) /\ x = x \o <<>> /\ <<>> \in Seq(Byte) /\ Len(<<>>) <= BuffSize
  BY <1>1, Sizes
<1>13. NewBuff = [buff |-> <<>>, bufflen |-> 0]
  BY DEF NewBuff
<1> HIDE DEF p
<1>14. Stores(Append(p, NewBuff), x)
  BY <1>7, <1>11, <1>12, <1>13 DEF Stores, Split
<1>15. QED
  BY <1>5, <1>6, <1>14 DEF p

\* A byte is stored where there is room (Stored).
LEMMA StoresByte ==
    ASSUME NEW q, NEW x, Stores(q, x), Len(Last(q).buff) < BuffSize, NEW ch \in Byte
    PROVE  LET p == [q EXCEPT ![Len(q)].buff = Append(@, ch)]
           IN  Stores(p, Append(x, ch)) /\ Last(p).buff # <<>>
<1>1. PICK o \in Seq(FullBuffer), y \in Seq(Byte), b \in Seq(Byte) :
          /\ q = Append(o, [buff |-> b, bufflen |-> 0])
          /\ Len(b) <= BuffSize
          /\ Joined(Texts(o), y)
          /\ x = y \o b
  BY DEF Stores, Split
<1> DEFINE last == [buff |-> b, bufflen |-> 0]
           b2 == Append(b, ch)
           more == [buff |-> b2, bufflen |-> 0]
<1>o. o \in Seq(Buffer)
  BY SeqMonotonic DEF FullBuffer
<1>b. last \in Buffer
  BY <1>1 DEF Buffer
<1>2. Last(q) = last /\ Len(q) = Len(o) + 1
  BY <1>1, <1>o, <1>b, LastExchanged
<1>3. Len(b) < BuffSize
  <2>1. last.buff = b
    OBVIOUS
  <2>2. QED
    BY <1>2, <2>1
<1>4. b2 \in Seq(Byte) /\ Len(b2) = Len(b) + 1 /\ b2 # <<>> /\ Append(x, ch) = y \o b2
  <2>1. b2 \in Seq(Byte) /\ Len(b2) = Len(b) + 1 /\ b2 # <<>>
    BY AppendProperties
  <2>2. x \in Seq(Byte) /\ <<ch>> \in Seq(Byte)
    BY <1>1
  <2>3. Append(x, ch) = x \o <<ch>> /\ b2 = b \o <<ch>>
    BY <2>2, AppendIsConcat
  <2>4. (y \o b) \o <<ch>> = y \o (b \o <<ch>>)
    BY <2>2, ConcatAssociative
  <2>5. QED
    BY <1>1, <2>1, <2>3, <2>4
<1>5. [q EXCEPT ![Len(q)].buff = Append(@, ch)] = [q EXCEPT ![Len(q)] = more]
  <2>1. q[Len(q)] = last
    BY <1>2 DEF Last
  <2>2. [last EXCEPT !.buff = Append(@, ch)] = more
    <3>1. last.buff = b
      OBVIOUS
    <3> HIDE DEF b2
    <3>2. [last EXCEPT !.buff = b2] = more
      OBVIOUS
    <3>3. QED
      BY <3>1, <3>2 DEF b2
  <2> HIDE DEF last, more
  <2>3. QED
    BY <2>1, <2>2
<1>6. more.buff = b2
  OBVIOUS
<1> HIDE DEF more, last
<1>8. Len(b2) <= BuffSize
  BY <1>3, <1>4, Sizes
<1>m. more \in Buffer
  BY <1>4, <1>8 DEF Buffer, more
<1>7. [q EXCEPT ![Len(q)] = more] = Append(o, more) /\ Last(Append(o, more)) = more
  BY <1>1, <1>m, <1>o, <1>b, LastExchanged DEF last
<1> HIDE DEF b2
<1>9. Stores(Append(o, more), Append(x, ch))
  BY <1>1, <1>4, <1>8 DEF Stores, Split, more
<1>10. QED
  BY <1>4, <1>5, <1>6, <1>7, <1>9

\* The end of a sequence is cut off.
LEMMA CutConcat ==
    ASSUME NEW x, NEW y, NEW b, NEW m, NEW e, Split(x, y, b), Split(x, m, e), Len(e) <= Len(b)
    PROVE  /\ Len(y) + Len(b) = Len(m) + Len(e)
           /\ SubSeq(b, 1, Len(b) - Len(e)) \in Seq(Byte)
           /\ y \o SubSeq(b, 1, Len(b) - Len(e)) = m
<1>0. /\ y \in Seq(Byte) /\ b \in Seq(Byte) /\ m \in Seq(Byte) /\ e \in Seq(Byte)
      /\ y \o b = m \o e
  BY DEF Split
<1> DEFINE k == Len(b) - Len(e)
           c == SubSeq(b, 1, k)
<1>1. k \in Nat /\ k <= Len(b) /\ Len(b) \in Nat /\ Len(e) \in Nat /\ Len(y) \in Nat /\ Len(m) \in Nat
  BY <1>0, LenProperties
<1>2. Len(y) + Len(b) = Len(m) + Len(e)
  <2>1. Len(y \o b) = Len(y) + Len(b) /\ Len(m \o e) = Len(m) + Len(e)
    BY <1>0
  <2>2. QED
    BY <1>0, <2>1
<1>3. c \in Seq(Byte) /\ Len(c) = k /\ \A i \in 1 .. k : c[i] = b[i]
  BY <1>0, <1>1
<1>4. Len(m) = Len(y) + k
  BY <1>1, <1>2
<1> HIDE DEF c, k
<1>5. y \o c \in Seq(Byte) /\ Len(y \o c) = Len(m)
  <2>1. y \o c \in Seq(Byte) /\ Len(y \o c) = Len(y) + Len(c)
    BY <1>0, <1>3, ConcatProperties
  <2>2. QED
    BY <1>3, <1>4, <2>1
<1>6. ASSUME NEW i \in 1 .. Len(m)
      PROVE  (y \o c)[i] = m[i]
  <2>1. i \in 1 .. Len(m) + Len(e) /\ i \in 1 .. Len(y) + Len(b)
    BY <1>1, <1>2
  <2>2. (m \o e)[i] = m[i]
    BY <1>0, <2>1, ConcatProperties
  <2>3. CASE i <= Len(y)
    <3>1. (y \o c)[i] = y[i] /\ (y \o b)[i] = y[i]
      BY <1>0, <1>1, <1>3, <1>4, <2>1, <2>3, ConcatProperties
    <3>2. QED
      BY <1>0, <2>2, <3>1
  <2>4. CASE ~(i <= Len(y))
    <3>1. (y \o b)[i] = b[i - Len(y)]
      BY <1>0, <1>1, <2>1, <2>4, ConcatProperties
    <3>2. i \in 1 .. Len(y) + Len(c)
      BY <1>1, <1>3, <1>4
    <3>3. (y \o c)[i] = c[i - Len(y)]
      BY <1>0, <1>1, <1>3, <2>4, <3>2, ConcatProperties
    <3>4. i - Len(y) \in 1 .. k
      BY <1>1, <1>4, <2>4
    <3>5. QED
      BY <1>0, <1>3, <2>2, <3>1, <3>3, <3>4
  <2>5. QED
    BY <2>3, <2>4
<1>7. y \o c = m
  BY <1>0, <1>5, <1>6, SeqEqual
<1>8. QED
  BY <1>2, <1>3, <1>7 DEF c, k

\* Buffers that are all closed hold what their parts make.
LEMMA TextsMake ==
    ASSUME NEW o \in Seq(Buffer), NEW y, Joined(Texts(o), y), NEW b \in Buffer,
           NEW m, m = y \o SubSeq(b.buff, 1, b.bufflen)
    PROVE  FlattenSeq(Texts(Append(o, b))) = m
<1> DEFINE c == SubSeq(b.buff, 1, b.bufflen)
<1>1. Texts(Append(o, b)) = Append(Texts(o), c) /\ c \in Seq(Byte)
  BY TextsAppend
<1> HIDE DEF c
<1>2. Joined(Append(Texts(o), c), y \o c)
  BY <1>1, JoinedAppend
<1>3. Append(Texts(o), c) # <<>>
  <2>1. PICK ss, S : S = Seq(Byte) /\ ss = Texts(o) /\ ss \in Seq(S)
    BY TextsAppend
  <2>2. c \in S
    BY <1>1, <2>1
  <2>3. Append(ss, c) # <<>>
    <3>1. ss \in Seq(S)
      BY <2>1
    <3>2. QED
      BY <2>2, <3>1, AppendProperties
  <2>4. QED
    BY <2>1, <2>3
<1>4. FlattenSeq(Append(Texts(o), c)) = y \o c
  BY <1>2, <1>3, FlatEqual DEF Joined
<1>5. QED
  BY <1>1, <1>4 DEF c

\* The first part is split.
LEMMA SplitTwice ==
    ASSUME NEW x, NEW y, NEW b, NEW z, NEW g, Split(x, y, b), Split(y, z, g)
    PROVE  Split(x, z, g \o b) /\ Split(g \o b, g, b)
<1>1. z \in Seq(Byte) /\ g \in Seq(Byte) /\ b \in Seq(Byte) /\ x = (z \o g) \o b
  BY DEF Split
<1>2. (z \o g) \o b = z \o (g \o b) /\ g \o b \in Seq(Byte)
  BY <1>1, ConcatAssociative
<1>3. QED
  BY <1>1, <1>2 DEF Split

\* The end of a sequence of three parts is cut off in the second.
LEMMA CutConcat3 ==
    ASSUME NEW x, NEW y, NEW z, NEW g, NEW b, NEW m, NEW e,
           Split(x, y, b), Split(y, z, g), Split(x, m, e),
           Len(b) <= Len(e), Len(e) < Len(g) + Len(b)
    PROVE  z \o SubSeq(g, 1, Len(g) - (Len(e) - Len(b))) = m
<1> DEFINE d == g \o b
<1>1. Split(x, z, d) /\ Split(d, g, b)
  BY SplitTwice
<1>2. g \in Seq(Byte) /\ b \in Seq(Byte) /\ e \in Seq(Byte)
  BY DEF Split
<1>3. Len(d) = Len(g) + Len(b) /\ Len(e) \in Nat /\ Len(b) \in Nat /\ Len(g) \in Nat
  BY <1>2, ConcatProperties
<1> HIDE DEF d
<1>4. Len(e) <= Len(d)
  BY <1>3
<1>5. z \o SubSeq(d, 1, Len(d) - Len(e)) = m
  BY <1>1, <1>4, CutConcat, SMTT(30)
<1> DEFINE k == Len(g) - (Len(e) - Len(b))
<1>6. k = Len(d) - Len(e) /\ k \in 1 .. Len(g) /\ 1 \in 1 .. Len(g)
  BY <1>3
<1> HIDE DEF k
<1>7. SubSeq(d, 1, k) = SubSeq(g, 1, k)
  BY <1>2, <1>6, SubSeqOfConcat1 DEF d
<1>8. QED
  BY <1>5, <1>6, <1>7 DEF k

\* The length of a buffer of the reader is set.
LEMMA LastCut ==
    ASSUME NEW o \in Seq(Buffer), NEW b \in Buffer, NEW k \in Nat, k <= Len(b.buff)
    PROVE  LET q == Append(o, b)
               c == [buff |-> b.buff, bufflen |-> k]
           IN  /\ c \in Buffer /\ Append(o, c) \in Seq(Buffer)
               /\ [q EXCEPT ![Len(q)].bufflen = k] = Append(o, c)
<1> DEFINE q == Append(o, b)
           c == [buff |-> b.buff, bufflen |-> k]
<1>1. c \in Buffer
  BY DEF Buffer
<1>2. q[Len(q)] = b
  BY LastExchanged
<1>3. [b EXCEPT !.bufflen = k] = c
  <2>1. b = [buff |-> b.buff, bufflen |-> b.bufflen]
    BY DEF Buffer
  <2>2. QED
    BY <2>1
<1> HIDE DEF c
<1>4. [q EXCEPT ![Len(q)].bufflen = k] = [q EXCEPT ![Len(q)] = c]
  <2> HIDE DEF q
  <2>1. QED
    BY <1>2, <1>3
<1>5. [q EXCEPT ![Len(q)] = c] = Append(o, c) /\ Append(o, c) \in Seq(Buffer)
  BY <1>1, LastExchanged
<1>6. QED
  BY <1>1, <1>4, <1>5 DEF c

\* The marker is cut off the last buffer.
LEMMA CutInLast ==
    ASSUME NEW o \in Seq(Buffer), NEW b \in Buffer, Len(b.buff) > 6, NEW y, Joined(Texts(o), y),
           NEW m, y \o SubSeq(b.buff, 1, Len(b.buff) - 6) = m
    PROVE  CutEOM(Append(o, b)) \in Seq(Buffer) /\ FlattenSeq(Texts(CutEOM(Append(o, b)))) = m
<1> DEFINE q == Append(o, b)
           k == Len(b.buff) - 6
           c == [buff |-> b.buff, bufflen |-> k]
<1>1. Len(b.buff) \in Nat /\ k \in Nat /\ k <= Len(b.buff)
  BY DEF Buffer
<1>2. Last(q) = b
  BY LastExchanged
<1> HIDE DEF q
<1>3. CutEOM(q) = [q EXCEPT ![Len(q)].bufflen = k]
  BY <1>2, Sizes DEF CutEOM
<1> HIDE DEF k
<1>4. c \in Buffer /\ CutEOM(q) = Append(o, c) /\ Append(o, c) \in Seq(Buffer)
  BY <1>1, <1>3, LastCut DEF q
<1>5. c.buff = b.buff /\ c.bufflen = k
  OBVIOUS
<1> HIDE DEF c
<1>6. m = y \o SubSeq(c.buff, 1, c.bufflen)
  BY <1>5 DEF k
<1>7. FlattenSeq(Texts(Append(o, c))) = m
  BY <1>4, <1>6, TextsMake
<1>8. QED
  BY <1>4, <1>7 DEF q

\* The marker is the last buffer and the end of the one before it.
LEMMA CutBefore ==
    ASSUME NEW o \in Seq(Buffer), NEW f \in Buffer, f.bufflen = Len(f.buff), NEW b \in Buffer,
           Len(b.buff) <= 6, 6 <= Len(f.buff) + Len(b.buff), NEW y, Joined(Texts(o), y),
           NEW m, y \o SubSeq(f.buff, 1, Len(f.buff) - (6 - Len(b.buff))) = m
    PROVE  LET q == Append(Append(o, f), b)
           IN  CutEOM(q) \in Seq(Buffer) /\ FlattenSeq(Texts(CutEOM(q))) = m
<1> DEFINE p == Append(o, f)
           q == Append(p, b)
           k == Len(f.buff) - (6 - Len(b.buff))
           c == [buff |-> f.buff, bufflen |-> k]
<1>1. Len(b.buff) \in Nat /\ Len(f.buff) \in Nat /\ k \in Nat /\ k <= Len(f.buff)
  BY DEF Buffer
<1>2. p \in Seq(Buffer) /\ p[Len(p)] = f
  BY LastExchanged
<1> HIDE DEF p
<1>3. Last(q) = b /\ Front(q) = p
  BY <1>2, LastExchanged
<1> HIDE DEF q
<1>4. CutEOM(q) = [p EXCEPT ![Len(p)].bufflen = @ - (6 - Len(b.buff))]
  <2>1. ~(Len(b.buff) > 6)
    BY <1>1
  <2>2. QED
    BY <1>3, <2>1, Sizes DEF CutEOM
<1>5. CutEOM(q) = [p EXCEPT ![Len(p)].bufflen = k]
  BY <1>2, <1>4
<1> HIDE DEF k
<1>6. c \in Buffer /\ CutEOM(q) = Append(o, c) /\ Append(o, c) \in Seq(Buffer)
  BY <1>1, <1>5, LastCut DEF p
<1>7. c.buff = f.buff /\ c.bufflen = k
  OBVIOUS
<1> HIDE DEF c
<1>8. m = y \o SubSeq(c.buff, 1, c.bufflen)
  BY <1>7 DEF k
<1>9. FlattenSeq(Texts(Append(o, c))) = m
  BY <1>6, <1>8, TextsMake
<1>10. QED
  BY <1>6, <1>9 DEF q, p

\* Without the marker the buffers make the message (CutEOM).
LEMMA CutText ==
    ASSUME NEW q, NEW x, NEW m, Split(x, m, EOM), m # <<>>, Stores(q, x), Last(q).buff # <<>>
    PROVE  CutEOM(q) \in Seq(Buffer) /\ FlattenSeq(Texts(CutEOM(q))) = m
<1>1. PICK o, y, b :
          /\ o \in Seq(FullBuffer)
          /\ q = Append(o, [buff |-> b, bufflen |-> 0])
          /\ Len(b) <= BuffSize
          /\ Joined(Texts(o), y)
          /\ Split(x, y, b)
  BY DEF Stores, Split
<1> DEFINE last == [buff |-> b, bufflen |-> 0]
           pos == Len(b)
<1>2. b \in Seq(Byte) /\ y \in Seq(Byte) /\ m \in Seq(Byte)
  BY <1>1 DEF Split
<1>3. last \in Buffer /\ last.buff = b
  BY <1>1, <1>2 DEF Buffer
<1>4. o \in Seq(Buffer)
  BY <1>1, SeqMonotonic DEF FullBuffer
<1>5. q = Append(o, last)
  BY <1>1
<1> HIDE DEF last
<1>6. b # <<>>
  <2>1. Last(q) = last
    BY <1>3, <1>4, <1>5, LastExchanged
  <2>2. QED
    BY <1>3, <2>1
<1>7. pos \in Nat /\ pos > 0
  BY <1>2, <1>6, EmptySeq
<1>8. CASE pos > 6
  <2>1. Len(EOM) <= Len(b)
    BY <1>7, <1>8, Sizes
  <2>2. y \o SubSeq(b, 1, Len(b) - Len(EOM)) = m
    BY <1>1, <2>1, CutConcat, SMTT(30)
  <2>3. y \o SubSeq(last.buff, 1, Len(last.buff) - 6) = m
    BY <1>3, <2>2, Sizes
  <2>4. QED
    BY <1>1, <1>3, <1>4, <1>5, <1>8, <2>3, CutInLast
<1>9. CASE ~(pos > 6)
  <2>1. Len(x) = Len(y) + pos /\ Len(x) = Len(m) + 6 /\ Len(m) \in Nat /\ Len(m) > 0 /\ Len(y) \in Nat
    <3>1. Len(y \o b) = Len(y) + Len(b)
      BY <1>2, ConcatProperties
    <3>2. EOM \in Seq(Byte) /\ Len(EOM) = 6
      BY Sizes
    <3>3. Len(m \o EOM) = Len(m) + Len(EOM)
      BY <1>2, <3>2, ConcatProperties
    <3>4. QED
      BY <1>1, <1>2, <3>1, <3>2, <3>3, EmptySeq DEF Split
  <2>2. o # <<>>
    <3>1. Len(y) > 0
      BY <1>7, <1>9, <2>1
    <3>2. y # <<>>
      BY <3>1
    <3>3. Texts(o) # <<>>
      BY <1>1, <3>2 DEF Joined
    <3>4. QED
      BY <3>3 DEF Texts
  <2>3. PICK p, f : p \in Seq(FullBuffer) /\ f \in FullBuffer /\ o = Append(p, f)
    BY <1>1, <2>2, SequenceEmptyOrAppend
  <2>4. p \in Seq(Buffer)
    BY <2>3, SeqMonotonic DEF FullBuffer
  <2>5. f \in Buffer /\ f.bufflen = BuffSize /\ Len(f.buff) = BuffSize /\ f.buff \in Seq(Byte)
    BY <2>3 DEF FullBuffer, Buffer
  <2>6. SubSeq(f.buff, 1, f.bufflen) = f.buff
    BY <2>5, SubSeqFull
  <2>7. Texts(o) = Append(Texts(p), f.buff) /\ Texts(p) \in Seq(Seq(Byte))
    BY <2>3, <2>4, <2>5, <2>6, TextsAppend
  <2>8. Joined(Append(Texts(p), f.buff), y)
    BY <1>1, <2>7
  <2>9. PICK z : Joined(Texts(p), z) /\ Split(y, z, f.buff)
    BY <2>5, <2>7, <2>8, JoinedFront
  <2>11. Len(b) <= Len(EOM) /\ Len(EOM) < Len(f.buff) + Len(b)
    BY <1>7, <1>9, <2>5, Sizes
  <2>12. z \o SubSeq(f.buff, 1, Len(f.buff) - (Len(EOM) - Len(b))) = m
    BY <1>1, <2>9, <2>11, CutConcat3
  <2>13. z \o SubSeq(f.buff, 1, Len(f.buff) - (6 - Len(last.buff))) = m
    BY <1>3, <2>12, Sizes
  <2>14. Len(last.buff) <= 6 /\ 6 <= Len(f.buff) + Len(last.buff) /\ f.bufflen = Len(f.buff)
    BY <1>3, <1>7, <1>9, <2>5, <2>11, Sizes
  <2>15. q = Append(Append(p, f), last)
    BY <1>5, <2>3
  <2>16. QED
    BY <1>3, <2>4, <2>5, <2>9, <2>13, <2>14, <2>15, CutBefore
<1>10. QED
  BY <1>8, <1>9

\* The buffers make the message when the last one is closed, or dropped if it is
\* empty (EndChunks).
LEMMA EndText ==
    ASSUME NEW q, NEW m, m # <<>>, Stores(q, m)
    PROVE  LET p == IF Last(q).buff = <<>> THEN Front(q)
                    ELSE [q EXCEPT ![Len(q)].bufflen = Len(Last(q).buff)]
           IN  p \in Seq(Buffer) /\ FlattenSeq(Texts(p)) = m
<1>1. PICK o, y, b :
          /\ o \in Seq(FullBuffer)
          /\ q = Append(o, [buff |-> b, bufflen |-> 0])
          /\ Len(b) <= BuffSize
          /\ Joined(Texts(o), y)
          /\ Split(m, y, b)
  BY DEF Stores, Split
<1> DEFINE last == [buff |-> b, bufflen |-> 0]
<1>2. b \in Seq(Byte) /\ y \in Seq(Byte) /\ m = y \o b
  BY <1>1 DEF Split
<1>3. last \in Buffer /\ last.buff = b
  BY <1>1, <1>2 DEF Buffer
<1>4. o \in Seq(Buffer)
  BY <1>1, SeqMonotonic DEF FullBuffer
<1>5. q = Append(o, last)
  BY <1>1
<1> HIDE DEF last
<1>6. Last(q) = last /\ Front(q) = o
  BY <1>3, <1>4, <1>5, LastExchanged
<1>7. CASE b = <<>>
  <2>1. y = m
    BY <1>2, <1>7
  <2>2. Texts(o) # <<>> /\ IsFlat(Texts(o), m) /\ Texts(o) \in Seq(Seq(Byte))
    BY <1>1, <2>1 DEF Joined
  <2>3. FlattenSeq(Texts(o)) = m
    BY <2>2, FlatEqual
  <2>4. QED
    BY <1>3, <1>4, <1>6, <1>7, <2>3
<1>8. CASE b # <<>>
  <2> DEFINE c == [buff |-> last.buff, bufflen |-> Len(b)]
  <2>1. Len(b) \in Nat /\ Len(b) <= Len(last.buff)
    BY <1>2, <1>3
  <2>2. c \in Buffer /\ [q EXCEPT ![Len(q)].bufflen = Len(b)] = Append(o, c) /\ Append(o, c) \in Seq(Buffer)
    BY <1>3, <1>4, <1>5, <2>1, LastCut
  <2>3. c.buff = b /\ c.bufflen = Len(b)
    BY <1>3
  <2> HIDE DEF c
  <2>4. SubSeq(c.buff, 1, c.bufflen) = b
    BY <1>2, <2>3, SubSeqFull
  <2>5. FlattenSeq(Texts(Append(o, c))) = m
    BY <1>1, <1>2, <1>4, <2>2, <2>4, TextsMake
  <2>6. QED
    BY <1>3, <1>6, <1>8, <2>2, <2>5
<1>9. QED
  BY <1>7, <1>8

-----------------------------------------------------------------------------
(* Chains of steps.                                                        *)

\* The n elements of u lead from g[1] to g[n + 1], by the others of g.
IsWay(R, P, S, u, n, g) ==
    /\ u \in Seq(S) /\ n \in Nat /\ n = Len(u)
    /\ g \in [1 .. n + 1 -> P]
    /\ \A i \in 1 .. n : <<g[i], u[i], g[i + 1]>> \in R

\* u, a sequence over S, leads from x to z, elements of P, by steps of R.
Chain(R, P, S, u, x, z) ==
    \E n, g : IsWay(R, P, S, u, n, g) /\ g[1] = x /\ g[n + 1] = z

\* What is led from and to, and by.
LEMMA ChainType ==
    ASSUME NEW R, NEW P, NEW S, NEW u, NEW x, NEW z, Chain(R, P, S, u, x, z)
    PROVE  u \in Seq(S) /\ x \in P /\ z \in P
<1>1. PICK n, g : IsWay(R, P, S, u, n, g) /\ g[1] = x /\ g[n + 1] = z
  BY DEF Chain
<1>2. u \in Seq(S) /\ n \in Nat /\ g \in [1 .. n + 1 -> P]
  BY <1>1 DEF IsWay
<1>3. 1 \in 1 .. n + 1 /\ n + 1 \in 1 .. n + 1
  BY <1>2
<1>4. QED
  BY <1>1, <1>2, <1>3

\* The empty sequence leads to where it begins, and nowhere else.
LEMMA ChainNone ==
    ASSUME NEW R, NEW P, NEW S, NEW x \in P, NEW z
    PROVE  Chain(R, P, S, <<>>, x, z) <=> z = x
<1>1. ASSUME Chain(R, P, S, <<>>, x, z)
      PROVE  z = x
  <2>1. PICK n, g : IsWay(R, P, S, <<>>, n, g) /\ g[1] = x /\ g[n + 1] = z
    BY <1>1 DEF Chain
  <2>2. n = 0
    BY <2>1 DEF IsWay
  <2>3. QED
    BY <2>1, <2>2
<1>2. Chain(R, P, S, <<>>, x, x)
  <2> DEFINE g == [i \in 1 .. 0 + 1 |-> x]
  <2>1. g \in [1 .. 0 + 1 -> P] /\ g[1] = x /\ g[0 + 1] = x
    OBVIOUS
  <2> HIDE DEF g
  <2>2. IsWay(R, P, S, <<>>, 0, g)
    BY <2>1 DEF IsWay
  <2>3. QED
    BY <2>1, <2>2 DEF Chain
<1>3. QED
  BY <1>1, <1>2

\* A sequence that leads somewhere and one that leads on from there.
LEMMA ChainOn ==
    ASSUME NEW R, NEW P, NEW S, NEW u, NEW v, NEW x, NEW y, NEW z,
           Chain(R, P, S, u, x, y), Chain(R, P, S, v, y, z)
    PROVE  Chain(R, P, S, u \o v, x, z)
<1>0. PICK n, g : IsWay(R, P, S, u, n, g) /\ g[1] = x /\ g[n + 1] = y
  BY DEF Chain
<1>1. PICK k, h : IsWay(R, P, S, v, k, h) /\ h[1] = y /\ h[k + 1] = z
  BY DEF Chain
<1>2. /\ u \in Seq(S) /\ n \in Nat /\ n = Len(u) /\ g \in [1 .. n + 1 -> P]
      /\ \A i \in 1 .. n : <<g[i], u[i], g[i + 1]>> \in R
  BY <1>0 DEF IsWay
<1>4. /\ v \in Seq(S) /\ k \in Nat /\ k = Len(v) /\ h \in [1 .. k + 1 -> P]
      /\ \A i \in 1 .. k : <<h[i], v[i], h[i + 1]>> \in R
  BY <1>1 DEF IsWay
<1> DEFINE w == u \o v
<1>5. /\ w \in Seq(S) /\ Len(w) = n + k
      /\ \A i \in 1 .. n + k : w[i] = IF i <= n THEN u[i] ELSE v[i - n]
  <2>1. /\ w \in Seq(S) /\ Len(w) = Len(u) + Len(v)
        /\ \A i \in 1 .. Len(u) + Len(v) : w[i] = IF i <= Len(u) THEN u[i] ELSE v[i - Len(u)]
    BY <1>2, <1>4, ConcatProperties
  <2>2. QED
    BY <1>2, <1>4, <2>1
<1> HIDE DEF w
<1> DEFINE f == [i \in 1 .. (n + k) + 1 |-> IF i <= n THEN g[i] ELSE h[i - n]]
<1>6. \A i \in 1 .. (n + k) + 1 : (i <= n => i \in 1 .. n + 1) /\ (~(i <= n) => i - n \in 1 .. k + 1)
  BY <1>2, <1>4
<1>7. f \in [1 .. (n + k) + 1 -> P]
  BY <1>2, <1>4, <1>6
<1>8. \A i \in 1 .. n + 1 : i \in 1 .. (n + k) + 1 /\ (i <= n \/ (i = n + 1 /\ ~(i <= n) /\ i - n = 1))
  BY <1>2, <1>4, SMTT(30)
<1>9. \A i \in 1 .. n + 1 : f[i] = g[i]
  BY <1>0, <1>1, <1>8
<1>10. \A i \in 1 .. k + 1 : i + n \in 1 .. (n + k) + 1 /\ ~(i + n <= n) /\ (i + n) - n = i
  BY <1>2, <1>4
<1>11. \A i \in 1 .. k + 1 : f[i + n] = h[i]
  BY <1>10
<1> HIDE DEF f
<1>12. ASSUME NEW i \in 1 .. n + k
       PROVE  <<f[i], w[i], f[i + 1]>> \in R
  <2>1. CASE i <= n
    <3>1. i \in 1 .. n /\ i \in 1 .. n + 1 /\ i + 1 \in 1 .. n + 1
      BY <1>2, <1>4, <2>1
    <3>2. w[i] = u[i]
      BY <1>5, <2>1
    <3>3. f[i] = g[i] /\ f[i + 1] = g[i + 1]
      BY <1>9, <3>1
    <3>4. QED
      BY <1>2, <3>1, <3>2, <3>3
  <2>2. CASE ~(i <= n)
    <3>1. PICK j \in 1 .. k : i = j + n
      <4>1. i - n \in 1 .. k /\ i = (i - n) + n
        BY <1>2, <1>4, <2>2
      <4>2. QED
        BY <4>1
    <3>2. j \in 1 .. k + 1 /\ j + 1 \in 1 .. k + 1 /\ (j + 1) + n = i + 1 /\ i - n = j
      BY <1>2, <1>4, <3>1
    <3>3. w[i] = v[j]
      BY <1>5, <2>2, <3>2
    <3>4. f[i] = h[j] /\ f[i + 1] = h[j + 1]
      BY <1>11, <3>1, <3>2
    <3>5. QED
      BY <1>4, <3>3, <3>4
  <2>3. QED
    BY <2>1, <2>2
<1>13. n + k \in Nat
  BY <1>2, <1>4
<1>14. IsWay(R, P, S, w, n + k, f)
  BY <1>5, <1>7, <1>12, <1>13 DEF IsWay
<1>15. f[1] = x
  BY <1>0, <1>2, <1>9
<1>16. f[(n + k) + 1] = z
  <2>1. k + 1 \in 1 .. k + 1 /\ (k + 1) + n = (n + k) + 1
    BY <1>2, <1>4
  <2>2. QED
    BY <1>1, <1>11, <2>1
<1>17. QED
  BY <1>14, <1>15, <1>16 DEF Chain, w

\* The first element, and the others.
LEMMA ChainHead ==
    ASSUME NEW R, NEW P, NEW S, NEW u, NEW x, NEW z, Chain(R, P, S, u, x, z), u # <<>>
    PROVE  \E y \in P : <<x, Head(u), y>> \in R /\ Chain(R, P, S, Tail(u), y, z)
<1>1. PICK n, g : IsWay(R, P, S, u, n, g) /\ g[1] = x /\ g[n + 1] = z
  BY DEF Chain
<1>2. /\ u \in Seq(S) /\ n \in Nat /\ n = Len(u) /\ g \in [1 .. n + 1 -> P]
      /\ \A i \in 1 .. n : <<g[i], u[i], g[i + 1]>> \in R
  BY <1>1 DEF IsWay
<1>3. n - 1 \in Nat /\ n > 0
  BY <1>2, EmptySeq
<1> DEFINE v == Tail(u)
           h == [i \in 1 .. (n - 1) + 1 |-> g[i + 1]]
<1>4. Head(u) = u[1] /\ v \in Seq(S) /\ Len(v) = n - 1 /\ \A i \in 1 .. n - 1 : v[i] = u[i + 1]
  BY <1>2, HeadTailProperties
<1> HIDE DEF v
<1>5. \A i \in 1 .. (n - 1) + 1 : i + 1 \in 1 .. n + 1
  BY <1>2, <1>3
<1>6. h \in [1 .. (n - 1) + 1 -> P] /\ \A i \in 1 .. (n - 1) + 1 : h[i] = g[i + 1]
  BY <1>2, <1>5
<1> HIDE DEF h
<1>7. ASSUME NEW i \in 1 .. n - 1
      PROVE  <<h[i], v[i], h[i + 1]>> \in R
  <2>1. i \in 1 .. (n - 1) + 1 /\ i + 1 \in 1 .. (n - 1) + 1 /\ i + 1 \in 1 .. n
    BY <1>2, <1>3
  <2>2. h[i] = g[i + 1] /\ v[i] = u[i + 1] /\ h[i + 1] = g[(i + 1) + 1]
    BY <1>4, <1>6, <2>1
  <2>3. QED
    BY <1>2, <2>1, <2>2
<1>8. IsWay(R, P, S, v, n - 1, h)
  BY <1>3, <1>4, <1>6, <1>7 DEF IsWay
<1>9. 1 \in 1 .. n /\ 1 \in 1 .. (n - 1) + 1 /\ (n - 1) + 1 \in 1 .. (n - 1) + 1 /\ ((n - 1) + 1) + 1 = n + 1
  BY <1>2, <1>3
<1>10. h[1] = g[1 + 1] /\ h[(n - 1) + 1] = g[n + 1]
  BY <1>6, <1>9
<1>11. <<x, Head(u), h[1]>> \in R
  BY <1>1, <1>2, <1>4, <1>9, <1>10
<1>12. Chain(R, P, S, v, h[1], z)
  BY <1>1, <1>8, <1>10 DEF Chain
<1>13. h[1] \in P
  BY <1>12, ChainType
<1>14. QED
  BY <1>11, <1>12, <1>13 DEF v

\* A sequence leads as far by more steps.
LEMMA ChainMore ==
    ASSUME NEW R, NEW Q, NEW P, NEW S, NEW u, NEW x, NEW z, Chain(R, P, S, u, x, z), R \subseteq Q
    PROVE  Chain(Q, P, S, u, x, z)
<1>1. PICK n, g : IsWay(R, P, S, u, n, g) /\ g[1] = x /\ g[n + 1] = z
  BY DEF Chain
<1>2. IsWay(Q, P, S, u, n, g)
  BY <1>1 DEF IsWay
<1>3. QED
  BY <1>1, <1>2 DEF Chain

-----------------------------------------------------------------------------
(* The bytes of a session.                                                 *)

\* A place between two bytes of the session: in message msg, of which pos bytes are
\* behind it, the end marker counted.  In base:1.1 it is before a chunk or the end of
\* the chunks, behind the newline or the hash there, in the size of the chunk (its
\* value so far and its digits), in the chunk (the bytes left), or before the last
\* newline.
Place == [msg : Nat, at : {"text", "gap", "newline", "hash", "size", "data", "end"},
          pos : Nat, size : Nat, digits : Nat]

PlaceOf(i, at, pos, size, digits) ==
    [msg |-> i, at |-> at, pos |-> pos, size |-> size, digits |-> digits]

\* The first o messages are framed as base:1.0.
Begin(o, i) == PlaceOf(i, IF i <= o THEN "text" ELSE "gap", 0, 0, 0)

\* Byte b takes place x to place z, when the messages are s.
TakesText(s, o, x, b, z) ==
    LET i == x.msg
        m == s[i]
    IN  /\ i \in 1 .. Len(s) /\ i <= o /\ x.at = "text"
        /\ x.pos < Len(m) + Len(EOM)
        /\ b = IF x.pos < Len(m) THEN m[x.pos + 1] ELSE EOM[x.pos + 1 - Len(m)]
        /\ z = IF x.pos + 1 = Len(m) + Len(EOM) THEN Begin(o, i + 1)
               ELSE PlaceOf(i, "text", x.pos + 1, 0, 0)

TakesChunk(s, o, x, b, z) ==
    LET i == x.msg
        m == s[i]
    IN  /\ i \in 1 .. Len(s) /\ i > o
        /\ \/ /\ x.at = "gap" /\ b = LF
              /\ z = PlaceOf(i, "newline", x.pos, 0, 0)
           \/ /\ x.at = "newline" /\ b = HASH
              /\ z = PlaceOf(i, "hash", x.pos, 0, 0)
           \/ /\ x.at = "hash" /\ b \in Digit1 /\ 4 <= MaxStartChunk
              /\ z = PlaceOf(i, "size", x.pos, b - 48, 1)
           \/ /\ x.at = "size" /\ b \in Digit /\ x.digits + 4 <= MaxStartChunk
              /\ z = PlaceOf(i, "size", x.pos, 10 * x.size + b - 48, x.digits + 1)
           \/ /\ x.at = "size" /\ b = LF /\ x.digits + 3 <= MaxStartChunk
              /\ x.size \in 1 .. Len(m) - x.pos
              /\ z = PlaceOf(i, "data", x.pos, x.size, 0)
           \/ /\ x.at = "data" /\ x.pos < Len(m) /\ b = m[x.pos + 1]
              /\ z = IF x.size = 1 THEN PlaceOf(i, "gap", x.pos + 1, 0, 0)
                     ELSE PlaceOf(i, "data", x.pos + 1, x.size - 1, 0)
           \/ /\ x.at = "hash" /\ x.pos = Len(m) /\ b = HASH
              /\ z = PlaceOf(i, "end", x.pos, 0, 0)
           \/ /\ x.at = "end" /\ b = LF
              /\ z = Begin(o, i + 1)

Takes(s, o, x, b, z) ==
    x \in Place /\ z \in Place /\ (TakesText(s, o, x, b, z) \/ TakesChunk(s, o, x, b, z))

\* The steps byte by byte.
Steps(s, o) == {t \in Place \X Byte \X Place : Takes(s, o, t[1], t[2], t[3])}

\* The bytes of u lead from place x to place z.
Leads(s, o, u, x, z) == Chain(Steps(s, o), Place, Byte, u, x, z)

\* A way by its places.
LEMMA WayLeads ==
    ASSUME NEW s, NEW o, NEW u \in Seq(Byte), NEW n \in Nat, n = Len(u),
           NEW g \in [1 .. n + 1 -> Place], \A i \in 1 .. n : Takes(s, o, g[i], u[i], g[i + 1])
    PROVE  Leads(s, o, u, g[1], g[n + 1])
<1>1. ASSUME NEW i \in 1 .. n
      PROVE  <<g[i], u[i], g[i + 1]>> \in Steps(s, o)
  <2>1. i \in 1 .. n + 1 /\ i + 1 \in 1 .. n + 1
    OBVIOUS
  <2>2. u[i] \in Byte
    BY ElementOfSeq
  <2>3. g[i] \in Place /\ g[i + 1] \in Place
    BY <2>1
  <2>4. QED
    BY <2>2, <2>3 DEF Steps
<1>2. IsWay(Steps(s, o), Place, Byte, u, n, g)
  BY <1>1 DEF IsWay
<1>3. QED
  BY <1>2 DEF Leads, Chain

\* What is led from and to, and by.
LEMMA LeadsType ==
    ASSUME NEW s, NEW o, NEW u, NEW x, NEW z, Leads(s, o, u, x, z)
    PROVE  u \in Seq(Byte) /\ x \in Place /\ z \in Place
BY ChainType DEF Leads

\* No byte leads to where it begins, and nowhere else.
LEMMA LeadsNone ==
    ASSUME NEW s, NEW o, NEW x \in Place, NEW z
    PROVE  Leads(s, o, <<>>, x, z) <=> z = x
BY ChainNone DEF Leads

\* Bytes that lead somewhere and bytes that lead on from there.
LEMMA LeadsOn ==
    ASSUME NEW s, NEW o, NEW u, NEW v, NEW x, NEW y, NEW z,
           Leads(s, o, u, x, y), Leads(s, o, v, y, z)
    PROVE  Leads(s, o, u \o v, x, z)
BY ChainOn DEF Leads

\* One byte.
LEMMA LeadsOne ==
    ASSUME NEW s, NEW o, NEW b \in Byte, NEW x, NEW z, Takes(s, o, x, b, z)
    PROVE  Leads(s, o, <<b>>, x, z)
<1> DEFINE g == [i \in 1 .. 1 + 1 |-> IF i = 1 THEN x ELSE z]
           u == <<b>>
<1>1. x \in Place /\ z \in Place
  BY DEF Takes
<1>2. g \in [1 .. 1 + 1 -> Place] /\ g[1] = x /\ g[1 + 1] = z
  BY <1>1
<1>3. u \in Seq(Byte) /\ Len(u) = 1 /\ u[1] = b
  OBVIOUS
<1> HIDE DEF g, u
<1>4. \A i \in 1 .. 1 : Takes(s, o, g[i], u[i], g[i + 1])
  BY <1>2, <1>3
<1>5. Leads(s, o, u, g[1], g[1 + 1])
  BY <1>2, <1>3, <1>4, WayLeads
<1>6. QED
  BY <1>2, <1>5 DEF u

\* The first of the bytes, and the others.
LEMMA LeadsHead ==
    ASSUME NEW s, NEW o, NEW u, NEW x, NEW z, Leads(s, o, u, x, z), u # <<>>
    PROVE  \E y \in Place : Takes(s, o, x, Head(u), y) /\ Leads(s, o, Tail(u), y, z)
<1>1. PICK y \in Place : /\ <<x, Head(u), y>> \in Steps(s, o)
                          /\ Chain(Steps(s, o), Place, Byte, Tail(u), y, z)
  BY ChainHead DEF Leads
<1>2. Takes(s, o, x, Head(u), y)
  BY <1>1 DEF Steps
<1>3. QED
  BY <1>1, <1>2 DEF Leads

\* The way does not change when another message is sent.
LEMMA LeadsStill ==
    ASSUME NEW s \in Seq(Payloads), NEW m \in Payloads, NEW o, NEW u, NEW x, NEW z, Leads(s, o, u, x, z)
    PROVE  Leads(Append(s, m), o, u, x, z)
<1> DEFINE t == Append(s, m)
<1>1. Len(t) = Len(s) + 1 /\ \A i \in 1 .. Len(s) : i \in 1 .. Len(t) /\ t[i] = s[i]
  OBVIOUS
<1> HIDE DEF t
<1>2. ASSUME NEW a, NEW b, NEW c, Takes(s, o, a, b, c)
      PROVE  Takes(t, o, a, b, c)
  <2>1. a.msg \in 1 .. Len(s)
    BY <1>2 DEF Takes, TakesText, TakesChunk
  <2>2. a.msg \in 1 .. Len(t) /\ t[a.msg] = s[a.msg]
    BY <1>1, <2>1
  <2>3. TakesText(s, o, a, b, c) => TakesText(t, o, a, b, c)
    BY <2>2, Zenon DEF TakesText
  <2>4. TakesChunk(s, o, a, b, c) => TakesChunk(t, o, a, b, c)
    BY <2>2, Zenon DEF TakesChunk
  <2>5. QED
    BY <1>2, <2>3, <2>4 DEF Takes
<1>3. Steps(s, o) \subseteq Steps(t, o)
  BY <1>2 DEF Steps
<1>4. QED
  BY <1>3, ChainMore DEF Leads, t

\* No byte follows the messages.
LEMMA LeadsWithin ==
    ASSUME NEW s, NEW o, NEW u, NEW x, NEW z, Leads(s, o, u, x, z), x.msg \notin 1 .. Len(s)
    PROVE  u = <<>> /\ z = x
<1>1. u = <<>>
  <2> SUFFICES ASSUME u # <<>> PROVE FALSE
    OBVIOUS
  <2>1. PICK y \in Place : Takes(s, o, x, Head(u), y)
    BY LeadsHead
  <2>2. x.msg \in 1 .. Len(s)
    BY <2>1 DEF Takes, TakesText, TakesChunk
  <2>3. QED
    BY <2>2
<1>2. x \in Place
  BY LeadsType
<1>3. QED
  BY <1>1, <1>2, LeadsNone

-----------------------------------------------------------------------------
(* What the sender writes.                                                 *)

\* Where a message begins.
LEMMA BeginParts ==
    ASSUME NEW i \in Nat, NEW o \in Nat
    PROVE  /\ Begin(o, i) \in Place /\ Begin(o, i).msg = i /\ Begin(o, i).pos = 0
           /\ Begin(o, i).at = IF i <= o THEN "text" ELSE "gap"
BY DEF Begin, Place, PlaceOf

\* What the program assumes of a message.
LEMMA PayloadType ==
    ASSUME NEW m \in Payloads
    PROVE  m \in Seq(Byte) /\ m # <<>> /\ Len(m) \in Nat /\ Len(m) > 0
BY FramingAssumption, EmptySeq DEF Byte

\* A message and the end marker.
LEMMA MarkedParts ==
    ASSUME NEW m \in Seq(Byte)
    PROVE  /\ m \o EOM \in Seq(Byte) /\ Len(m \o EOM) = Len(m) + 6
           /\ \A j \in 1 .. Len(m) + 6 :
                (m \o EOM)[j] = IF j <= Len(m) THEN m[j] ELSE EOM[j - Len(m)]
<1>1. PICK e \in Seq(Byte) : e = EOM /\ Len(e) = 6
  BY Sizes
<1>2. /\ m \o e \in Seq(Byte) /\ Len(m \o e) = Len(m) + Len(e)
      /\ \A j \in 1 .. Len(m) + Len(e) :
           (m \o e)[j] = IF j <= Len(m) THEN m[j] ELSE e[j - Len(m)]
  BY ConcatProperties
<1>3. QED
  BY <1>1, <1>2

\* The place k bytes into a message of base:1.0 that has n of them.
TextPlace(o, i, n, k) == IF k = n THEN Begin(o, i + 1) ELSE PlaceOf(i, "text", k, 0, 0)

\* The bytes of a message and its marker.
LEMMA TextLeads ==
    ASSUME NEW s \in Seq(Payloads), NEW o \in Nat, NEW i \in 1 .. Len(s), i <= o,
           NEW n, n = Len(s[i]) + 6, NEW k \in 0 .. n, NEW l \in k .. n
    PROVE  Leads(s, o, SubSeq(s[i] \o EOM, k + 1, l), TextPlace(o, i, n, k), TextPlace(o, i, n, l))
<1>0. PICK m \in Payloads : m = s[i]
  OBVIOUS
<1>1. m \in Seq(Byte) /\ Len(m) \in Nat /\ n = Len(m) + 6 /\ n \in Nat /\ i \in Nat /\ k \in Nat /\ l \in Nat
  BY <1>0, PayloadType
<1> DEFINE t == m \o EOM
           w == l - k
           u == SubSeq(t, k + 1, l)
           g == [j \in 1 .. w + 1 |-> TextPlace(o, i, n, k + j - 1)]
<1>2. t \in Seq(Byte) /\ Len(t) = n
  BY <1>1, MarkedParts
<1>3. \A j \in 1 .. n : t[j] = IF j <= Len(m) THEN m[j] ELSE EOM[j - Len(m)]
  BY <1>1, MarkedParts
<1>4. w \in Nat
  BY <1>1
<1> HIDE DEF t
<1>5. u \in Seq(Byte) /\ Len(u) = w /\ \A j \in 1 .. w : u[j] = t[k + j]
  BY <1>1, <1>2
<1> HIDE DEF u
<1>6. \A j \in Nat : TextPlace(o, i, n, j) \in Place
  <2>1. Begin(o, i + 1) \in Place
    BY <1>1, BeginParts
  <2>2. \A j \in Nat : PlaceOf(i, "text", j, 0, 0) \in Place
    BY <1>1 DEF Place, PlaceOf
  <2>3. QED
    BY <2>1, <2>2 DEF TextPlace
<1>7. \A j \in 1 .. w + 1 : k + j - 1 \in Nat
  BY <1>1, <1>4
<1>8. g \in [1 .. w + 1 -> Place]
  BY <1>6, <1>7
<1>9. ASSUME NEW j \in 1 .. w
      PROVE  Takes(s, o, g[j], u[j], g[j + 1])
  <2> DEFINE p == k + j - 1
  <2>1. p \in Nat /\ p < n /\ p + 1 = k + (j + 1) - 1 /\ p + 1 = k + j /\ p + 1 \in 1 .. n
    BY <1>1, <1>4
  <2>2. g[j] = TextPlace(o, i, n, p) /\ g[j + 1] = TextPlace(o, i, n, p + 1)
    BY <1>4, <2>1
  <2>3. u[j] = t[p + 1]
    BY <1>5, <2>1
  <2> HIDE DEF p, g
  <2> DEFINE x == PlaceOf(i, "text", p, 0, 0)
  <2>4. g[j] = x /\ p # n
    BY <2>1, <2>2, <1>1 DEF TextPlace
  <2>5. x.msg = i /\ x.at = "text" /\ x.pos = p /\ x \in Place
    BY <1>1, <2>1 DEF Place, PlaceOf
  <2>6. t[p + 1] = IF p < Len(m) THEN m[p + 1] ELSE EOM[p + 1 - Len(m)]
    BY <1>1, <1>3, <2>1
  <2> HIDE DEF x
  <2>7. TakesText(s, o, x, u[j], g[j + 1])
    BY <1>0, <1>1, <2>1, <2>2, <2>3, <2>5, <2>6, Sizes DEF TakesText, TextPlace
  <2>8. g[j + 1] \in Place
    BY <1>6, <2>1, <2>2
  <2>9. QED
    BY <2>4, <2>5, <2>7, <2>8 DEF Takes
<1>10. g[1] = TextPlace(o, i, n, k) /\ g[w + 1] = TextPlace(o, i, n, l)
  <2>1. k + 1 - 1 = k /\ k + (w + 1) - 1 = l /\ 1 \in 1 .. w + 1 /\ w + 1 \in 1 .. w + 1
    BY <1>1, <1>4
  <2>2. QED
    BY <2>1
<1> HIDE DEF g
<1>11. Leads(s, o, u, g[1], g[w + 1])
  BY <1>4, <1>5, <1>8, <1>9, WayLeads
<1>12. QED
  BY <1>0, <1>10, <1>11 DEF u, t

\* The digits of the size of a chunk.
LEMMA SizeLeads ==
    ASSUME NEW s \in Seq(Payloads), NEW o \in Nat, NEW i \in 1 .. Len(s), i > o, NEW k \in Nat,
           NEW d, NEW n, IsNumber(d, n), d[1] \in Digit1, Len(d) + 3 <= MaxStartChunk
    PROVE  Leads(s, o, d, PlaceOf(i, "hash", k, 0, 0), PlaceOf(i, "size", k, n, Len(d)))
<1>1. d \in Seq(Digit) /\ Len(d) \in Nat \ {0} /\ MaxStartChunk \in Nat /\ i \in Nat
  BY EmptySeq, FramingAssumption DEF IsNumber
<1>2. PICK a \in [1 .. Len(d) -> Nat] :
          /\ a[1] = d[1] - 48
          /\ \A j \in 2 .. Len(d) : a[j] = 10 * a[j - 1] + d[j] - 48
          /\ a[Len(d)] = n
  BY DEF IsNumber
<1> DEFINE w == Len(d)
           g == [j \in 1 .. w + 1 |-> IF j = 1 THEN PlaceOf(i, "hash", k, 0, 0)
                                      ELSE PlaceOf(i, "size", k, a[j - 1], j - 1)]
<1>3. d \in Seq(Byte)
  BY <1>1, SeqMonotonic DEF Digit, Byte
<1>4. \A j \in 1 .. w + 1 : j # 1 => j - 1 \in 1 .. w /\ a[j - 1] \in Nat /\ j - 1 \in Nat
  <2>1. \A j \in 1 .. w + 1 : j # 1 => j - 1 \in 1 .. w /\ j - 1 \in Nat
    BY <1>1
  <2>2. \A j \in 1 .. w : a[j] \in Nat
    OBVIOUS
  <2> HIDE DEF w
  <2>3. QED
    BY <2>1, <2>2
<1>5. PlaceOf(i, "hash", k, 0, 0) \in Place
  BY <1>1 DEF Place, PlaceOf
<1>6. \A v, e \in Nat : PlaceOf(i, "size", k, v, e) \in Place
  BY <1>1 DEF Place, PlaceOf
<1> HIDE DEF w
<1>7. g \in [1 .. w + 1 -> Place]
  BY <1>4, <1>5, <1>6
<1>8. w \in Nat \ {0} /\ w + 3 <= MaxStartChunk /\ a[w] = n /\ w = Len(d)
  BY <1>1, <1>2 DEF w
<1>9. g[1] = PlaceOf(i, "hash", k, 0, 0) /\ g[w + 1] = PlaceOf(i, "size", k, n, w)
  <2>1. 1 \in 1 .. w + 1 /\ w + 1 \in 1 .. w + 1 /\ w + 1 # 1 /\ (w + 1) - 1 = w
    BY <1>8
  <2>2. QED
    BY <1>8, <2>1
<1>10. ASSUME NEW j \in 1 .. w
       PROVE  Takes(s, o, g[j], d[j], g[j + 1])
  <2>1. j + 1 \in 1 .. w + 1 /\ j + 1 # 1 /\ (j + 1) - 1 = j /\ j \in 1 .. w + 1
    BY <1>8
  <2>2. g[j + 1] = PlaceOf(i, "size", k, a[j], j) /\ g[j + 1] \in Place /\ g[j] \in Place
    BY <1>7, <2>1
  <2>3. CASE j = 1
    <3>1. g[j] = PlaceOf(i, "hash", k, 0, 0) /\ g[j + 1] = PlaceOf(i, "size", k, d[1] - 48, 1)
      BY <1>2, <1>9, <2>2, <2>3
    <3> HIDE DEF g
    <3>2. g[j].msg = i /\ g[j].at = "hash" /\ g[j].pos = k
      BY <3>1 DEF PlaceOf
    <3>3. 4 <= MaxStartChunk
      BY <1>1
    <3>4. TakesChunk(s, o, g[j], d[j], g[j + 1])
      BY <2>3, <3>1, <3>2, <3>3 DEF TakesChunk
    <3>5. QED
      BY <2>2, <3>4 DEF Takes
  <2>4. CASE j # 1
    <3>1. j \in 2 .. w /\ j - 1 \in 1 .. w /\ j - 1 \in Nat /\ j = (j - 1) + 1 /\ j <= w
      BY <1>8, <2>4
    <3>2. g[j] = PlaceOf(i, "size", k, a[j - 1], j - 1)
      BY <2>1, <2>4
    <3>3. a[j] = 10 * a[j - 1] + d[j] - 48 /\ a[j - 1] \in Nat
      BY <1>2, <1>8, <3>1
    <3>4. d[j] \in Digit
      BY <1>1, <1>8
    <3> HIDE DEF g
    <3>5. g[j].msg = i /\ g[j].at = "size" /\ g[j].pos = k /\ g[j].size = a[j - 1] /\ g[j].digits = j - 1
      BY <3>2 DEF PlaceOf
    <3>6. g[j].digits + 4 <= MaxStartChunk
      BY <1>1, <1>8, <3>1, <3>5
    <3>7. g[j + 1] = PlaceOf(i, "size", k, 10 * g[j].size + d[j] - 48, g[j].digits + 1)
      BY <2>2, <3>1, <3>3, <3>5
    <3>8. TakesChunk(s, o, g[j], d[j], g[j + 1])
      BY <3>4, <3>5, <3>6, <3>7 DEF TakesChunk
    <3>9. QED
      BY <2>2, <3>8 DEF Takes
  <2>5. QED
    BY <2>3, <2>4
<1> HIDE DEF g
<1>11. Leads(s, o, d, g[1], g[w + 1])
  BY <1>3, <1>7, <1>8, <1>10, WayLeads
<1>12. QED
  BY <1>9, <1>11 DEF w

\* The bytes of a chunk.
LEMMA BytesLead ==
    ASSUME NEW s \in Seq(Payloads), NEW o \in Nat, NEW i \in 1 .. Len(s), i > o,
           NEW k \in Nat, NEW n \in Nat \ {0}, k + n <= Len(s[i])
    PROVE  Leads(s, o, SubSeq(s[i], k + 1, k + n),
                 PlaceOf(i, "data", k, n, 0), PlaceOf(i, "gap", k + n, 0, 0))
<1>0. PICK m \in Payloads : m = s[i]
  OBVIOUS
<1>1. m \in Seq(Byte) /\ Len(m) \in Nat /\ k + n <= Len(m) /\ i \in Nat
  BY <1>0, PayloadType
<1> DEFINE u == SubSeq(m, k + 1, k + n)
           g == [j \in 1 .. n + 1 |-> IF j = n + 1 THEN PlaceOf(i, "gap", k + n, 0, 0)
                                      ELSE PlaceOf(i, "data", k + j - 1, n - j + 1, 0)]
<1>2. u \in Seq(Byte) /\ Len(u) = n /\ \A j \in 1 .. n : u[j] = m[k + j]
  BY <1>1
<1> HIDE DEF u
<1>3. PlaceOf(i, "gap", k + n, 0, 0) \in Place
  BY <1>1 DEF Place, PlaceOf
<1>4. \A p, e \in Nat : PlaceOf(i, "data", p, e, 0) \in Place
  BY <1>1 DEF Place, PlaceOf
<1>5. \A j \in 1 .. n + 1 : j # n + 1 => k + j - 1 \in Nat /\ n - j + 1 \in Nat
  OBVIOUS
<1>6. g \in [1 .. n + 1 -> Place]
  BY <1>3, <1>4, <1>5
<1>7. g[1] = PlaceOf(i, "data", k, n, 0) /\ g[n + 1] = PlaceOf(i, "gap", k + n, 0, 0)
  <2>1. 1 \in 1 .. n + 1 /\ 1 # n + 1 /\ n + 1 \in 1 .. n + 1 /\ k + 1 - 1 = k /\ n - 1 + 1 = n
    OBVIOUS
  <2>2. QED
    BY <2>1
<1>8. ASSUME NEW j \in 1 .. n
      PROVE  Takes(s, o, g[j], u[j], g[j + 1])
  <2> DEFINE p == k + j - 1
             e == n - j + 1
  <2>1. /\ p \in Nat /\ e \in Nat /\ e > 0 /\ p < Len(m) /\ p + 1 = k + j
        /\ j \in 1 .. n + 1 /\ j + 1 \in 1 .. n + 1 /\ j # n + 1
    BY <1>1
  <2>2. g[j] = PlaceOf(i, "data", p, e, 0)
    BY <2>1
  <2>3. e = 1 => g[j + 1] = PlaceOf(i, "gap", p + 1, 0, 0)
    <3>1. e = 1 => j = n /\ k + n = p + 1
      BY <1>1
    <3>2. QED
      BY <1>7, <3>1
  <2>4. e # 1 => g[j + 1] = PlaceOf(i, "data", p + 1, e - 1, 0)
    <3>1. e # 1 => j + 1 # n + 1 /\ k + (j + 1) - 1 = p + 1 /\ n - (j + 1) + 1 = e - 1
      OBVIOUS
    <3> HIDE DEF p, e
    <3>2. QED
      BY <2>1, <3>1
  <2>5. g[j] \in Place /\ g[j + 1] \in Place
    BY <1>6, <2>1
  <2> HIDE DEF g, p, e
  <2>6. g[j].msg = i /\ g[j].at = "data" /\ g[j].pos = p /\ g[j].size = e
    BY <2>2 DEF PlaceOf
  <2>7. u[j] = m[p + 1]
    BY <1>2, <2>1
  <2>8. TakesChunk(s, o, g[j], u[j], g[j + 1])
    BY <1>0, <2>1, <2>3, <2>4, <2>6, <2>7 DEF TakesChunk
  <2>9. QED
    BY <2>5, <2>8 DEF Takes
<1> HIDE DEF g
<1>9. Leads(s, o, u, g[1], g[n + 1])
  BY <1>2, <1>6, <1>8, WayLeads
<1>10. QED
  BY <1>0, <1>7, <1>9 DEF u

\* A byte before others.
LEMMA JoinOne ==
    ASSUME NEW a \in Byte, NEW v \in Seq(Byte), NEW w \in Seq(Byte),
           Len(w) = Len(v) + 1, w[1] = a, \A i \in 1 .. Len(v) : w[i + 1] = v[i]
    PROVE  <<a>> \o v = w
<1>1. PICK u \in Seq(Byte) : u = <<a>> /\ Len(u) = 1 /\ u[1] = a
  <2>1. <<a>> \in Seq(Byte) /\ Len(<<a>>) = 1 /\ <<a>>[1] = a
    OBVIOUS
  <2>2. QED
    BY <2>1
<1>2. /\ u \o v \in Seq(Byte) /\ Len(u \o v) = Len(u) + Len(v)
      /\ \A i \in 1 .. Len(u) + Len(v) : (u \o v)[i] = IF i <= Len(u) THEN u[i] ELSE v[i - Len(u)]
  BY ConcatProperties
<1>3. ASSUME NEW i \in 1 .. Len(w)
      PROVE  (u \o v)[i] = w[i]
  <2>0. Len(v) \in Nat /\ i \in 1 .. Len(u) + Len(v)
    BY <1>1
  <2>1. CASE i = 1
    BY <1>1, <1>2, <2>1, <2>0
  <2>2. CASE i # 1
    <3>1. i - 1 \in 1 .. Len(v) /\ (i - 1) + 1 = i /\ ~(i <= Len(u)) /\ i - Len(u) = i - 1
      BY <1>1, <2>0, <2>2
    <3>2. QED
      BY <1>1, <1>2, <2>0, <3>1
  <2>3. QED
    BY <2>1, <2>2
<1>4. u \o v \in Seq(Byte) /\ Len(w) = Len(u \o v)
  BY <1>1, <1>2
<1>5. PICK z \in Seq(Byte) : z = u \o v /\ Len(w) = Len(z) /\ \A i \in 1 .. Len(w) : w[i] = z[i]
  BY <1>3, <1>4
<1>6. w = z
  BY <1>5, SeqEqual
<1>7. QED
  BY <1>1, <1>5, <1>6

\* The bytes around chunks, joined.
LEMMA ChunkJoins ==
    /\ <<LF>> \o <<HASH>> = <<LF, HASH>>
    /\ <<HASH>> \o <<LF>> = <<HASH, LF>>
    /\ <<HASH>> \o <<HASH, LF>> = <<HASH, HASH, LF>>
    /\ <<LF>> \o <<HASH, HASH, LF>> = <<LF, HASH, HASH, LF>>
<1>0. PICK l, h \in Byte : l = LF /\ h = HASH
  BY DEF LF, HASH, Byte
<1>1. <<l>> \o <<h>> = <<l, h>>
  <2>0. <<h>> \in Seq(Byte) /\ <<l, h>> \in Seq(Byte)
    OBVIOUS
  <2>1. PICK v, w \in Seq(Byte) : v = <<h>> /\ w = <<l, h>>
    BY <2>0
  <2>2. Len(v) = 1 /\ Len(w) = 1 + 1 /\ w[1] = l /\ \A i \in 1 .. 1 : w[i + 1] = v[i]
    BY <2>1
  <2>3. <<l>> \o v = w
    BY <2>2, JoinOne
  <2>4. QED
    BY <2>1, <2>3
<1>2. <<h>> \o <<l>> = <<h, l>>
  <2>0. <<l>> \in Seq(Byte) /\ <<h, l>> \in Seq(Byte)
    OBVIOUS
  <2>1. PICK v, w \in Seq(Byte) : v = <<l>> /\ w = <<h, l>>
    BY <2>0
  <2>2. Len(v) = 1 /\ Len(w) = 1 + 1 /\ w[1] = h /\ \A i \in 1 .. 1 : w[i + 1] = v[i]
    BY <2>1
  <2>3. <<h>> \o v = w
    BY <2>2, JoinOne
  <2>4. QED
    BY <2>1, <2>3
<1>3. <<h>> \o <<h, l>> = <<h, h, l>>
  <2>0. <<h, l>> \in Seq(Byte) /\ <<h, h, l>> \in Seq(Byte)
    OBVIOUS
  <2>1. PICK v, w \in Seq(Byte) : v = <<h, l>> /\ w = <<h, h, l>>
    BY <2>0
  <2>2. Len(v) = 2 /\ Len(w) = 2 + 1 /\ w[1] = h /\ \A i \in 1 .. 2 : w[i + 1] = v[i]
    BY <2>1
  <2>3. <<h>> \o v = w
    BY <2>2, JoinOne
  <2>4. QED
    BY <2>1, <2>3
<1>4. <<l>> \o <<h, h, l>> = <<l, h, h, l>>
  <2>0. <<h, h, l>> \in Seq(Byte) /\ <<l, h, h, l>> \in Seq(Byte)
    OBVIOUS
  <2>1. PICK v, w \in Seq(Byte) : v = <<h, h, l>> /\ w = <<l, h, h, l>>
    BY <2>0
  <2>2. Len(v) = 3 /\ Len(w) = 3 + 1 /\ w[1] = l /\ \A i \in 1 .. 3 : w[i + 1] = v[i]
    BY <2>1
  <2>3. <<l>> \o v = w
    BY <2>2, JoinOne
  <2>4. QED
    BY <2>1, <2>3
<1>5. QED
  BY <1>0, <1>1, <1>2, <1>3, <1>4

\* The start of a chunk and its bytes.
LEMMA ChunkLeads ==
    ASSUME NEW s \in Seq(Payloads), NEW o \in Nat, NEW i \in 1 .. Len(s), i > o,
           NEW k \in Nat, NEW n \in Nat \ {0}, k + n <= Len(s[i])
    PROVE  Leads(s, o, StartOfChunk(n) \o SubSeq(s[i], k + 1, k + n),
                 PlaceOf(i, "gap", k, 0, 0), PlaceOf(i, "gap", k + n, 0, 0))
<1>0. PICK m \in Payloads : m = s[i]
  OBVIOUS
<1>1. m \in Seq(Byte) /\ Len(m) \in Nat /\ k + n <= Len(m) /\ i \in Nat
  BY <1>0, PayloadType
<1>2. PICK d : d = Decimal[n] /\ d \in Seq(Digit) /\ d[1] \in Digit1 /\ IsNumber(d, n)
  BY DecimalIsNumber
<1>3. d \in Seq(Byte) /\ Len(d) \in Nat /\ MaxStartChunk \in Nat
  <2>1. d \in Seq(Byte)
    BY <1>2, SeqMonotonic DEF Digit, Byte
  <2>2. Len(d) \in Nat
    BY <2>1
  <2>3. MaxStartChunk \in Nat
    BY FramingAssumption
  <2>4. QED
    BY <2>1, <2>2, <2>3
<1>4. LF \in Byte /\ HASH \in Byte
  BY DEF LF, HASH, Byte
<1>5. StartOfChunk(n) = (<<LF, HASH>> \o d) \o <<LF>>
  BY <1>2 DEF StartOfChunk
<1>6. Len(d) + 3 <= MaxStartChunk
  <2>1. Len(StartOfChunk(n)) <= MaxStartChunk
    <3>1. n \in 1 .. Len(m)
      BY <1>1
    <3>2. QED
      BY <3>1, FramingAssumption
  <2>2. Len((<<LF, HASH>> \o d) \o <<LF>>) = Len(d) + 3
    <3>1. <<LF, HASH>> \in Seq(Byte) /\ <<LF>> \in Seq(Byte) /\ Len(<<LF, HASH>>) = 2 /\ Len(<<LF>>) = 1
      BY <1>4
    <3>2. <<LF, HASH>> \o d \in Seq(Byte) /\ Len(<<LF, HASH>> \o d) = 2 + Len(d)
      BY <1>3, <3>1, ConcatProperties
    <3>3. Len((<<LF, HASH>> \o d) \o <<LF>>) = (2 + Len(d)) + 1
      BY <3>1, <3>2, ConcatProperties
    <3>4. QED
      BY <1>3, <3>3
  <2>3. QED
    BY <1>5, <2>1, <2>2
<1> DEFINE gap == PlaceOf(i, "gap", k, 0, 0)
           newline == PlaceOf(i, "newline", k, 0, 0)
           hash == PlaceOf(i, "hash", k, 0, 0)
           size == PlaceOf(i, "size", k, n, Len(d))
           data == PlaceOf(i, "data", k, n, 0)
           done == PlaceOf(i, "gap", k + n, 0, 0)
<1>7. gap \in Place /\ newline \in Place /\ hash \in Place /\ size \in Place /\ data \in Place
  BY <1>1, <1>3 DEF Place, PlaceOf
<1>8. Leads(s, o, <<LF>>, gap, newline)
  <2>1. TakesChunk(s, o, gap, LF, newline)
    BY DEF TakesChunk, PlaceOf
  <2>2. QED
    BY <1>4, <1>7, <2>1, LeadsOne DEF Takes
<1>9. Leads(s, o, <<HASH>>, newline, hash)
  <2>1. TakesChunk(s, o, newline, HASH, hash)
    BY DEF TakesChunk, PlaceOf
  <2>2. QED
    BY <1>4, <1>7, <2>1, LeadsOne DEF Takes
<1>10. Leads(s, o, d, hash, size)
  BY <1>2, <1>6, SizeLeads
<1>11. Leads(s, o, <<LF>>, size, data)
  <2>1. /\ size.msg = i /\ size.at = "size" /\ size.pos = k /\ size.size = n /\ size.digits = Len(d)
        /\ data = PlaceOf(i, "data", k, n, 0)
    BY DEF PlaceOf
  <2>2. n \in 1 .. Len(s[i]) - k
    BY <1>0, <1>1
  <2> HIDE DEF size, data
  <2>3. TakesChunk(s, o, size, LF, data)
    BY <1>6, <2>1, <2>2 DEF TakesChunk
  <2>4. QED
    BY <1>4, <1>7, <2>3, LeadsOne DEF Takes
<1>12. Leads(s, o, SubSeq(m, k + 1, k + n), data, done)
  BY <1>0, BytesLead
<1> HIDE DEF gap, newline, hash, size, data, done
<1>13. Leads(s, o, <<LF>> \o <<HASH>>, gap, hash)
  BY <1>8, <1>9, LeadsOn
<1>14. <<LF>> \o <<HASH>> = <<LF, HASH>>
  BY ChunkJoins
<1>15. Leads(s, o, <<LF, HASH>> \o d, gap, size)
  BY <1>10, <1>13, <1>14, LeadsOn
<1>16. Leads(s, o, StartOfChunk(n), gap, data)
  BY <1>5, <1>11, <1>15, LeadsOn
<1>17. Leads(s, o, StartOfChunk(n) \o SubSeq(m, k + 1, k + n), gap, done)
  BY <1>12, <1>16, LeadsOn
<1>18. QED
  BY <1>0, <1>17 DEF gap, done

\* The end of the chunks.
LEMMA EndLeads ==
    ASSUME NEW s \in Seq(Payloads), NEW o \in Nat, NEW i \in 1 .. Len(s), i > o
    PROVE  Leads(s, o, EndOfChunks, PlaceOf(i, "gap", Len(s[i]), 0, 0), Begin(o, i + 1))
<1>0. PICK m \in Payloads : m = s[i]
  OBVIOUS
<1>1. Len(m) \in Nat /\ i \in Nat
  BY <1>0, PayloadType
<1>2. LF \in Byte /\ HASH \in Byte
  BY DEF LF, HASH, Byte
<1> DEFINE gap == PlaceOf(i, "gap", Len(m), 0, 0)
           newline == PlaceOf(i, "newline", Len(m), 0, 0)
           hash == PlaceOf(i, "hash", Len(m), 0, 0)
           end == PlaceOf(i, "end", Len(m), 0, 0)
           next == Begin(o, i + 1)
<1>3. gap \in Place /\ newline \in Place /\ hash \in Place /\ end \in Place /\ next \in Place
  <2>1. gap \in Place /\ newline \in Place /\ hash \in Place /\ end \in Place
    BY <1>1 DEF Place, PlaceOf
  <2>2. next \in Place
    BY <1>1, BeginParts
  <2>3. QED
    BY <2>1, <2>2
<1>4. Leads(s, o, <<LF>>, gap, newline)
  <2>1. TakesChunk(s, o, gap, LF, newline)
    BY DEF TakesChunk, PlaceOf
  <2>2. QED
    BY <1>2, <1>3, <2>1, LeadsOne DEF Takes
<1>5. Leads(s, o, <<HASH>>, newline, hash)
  <2>1. TakesChunk(s, o, newline, HASH, hash)
    BY DEF TakesChunk, PlaceOf
  <2>2. QED
    BY <1>2, <1>3, <2>1, LeadsOne DEF Takes
<1>6. Leads(s, o, <<HASH>>, hash, end)
  <2>1. TakesChunk(s, o, hash, HASH, end)
    BY <1>0 DEF TakesChunk, PlaceOf
  <2>2. QED
    BY <1>2, <1>3, <2>1, LeadsOne DEF Takes
<1>7. Leads(s, o, <<LF>>, end, next)
  <2>1. TakesChunk(s, o, end, LF, next)
    BY DEF TakesChunk, PlaceOf
  <2>2. QED
    BY <1>2, <1>3, <2>1, LeadsOne DEF Takes
<1> HIDE DEF gap, newline, hash, end, next
<1>8. Leads(s, o, <<HASH, LF>>, hash, next)
  BY <1>6, <1>7, LeadsOn, ChunkJoins
<1>9. Leads(s, o, <<HASH, HASH, LF>>, newline, next)
  BY <1>5, <1>8, LeadsOn, ChunkJoins
<1>10. Leads(s, o, <<LF, HASH, HASH, LF>>, gap, next)
  BY <1>4, <1>9, LeadsOn, ChunkJoins
<1>11. QED
  BY <1>0, <1>10 DEF EndOfChunks, gap, next

\* Parts of equal size that cover a length: n is the number of them.
LEMMA PartsCover ==
    ASSUME NEW w \in Nat \ {0}, NEW size \in Nat \ {0}, NEW n, n = (w + size - 1) \div size
    PROVE  /\ n \in Nat \ {0} /\ w <= n * size
           /\ \A i \in 1 .. n : (i - 1) * size \in Nat /\ (i - 1) * size < w
           /\ \A i \in 1 .. n : i # n => i * size < w /\ i * size \in Nat
<1>1. n \in Nat /\ n * size <= w + size - 1 /\ w + size - 1 < n * size + size
  OBVIOUS
<1>2. \A j, k \in Nat : j <= k => j * size <= k * size
  <2>1. SUFFICES ASSUME NEW j \in Nat, NEW k \in Nat, j <= k
                 PROVE  j * size <= k * size
    OBVIOUS
  <2>2. PICK d \in Nat : k = j + d
    <3>1. k - j \in Nat /\ k = j + (k - j)
      BY <2>1
    <3>2. QED
      BY <3>1
  <2>3. k * size = j * size + d * size /\ d * size \in Nat /\ j * size \in Nat
    BY <2>2
  <2>4. QED
    BY <2>3
<1>3. n # 0 /\ w <= n * size
  BY <1>1
<1>4. (n - 1) * size = n * size - size
  BY <1>1
<1>5. ASSUME NEW i \in 1 .. n
      PROVE  (i - 1) * size \in Nat /\ (i - 1) * size < w
  <2>1. i - 1 \in Nat /\ n - 1 \in Nat /\ i - 1 <= n - 1
    BY <1>1
  <2>2. (i - 1) * size <= (n - 1) * size /\ (i - 1) * size \in Nat
    BY <1>2, <2>1
  <2>3. n * size \in Nat /\ n * size - size < w
    BY <1>1
  <2>4. QED
    BY <1>4, <2>2, <2>3
<1>6. ASSUME NEW i \in 1 .. n, i # n
      PROVE  i * size < w /\ i * size \in Nat
  <2>1. i + 1 \in 1 .. n /\ (i + 1) - 1 = i
    BY <1>1, <1>6
  <2>2. ((i + 1) - 1) * size \in Nat /\ ((i + 1) - 1) * size < w
    BY <1>5, <2>1
  <2>3. QED
    BY <2>1, <2>2
<1>7. QED
  BY <1>1, <1>3, <1>5, <1>6

\* The least of two numbers.
LEMMA MinOfTwo ==
    ASSUME NEW j \in Nat, NEW k \in Nat
    PROVE  (j <= k => Min({j, k}) = j) /\ (k <= j => Min({j, k}) = k)
<1>1. Min({j, k}) \in {j, k} /\ \A y \in {j, k} : Min({j, k}) <= y
  BY MinIsLeast
<1>2. QED
  BY <1>1

\* What a buffer of the sender may be: it is not empty, and with its framing it is
\* not larger than its size.
OutBuffer(fr11) ==
    {b \in [start : Nat, text : Seq(Byte), islast : BOOLEAN] :
        /\ b.start = InitStart(fr11)
        /\ b.text # <<>>
        /\ (IF fr11 THEN StartPad + EndPad ELSE 0) + Len(b.text) <= BuffSize}

\* The buffers of a text hold its bytes between cut points.
IsCut(text, cut, n) ==
    /\ n \in Nat \ {0} /\ cut \in [1 .. n + 1 -> Nat]
    /\ cut[1] = 0 /\ cut[n + 1] = Len(text)
    /\ \A i \in 1 .. n : cut[i] < cut[i + 1] /\ cut[i + 1] <= Len(text)

\* ses_putchar leaves nothing out, repeats nothing, and only the last buffer is
\* marked as the last.
LEMMA BufferCuts ==
    ASSUME NEW text \in Seq(Byte), text # <<>>, framing11 \in BOOLEAN, buffstart = InitStart(framing11)
    PROVE  \E n, cut :
              /\ IsCut(text, cut, n)
              /\ Buffers(text) \in Seq(OutBuffer(framing11)) /\ Len(Buffers(text)) = n
              /\ \A i \in 1 .. n : /\ Buffers(text)[i].text = SubSeq(text, cut[i] + 1, cut[i + 1])
                                   /\ Buffers(text)[i].islast <=> i = n
<1> DEFINE size == (IF framing11 THEN BuffSize - EndPad ELSE BuffSize) - buffstart
           w == Len(text)
           n == (w + size - 1) \div size
           cut == [i \in 1 .. n + 1 |-> IF i = n + 1 THEN w ELSE (i - 1) * size]
           pads == IF framing11 THEN StartPad + EndPad ELSE 0
<1>1. /\ BuffSize \in Nat /\ StartPad \in Nat /\ EndPad \in Nat /\ StartPad + EndPad < BuffSize
  BY FramingAssumption
<1>2. size \in Nat \ {0} /\ pads + size = BuffSize /\ buffstart \in Nat
  BY <1>1, Sizes DEF InitStart
<1>3. w \in Nat \ {0}
  BY EmptySeq
<1> DEFINE bufs == [i \in 1 .. n |-> [start |-> InitStart(framing11),
                                     text |-> SubSeq(text, cut[i] + 1, cut[i + 1]),
                                     islast |-> i = n]]
<1> HIDE DEF size, w
<1>4. /\ n \in Nat \ {0} /\ w <= n * size
      /\ \A i \in 1 .. n : (i - 1) * size \in Nat /\ (i - 1) * size < w
      /\ \A i \in 1 .. n : i # n => i * size < w /\ i * size \in Nat
  BY <1>2, <1>3, PartsCover
<1> HIDE DEF n
<1>5. \A i \in 1 .. n + 1 : i # n + 1 => i \in 1 .. n
  BY <1>4
<1>6. cut \in [1 .. n + 1 -> Nat]
  BY <1>3, <1>4, <1>5
<1>7. cut[1] = 0 /\ cut[n + 1] = w
  <2>1. 1 \in 1 .. n + 1 /\ 1 # n + 1 /\ n + 1 \in 1 .. n + 1 /\ (1 - 1) * size = 0
    BY <1>2, <1>4
  <2>2. QED
    BY <2>1
<1>8. ASSUME NEW i \in 1 .. n
      PROVE  /\ cut[i] = (i - 1) * size /\ cut[i + 1] = Min({i * size, w})
             /\ cut[i] < cut[i + 1] /\ cut[i + 1] <= w /\ cut[i + 1] - cut[i] <= size
  <2>1. /\ i \in 1 .. n + 1 /\ i # n + 1 /\ i + 1 \in 1 .. n + 1 /\ (i + 1) - 1 = i
        /\ (i + 1 = n + 1 <=> i = n)
    BY <1>4
  <2>2. cut[i] = (i - 1) * size
    BY <2>1
  <2>3. i * size = (i - 1) * size + size
    BY <1>2
  <2>4. i * size \in Nat
    BY <1>2
  <2>5. CASE i = n
    <3>1. cut[i + 1] = w /\ w <= i * size
      BY <1>4, <2>1, <2>5
    <3>2. Min({i * size, w}) = w
      BY <1>3, <2>4, <3>1, MinOfTwo
    <3> HIDE DEF cut
    <3>3. QED
      BY <1>2, <1>3, <1>4, <2>2, <2>3, <3>1, <3>2
  <2>6. CASE i # n
    <3>1. cut[i + 1] = i * size /\ i * size < w
      BY <1>4, <2>1, <2>6
    <3>2. Min({i * size, w}) = i * size
      BY <1>3, <2>4, <3>1, MinOfTwo
    <3> HIDE DEF cut
    <3>3. QED
      BY <1>2, <1>3, <1>4, <2>2, <2>3, <3>1, <3>2
  <2>7. QED
    BY <2>5, <2>6
<1> HIDE DEF cut
<1>9. \A i \in 1 .. n : cut[i] \in Nat /\ cut[i + 1] \in Nat
  <2>1. \A i \in 1 .. n : i \in 1 .. n + 1 /\ i + 1 \in 1 .. n + 1
    BY <1>4
  <2>2. QED
    BY <1>6, <2>1
<1>10. ASSUME NEW i \in 1 .. n
       PROVE  /\ SubSeq(text, cut[i] + 1, cut[i + 1]) \in Seq(Byte)
              /\ SubSeq(text, cut[i] + 1, cut[i + 1]) # <<>>
              /\ pads + Len(SubSeq(text, cut[i] + 1, cut[i + 1])) <= BuffSize
  <2>1. PICK j, k \in Nat : j = cut[i] /\ k = cut[i + 1] /\ j < k /\ k <= Len(text) /\ k - j <= size
    BY <1>8, <1>9 DEF w
  <2>2. SubSeq(text, j + 1, k) \in Seq(Byte) /\ Len(SubSeq(text, j + 1, k)) = k - j
    BY <2>1
  <2>3. SubSeq(text, j + 1, k) # <<>>
    <3>1. Len(SubSeq(text, j + 1, k)) # 0
      BY <2>1, <2>2
    <3>2. Len(<<>>) = 0
      OBVIOUS
    <3>3. QED
      BY <3>1, <3>2, Zenon
  <2>4. pads + (k - j) <= BuffSize
    BY <1>1, <1>2, <2>1
  <2>5. QED
    BY <2>1, <2>2, <2>3, <2>4
<1>11. Buffers(text) = bufs
  <2>1. \A i \in 1 .. n : (IF i = 1 THEN buffstart ELSE InitStart(framing11)) = InitStart(framing11)
    OBVIOUS
  <2>2. \A i \in 1 .. n : SubSeq(text, (i - 1) * size + 1, Min({i * size, w}))
                             = SubSeq(text, cut[i] + 1, cut[i + 1])
    BY <1>8
  <2>3. Buffers(text) = [i \in 1 .. n |->
           [start |-> IF i = 1 THEN buffstart ELSE InitStart(framing11),
            text |-> SubSeq(text, (i - 1) * size + 1, Min({i * size, w})),
            islast |-> i = n]]
    BY DEF Buffers, n, w, size
  <2>4. QED
    BY <2>1, <2>2, <2>3, Zenon
<1>12. ASSUME NEW i \in 1 .. n
       PROVE  bufs[i] \in OutBuffer(framing11)
  <2>1. PICK t : t = SubSeq(text, cut[i] + 1, cut[i + 1])
    OBVIOUS
  <2>2. t \in Seq(Byte) /\ t # <<>> /\ pads + Len(t) <= BuffSize
    BY <1>10, <2>1
  <2>3. bufs[i] = [start |-> InitStart(framing11), text |-> t, islast |-> i = n]
    BY <2>1
  <2>4. InitStart(framing11) \in Nat
    BY <1>2
  <2> HIDE DEF bufs
  <2>5. QED
    BY <2>2, <2>3, <2>4 DEF OutBuffer
<1>13. /\ bufs \in Seq(OutBuffer(framing11)) /\ Len(bufs) = n
  <2>1. bufs \in [1 .. n -> OutBuffer(framing11)]
    BY <1>12
  <2>2. QED
    BY <1>4, <2>1, SeqDef
<1>14. \A i \in 1 .. n : bufs[i].text = SubSeq(text, cut[i] + 1, cut[i + 1]) /\ (bufs[i].islast <=> i = n)
  OBVIOUS
<1>15. IsCut(text, cut, n)
  BY <1>4, <1>6, <1>7, <1>8 DEF IsCut, w
<1> HIDE DEF bufs, pads
<1>16. /\ Buffers(text) \in Seq(OutBuffer(framing11)) /\ Len(Buffers(text)) = n
       /\ \A i \in 1 .. n : /\ Buffers(text)[i].text = SubSeq(text, cut[i] + 1, cut[i + 1])
                            /\ Buffers(text)[i].islast <=> i = n
  BY <1>11, <1>13, <1>14
<1>17. QED
  BY <1>15, <1>16

\* What a buffer is when it is written.
Bytes(fr11, b) ==
    IF fr11 THEN StartOfChunk(Len(b.text)) \o b.text \o (IF b.islast THEN EndOfChunks ELSE <<>>)
    ELSE b.text

\* ses_msg_add_framing keeps all of the text: the start of the chunk goes exactly
\* before it, whatever start the buffer has.
LEMMA FramedBytes ==
    ASSUME NEW b \in OutBuffer(framing11), framing11 \in BOOLEAN
    PROVE  Framed(b) = Bytes(framing11, b)
<1>1. CASE framing11
  <2>1. PICK t \in Seq(Byte) : t = b.text
    BY DEF OutBuffer
  <2>2. StartPad - b.start + 1 = 1
    BY <1>1, FramingAssumption DEF OutBuffer, InitStart
  <2>3. SubSeq(t, 1, Len(t)) = t
    BY SubSeqFull
  <2>4. SubSeq(b.text, StartPad - b.start + 1, Len(b.text)) = b.text
    BY <2>1, <2>2, <2>3
  <2>5. QED
    BY <1>1, <2>4 DEF Framed, Bytes
<1>2. CASE ~framing11
  BY <1>2 DEF Framed, Bytes
<1>3. QED
  BY <1>1, <1>2

\* The steps buffer by buffer, and where the buffers of a queue lead.
OutSteps(s, o, fr11) ==
    {t \in Place \X OutBuffer(fr11) \X Place : Leads(s, o, Bytes(fr11, t[2]), t[1], t[3])}
OutLeads(s, o, fr11, q, x, z) == Chain(OutSteps(s, o, fr11), Place, OutBuffer(fr11), q, x, z)

\* The buffers of a queue do not lead elsewhere when another message is sent.
LEMMA OutStill ==
    ASSUME NEW s \in Seq(Payloads), NEW m \in Payloads, NEW o, NEW fr11, NEW q, NEW x, NEW z,
           OutLeads(s, o, fr11, q, x, z)
    PROVE  OutLeads(Append(s, m), o, fr11, q, x, z)
<1>1. OutSteps(s, o, fr11) \subseteq OutSteps(Append(s, m), o, fr11)
  BY LeadsStill DEF OutSteps
<1>2. QED
  BY <1>1, ChainMore DEF OutLeads

\* The first buffer of a queue, and the others.
LEMMA OutHead ==
    ASSUME NEW s, NEW o, NEW fr11, NEW q, NEW x, NEW z, OutLeads(s, o, fr11, q, x, z), q # <<>>
    PROVE  \E y \in Place :
              /\ Head(q) \in OutBuffer(fr11)
              /\ Leads(s, o, Bytes(fr11, Head(q)), x, y) /\ OutLeads(s, o, fr11, Tail(q), y, z)
<1>1. PICK y \in Place : /\ <<x, Head(q), y>> \in OutSteps(s, o, fr11)
                          /\ OutLeads(s, o, fr11, Tail(q), y, z)
  BY ChainHead DEF OutLeads
<1>2. Head(q) \in OutBuffer(fr11) /\ Leads(s, o, Bytes(fr11, Head(q)), x, y)
  BY <1>1 DEF OutSteps
<1>3. QED
  BY <1>1, <1>2

\* The end of a way by its buffers.
LEMMA WayOut ==
    ASSUME NEW s, NEW o, NEW fr11, NEW n \in Nat, NEW q \in Seq(OutBuffer(fr11)), n = Len(q),
           NEW g \in [1 .. n + 1 -> Place],
           \A i \in 1 .. n : Leads(s, o, Bytes(fr11, q[i]), g[i], g[i + 1])
    PROVE  OutLeads(s, o, fr11, q, g[1], g[n + 1])
<1>1. ASSUME NEW i \in 1 .. n
      PROVE  <<g[i], q[i], g[i + 1]>> \in OutSteps(s, o, fr11)
  <2>1. i \in 1 .. n + 1 /\ i + 1 \in 1 .. n + 1
    OBVIOUS
  <2>2. q[i] \in OutBuffer(fr11)
    BY ElementOfSeq
  <2>3. g[i] \in Place /\ g[i + 1] \in Place
    BY <2>1
  <2>4. QED
    BY <2>2, <2>3 DEF OutSteps
<1>2. IsWay(OutSteps(s, o, fr11), Place, OutBuffer(fr11), q, n, g)
  BY <1>1 DEF IsWay
<1>3. QED
  BY <1>2 DEF OutLeads, Chain

\* Cut points are in order.
LEMMA CutPoints ==
    ASSUME NEW text \in Seq(Byte), NEW cut, NEW n, IsCut(text, cut, n)
    PROVE  /\ n \in Nat \ {0} /\ Len(text) \in Nat
           /\ \A i \in 1 .. n + 1 : cut[i] \in 0 .. Len(text)
           /\ \A i \in 1 .. n : /\ i \in 1 .. n + 1 /\ i + 1 \in 1 .. n + 1
                                /\ cut[i] \in Nat /\ cut[i + 1] \in Nat /\ cut[i] < cut[i + 1]
                                /\ cut[i] < Len(text) /\ cut[i + 1] <= Len(text)
<1>1. n \in Nat \ {0} /\ Len(text) \in Nat
  BY DEF IsCut
<1>2. \A i \in 1 .. n : i \in 1 .. n + 1 /\ i + 1 \in 1 .. n + 1
  BY <1>1
<1>3. \A i \in 1 .. n + 1 : cut[i] \in Nat
  BY DEF IsCut
<1>4. \A i \in 1 .. n : cut[i] < cut[i + 1] /\ cut[i + 1] <= Len(text)
  BY DEF IsCut
<1>5. \A i \in 1 .. n : cut[i] < Len(text)
  BY <1>1, <1>2, <1>3, <1>4
<1>6. \A i \in 1 .. n + 1 : i = n + 1 \/ i \in 1 .. n
  BY <1>1
<1>7. cut[n + 1] = Len(text)
  BY DEF IsCut
<1>8. \A i \in 1 .. n + 1 : cut[i] \in 0 .. Len(text)
  <2>1. \A i \in 1 .. n + 1 : cut[i] <= Len(text)
    BY <1>1, <1>3, <1>5, <1>6, <1>7
  <2>2. QED
    BY <1>1, <1>3, <2>1
<1>9. QED
  BY <1>1, <1>2, <1>3, <1>4, <1>5, <1>8

\* The buffers of a message of base:1.0 lead to where the next one begins.
LEMMA BuffersLead10 ==
    ASSUME NEW s \in Seq(Payloads), NEW o \in Nat, NEW i \in 1 .. Len(s), i <= o,
           framing11 = FALSE, buffstart = InitStart(framing11)
    PROVE  OutLeads(s, o, FALSE, Buffers(s[i] \o EOM), Begin(o, i), Begin(o, i + 1))
<1>0. PICK m \in Payloads : m = s[i]
  OBVIOUS
<1>1. m \in Seq(Byte) /\ Len(m) \in Nat /\ Len(m) > 0 /\ i \in Nat
  BY <1>0, PayloadType
<1>2. PICK text \in Seq(Byte) : text = m \o EOM /\ Len(text) = Len(m) + 6
  BY <1>1, MarkedParts
<1>3. text # <<>>
  BY <1>1, <1>2
<1>4. PICK n, cut :
         /\ IsCut(text, cut, n)
         /\ Buffers(text) \in Seq(OutBuffer(framing11)) /\ Len(Buffers(text)) = n
         /\ \A j \in 1 .. n : /\ Buffers(text)[j].text = SubSeq(text, cut[j] + 1, cut[j + 1])
                              /\ Buffers(text)[j].islast <=> j = n
  BY <1>3, BufferCuts
<1>5. /\ n \in Nat \ {0} /\ Len(text) \in Nat
      /\ \A j \in 1 .. n + 1 : cut[j] \in 0 .. Len(text)
      /\ \A j \in 1 .. n : /\ j \in 1 .. n + 1 /\ j + 1 \in 1 .. n + 1
                           /\ cut[j] \in Nat /\ cut[j + 1] \in Nat /\ cut[j] < cut[j + 1]
                           /\ cut[j] < Len(text) /\ cut[j + 1] <= Len(text)
  BY <1>4, CutPoints
<1> DEFINE w == Len(text)
           g == [j \in 1 .. n + 1 |-> TextPlace(o, i, w, cut[j])]
<1>6. ASSUME NEW k \in 0 .. w, NEW l \in k .. w
      PROVE  Leads(s, o, SubSeq(text, k + 1, l), TextPlace(o, i, w, k), TextPlace(o, i, w, l))
  BY <1>0, <1>2, TextLeads
<1>7. ASSUME NEW j \in 1 .. n + 1
      PROVE  TextPlace(o, i, w, cut[j]) \in Place
  <2>1. cut[j] \in 0 .. w /\ cut[j] \in cut[j] .. w
    BY <1>5
  <2>2. QED
    BY <1>6, <2>1, LeadsType
<1>8. g \in [1 .. n + 1 -> Place]
  BY <1>7
<1>9. ASSUME NEW j \in 1 .. n
      PROVE  Leads(s, o, Bytes(FALSE, Buffers(text)[j]), g[j], g[j + 1])
  <2>1. cut[j] \in 0 .. w /\ cut[j + 1] \in cut[j] .. w /\ j \in 1 .. n + 1 /\ j + 1 \in 1 .. n + 1
    BY <1>5
  <2>2. Leads(s, o, SubSeq(text, cut[j] + 1, cut[j + 1]), g[j], g[j + 1])
    BY <1>6, <2>1
  <2>3. Bytes(FALSE, Buffers(text)[j]) = SubSeq(text, cut[j] + 1, cut[j + 1])
    BY <1>4 DEF Bytes
  <2>4. QED
    BY <2>2, <2>3
<1>10. g[1] = Begin(o, i) /\ g[n + 1] = Begin(o, i + 1)
  <2>1. 1 \in 1 .. n + 1 /\ n + 1 \in 1 .. n + 1
    BY <1>5
  <2>2. cut[1] = 0 /\ cut[n + 1] = w /\ w # 0
    BY <1>1, <1>2, <1>4 DEF IsCut
  <2>3. TextPlace(o, i, w, 0) = Begin(o, i)
    BY <2>2 DEF TextPlace, Begin
  <2>4. TextPlace(o, i, w, w) = Begin(o, i + 1)
    BY DEF TextPlace
  <2>5. QED
    BY <2>1, <2>2, <2>3, <2>4
<1> HIDE DEF g
<1>11. OutLeads(s, o, FALSE, Buffers(text), g[1], g[n + 1])
  BY <1>4, <1>5, <1>8, <1>9, WayOut
<1>12. QED
  BY <1>0, <1>2, <1>10, <1>11

\* The buffers of a message of base:1.1.
LEMMA BuffersLead11 ==
    ASSUME NEW s \in Seq(Payloads), NEW o \in Nat, NEW i \in 1 .. Len(s), i > o,
           framing11 = TRUE, buffstart = InitStart(framing11)
    PROVE  OutLeads(s, o, TRUE, Buffers(s[i]), Begin(o, i), Begin(o, i + 1))
<1>0. PICK m \in Payloads : m = s[i]
  OBVIOUS
<1>1. m \in Seq(Byte) /\ m # <<>> /\ Len(m) \in Nat /\ Len(m) > 0 /\ i \in Nat
  BY <1>0, PayloadType
<1>4. PICK n, cut :
         /\ IsCut(m, cut, n)
         /\ Buffers(m) \in Seq(OutBuffer(framing11)) /\ Len(Buffers(m)) = n
         /\ \A j \in 1 .. n : /\ Buffers(m)[j].text = SubSeq(m, cut[j] + 1, cut[j + 1])
                              /\ Buffers(m)[j].islast <=> j = n
  BY <1>1, BufferCuts
<1>5. /\ n \in Nat \ {0} /\ Len(m) \in Nat
      /\ \A j \in 1 .. n + 1 : cut[j] \in 0 .. Len(m)
      /\ \A j \in 1 .. n : /\ j \in 1 .. n + 1 /\ j + 1 \in 1 .. n + 1
                           /\ cut[j] \in Nat /\ cut[j + 1] \in Nat /\ cut[j] < cut[j + 1]
                           /\ cut[j] < Len(m) /\ cut[j + 1] <= Len(m)
  BY <1>1, <1>4, CutPoints
<1>6. cut[1] = 0 /\ cut[n + 1] = Len(m)
  BY <1>4 DEF IsCut
<1> DEFINE g == [j \in 1 .. n + 1 |-> IF j = n + 1 THEN Begin(o, i + 1)
                                      ELSE PlaceOf(i, "gap", cut[j], 0, 0)]
<1>7. ASSUME NEW j \in 1 .. n + 1
      PROVE  PlaceOf(i, "gap", cut[j], 0, 0) \in Place
  <2>1. cut[j] \in Nat
    BY <1>5
  <2>2. QED
    BY <1>1, <2>1 DEF Place, PlaceOf
<1>8. g \in [1 .. n + 1 -> Place]
  <2>1. Begin(o, i + 1) \in Place
    BY <1>1, BeginParts
  <2>2. QED
    BY <1>7, <2>1
<1>9. ASSUME NEW j \in 1 .. n
      PROVE  Leads(s, o, Bytes(TRUE, Buffers(m)[j]), g[j], g[j + 1])
  <2>0. PICK k, l \in Nat : k = cut[j] /\ k + l = cut[j + 1] /\ l # 0 /\ k + l <= Len(m)
    <3>1. PICK a, b \in Nat : a = cut[j] /\ b = cut[j + 1] /\ a < b /\ b <= Len(m)
      BY <1>5
    <3>2. b - a \in Nat /\ a + (b - a) = b /\ b - a # 0
      BY <3>1
    <3>3. QED
      BY <3>1, <3>2
  <2>1. k \in Nat /\ l \in Nat \ {0} /\ k + l <= Len(m) /\ k + l = cut[j + 1]
    BY <2>0
  <2>2. PICK t \in Seq(Byte) : t = SubSeq(m, k + 1, k + l) /\ Len(t) = l
    <3>1. SubSeq(m, k + 1, k + l) \in Seq(Byte) /\ Len(SubSeq(m, k + 1, k + l)) = l
      BY <1>1, <2>1
    <3>2. QED
      BY <3>1
  <2>3. Buffers(m)[j].text = t
    BY <1>4, <2>0, <2>1, <2>2
  <2>4. Leads(s, o, StartOfChunk(l) \o t, PlaceOf(i, "gap", k, 0, 0), PlaceOf(i, "gap", k + l, 0, 0))
    BY <1>0, <2>1, <2>2, ChunkLeads
  <2>5. StartOfChunk(l) \o t \in Seq(Byte)
    BY <2>4, LeadsType
  <2>6. g[j] = PlaceOf(i, "gap", k, 0, 0)
    <3>1. j \in 1 .. n + 1 /\ j # n + 1
      BY <1>5
    <3>2. QED
      BY <2>0, <3>1
  <2>7. CASE j = n
    <3>1. g[j + 1] = Begin(o, i + 1) /\ k + l = Len(m)
      BY <1>5, <1>6, <2>1, <2>7
    <3>2. Leads(s, o, EndOfChunks, PlaceOf(i, "gap", k + l, 0, 0), g[j + 1])
      BY <1>0, <3>1, EndLeads
    <3>3. Bytes(TRUE, Buffers(m)[j]) = StartOfChunk(l) \o t \o EndOfChunks
      BY <1>4, <2>2, <2>3, <2>7 DEF Bytes
    <3> HIDE DEF g
    <3>4. QED
      BY <2>4, <2>6, <3>2, <3>3, LeadsOn
  <2>8. CASE j # n
    <3>1. j + 1 \in 1 .. n + 1 /\ j + 1 # n + 1
      BY <1>5, <2>8
    <3>2. g[j + 1] = PlaceOf(i, "gap", k + l, 0, 0)
      BY <2>1, <3>1
    <3>3. Bytes(TRUE, Buffers(m)[j]) = StartOfChunk(l) \o t \o <<>>
      BY <1>4, <2>2, <2>3, <2>8 DEF Bytes
    <3>4. Bytes(TRUE, Buffers(m)[j]) = StartOfChunk(l) \o t
      BY <2>5, <3>3, ConcatEmptySeq
    <3> HIDE DEF g
    <3>5. QED
      BY <2>4, <2>6, <3>2, <3>4
  <2>9. QED
    BY <2>7, <2>8
<1>10. g[1] = Begin(o, i) /\ g[n + 1] = Begin(o, i + 1)
  <2>1. 1 \in 1 .. n + 1 /\ 1 # n + 1 /\ n + 1 \in 1 .. n + 1
    BY <1>5
  <2>2. g[1] = PlaceOf(i, "gap", 0, 0, 0) /\ g[n + 1] = Begin(o, i + 1)
    BY <1>6, <2>1
  <2>3. Begin(o, i) = PlaceOf(i, "gap", 0, 0, 0)
    BY <1>1 DEF Begin
  <2>4. QED
    BY <2>2, <2>3
<1> HIDE DEF g
<1>11. OutLeads(s, o, TRUE, Buffers(m), g[1], g[n + 1])
  BY <1>4, <1>5, <1>8, <1>9, WayOut
<1>12. QED
  BY <1>0, <1>10, <1>11

\* A message of base:1.0 that is written at once.
LEMMA MarkedLeads ==
    ASSUME NEW s \in Seq(Payloads), NEW o \in Nat, NEW i \in 1 .. Len(s), i <= o
    PROVE  Leads(s, o, s[i] \o EOM, Begin(o, i), Begin(o, i + 1))
<1>0. PICK m \in Payloads : m = s[i]
  OBVIOUS
<1>1. m \in Seq(Byte) /\ Len(m) \in Nat /\ i \in Nat
  BY <1>0, PayloadType
<1>2. PICK t \in Seq(Byte) : t = m \o EOM /\ Len(t) = Len(m) + 6
  BY <1>1, MarkedParts
<1>3. SubSeq(t, 0 + 1, Len(t)) = t
  BY SubSeqFull
<1>4. 0 \in 0 .. Len(t) /\ Len(t) \in 0 .. Len(t) /\ Len(t) # 0
  BY <1>1, <1>2
<1>5. Leads(s, o, SubSeq(t, 0 + 1, Len(t)), TextPlace(o, i, Len(t), 0), TextPlace(o, i, Len(t), Len(t)))
  BY <1>0, <1>2, <1>4, TextLeads
<1>6. TextPlace(o, i, Len(t), 0) = Begin(o, i) /\ TextPlace(o, i, Len(t), Len(t)) = Begin(o, i + 1)
  BY <1>4 DEF TextPlace, Begin
<1>7. QED
  BY <1>0, <1>2, <1>3, <1>5, <1>6

\* A message of base:1.1 in one chunk or two, cut anywhere.
LEMMA ForeignLeads ==
    ASSUME NEW s \in Seq(Payloads), NEW o \in Nat, NEW i \in 1 .. Len(s), i > o, NEW cut \in Nat \ {0}
    PROVE  LET first == SubSeq(s[i], 1, Min({cut, Len(s[i])}))
               rest == SubSeq(s[i], cut + 1, Len(s[i]))
           IN  Leads(s, o, StartOfChunk(Len(first)) \o first
                           \o (IF rest = <<>> THEN <<>> ELSE StartOfChunk(Len(rest)) \o rest)
                           \o EndOfChunks, Begin(o, i), Begin(o, i + 1))
<1>0. PICK m \in Payloads : m = s[i]
  OBVIOUS
<1>1. m \in Seq(Byte) /\ Len(m) \in Nat /\ Len(m) > 0 /\ i \in Nat
  BY <1>0, PayloadType
<1> DEFINE gap(k) == PlaceOf(i, "gap", k, 0, 0)
<1>2. gap(0) = Begin(o, i)
  BY <1>1 DEF Begin
<1>3. Leads(s, o, EndOfChunks, gap(Len(m)), Begin(o, i + 1))
  BY <1>0, EndLeads
<1>4. ASSUME NEW k \in Nat, NEW n \in Nat \ {0}, k + n <= Len(m)
      PROVE  /\ SubSeq(m, k + 1, k + n) \in Seq(Byte) /\ Len(SubSeq(m, k + 1, k + n)) = n
             /\ Leads(s, o, StartOfChunk(n) \o SubSeq(m, k + 1, k + n), gap(k), gap(k + n))
  <2>1. SubSeq(m, k + 1, k + n) \in Seq(Byte) /\ Len(SubSeq(m, k + 1, k + n)) = n
    BY <1>1, <1>4
  <2>2. Leads(s, o, StartOfChunk(n) \o SubSeq(m, k + 1, k + n), gap(k), gap(k + n))
    BY <1>0, <1>4, ChunkLeads
  <2>3. QED
    BY <2>1, <2>2
<1> HIDE DEF gap
<1>5. CASE cut < Len(m)
  <2>1. PICK n \in Nat \ {0} : cut + n = Len(m)
    <3>1. Len(m) - cut \in Nat \ {0} /\ cut + (Len(m) - cut) = Len(m)
      BY <1>1, <1>5
    <3>2. QED
      BY <3>1
  <2>2. Min({cut, Len(m)}) = cut
    BY <1>1, <1>5, MinOfTwo
  <2>3. PICK f : f = SubSeq(m, 1, cut)
    OBVIOUS
  <2>4. 0 + 1 = 1 /\ 0 + cut = cut /\ 0 + cut <= Len(m) /\ 0 \in Nat
    BY <1>1, <1>5
  <2>5. Len(f) = cut /\ Leads(s, o, StartOfChunk(cut) \o f, gap(0), gap(cut))
    BY <1>4, <2>3, <2>4
  <2>6. PICK r : r = SubSeq(m, cut + 1, cut + n)
    OBVIOUS
  <2>7. r \in Seq(Byte) /\ Len(r) = n /\ Leads(s, o, StartOfChunk(n) \o r, gap(cut), gap(Len(m)))
    <3>1. cut \in Nat /\ cut + n <= Len(m)
      BY <1>1, <2>1
    <3>2. /\ SubSeq(m, cut + 1, cut + n) \in Seq(Byte) /\ Len(SubSeq(m, cut + 1, cut + n)) = n
          /\ Leads(s, o, StartOfChunk(n) \o SubSeq(m, cut + 1, cut + n), gap(cut), gap(cut + n))
      BY <1>4, <3>1
    <3>3. QED
      BY <2>1, <2>6, <3>2, Zenon
  <2>8. r # <<>>
    BY <2>7
  <2>9. Leads(s, o, (StartOfChunk(cut) \o f) \o (StartOfChunk(n) \o r), gap(0), gap(Len(m)))
    BY <2>5, <2>7, LeadsOn
  <2>10. Leads(s, o, ((StartOfChunk(cut) \o f) \o (StartOfChunk(n) \o r)) \o EndOfChunks,
               gap(0), Begin(o, i + 1))
    BY <1>3, <2>9, LeadsOn
  <2>11. QED
    BY <1>0, <1>2, <2>1, <2>2, <2>3, <2>5, <2>6, <2>7, <2>8, <2>10
<1>6. CASE ~(cut < Len(m))
  <2>1. Min({cut, Len(m)}) = Len(m)
    BY <1>1, <1>6, MinOfTwo
  <2>2. SubSeq(m, cut + 1, Len(m)) = <<>>
    BY <1>1, <1>6
  <2>3. PICK f : f = SubSeq(m, 1, Len(m))
    OBVIOUS
  <2>4. 0 + 1 = 1 /\ 0 + Len(m) = Len(m) /\ 0 + Len(m) <= Len(m) /\ 0 \in Nat /\ Len(m) \in Nat \ {0}
    BY <1>1
  <2>5. Len(f) = Len(m) /\ Leads(s, o, StartOfChunk(Len(m)) \o f, gap(0), gap(Len(m)))
    BY <1>4, <2>3, <2>4
  <2>6. (StartOfChunk(Len(m)) \o f) \o <<>> = StartOfChunk(Len(m)) \o f
    BY <2>5, LeadsType, ConcatEmptySeq
  <2>7. Leads(s, o, ((StartOfChunk(Len(m)) \o f) \o <<>>) \o EndOfChunks, gap(0), Begin(o, i + 1))
    BY <1>3, <2>5, <2>6, LeadsOn
  <2>8. QED
    BY <1>0, <1>2, <2>1, <2>2, <2>3, <2>5, <2>7
<1>7. QED
  BY <1>1, <1>5, <1>6

-----------------------------------------------------------------------------
(* The messages of the reader.                                             *)

Message == [buffQ : Seq(Buffer), ready : BOOLEAN, expchunksize : Nat, curchunksize : Nat]

\* The state of the reader while it has found no fault.
ReaderOf(msgQ, instate, inendpos, startchunk) ==
    [msgQ |-> msgQ, instate |-> instate, inendpos |-> inendpos, startchunk |-> startchunk,
     res |-> "ok"]

\* What changes when the reader is in another place (At).
LEMMA ReaderAtOther ==
    ASSUME NEW q, NEW st, NEW e, NEW sc, NEW st2, NEW e2
    PROVE  At(ReaderOf(q, st, e, sc), st2, e2) = ReaderOf(q, st2, e2, sc)
<1> DEFINE r == [msgQ |-> q, instate |-> st, inendpos |-> e, startchunk |-> sc, res |-> "ok"]
<1>1. At(r, st2, e2) =
        [k \in {"msgQ", "instate", "inendpos", "startchunk", "res"} |->
           IF k = "inendpos" THEN e2 ELSE IF k = "instate" THEN st2 ELSE r[k]]
  BY DEF At
<1>2. QED
  BY <1>1 DEF ReaderOf

\* c is a message of which w was received so far; whether its last buffer has room.
Holds(c, w) == c \in Message /\ ~c.ready /\ Stores(c.buffQ, w)
HasRoom(c) == Len(Last(c.buffQ).buff) < BuffSize

\* What buffers that store something are.
LEMMA StoresParts ==
    ASSUME NEW q, NEW w, Stores(q, w)
    PROVE  /\ q \in Seq(Buffer) /\ w \in Seq(Byte)
           /\ \E o \in Seq(Buffer), b \in Buffer : q = Append(o, b) /\ b.bufflen = 0
<1>1. PICK o, y, b :
          /\ o \in Seq(FullBuffer)
          /\ q = Append(o, [buff |-> b, bufflen |-> 0])
          /\ Len(b) <= BuffSize
          /\ Joined(Texts(o), y)
          /\ Split(w, y, b)
  BY DEF Stores
<1> DEFINE last == [buff |-> b, bufflen |-> 0]
<1>2. b \in Seq(Byte) /\ y \in Seq(Byte) /\ w = y \o b
  BY <1>1 DEF Split
<1>3. last \in Buffer /\ last.bufflen = 0
  BY <1>1, <1>2 DEF Buffer
<1>4. o \in Seq(Buffer)
  BY <1>1, SeqMonotonic DEF FullBuffer
<1>5. q = Append(o, last)
  BY <1>1
<1> HIDE DEF last
<1>6. q \in Seq(Buffer)
  BY <1>3, <1>4, <1>5
<1>7. w \in Seq(Byte)
  BY <1>2
<1>8. QED
  BY <1>3, <1>4, <1>5, <1>6, <1>7

\* The last message is exchanged (WithMsg).
LEMMA MsgExchanged ==
    ASSUME NEW p \in Seq(Message), NEW c \in Message, NEW d \in Message, NEW st, NEW e, NEW sc
    PROVE  /\ LastMsg(ReaderOf(Append(p, c), st, e, sc)) = c
           /\ WithMsg(ReaderOf(Append(p, c), st, e, sc), d) = ReaderOf(Append(p, d), st, e, sc)
           /\ Append(p, c) # <<>> /\ Append(p, c) \in Seq(Message)
           /\ Len(Append(p, c)) = Len(p) + 1 /\ Len(p) \in Nat
<1> DEFINE q == Append(p, c)
           r == ReaderOf(q, st, e, sc)
<1>1. /\ q \in Seq(Message) /\ q # <<>> /\ Last(q) = c /\ Len(q) = Len(p) + 1 /\ Len(p) \in Nat
      /\ [q EXCEPT ![Len(q)] = d] = Append(p, d)
  BY LastExchanged
<1> HIDE DEF q
<1>2. r.msgQ = q
  BY DEF ReaderOf
<1>3. LastMsg(r) = c
  BY <1>1, <1>2 DEF LastMsg
<1>4. WithMsg(r, d) = [r EXCEPT !.msgQ = [q EXCEPT ![Len(q)] = d]]
  BY <1>2 DEF WithMsg
<1>5. WithMsg(r, d) = [r EXCEPT !.msgQ = Append(p, d)]
  BY <1>1, <1>4
<1>6. [r EXCEPT !.msgQ = Append(p, d)] = ReaderOf(Append(p, d), st, e, sc)
  BY DEF ReaderOf
<1>7. QED
  BY <1>1, <1>3, <1>5, <1>6 DEF q

\* The buffers of the last message are exchanged (WithBuffs).
LEMMA BuffsExchanged ==
    ASSUME NEW p \in Seq(Message), NEW c \in Message, NEW q \in Seq(Buffer), NEW st, NEW e, NEW sc
    PROVE  \E d \in Message :
              /\ d = [c EXCEPT !.buffQ = q]
              /\ d.buffQ = q /\ d.ready = c.ready
              /\ d.expchunksize = c.expchunksize /\ d.curchunksize = c.curchunksize
              /\ WithBuffs(ReaderOf(Append(p, c), st, e, sc), q) = ReaderOf(Append(p, d), st, e, sc)
<1> DEFINE d == [c EXCEPT !.buffQ = q]
<1>1. /\ d \in Message /\ d.buffQ = q /\ d.ready = c.ready
      /\ d.expchunksize = c.expchunksize /\ d.curchunksize = c.curchunksize
  BY DEF Message
<1>2. WithBuffs(ReaderOf(Append(p, c), st, e, sc), q) = ReaderOf(Append(p, d), st, e, sc)
  BY <1>1, MsgExchanged DEF WithBuffs
<1>3. QED
  BY <1>1, <1>2

\* There is room for a byte in the current message (WithRoom).
LEMMA RoomForOld ==
    ASSUME NEW p \in Seq(Message), NEW c, NEW w, Holds(c, w), NEW st, NEW e, NEW sc
    PROVE  \E d : /\ WithRoom(ReaderOf(Append(p, c), st, e, sc)) = ReaderOf(Append(p, d), st, e, sc)
                  /\ Holds(d, w) /\ HasRoom(d)
                  /\ d.expchunksize = c.expchunksize /\ d.curchunksize = c.curchunksize
<1> DEFINE q == Append(p, c)
           r == ReaderOf(q, st, e, sc)
<1>1. c \in Message /\ ~c.ready /\ Stores(c.buffQ, w)
  BY DEF Holds
<1>2. LastMsg(r) = c /\ q # <<>> /\ r.msgQ = q
  BY <1>1, MsgExchanged DEF ReaderOf
<1>3. CASE HasRoom(c)
  <2>1. WithRoom(r) = r
    BY <1>1, <1>2, <1>3 DEF WithRoom, HasRoom
  <2>2. QED
    BY <1>3, <2>1
<1>4. CASE ~HasRoom(c)
  <2> DEFINE b == Append([c.buffQ EXCEPT ![Len(c.buffQ)].bufflen = BuffSize], NewBuff)
  <2>1. ~(Len(Last(c.buffQ).buff) < BuffSize)
    BY <1>4 DEF HasRoom
  <2>2. Stores(b, w)
    BY <1>1, <2>1, StoresRoom
  <2>3. WithRoom(r) = WithBuffs(r, b)
    BY <1>1, <1>2, <2>1 DEF WithRoom
  <2>4. Len(Last(b).buff) < BuffSize
    <3>1. PICK f : f = [c.buffQ EXCEPT ![Len(c.buffQ)].bufflen = BuffSize]
      OBVIOUS
    <3>2. b = Append(f, NewBuff)
      BY <3>1
    <3>3. f \in Seq(Buffer)
      <4>1. PICK o \in Seq(Buffer), l \in Buffer : c.buffQ = Append(o, l) /\ l.bufflen = 0
        BY <1>1, StoresParts
      <4>2. l = Last(c.buffQ) /\ Len(c.buffQ) = Len(o) + 1 /\ c.buffQ[Len(c.buffQ)] = l
        BY <4>1, LastExchanged
      <4>3. Len(l.buff) = BuffSize
        BY <2>1, <4>2, Sizes DEF Buffer
      <4> DEFINE l2 == [l EXCEPT !.bufflen = BuffSize]
      <4>4. l2 \in Buffer
        BY <4>3, Sizes DEF Buffer
      <4>5. f = [c.buffQ EXCEPT ![Len(c.buffQ)] = l2]
        BY <3>1, <4>2
      <4> HIDE DEF l2
      <4>6. f = Append(o, l2)
        BY <4>1, <4>4, <4>5, LastExchanged
      <4>7. QED
        BY <4>4, <4>6
    <3>4. NewBuff \in Buffer /\ Len(NewBuff.buff) = 0
      BY Sizes DEF NewBuff, Buffer
    <3>5. Last(Append(f, NewBuff)) = NewBuff
      BY <3>3, <3>4, LastExchanged
    <3> HIDE DEF b
    <3>6. QED
      BY <3>2, <3>4, <3>5, Sizes
  <2> HIDE DEF b
  <2>5. b \in Seq(Buffer)
    BY <2>2, StoresParts
  <2>6. PICK d \in Message :
           /\ d.buffQ = b /\ d.ready = c.ready
           /\ d.expchunksize = c.expchunksize /\ d.curchunksize = c.curchunksize
           /\ WithBuffs(r, b) = ReaderOf(Append(p, d), st, e, sc)
    BY <1>1, <2>5, BuffsExchanged
  <2>7. Holds(d, w) /\ HasRoom(d)
    BY <1>1, <2>2, <2>4, <2>6 DEF Holds, HasRoom
  <2>8. QED
    BY <2>3, <2>6, <2>7
<1>5. QED
  BY <1>3, <1>4

\* A message is begun with room for a byte (WithRoom).
LEMMA RoomForNew ==
    ASSUME NEW p \in Seq(Message), \A i \in 1 .. Len(p) : p[i].ready, NEW st, NEW e, NEW sc
    PROVE  \E d : /\ WithRoom(ReaderOf(p, st, e, sc)) = ReaderOf(Append(p, d), st, e, sc)
                  /\ Holds(d, <<>>) /\ HasRoom(d)
<1> DEFINE r == ReaderOf(p, st, e, sc)
           r2 == ReaderOf(Append(p, NewMsg), st, e, sc)
<1>1. NewBuff \in Buffer /\ Len(NewBuff.buff) = 0
  BY Sizes DEF NewBuff, Buffer
<1>2. <<NewBuff>> \in Seq(Buffer) /\ Last(<<NewBuff>>) = NewBuff
  BY <1>1 DEF Last
<1>3. NewMsg \in Message /\ ~NewMsg.ready /\ NewMsg.buffQ = <<NewBuff>>
  BY <1>2 DEF NewMsg, Message
<1>4. Holds(NewMsg, <<>>)
  BY <1>3, StoresNothing DEF Holds
<1>5. HasRoom(NewMsg)
  BY <1>1, <1>2, <1>3, Sizes DEF HasRoom
<1>6. r.msgQ = <<>> \/ LastMsg(r).ready
  <2>1. r.msgQ = p
    BY DEF ReaderOf
  <2>2. p # <<>> => Len(p) \in 1 .. Len(p)
    BY EmptySeq
  <2>3. QED
    BY <2>1, <2>2 DEF LastMsg, Last
<1>7. [r EXCEPT !.msgQ = Append(@, NewMsg)] = r2
  <2>1. r.msgQ = p
    BY DEF ReaderOf
  <2>2. [r EXCEPT !.msgQ = Append(p, NewMsg)] = r2
    <3>1. PICK q : q = Append(p, NewMsg)
      OBVIOUS
    <3>2. [r EXCEPT !.msgQ = q] = ReaderOf(q, st, e, sc)
      BY DEF ReaderOf
    <3> HIDE DEF r
    <3>3. QED
      BY <3>1, <3>2
  <2> HIDE DEF r, r2
  <2>3. QED
    BY <2>1, <2>2
<1>8. LastMsg(r2) = NewMsg
  BY <1>3, MsgExchanged
<1>9. WithRoom(r) = r2
  BY <1>1, <1>2, <1>3, <1>6, <1>7, <1>8, Sizes DEF WithRoom
<1>10. QED
  BY <1>4, <1>5, <1>9

\* A byte is stored (Stored).
LEMMA ByteStored ==
    ASSUME NEW p \in Seq(Message), NEW c, NEW w, Holds(c, w), HasRoom(c), NEW b \in Byte,
           NEW st, NEW e, NEW sc
    PROVE  \E d : /\ Stored(ReaderOf(Append(p, c), st, e, sc), b) = ReaderOf(Append(p, d), st, e, sc)
                  /\ Holds(d, Append(w, b)) /\ Last(d.buffQ).buff # <<>>
                  /\ d.expchunksize = c.expchunksize /\ d.curchunksize = c.curchunksize
<1> DEFINE r == ReaderOf(Append(p, c), st, e, sc)
           q == [c.buffQ EXCEPT ![Len(c.buffQ)].buff = Append(@, b)]
<1>1. c \in Message /\ ~c.ready /\ Stores(c.buffQ, w) /\ Len(Last(c.buffQ).buff) < BuffSize
  BY DEF Holds, HasRoom
<1>2. LastMsg(r) = c
  BY <1>1, MsgExchanged
<1>3. Stored(r, b) = WithBuffs(r, q)
  BY <1>2 DEF Stored
<1>4. Stores(q, Append(w, b)) /\ Last(q).buff # <<>>
  BY <1>1, StoresByte
<1> HIDE DEF q
<1>5. q \in Seq(Buffer)
  BY <1>4, StoresParts
<1>6. PICK d \in Message :
         /\ d.buffQ = q /\ d.ready = c.ready
         /\ d.expchunksize = c.expchunksize /\ d.curchunksize = c.curchunksize
         /\ WithBuffs(r, q) = ReaderOf(Append(p, d), st, e, sc)
  BY <1>1, <1>5, BuffsExchanged
<1>7. QED
  BY <1>1, <1>3, <1>4, <1>6 DEF Holds

\* The message is made ready (Ready).
LEMMA MadeReady ==
    ASSUME NEW p \in Seq(Message), NEW c \in Message, NEW q \in Seq(Buffer), NEW st, NEW e, NEW sc
    PROVE  \E d \in Message :
              /\ Ready(ReaderOf(Append(p, c), st, e, sc), q) = ReaderOf(Append(p, d), "idle", 0, sc)
              /\ d.ready /\ Text(d) = FlattenSeq(Texts(q))
<1> DEFINE d == [c EXCEPT !.buffQ = q, !.ready = TRUE]
<1>1. d \in Message /\ d.buffQ = q /\ d.ready
  BY DEF Message
<1> HIDE DEF d
<1>2. WithMsg(ReaderOf(Append(p, c), st, e, sc), d) = ReaderOf(Append(p, d), st, e, sc)
  BY <1>1, MsgExchanged
<1>3. LastMsg(ReaderOf(Append(p, c), st, e, sc)) = c
  BY MsgExchanged
<1>4. Ready(ReaderOf(Append(p, c), st, e, sc), q) = At(ReaderOf(Append(p, d), st, e, sc), "idle", 0)
  BY <1>2, <1>3 DEF Ready, d
<1>5. At(ReaderOf(Append(p, d), st, e, sc), "idle", 0) = ReaderOf(Append(p, d), "idle", 0, sc)
  BY ReaderAtOther
<1>6. Text(d) = FlattenSeq(Texts(q))
  BY <1>1 DEF Text, Texts
<1>7. QED
  BY <1>1, <1>4, <1>5, <1>6

-----------------------------------------------------------------------------
(* The end marker.                                                         *)

\* The bytes of the marker.
LEMMA MarkerBytes ==
    /\ EOM[1] = 93 /\ EOM[2] = 93 /\ EOM[3] = 62 /\ EOM[4] = 93 /\ EOM[5] = 93 /\ EOM[6] = 62
    /\ \A i \in 1 .. 6 : EOM[i] \in {93, 62}
<1>1. /\ EOM[1] = 93 /\ EOM[2] = 93 /\ EOM[3] = 62 /\ EOM[4] = 93 /\ EOM[5] = 93 /\ EOM[6] = 62
  BY DEF EOM
<1>2. \A i \in 1 .. 6 : i = 1 \/ i = 2 \/ i = 3 \/ i = 4 \/ i = 5 \/ i = 6
  OBVIOUS
<1>3. QED
  BY <1>1, <1>2

\* The marker is not in a message.
LEMMA NoMarker ==
    ASSUME NEW m \in Payloads, NEW i \in Nat, i + 6 <= Len(m)
    PROVE  ~\A j \in 1 .. 6 : m[i + j] = EOM[j]
<1> SUFFICES ASSUME \A j \in 1 .. 6 : m[i + j] = EOM[j] PROVE FALSE
  OBVIOUS
<1>1. m \in Seq(Byte) /\ Len(m) \in Nat
  BY PayloadType
<1>2. PICK e \in Seq(Byte) : e = EOM /\ Len(e) = 6
  BY Sizes
<1> DEFINE u == SubSeq(m, i + 1, i + 6)
<1>3. u \in Seq(Byte) /\ Len(u) = 6 /\ \A j \in 1 .. 6 : u[j] = m[i + j]
  BY <1>1
<1> HIDE DEF u
<1>4. \A j \in 1 .. Len(u) : u[j] = e[j]
  BY <1>2, <1>3
<1>5. u = e
  BY <1>2, <1>3, <1>4, SeqEqual
<1>6. \A k \in 1 .. Len(m) - 5 : SubSeq(m, k, k + 5) # EOM
  BY FramingAssumption
<1>7. i + 1 \in 1 .. Len(m) - 5 /\ (i + 1) + 5 = i + 6
  BY <1>1
<1>8. QED
  BY <1>2, <1>5, <1>6, <1>7 DEF u

\* Three bytes.
LEMMA FirstThree ==
    ASSUME NEW a \in Seq(Byte), Len(a) >= 3
    PROVE  /\ SubSeq(a, 1, 3) \in Seq(Byte) /\ Len(SubSeq(a, 1, 3)) = 3
           /\ SubSeq(a, 1, 3)[1] = a[1] /\ SubSeq(a, 1, 3)[2] = a[2] /\ SubSeq(a, 1, 3)[3] = a[3]
<1>1. \A i \in 1 .. 3 : a[i] \in Byte
  BY ElementOfSeq
<1>2. /\ SubSeq(a, 1, 3) \in Seq(Byte) /\ Len(SubSeq(a, 1, 3)) = IF 1 <= 3 THEN 3 - 1 + 1 ELSE 0
      /\ \A i \in 1 .. 3 - 1 + 1 : SubSeq(a, 1, 3)[i] = a[1 + i - 1]
  BY <1>1, SubSeqProperties
<1>3. QED
  BY <1>2

\* A message does not end like its first three bytes.
LEMMA NoHalfMarker ==
    ASSUME NEW m \in Payloads, Len(m) >= 3
    PROVE  ~(m[Len(m) - 2] = EOM[1] /\ m[Len(m) - 1] = EOM[2] /\ m[Len(m)] = EOM[3])
<1> SUFFICES ASSUME m[Len(m) - 2] = EOM[1], m[Len(m) - 1] = EOM[2], m[Len(m)] = EOM[3] PROVE FALSE
  OBVIOUS
<1>1. m \in Seq(Byte) /\ Len(m) \in Nat
  BY PayloadType
<1>2. PICK e \in Seq(Byte) : e = EOM /\ Len(e) = 6
  BY Sizes
<1> DEFINE f == SubSeq(e, 1, 3)
           rf == Reverse(f)
           rm == Reverse(m)
<1>3. f \in Seq(Byte) /\ Len(f) = 3 /\ f[1] = e[1] /\ f[2] = e[2] /\ f[3] = e[3]
  <2>1. Len(e) >= 3
    BY <1>2
  <2>2. QED
    BY <2>1, FirstThree, Zenon
<1> HIDE DEF f
<1>4. rf = [k \in 1 .. 3 |-> f[(3 - k) + 1]] /\ rm = [k \in 1 .. Len(m) |-> m[(Len(m) - k) + 1]]
  BY <1>3 DEF Reverse
<1>5. (3 - 1) + 1 = 3 /\ (3 - 2) + 1 = 2 /\ (3 - 3) + 1 = 1 /\ 1 \in 1 .. 3 /\ 2 \in 1 .. 3 /\ 3 \in 1 .. 3
  OBVIOUS
<1>6. /\ (Len(m) - 1) + 1 = Len(m) /\ (Len(m) - 2) + 1 = Len(m) - 1 /\ (Len(m) - 3) + 1 = Len(m) - 2
      /\ 1 \in 1 .. Len(m) /\ 2 \in 1 .. Len(m) /\ 3 \in 1 .. Len(m)
  BY <1>1
<1>7. /\ rf[1] = f[3] /\ rf[2] = f[2] /\ rf[3] = f[1]
      /\ rm[1] = m[Len(m)] /\ rm[2] = m[Len(m) - 1] /\ rm[3] = m[Len(m) - 2]
  BY <1>4, <1>5, <1>6
<1>8. rf \in Seq(Byte) /\ Len(rf) = 3 /\ rm \in Seq(Byte) /\ Len(rm) = Len(m)
  <2>1. \A k \in 1 .. 3 : (3 - k) + 1 \in 1 .. 3
    OBVIOUS
  <2>2. \A k \in 1 .. Len(m) : (Len(m) - k) + 1 \in 1 .. Len(m)
    BY <1>1
  <2>3. \A k \in 1 .. 3 : f[k] \in Byte
    BY <1>3, ElementOfSeq
  <2>4. \A k \in 1 .. Len(m) : m[k] \in Byte
    BY <1>1, ElementOfSeq
  <2>5. rf \in [1 .. 3 -> Byte] /\ rm \in [1 .. Len(m) -> Byte]
    BY <1>4, <2>1, <2>2, <2>3, <2>4
  <2> HIDE DEF rf, rm
  <2>6. 3 \in Nat
    OBVIOUS
  <2>7. rf \in Seq(Byte) /\ rm \in Seq(Byte)
    <3>1. rf \in Seq(Byte)
      BY <2>5, <2>6, SeqDef
    <3>2. rm \in Seq(Byte)
      BY <1>1, <2>5, SeqDef
    <3>3. QED
      BY <3>1, <3>2
  <2>8. QED
    BY <1>1, <2>5, <2>7, LenProperties
<1> HIDE DEF rf, rm
<1>9. PICK a \in Seq(Byte) : a = rf /\ Len(a) = 3
  BY <1>8
<1>10. PICK b \in Seq(Byte) : b = rm
  BY <1>8
<1> DEFINE sa == SubSeq(a, 1, 3)
           sb == SubSeq(b, 1, 3)
<1>11. sa \in Seq(Byte) /\ Len(sa) = 3 /\ sa[1] = a[1] /\ sa[2] = a[2] /\ sa[3] = a[3]
  <2>1. Len(a) >= 3
    BY <1>9
  <2>2. QED
    BY <2>1, FirstThree, Zenon
<1>12. sb \in Seq(Byte) /\ Len(sb) = 3 /\ sb[1] = b[1] /\ sb[2] = b[2] /\ sb[3] = b[3]
  BY <1>8, <1>10, FirstThree
<1> HIDE DEF sa, sb
<1>13. \A k \in 1 .. 3 : k = 1 \/ k = 2 \/ k = 3
  OBVIOUS
<1>14. \A k \in 1 .. 3 : sa[k] = sb[k]
  BY <1>2, <1>3, <1>7, <1>9, <1>10, <1>11, <1>12, <1>13
<1>15. sa = sb
  BY <1>11, <1>12, <1>14, SeqEqual
<1>16. IsPrefix(rf, rm)
  BY <1>8, <1>9, <1>10, <1>15 DEF IsPrefix, sa, sb
<1>17. IsSuffix(SubSeq(EOM, 1, 3), m)
  BY <1>2, <1>16 DEF IsSuffix, rf, rm, f
<1>18. QED
  BY <1>17, FramingAssumption

\* e bytes of the marker were matched, when pos bytes of a message and its marker are
\* behind the reader.
Matched(m, pos, e) ==
    /\ e \in 0 .. 5 /\ e <= pos
    /\ \A j \in 1 .. e : (m \o EOM)[pos - e + j] = EOM[j]
    /\ pos >= Len(m) => e = pos - Len(m)

\* The next byte matches or not; the reader finds the marker at its end and nowhere else.
LEMMA MarkerStep ==
    ASSUME NEW m \in Payloads, NEW pos \in Nat, pos < Len(m) + 6, NEW e, Matched(m, pos, e),
           NEW b, b = (m \o EOM)[pos + 1]
    PROVE  /\ b \in Byte
           /\ (e > 0 /\ b = EOM[e + 1] /\ e + 1 = 6) <=> pos + 1 = Len(m) + 6
           /\ (e > 0 /\ b = EOM[e + 1] /\ e + 1 < 6) => Matched(m, pos + 1, e + 1)
           /\ (e > 0 /\ b # EOM[e + 1]) => Matched(m, pos + 1, 0)
           /\ (e = 0 /\ b = EOM[1]) => Matched(m, pos + 1, 1)
           /\ (e = 0 /\ b # EOM[1]) => Matched(m, pos + 1, 0)
<1>1. m \in Seq(Byte) /\ Len(m) \in Nat /\ Len(m) > 0
  BY PayloadType
<1>2. PICK t \in Seq(Byte) : /\ t = m \o EOM /\ Len(t) = Len(m) + 6
                             /\ \A j \in 1 .. Len(m) + 6 :
                                   t[j] = IF j <= Len(m) THEN m[j] ELSE EOM[j - Len(m)]
  BY <1>1, MarkedParts
<1>3. /\ e \in 0 .. 5 /\ e <= pos /\ \A j \in 1 .. e : t[pos - e + j] = EOM[j]
      /\ pos >= Len(m) => e = pos - Len(m)
  BY <1>2 DEF Matched
<1>4. b = t[pos + 1] /\ b \in Byte
  <2>1. pos + 1 \in 1 .. Len(t)
    BY <1>1, <1>2
  <2>2. QED
    BY <1>2, <2>1, ElementOfSeq
<1>5. e < 5 /\ b = EOM[e + 1] => \A j \in 1 .. e + 1 : t[(pos + 1) - (e + 1) + j] = EOM[j]
  <2>1. \A j \in 1 .. e + 1 : (pos + 1) - (e + 1) + j = pos - e + j /\ (j = e + 1 \/ j \in 1 .. e)
    BY <1>3
  <2>2. pos - e + (e + 1) = pos + 1
    BY <1>3
  <2>3. QED
    BY <1>3, <1>4, <2>1, <2>2
<1>6. CASE pos >= Len(m)
  <2>1. e = pos - Len(m) /\ b = EOM[e + 1]
    <3>1. pos + 1 \in 1 .. Len(m) + 6 /\ ~(pos + 1 <= Len(m)) /\ (pos + 1) - Len(m) = e + 1
      BY <1>1, <1>3, <1>6
    <3>2. QED
      BY <1>2, <1>3, <1>4, <1>6, <3>1
  <2>2. (e > 0 /\ e + 1 = 6) <=> pos + 1 = Len(m) + 6
    BY <1>1, <1>3, <2>1
  <2>3. e + 1 < 6 => Matched(m, pos + 1, e + 1)
    BY <1>1, <1>2, <1>3, <1>5, <1>6, <2>1 DEF Matched
  <2>4. QED
    BY <1>3, <1>4, <2>1, <2>2, <2>3
<1>7. CASE pos < Len(m)
  <2>1. b = m[pos + 1] /\ pos + 1 # Len(m) + 6
    <3>1. pos + 1 \in 1 .. Len(m) + 6 /\ pos + 1 <= Len(m) /\ pos + 1 # Len(m) + 6
      BY <1>1, <1>7
    <3>2. QED
      BY <1>2, <1>4, <3>1
  <2>2. ~(b = EOM[e + 1] /\ e + 1 = 6)
    <3> SUFFICES ASSUME b = EOM[e + 1], e + 1 = 6 PROVE FALSE
      OBVIOUS
    <3>1. e = 5 /\ pos - 5 \in Nat /\ (pos - 5) + 6 <= Len(m)
      BY <1>1, <1>3, <1>7
    <3>2. ASSUME NEW j \in 1 .. 6
          PROVE  m[(pos - 5) + j] = EOM[j]
      <4>1. CASE j = 6
        <5>1. (pos - 5) + 6 = pos + 1
          OBVIOUS
        <5>2. QED
          BY <2>1, <3>1, <4>1, <5>1
      <4>2. CASE j # 6
        <5>1. j \in 1 .. e /\ pos - e + j = (pos - 5) + j
          BY <3>1, <4>2
        <5>2. (pos - 5) + j \in 1 .. Len(m) + 6 /\ (pos - 5) + j <= Len(m)
          BY <1>1, <1>7, <3>1
        <5>3. t[(pos - 5) + j] = EOM[j]
          BY <1>3, <5>1
        <5>4. t[(pos - 5) + j] = m[(pos - 5) + j]
          BY <1>2, <5>2
        <5>5. QED
          BY <5>3, <5>4
      <4>3. QED
        BY <4>1, <4>2
    <3>3. QED
      BY <3>1, <3>2, NoMarker
  <2>3. pos + 1 = Len(m) => b # EOM[1]
    BY <2>1, FramingAssumption DEF Last
  <2>4. pos + 1 = Len(m) /\ e > 0 => b # EOM[e + 1]
    <3> SUFFICES ASSUME pos + 1 = Len(m), e > 0, b = EOM[e + 1] PROVE FALSE
      OBVIOUS
    <3>1. e = 1 \/ e = 2 \/ e = 3 \/ e = 4 \/ e = 5
      BY <1>3
    <3>2. b # 93
      BY <2>3, MarkerBytes
    <3>3. e = 2
      BY <2>2, <3>1, <3>2, MarkerBytes
    <3>4. Len(m) >= 3 /\ m[Len(m)] = EOM[3]
      <4>1. Len(m) >= 3
        BY <1>1, <1>3, <3>3
      <4>2. m[pos + 1] = EOM[e + 1] /\ e + 1 = 3
        BY <2>1, <3>3
      <4>3. QED
        BY <4>1, <4>2
    <3>5. /\ t[pos - 2 + 1] = EOM[1] /\ t[pos - 2 + 2] = EOM[2]
      <4>1. 1 \in 1 .. e /\ 2 \in 1 .. e
        BY <3>3
      <4>2. QED
        BY <1>3, <3>3, <4>1
    <3>6. /\ pos - 2 + 1 = Len(m) - 2 /\ pos - 2 + 2 = Len(m) - 1
          /\ Len(m) - 2 \in 1 .. Len(m) + 6 /\ Len(m) - 1 \in 1 .. Len(m) + 6
          /\ Len(m) - 2 <= Len(m) /\ Len(m) - 1 <= Len(m)
      BY <1>1, <3>4
    <3>7. m[Len(m) - 2] = EOM[1] /\ m[Len(m) - 1] = EOM[2]
      BY <1>2, <3>5, <3>6
    <3>8. QED
      BY <3>4, <3>7, NoHalfMarker
  <2>5. Matched(m, pos + 1, 0) <=> TRUE
    <3>1. pos + 1 >= Len(m) => 0 = pos + 1 - Len(m)
      BY <1>1, <1>7
    <3>2. QED
      BY <3>1 DEF Matched
  <2>6. e + 1 < 6 /\ b = EOM[e + 1] => Matched(m, pos + 1, e + 1)
    <3>1. b = EOM[e + 1] => pos + 1 # Len(m)
      BY <1>3, <2>3, <2>4
    <3>2. pos + 1 # Len(m) => pos + 1 < Len(m)
      BY <1>1, <1>7
    <3>3. QED
      BY <1>1, <1>2, <1>3, <1>5, <3>1, <3>2 DEF Matched
  <2>7. QED
    BY <1>3, <1>4, <2>1, <2>2, <2>5, <2>6
<1>8. pos >= Len(m) \/ pos < Len(m)
  BY <1>1
<1>9. QED
  BY <1>6, <1>7, <1>8, Zenon

-----------------------------------------------------------------------------
(* Where the reader is.                                                    *)

\* The messages that wait, the first R of s being handed on already.
Waits(p, s, R) ==
    /\ p \in Seq(Message) /\ R \in Nat /\ R + Len(p) <= Len(s)
    /\ \A i \in 1 .. Len(p) : p[i].ready /\ Text(p[i]) = s[R + i]

\* A place before a message.
AtBegin(x) == x.pos = 0 /\ x.at \in {"text", "gap"}

\* What the reader knows in the chunks of a message.
InChunks(m, x, c, st, e, sc) ==
    LET before == IF x.pos = 0 THEN "instart" ELSE "inbetween"
    IN  /\ x.pos <= Len(m)
        /\ \/ x.at = "gap" /\ st = "inbetween" /\ e = 0
           \/ x.at = "newline" /\ st = before /\ e = 1
           \/ x.at = "hash" /\ st = before /\ e = 2
           \/ /\ x.at = "size" /\ st = "instart" /\ e = x.digits + 2 /\ e <= MaxStartChunk
              /\ IsNumber(sc, x.size) /\ Len(sc) = x.digits
           \/ /\ x.at = "data" /\ st = "inmsg" /\ e = 0
              /\ x.size > 0 /\ c.expchunksize = c.curchunksize + x.size
           \/ x.at = "end" /\ st = "inend" /\ e = 3 /\ x.pos = Len(m)

\* What it knows in a message and its end marker.
InText(m, x, st, e) ==
    /\ x.at = "text" /\ x.pos > 0 /\ x.pos < Len(m) + 6
    /\ Matched(m, x.pos, e) /\ st = IF e = 0 THEN "inmsg" ELSE "inend"

\* The bytes of the message it has.
Behind(m, x) == SubSeq(IF x.at = "text" THEN m \o EOM ELSE m, 1, x.pos)

HalfRead(m, x, c, st, e, sc) ==
    Holds(c, Behind(m, x)) /\ (InText(m, x, st, e) \/ InChunks(m, x, c, st, e, sc))

\* Reader r is in place x of the messages s.
ReaderAt(s, R, x, r) ==
    \E p : /\ Waits(p, s, R) /\ x \in Place /\ x.msg = R + Len(p) + 1
           /\ \/ AtBegin(x) /\ \E sc : r = ReaderOf(p, "idle", 0, sc)
              \/ /\ ~AtBegin(x) /\ x.msg <= Len(s)
                 /\ \E c, st, e, sc : /\ r = ReaderOf(Append(p, c), st, e, sc)
                                      /\ HalfRead(s[x.msg], x, c, st, e, sc)

\* One more byte of a sequence.
LEMMA OneMore ==
    ASSUME NEW t \in Seq(Byte), NEW k \in Nat, k < Len(t)
    PROVE  /\ SubSeq(t, 1, k) \in Seq(Byte)
           /\ Append(SubSeq(t, 1, k), t[k + 1]) = SubSeq(t, 1, k + 1)
           /\ t[k + 1] \in Byte
<1>1. t[k + 1] \in Byte
  BY ElementOfSeq
<1>2. PICK u, v : u = SubSeq(t, 1, k) /\ v = SubSeq(t, 1, k + 1)
  OBVIOUS
<1>3. \A i \in 1 .. k + 1 : t[i] \in Byte
  BY ElementOfSeq
<1>4. /\ u \in Seq(Byte) /\ Len(u) = k /\ \A i \in 1 .. k : u[i] = t[i]
  <2>1. \A i \in 1 .. k : t[i] \in Byte
    BY <1>3
  <2>2. /\ u \in Seq(Byte) /\ Len(u) = IF 1 <= k THEN k - 1 + 1 ELSE 0
        /\ \A i \in 1 .. k - 1 + 1 : u[i] = t[1 + i - 1]
    BY <1>2, <2>1, SubSeqProperties
  <2>3. QED
    BY <2>2
<1>5. /\ v \in Seq(Byte) /\ Len(v) = k + 1 /\ \A i \in 1 .. k + 1 : v[i] = t[i]
  <2>2. /\ v \in Seq(Byte) /\ Len(v) = IF 1 <= k + 1 THEN (k + 1) - 1 + 1 ELSE 0
        /\ \A i \in 1 .. (k + 1) - 1 + 1 : v[i] = t[1 + i - 1]
    BY <1>2, <1>3, SubSeqProperties
  <2>3. QED
    BY <2>2
<1>6. PICK w \in Seq(Byte) : /\ w = Append(u, t[k + 1]) /\ Len(w) = k + 1 /\ w[k + 1] = t[k + 1]
                             /\ \A i \in 1 .. k : w[i] = u[i]
  <2>1. PICK b \in Byte : b = t[k + 1]
    BY <1>1
  <2>2. u \in Seq(Byte) /\ Len(u) = k
    BY <1>4
  <2>3. /\ Append(u, b) \in Seq(Byte) /\ Len(Append(u, b)) = k + 1
        /\ \A i \in 1 .. k : Append(u, b)[i] = u[i]
        /\ Append(u, b)[k + 1] = b
    BY <2>2, AppendProperties
  <2>4. QED
    BY <2>1, <2>3, Zenon
<1>7. \A i \in 1 .. k + 1 : w[i] = v[i]
  <2>1. \A i \in 1 .. k + 1 : i = k + 1 \/ i \in 1 .. k
    OBVIOUS
  <2>2. QED
    BY <1>4, <1>5, <1>6, <2>1
<1>8. w = v
  BY <1>5, <1>6, <1>7, SeqEqual
<1>9. QED
  BY <1>1, <1>2, <1>4, <1>6, <1>8

\* There is room for the next byte, whatever place the reader is in.
LEMMA RoomMade ==
    ASSUME NEW s \in Seq(Payloads), NEW R, NEW x, NEW r, ReaderAt(s, R, x, r)
    PROVE  \E p, d, st, e, sc :
              /\ Waits(p, s, R) /\ x \in Place /\ x.msg = R + Len(p) + 1
              /\ r.instate = st /\ r.inendpos = e
              /\ WithRoom(r) = ReaderOf(Append(p, d), st, e, sc)
              /\ HasRoom(d) /\ Holds(d, Behind(s[x.msg], x))
              /\ AtBegin(x) => st = "idle" /\ e = 0
              /\ ~AtBegin(x) => InText(s[x.msg], x, st, e) \/ InChunks(s[x.msg], x, d, st, e, sc)
<1>1. PICK p : /\ Waits(p, s, R) /\ x \in Place /\ x.msg = R + Len(p) + 1
               /\ \/ AtBegin(x) /\ \E sc : r = ReaderOf(p, "idle", 0, sc)
                  \/ /\ ~AtBegin(x) /\ x.msg <= Len(s)
                     /\ \E c, st, e, sc : /\ r = ReaderOf(Append(p, c), st, e, sc)
                                          /\ HalfRead(s[x.msg], x, c, st, e, sc)
  BY DEF ReaderAt
<1>2. p \in Seq(Message) /\ \A i \in 1 .. Len(p) : p[i].ready
  BY <1>1 DEF Waits
<1>3. CASE AtBegin(x)
  <2>1. PICK sc : r = ReaderOf(p, "idle", 0, sc)
    BY <1>1, <1>3
  <2>2. PICK d : /\ WithRoom(ReaderOf(p, "idle", 0, sc)) = ReaderOf(Append(p, d), "idle", 0, sc)
                 /\ Holds(d, <<>>) /\ HasRoom(d)
    BY <1>2, RoomForNew
  <2>3. Behind(s[x.msg], x) = <<>>
    <3>1. x.pos = 0
      BY <1>3 DEF AtBegin
    <3>2. PICK t : t = IF x.at = "text" THEN s[x.msg] \o EOM ELSE s[x.msg]
      OBVIOUS
    <3>3. SubSeq(t, 1, 0) = <<>>
      BY SubSeqEmpty
    <3>4. QED
      BY <3>1, <3>2, <3>3 DEF Behind
  <2>4. r.instate = "idle" /\ r.inendpos = 0
    BY <2>1 DEF ReaderOf
  <2>5. QED
    BY <1>1, <1>3, <2>1, <2>2, <2>3, <2>4
<1>4. CASE ~AtBegin(x)
  <2>1. PICK c, st, e, sc : /\ r = ReaderOf(Append(p, c), st, e, sc)
                            /\ HalfRead(s[x.msg], x, c, st, e, sc)
    BY <1>1, <1>4
  <2>2. /\ Holds(c, Behind(s[x.msg], x))
        /\ InText(s[x.msg], x, st, e) \/ InChunks(s[x.msg], x, c, st, e, sc)
    BY <2>1 DEF HalfRead
  <2>3. PICK d : /\ WithRoom(ReaderOf(Append(p, c), st, e, sc)) = ReaderOf(Append(p, d), st, e, sc)
                 /\ Holds(d, Behind(s[x.msg], x)) /\ HasRoom(d)
                 /\ d.expchunksize = c.expchunksize /\ d.curchunksize = c.curchunksize
    BY <1>2, <2>2, RoomForOld
  <2>4. InChunks(s[x.msg], x, c, st, e, sc) => InChunks(s[x.msg], x, d, st, e, sc)
    BY <2>3, Zenon DEF InChunks
  <2>5. r.instate = st /\ r.inendpos = e
    BY <2>1 DEF ReaderOf
  <2>6. QED
    BY <1>1, <1>4, <2>1, <2>2, <2>3, <2>4, <2>5
<1>5. QED
  BY <1>3, <1>4

\* A message that was received whole waits, and the reader is before the next one.
LEMMA NextAt ==
    ASSUME NEW s \in Seq(Payloads), NEW o \in Nat, NEW R, NEW p, Waits(p, s, R),
           NEW i \in 1 .. Len(s), i = R + Len(p) + 1,
           NEW d \in Message, d.ready, Text(d) = s[i], NEW sc
    PROVE  ReaderAt(s, R, Begin(o, i + 1), ReaderOf(Append(p, d), "idle", 0, sc))
<1> DEFINE q == Append(p, d)
           x == Begin(o, i + 1)
<1>1. /\ p \in Seq(Message) /\ R \in Nat /\ Len(p) \in Nat /\ i \in Nat
      /\ \A j \in 1 .. Len(p) : p[j].ready /\ Text(p[j]) = s[R + j]
  BY DEF Waits
<1>2. /\ q \in Seq(Message) /\ Len(q) = Len(p) + 1 /\ q[Len(p) + 1] = d
      /\ \A j \in 1 .. Len(p) : q[j] = p[j]
  BY <1>1, AppendProperties
<1>3. x \in Place /\ x.msg = i + 1 /\ x.pos = 0 /\ x.at \in {"text", "gap"}
  BY <1>1, BeginParts
<1> HIDE DEF q, x
<1>4. ASSUME NEW j \in 1 .. Len(q)
      PROVE  q[j].ready /\ Text(q[j]) = s[R + j]
  <2>1. CASE j = Len(p) + 1
    <3>1. R + j = i
      BY <1>1, <2>1
    <3>2. q[j] = d
      BY <1>2, <2>1
    <3>3. QED
      BY <3>1, <3>2
  <2>2. CASE j # Len(p) + 1
    <3>1. j \in 1 .. Len(p)
      BY <1>1, <1>2, <2>2
    <3>2. q[j] = p[j]
      BY <1>2, <3>1
    <3>3. QED
      BY <1>1, <3>1, <3>2
  <2>3. QED
    BY <2>1, <2>2
<1>5. R + Len(q) <= Len(s) /\ x.msg = R + Len(q) + 1
  BY <1>1, <1>2, <1>3
<1>6. Waits(q, s, R)
  BY <1>1, <1>2, <1>4, <1>5 DEF Waits
<1>7. ReaderAt(s, R, x, ReaderOf(q, "idle", 0, sc))
  BY <1>3, <1>5, <1>6 DEF ReaderAt, AtBegin
<1>8. QED
  BY <1>7 DEF q, x

\* The reader of base:1.0 goes where the byte leads (AcceptV10).
LEMMA TextStep ==
    ASSUME NEW s \in Seq(Payloads), NEW o \in Nat, NEW R, NEW x, NEW r, ReaderAt(s, R, x, r),
           NEW b, NEW z \in Place, TakesText(s, o, x, b, z)
    PROVE  ReaderAt(s, R, z, AcceptV10(r, b))
<1>1. PICK p, d, st, e, sc :
         /\ Waits(p, s, R) /\ x \in Place /\ x.msg = R + Len(p) + 1
         /\ r.instate = st /\ r.inendpos = e
         /\ WithRoom(r) = ReaderOf(Append(p, d), st, e, sc)
         /\ HasRoom(d) /\ Holds(d, Behind(s[x.msg], x))
         /\ AtBegin(x) => st = "idle" /\ e = 0
         /\ ~AtBegin(x) => InText(s[x.msg], x, st, e) \/ InChunks(s[x.msg], x, d, st, e, sc)
  BY RoomMade
<1>2. PICK i, pos : i = x.msg /\ pos = x.pos
  OBVIOUS
<1>3. PICK m : m = s[i]
  OBVIOUS
<1>4. /\ i \in 1 .. Len(s) /\ i <= o /\ x.at = "text" /\ pos < Len(m) + 6
      /\ b = IF pos < Len(m) THEN m[pos + 1] ELSE EOM[pos + 1 - Len(m)]
      /\ z = IF pos + 1 = Len(m) + 6 THEN Begin(o, i + 1) ELSE PlaceOf(i, "text", pos + 1, 0, 0)
  BY <1>2, <1>3, Sizes DEF TakesText
<1>5. m \in Payloads /\ pos \in Nat /\ i \in Nat
  BY <1>1, <1>2, <1>3, <1>4 DEF Place
<1>6. m \in Seq(Byte) /\ Len(m) \in Nat /\ Len(m) > 0
  BY <1>5, PayloadType
<1>7. PICK t \in Seq(Byte) : /\ t = m \o EOM /\ Len(t) = Len(m) + 6
                             /\ \A j \in 1 .. Len(m) + 6 :
                                   t[j] = IF j <= Len(m) THEN m[j] ELSE EOM[j - Len(m)]
  BY <1>6, MarkedParts
<1>8. b = t[pos + 1]
  <2>1. pos + 1 \in 1 .. Len(m) + 6 /\ (pos + 1 <= Len(m) <=> pos < Len(m))
    BY <1>4, <1>5, <1>6
  <2>2. t[pos + 1] = IF pos + 1 <= Len(m) THEN m[pos + 1] ELSE EOM[pos + 1 - Len(m)]
    <3>1. PICK j \in 1 .. Len(m) + 6 : j = pos + 1
      BY <2>1
    <3>2. t[j] = IF j <= Len(m) THEN m[j] ELSE EOM[j - Len(m)]
      BY <1>7
    <3>3. QED
      BY <1>5, <1>6, <3>1, <3>2
  <2>3. b = IF pos < Len(m) THEN m[pos + 1] ELSE EOM[pos + 1 - Len(m)]
    BY <1>4
  <2>4. CASE pos < Len(m)
    BY <2>1, <2>2, <2>3, <2>4, Zenon
  <2>5. CASE ~(pos < Len(m))
    BY <2>1, <2>2, <2>3, <2>5, Zenon
  <2>6. QED
    BY <2>4, <2>5
<1>9. Matched(m, pos, e) /\ (st = "inend" <=> e > 0)
  <2>1. CASE AtBegin(x)
    <3>1. pos = 0 /\ e = 0 /\ st = "idle"
      BY <1>1, <1>2, <2>1 DEF AtBegin
    <3>2. QED
      BY <1>6, <3>1 DEF Matched
  <2>2. CASE ~AtBegin(x)
    <3>1. InText(m, x, st, e)
      BY <1>1, <1>2, <1>3, <1>4, <2>2 DEF InChunks
    <3>2. Matched(m, pos, e) /\ st = IF e = 0 THEN "inmsg" ELSE "inend"
      BY <1>2, <3>1 DEF InText
    <3>3. e \in 0 .. 5
      BY <3>2 DEF Matched
    <3>4. QED
      BY <3>2, <3>3
  <2>3. QED
    BY <2>1, <2>2
<1>10. e \in 0 .. 5
  BY <1>9 DEF Matched
<1>11. /\ b \in Byte
       /\ (e > 0 /\ b = EOM[e + 1] /\ e + 1 = 6) <=> pos + 1 = Len(m) + 6
       /\ (e > 0 /\ b = EOM[e + 1] /\ e + 1 < 6) => Matched(m, pos + 1, e + 1)
       /\ (e > 0 /\ b # EOM[e + 1]) => Matched(m, pos + 1, 0)
       /\ (e = 0 /\ b = EOM[1]) => Matched(m, pos + 1, 1)
       /\ (e = 0 /\ b # EOM[1]) => Matched(m, pos + 1, 0)
  BY <1>4, <1>5, <1>7, <1>8, <1>9, MarkerStep
<1>12. p \in Seq(Message) /\ Behind(m, x) = SubSeq(t, 1, pos)
  BY <1>1, <1>2, <1>4, <1>7 DEF Waits, Behind
<1>13. PICK f : /\ Stored(ReaderOf(Append(p, d), st, e, sc), b) = ReaderOf(Append(p, f), st, e, sc)
                /\ Holds(f, Append(SubSeq(t, 1, pos), b)) /\ Last(f.buffQ).buff # <<>>
  BY <1>1, <1>2, <1>3, <1>11, <1>12, ByteStored
<1>14. Append(SubSeq(t, 1, pos), b) = SubSeq(t, 1, pos + 1)
  BY <1>4, <1>5, <1>7, <1>8, OneMore
<1>15. Holds(f, SubSeq(t, 1, pos + 1)) /\ f \in Message
  BY <1>13, <1>14 DEF Holds
<1>16. PICK q : q = ReaderOf(Append(p, f), st, e, sc)
  OBVIOUS
<1>17. q = Stored(WithRoom(r), b) /\ LastMsg(q) = f
  BY <1>1, <1>12, <1>13, <1>15, <1>16, MsgExchanged
<1>18. CASE e > 0 /\ b = EOM[e + 1] /\ e + 1 = 6
  <2>1. AcceptV10(r, b) = Ready(q, CutEOM(f.buffQ))
    BY <1>1, <1>9, <1>17, <1>18, Sizes DEF AcceptV10
  <2>2. pos + 1 = Len(t) /\ z = Begin(o, i + 1)
    BY <1>4, <1>7, <1>11, <1>18
  <2>3. Stores(f.buffQ, t)
    BY <1>15, <2>2, SubSeqFull DEF Holds
  <2>4. Split(t, m, EOM) /\ m # <<>>
    BY <1>5, <1>6, <1>7, PayloadType, Sizes DEF Split
  <2>5. CutEOM(f.buffQ) \in Seq(Buffer) /\ FlattenSeq(Texts(CutEOM(f.buffQ))) = m
    BY <1>13, <2>3, <2>4, CutText
  <2>6. PICK g \in Message : /\ Ready(q, CutEOM(f.buffQ)) = ReaderOf(Append(p, g), "idle", 0, sc)
                             /\ g.ready /\ Text(g) = m
    BY <1>12, <1>15, <1>16, <2>5, MadeReady
  <2>7. ReaderAt(s, R, Begin(o, i + 1), ReaderOf(Append(p, g), "idle", 0, sc))
    BY <1>1, <1>2, <1>3, <1>4, <2>6, NextAt
  <2>8. QED
    BY <2>1, <2>2, <2>6, <2>7
<1>19. CASE ~(e > 0 /\ b = EOM[e + 1] /\ e + 1 = 6)
  <2>1. z = PlaceOf(i, "text", pos + 1, 0, 0) /\ pos + 1 < Len(m) + 6
    BY <1>4, <1>5, <1>6, <1>11, <1>19
  <2>2. z.msg = i /\ z.at = "text" /\ z.pos = pos + 1
    BY <2>1 DEF PlaceOf
  <2>3. PICK e2 \in 0 .. 5 : /\ Matched(m, pos + 1, e2)
                            /\ AcceptV10(r, b) = At(q, IF e2 = 0 THEN "inmsg" ELSE "inend", e2)
    <3>1. CASE e > 0 /\ b = EOM[e + 1]
      <4>1. e + 1 < 6 /\ e + 1 \in 0 .. 5 /\ e + 1 # 0
        BY <1>10, <1>19, <3>1
      <4>2. AcceptV10(r, b) = At(q, "inend", e + 1)
        BY <1>1, <1>9, <1>17, <3>1, <4>1, Sizes DEF AcceptV10
      <4>3. Matched(m, pos + 1, e + 1)
        BY <1>11, <3>1, <4>1
      <4>4. QED
        BY <4>1, <4>2, <4>3
    <3>2. CASE e > 0 /\ b # EOM[e + 1]
      <4>1. AcceptV10(r, b) = At(q, "inmsg", 0)
        BY <1>1, <1>9, <1>17, <3>2, Sizes DEF AcceptV10
      <4>2. QED
        BY <1>11, <3>2, <4>1
    <3>3. CASE e = 0 /\ b = EOM[1]
      <4>1. st # "inend"
        BY <1>9, <3>3
      <4>2. AcceptV10(r, b) = At(q, "inend", 1)
        BY <1>1, <1>17, <3>3, <4>1, Sizes DEF AcceptV10
      <4>3. QED
        BY <1>11, <3>3, <4>2
    <3>4. CASE e = 0 /\ b # EOM[1]
      <4>1. st # "inend"
        BY <1>9, <3>4
      <4>2. AcceptV10(r, b) = At(q, "inmsg", 0)
        BY <1>1, <1>17, <3>4, <4>1, Sizes DEF AcceptV10
      <4>3. QED
        BY <1>11, <3>4, <4>2
    <3>5. QED
      BY <1>10, <3>1, <3>2, <3>3, <3>4
  <2>4. PICK st2 : st2 = IF e2 = 0 THEN "inmsg" ELSE "inend"
    OBVIOUS
  <2>5. AcceptV10(r, b) = ReaderOf(Append(p, f), st2, e2, sc)
    BY <1>16, <2>3, <2>4, ReaderAtOther
  <2>6. InText(m, z, st2, e2)
    BY <1>5, <2>1, <2>2, <2>3, <2>4 DEF InText
  <2>7. Behind(m, z) = SubSeq(t, 1, pos + 1)
    BY <1>7, <2>2 DEF Behind
  <2>8. HalfRead(s[z.msg], z, f, st2, e2, sc)
    BY <1>3, <1>15, <2>2, <2>6, <2>7 DEF HalfRead
  <2>9. ~AtBegin(z) /\ z.msg <= Len(s) /\ z.msg = R + Len(p) + 1
    BY <1>1, <1>2, <1>4, <1>5, <2>2 DEF AtBegin
  <2>10. QED
    BY <1>1, <2>5, <2>8, <2>9 DEF ReaderAt
<1>20. QED
  BY <1>18, <1>19

\* The digits of a size change nothing else in the reader.
LEMMA SizeStored ==
    ASSUME NEW q, NEW st, NEW e, NEW sc, NEW digits
    PROVE  WithSize(ReaderOf(q, st, e, sc), digits) = ReaderOf(q, st, e, digits)
BY DEF WithSize, ReaderOf

\* The first digit of the size of a chunk starts the number (AcceptSize).
LEMMA SizeFirst ==
    ASSUME NEW q, NEW st, NEW sc, NEW b \in Digit1
    PROVE  AcceptSize(ReaderOf(q, st, 2, sc), b) = ReaderOf(q, "instart", 3, <<b>>)
<1>1. At(ReaderOf(q, st, 2, sc), "instart", 3) = ReaderOf(q, "instart", 3, sc)
  BY ReaderAtOther
<1>2. WithSize(ReaderOf(q, "instart", 3, sc), <<b>>) = ReaderOf(q, "instart", 3, <<b>>)
  BY SizeStored
<1>3. ReaderOf(q, st, 2, sc).inendpos = 2
  BY DEF ReaderOf
<1>4. QED
  BY <1>1, <1>2, <1>3 DEF AcceptSize

\* Another digit is appended to the number (AcceptSize).
LEMMA SizeMore ==
    ASSUME NEW q, NEW st, NEW e \in Nat, e \notin {2, MaxStartChunk}, NEW sc, NEW b \in Digit
    PROVE  AcceptSize(ReaderOf(q, st, e, sc), b) = ReaderOf(q, "instart", e + 1, Append(sc, b))
<1>1. At(ReaderOf(q, st, e, sc), "instart", e + 1) = ReaderOf(q, "instart", e + 1, sc)
  BY ReaderAtOther
<1>2. WithSize(ReaderOf(q, "instart", e + 1, sc), Append(sc, b))
        = ReaderOf(q, "instart", e + 1, Append(sc, b))
  BY SizeStored
<1>3. /\ ReaderOf(q, st, e, sc).inendpos = e /\ ReaderOf(q, st, e, sc).startchunk = sc
  BY DEF ReaderOf
<1>4. PICK r : r = ReaderOf(q, st, e, sc)
  OBVIOUS
<1>5. r.inendpos = e /\ r.startchunk = sc
  BY <1>3, <1>4, Zenon
<1>6. e # 2 /\ e \notin {2, MaxStartChunk}
  OBVIOUS
<1>7. r.inendpos # 2 /\ r.inendpos \notin {2, MaxStartChunk}
  BY <1>5, <1>6, Zenon
<1>8. AcceptSize(r, b) = WithSize(At(r, "instart", r.inendpos + 1), Append(r.startchunk, b))
  <2>1. b # LF
    BY DEF LF, Digit
  <2>2. QED
    BY <1>7, <2>1 DEF AcceptSize
<1>9. QED
  BY <1>1, <1>2, <1>4, <1>5, <1>8, Zenon

\* The newline behind the size (AcceptSize).
LEMMA SizeEnd ==
    ASSUME NEW p \in Seq(Message), NEW c, NEW w, Holds(c, w), NEW st,
           NEW e \in Nat, e \notin {2, MaxStartChunk}, NEW sc, NEW v, IsNumber(sc, v)
    PROVE  \E d : /\ AcceptSize(ReaderOf(Append(p, c), st, e, sc), LF)
                       = ReaderOf(Append(p, d), "inmsg", 0, sc)
                  /\ Holds(d, w) /\ d.expchunksize = v /\ d.curchunksize = 0
<1> DEFINE r == ReaderOf(Append(p, c), st, e, sc)
           d == [c EXCEPT !.expchunksize = v, !.curchunksize = 0]
<1>1. c \in Message /\ ~c.ready /\ Stores(c.buffQ, w)
  BY DEF Holds
<1>2. v \in Nat /\ Number(sc) = v
  BY NumberEqual
<1>3. /\ d \in Message /\ ~d.ready /\ d.buffQ = c.buffQ
      /\ d.expchunksize = v /\ d.curchunksize = 0
  BY <1>1, <1>2 DEF Message
<1>4. r.inendpos = e /\ r.startchunk = sc /\ LF \notin Digit /\ LF \notin Digit1
  BY DEF ReaderOf, LF, Digit, Digit1
<1>5. LastMsg(r) = c /\ At(r, "inmsg", 0) = ReaderOf(Append(p, c), "inmsg", 0, sc)
  BY <1>1, MsgExchanged, ReaderAtOther
<1> HIDE DEF r
<1>6. AcceptSize(r, LF) = WithMsg(ReaderOf(Append(p, c), "inmsg", 0, sc), d)
  BY <1>2, <1>4, <1>5 DEF AcceptSize
<1> HIDE DEF d
<1>7. WithMsg(ReaderOf(Append(p, c), "inmsg", 0, sc), d) = ReaderOf(Append(p, d), "inmsg", 0, sc)
  BY <1>1, <1>3, MsgExchanged
<1>8. Holds(d, w)
  BY <1>1, <1>3 DEF Holds
<1>9. QED
  BY <1>3, <1>6, <1>7, <1>8 DEF r

\* A byte of a chunk (AcceptData).
LEMMA DataStored ==
    ASSUME NEW p \in Seq(Message), NEW c, NEW w, Holds(c, w), HasRoom(c), NEW b \in Byte,
           NEW st, NEW e, NEW sc, NEW n \in Nat \ {0}, c.expchunksize = c.curchunksize + n
    PROVE  \E d : /\ AcceptData(ReaderOf(Append(p, c), st, e, sc), b)
                       = IF n = 1 THEN ReaderOf(Append(p, d), "inbetween", 0, sc)
                         ELSE ReaderOf(Append(p, d), st, e, sc)
                  /\ Holds(d, Append(w, b)) /\ d.expchunksize = d.curchunksize + (n - 1)
<1> DEFINE r == ReaderOf(Append(p, c), st, e, sc)
           msg == [c EXCEPT !.curchunksize = @ + 1]
<1>1. c \in Message /\ ~c.ready /\ Stores(c.buffQ, w) /\ c.curchunksize \in Nat
  BY DEF Holds, Message
<1>2. /\ msg \in Message /\ ~msg.ready /\ msg.buffQ = c.buffQ
      /\ msg.curchunksize = c.curchunksize + 1 /\ msg.expchunksize = c.expchunksize
  <2>1. PICK k \in Nat : k = c.curchunksize + 1
    BY <1>1
  <2> DEFINE new == [c EXCEPT !.curchunksize = k]
  <2>2. /\ new \in Message /\ new.ready = c.ready /\ new.buffQ = c.buffQ
        /\ new.curchunksize = k /\ new.expchunksize = c.expchunksize
    BY <1>1 DEF Message
  <2>3. msg = new
    BY <2>1
  <2> HIDE DEF new, msg
  <2>4. QED
    BY <1>1, <2>1, <2>2, <2>3
<1>3. LastMsg(r) = c
  BY <1>1, MsgExchanged
<1>4. AcceptData(r, b) =
        IF msg.curchunksize = msg.expchunksize THEN At(Stored(WithMsg(r, msg), b), "inbetween", 0)
        ELSE Stored(WithMsg(r, msg), b)
  BY <1>3 DEF AcceptData
<1> HIDE DEF msg
<1>5. WithMsg(r, msg) = ReaderOf(Append(p, msg), st, e, sc)
  BY <1>1, <1>2, MsgExchanged
<1>6. Holds(msg, w) /\ HasRoom(msg)
  BY <1>1, <1>2 DEF Holds, HasRoom
<1>7. PICK d : /\ Stored(ReaderOf(Append(p, msg), st, e, sc), b) = ReaderOf(Append(p, d), st, e, sc)
               /\ Holds(d, Append(w, b))
               /\ d.expchunksize = msg.expchunksize /\ d.curchunksize = msg.curchunksize
  BY <1>6, ByteStored
<1>8. At(ReaderOf(Append(p, d), st, e, sc), "inbetween", 0) = ReaderOf(Append(p, d), "inbetween", 0, sc)
  BY ReaderAtOther
<1>9. msg.curchunksize = msg.expchunksize <=> n = 1
  BY <1>1, <1>2
<1>10. d.expchunksize = d.curchunksize + (n - 1)
  BY <1>1, <1>2, <1>7
<1> HIDE DEF r
<1>11. AcceptData(r, b) = IF n = 1 THEN ReaderOf(Append(p, d), "inbetween", 0, sc)
                          ELSE ReaderOf(Append(p, d), st, e, sc)
  BY <1>4, <1>5, <1>7, <1>8, <1>9
<1>12. QED
  BY <1>7, <1>10, <1>11 DEF r

\* The reader inside the chunks of a message.
LEMMA ChunkAt ==
    ASSUME NEW s, NEW R, NEW p, Waits(p, s, R), NEW z \in Place, z.msg = R + Len(p) + 1, z.msg <= Len(s),
           ~AtBegin(z), NEW d, NEW st, NEW e, NEW sc,
           Holds(d, Behind(s[z.msg], z)), InChunks(s[z.msg], z, d, st, e, sc)
    PROVE  ReaderAt(s, R, z, ReaderOf(Append(p, d), st, e, sc))
BY DEF ReaderAt, HalfRead

\* What is done with a byte of the chunks, where the reader is (AcceptV11).
LEMMA AcceptCases ==
    ASSUME NEW r, NEW b \in Byte, NEW q, q = WithRoom(r), NEW st, q.instate = st, NEW e, q.inendpos = e
    PROVE  /\ st = "inmsg" => AcceptV11(r, b) = AcceptData(q, b)
           /\ st = "instart" /\ e # 1 => AcceptV11(r, b) = AcceptSize(q, b)
           /\ st = "idle" /\ b = LF => AcceptV11(r, b) = At(q, "instart", 1)
           /\ st = "instart" /\ e = 1 /\ b = HASH => AcceptV11(r, b) = At(q, "instart", 2)
           /\ st = "inbetween" /\ e = 0 /\ b = LF => AcceptV11(r, b) = At(q, "inbetween", 1)
           /\ st = "inbetween" /\ e = 1 /\ b = HASH => AcceptV11(r, b) = At(q, "inbetween", 2)
           /\ st = "inbetween" /\ e = 2 /\ b = HASH => AcceptV11(r, b) = At(q, "inend", 3)
           /\ st = "inbetween" /\ e = 2 /\ b \in Digit1 => AcceptV11(r, b) = AcceptSize(q, b)
           /\ st = "inend" /\ e = 3 /\ b = LF => AcceptV11(r, b) = EndChunks(q)
<1>1. LF # HASH /\ LF \notin Digit1 /\ HASH \notin Digit1
  BY DEF LF, HASH, Digit1
<1>2. st = "inmsg" => AcceptV11(r, b) = AcceptData(q, b)
  BY DEF AcceptV11
<1>3. st = "instart" /\ e # 1 => AcceptV11(r, b) = AcceptSize(q, b)
  BY DEF AcceptV11
<1>4. st = "idle" /\ b = LF => AcceptV11(r, b) = At(q, "instart", 1)
  BY DEF AcceptV11
<1>5. st = "instart" /\ e = 1 /\ b = HASH => AcceptV11(r, b) = At(q, "instart", 2)
  BY <1>1 DEF AcceptV11
<1>6. st = "inbetween" /\ e = 0 /\ b = LF => AcceptV11(r, b) = At(q, "inbetween", 1)
  BY <1>1 DEF AcceptV11
<1>7. st = "inbetween" /\ e = 1 /\ b = HASH => AcceptV11(r, b) = At(q, "inbetween", 2)
  BY <1>1 DEF AcceptV11
<1>8. st = "inbetween" /\ e = 2 /\ b = HASH => AcceptV11(r, b) = At(q, "inend", 3)
  BY <1>1 DEF AcceptV11
<1>9. st = "inbetween" /\ e = 2 /\ b \in Digit1 => AcceptV11(r, b) = AcceptSize(q, b)
  BY <1>1 DEF AcceptV11
<1>10. st = "inend" /\ e = 3 /\ b = LF => AcceptV11(r, b) = EndChunks(q)
  BY <1>1 DEF AcceptV11
<1>11. QED
  BY <1>2, <1>3, <1>4, <1>5, <1>6, <1>7, <1>8, <1>9, <1>10

\* The last newline behind the chunks (EndChunks).
LEMMA ChunksEnded ==
    ASSUME NEW p \in Seq(Message), NEW c, NEW m, m # <<>>, Holds(c, m), NEW st, NEW e, NEW sc
    PROVE  \E d \in Message : /\ EndChunks(ReaderOf(Append(p, c), st, e, sc))
                                   = ReaderOf(Append(p, d), "idle", 0, sc)
                              /\ d.ready /\ Text(d) = m
<1>1. PICK r : r = ReaderOf(Append(p, c), st, e, sc)
  OBVIOUS
<1>2. c \in Message /\ Stores(c.buffQ, m)
  BY DEF Holds
<1>3. LastMsg(r) = c
  BY <1>1, <1>2, MsgExchanged
<1>4. LastBuff(r) = Last(c.buffQ)
  BY <1>3 DEF LastBuff
<1>5. PICK q : q = IF Last(c.buffQ).buff = <<>> THEN Front(c.buffQ)
                   ELSE [c.buffQ EXCEPT ![Len(c.buffQ)].bufflen = Len(Last(c.buffQ).buff)]
  OBVIOUS
<1>6. q \in Seq(Buffer) /\ FlattenSeq(Texts(q)) = m
  BY <1>2, <1>5, EndText
<1>7. EndChunks(r) = Ready(r, q)
  BY <1>3, <1>4, <1>5 DEF EndChunks
<1>8. QED
  BY <1>1, <1>2, <1>6, <1>7, MadeReady

\* The reader of base:1.1 goes where the byte leads (AcceptV11).
LEMMA ChunkStep ==
    ASSUME NEW s \in Seq(Payloads), NEW o \in Nat, NEW R, NEW x, NEW r, ReaderAt(s, R, x, r),
           NEW b \in Byte, NEW z \in Place, TakesChunk(s, o, x, b, z)
    PROVE  ReaderAt(s, R, z, AcceptV11(r, b))
<1>1. PICK p, d, st, e, sc :
          /\ Waits(p, s, R) /\ x \in Place /\ x.msg = R + Len(p) + 1
          /\ r.instate = st /\ r.inendpos = e
          /\ WithRoom(r) = ReaderOf(Append(p, d), st, e, sc)
          /\ HasRoom(d) /\ Holds(d, Behind(s[x.msg], x))
          /\ AtBegin(x) => st = "idle" /\ e = 0
          /\ ~AtBegin(x) => InText(s[x.msg], x, st, e) \/ InChunks(s[x.msg], x, d, st, e, sc)
  BY RoomMade
<1>2. PICK i : i = x.msg
  OBVIOUS
<1>3. PICK m \in Payloads : m = s[i]
  BY <1>2 DEF TakesChunk
<1>4. PICK pos \in Nat : pos = x.pos
  BY <1>1 DEF Place
<1>5. i \in 1 .. Len(s) /\ i > o /\ x.at # "text" /\ i = R + Len(p) + 1
  BY <1>1, <1>2 DEF TakesChunk
<1>6. m \in Seq(Byte) /\ m # <<>> /\ Len(m) \in Nat /\ Len(m) > 0
  BY PayloadType
<1>7. p \in Seq(Message)
  BY <1>1 DEF Waits
<1>8. Holds(d, SubSeq(m, 1, pos))
  BY <1>1, <1>2, <1>3, <1>4, <1>5 DEF Behind
<1>9. PICK q : q = ReaderOf(Append(p, d), st, e, sc)
  OBVIOUS
<1>10. q = WithRoom(r) /\ q.instate = st /\ q.inendpos = e
  BY <1>1, <1>9 DEF ReaderOf
<1>11. ~AtBegin(x) => InChunks(m, x, d, st, e, sc)
  BY <1>1, <1>2, <1>3, <1>5 DEF InText
<1>12. LF # HASH /\ LF \notin Digit1 /\ HASH \notin Digit1 /\ LF \notin Digit /\ Digit1 \subseteq Digit
  BY DEF LF, HASH, Digit1, Digit
<1>13. ASSUME z.msg = i, ~AtBegin(z), z.at # "text", z.pos = pos, NEW c, NEW st2, NEW e2, NEW sc2,
              Holds(c, SubSeq(m, 1, pos)), InChunks(m, z, c, st2, e2, sc2)
       PROVE  ReaderAt(s, R, z, ReaderOf(Append(p, c), st2, e2, sc2))
  <2>1. Holds(c, Behind(s[z.msg], z))
    BY <1>3, <1>13 DEF Behind
  <2>2. QED
    BY <1>1, <1>3, <1>5, <1>13, <2>1, ChunkAt
<1>14. CASE x.at = "gap" /\ b = LF /\ z = PlaceOf(i, "newline", pos, 0, 0)
  <2>1. PICK before : before = IF pos = 0 THEN "instart" ELSE "inbetween"
    OBVIOUS
  <2>2. pos <= Len(m) /\ (IF pos = 0 THEN st = "idle" ELSE st = "inbetween" /\ e = 0)
    BY <1>1, <1>4, <1>6, <1>11, <1>14 DEF AtBegin, InChunks
  <2>3. AcceptV11(r, b) = At(q, before, 1)
    BY <1>10, <1>14, <2>1, <2>2, AcceptCases
  <2>4. AcceptV11(r, b) = ReaderOf(Append(p, d), before, 1, sc)
    BY <1>9, <2>3, ReaderAtOther
  <2>5. z.msg = i /\ z.at = "newline" /\ z.pos = pos
    BY <1>14 DEF PlaceOf
  <2>6. InChunks(m, z, d, before, 1, sc) /\ ~AtBegin(z)
    BY <2>1, <2>2, <2>5 DEF InChunks, AtBegin
  <2>7. QED
    BY <1>8, <1>13, <2>4, <2>5, <2>6
<1>15. CASE x.at = "newline" /\ b = HASH /\ z = PlaceOf(i, "hash", pos, 0, 0)
  <2>1. PICK before : before = IF pos = 0 THEN "instart" ELSE "inbetween"
    OBVIOUS
  <2>2. pos <= Len(m) /\ st = before /\ e = 1
    BY <1>4, <1>11, <1>15, <2>1 DEF AtBegin, InChunks
  <2>3. AcceptV11(r, b) = At(q, before, 2)
    BY <1>10, <1>15, <2>1, <2>2, AcceptCases
  <2>4. AcceptV11(r, b) = ReaderOf(Append(p, d), before, 2, sc)
    BY <1>9, <2>3, ReaderAtOther
  <2>5. z.msg = i /\ z.at = "hash" /\ z.pos = pos
    BY <1>15 DEF PlaceOf
  <2>6. InChunks(m, z, d, before, 2, sc) /\ ~AtBegin(z)
    BY <2>1, <2>2, <2>5 DEF InChunks, AtBegin
  <2>7. QED
    BY <1>8, <1>13, <2>4, <2>5, <2>6
<1>16. CASE x.at = "hash" /\ b \in Digit1 /\ 4 <= MaxStartChunk /\ z = PlaceOf(i, "size", pos, b - 48, 1)
  <2>1. pos <= Len(m) /\ st \in {"instart", "inbetween"} /\ e = 2
    BY <1>4, <1>11, <1>16 DEF AtBegin, InChunks
  <2>2. AcceptV11(r, b) = AcceptSize(q, b)
    BY <1>10, <1>16, <2>1, AcceptCases
  <2>3. PICK sc2 : sc2 = <<b>>
    OBVIOUS
  <2>4. AcceptV11(r, b) = ReaderOf(Append(p, d), "instart", 3, sc2)
    BY <1>9, <1>16, <2>1, <2>2, <2>3, SizeFirst
  <2>5. z.msg = i /\ z.at = "size" /\ z.pos = pos /\ z.size = b - 48 /\ z.digits = 1
    BY <1>16 DEF PlaceOf
  <2>6. IsNumber(sc2, b - 48) /\ Len(sc2) = 1
    BY <1>12, <1>16, <2>3, NumberOne
  <2>7. MaxStartChunk \in Nat
    BY FramingAssumption
  <2>8. InChunks(m, z, d, "instart", 3, sc2) /\ ~AtBegin(z)
    BY <1>16, <2>1, <2>5, <2>6, <2>7 DEF InChunks, AtBegin
  <2>9. QED
    BY <1>8, <1>13, <2>4, <2>5, <2>8
<1>17. CASE /\ x.at = "size" /\ b \in Digit /\ x.digits + 4 <= MaxStartChunk
            /\ z = PlaceOf(i, "size", pos, 10 * x.size + b - 48, x.digits + 1)
  <2>1. PICK n \in Nat, k \in Nat : n = x.size /\ k = x.digits
    BY <1>1 DEF Place
  <2>2. pos <= Len(m) /\ st = "instart" /\ e = k + 2 /\ IsNumber(sc, n) /\ Len(sc) = k
    BY <1>4, <1>11, <1>17, <2>1 DEF AtBegin, InChunks
  <2>3. sc \in Seq(Digit) /\ sc # <<>>
    BY <2>2 DEF IsNumber
  <2>4. k # 0
    BY <2>2, <2>3
  <2>5. MaxStartChunk \in Nat /\ k + 4 <= MaxStartChunk
    BY <1>17, <2>1, FramingAssumption
  <2>6. e \in Nat /\ e \notin {2, MaxStartChunk} /\ e # 1 /\ e + 1 = k + 3 /\ k + 3 <= MaxStartChunk
    BY <2>2, <2>4, <2>5
  <2>7. AcceptV11(r, b) = AcceptSize(q, b)
    BY <1>10, <2>2, <2>6, AcceptCases
  <2>8. PICK sc2 : sc2 = Append(sc, b)
    OBVIOUS
  <2>9. AcceptV11(r, b) = ReaderOf(Append(p, d), "instart", e + 1, sc2)
    BY <1>9, <1>17, <2>6, <2>7, <2>8, SizeMore
  <2>10. z.msg = i /\ z.at = "size" /\ z.pos = pos /\ z.size = 10 * n + b - 48 /\ z.digits = k + 1
    BY <1>17, <2>1 DEF PlaceOf
  <2>11. IsNumber(sc2, 10 * n + b - 48)
    BY <1>17, <2>2, <2>8, NumberAppend
  <2>12. Len(sc2) = k + 1
    BY <1>17, <2>2, <2>3, <2>8
  <2>13. e + 1 = z.digits + 2 /\ e + 1 <= MaxStartChunk
    BY <2>2, <2>6, <2>10
  <2>14. InChunks(m, z, d, "instart", e + 1, sc2) /\ ~AtBegin(z)
    BY <2>2, <2>10, <2>11, <2>12, <2>13 DEF InChunks, AtBegin
  <2>15. QED
    BY <1>8, <1>13, <2>9, <2>10, <2>14
<1>18. CASE /\ x.at = "size" /\ b = LF /\ x.digits + 3 <= MaxStartChunk
            /\ x.size \in 1 .. Len(m) - pos /\ z = PlaceOf(i, "data", pos, x.size, 0)
  <2>1. PICK n \in Nat, k \in Nat : n = x.size /\ k = x.digits
    BY <1>1 DEF Place
  <2>2. pos <= Len(m) /\ st = "instart" /\ e = k + 2 /\ IsNumber(sc, n) /\ Len(sc) = k
    BY <1>4, <1>11, <1>18, <2>1 DEF AtBegin, InChunks
  <2>3. sc \in Seq(Digit) /\ sc # <<>>
    BY <2>2 DEF IsNumber
  <2>4. k # 0
    BY <2>2, <2>3
  <2>5. MaxStartChunk \in Nat /\ k + 3 <= MaxStartChunk
    BY <1>18, <2>1, FramingAssumption
  <2>6. e \in Nat /\ e \notin {2, MaxStartChunk} /\ e # 1
    BY <2>2, <2>4, <2>5
  <2>7. AcceptV11(r, b) = AcceptSize(q, LF)
    BY <1>10, <1>18, <2>2, <2>6, AcceptCases
  <2>8. PICK c : /\ AcceptSize(ReaderOf(Append(p, d), st, e, sc), LF) = ReaderOf(Append(p, c), "inmsg", 0, sc)
                 /\ Holds(c, SubSeq(m, 1, pos)) /\ c.expchunksize = n /\ c.curchunksize = 0
    BY <1>7, <1>8, <2>2, <2>6, SizeEnd, SMTT(30)
  <2>9. AcceptV11(r, b) = ReaderOf(Append(p, c), "inmsg", 0, sc)
    BY <1>9, <2>7, <2>8
  <2>10. z.msg = i /\ z.at = "data" /\ z.pos = pos /\ z.size = n
    BY <1>18, <2>1 DEF PlaceOf
  <2>11. n > 0 /\ c.expchunksize = c.curchunksize + n
    BY <1>18, <2>1, <2>8
  <2>12. InChunks(m, z, c, "inmsg", 0, sc) /\ ~AtBegin(z)
    BY <2>2, <2>10, <2>11 DEF InChunks, AtBegin
  <2>13. QED
    BY <1>13, <2>8, <2>9, <2>10, <2>12
<1>19. CASE /\ x.at = "data" /\ pos < Len(m) /\ b = m[pos + 1]
            /\ z = IF x.size = 1 THEN PlaceOf(i, "gap", pos + 1, 0, 0)
                   ELSE PlaceOf(i, "data", pos + 1, x.size - 1, 0)
  <2>1. PICK n \in Nat : n = x.size
    BY <1>1 DEF Place
  <2>2. /\ st = "inmsg" /\ e = 0 /\ n > 0
        /\ d.expchunksize = d.curchunksize + n
    BY <1>4, <1>11, <1>19, <2>1 DEF AtBegin, InChunks
  <2>3. AcceptV11(r, b) = AcceptData(q, b)
    BY <1>10, <2>2, AcceptCases
  <2>4. n \in Nat \ {0}
    BY <2>2
  <2>5. PICK c : /\ AcceptData(ReaderOf(Append(p, d), st, e, sc), b)
                      = IF n = 1 THEN ReaderOf(Append(p, c), "inbetween", 0, sc)
                        ELSE ReaderOf(Append(p, c), st, e, sc)
                 /\ Holds(c, Append(SubSeq(m, 1, pos), b)) /\ c.expchunksize = c.curchunksize + (n - 1)
    BY <1>1, <1>7, <1>8, <2>2, <2>4, DataStored
  <2>6. Append(SubSeq(m, 1, pos), b) = SubSeq(m, 1, pos + 1)
    BY <1>6, <1>19, OneMore
  <2>7. PICK l \in Nat : l = pos + 1
    OBVIOUS
  <2>8. Holds(c, SubSeq(m, 1, l))
    BY <2>5, <2>6, <2>7
  <2>9. PICK st2 : st2 = IF n = 1 THEN "inbetween" ELSE "inmsg"
    OBVIOUS
  <2>10. AcceptV11(r, b) = ReaderOf(Append(p, c), st2, 0, sc)
    BY <1>9, <2>2, <2>3, <2>5, <2>9
  <2>11. z.msg = i /\ z.pos = l /\ (n = 1 => z.at = "gap") /\ (n # 1 => z.at = "data" /\ z.size = n - 1)
    BY <1>19, <2>1, <2>7 DEF PlaceOf
  <2>12. l <= Len(m) /\ l # 0
    BY <1>6, <1>19, <2>7
  <2>13. n # 1 => n - 1 > 0
    BY <2>4
  <2>14. InChunks(m, z, c, st2, 0, sc)
    BY <2>5, <2>9, <2>11, <2>12, <2>13 DEF InChunks
  <2>15. z.at # "text" /\ ~AtBegin(z)
    BY <2>11, <2>12 DEF AtBegin
  <2>16. Holds(c, Behind(s[z.msg], z))
    BY <1>3, <2>8, <2>11, <2>15 DEF Behind
  <2>17. z.msg = R + Len(p) + 1 /\ z.msg <= Len(s) /\ InChunks(s[z.msg], z, c, st2, 0, sc)
    BY <1>3, <1>5, <2>11, <2>14
  <2>18. QED
    BY <1>1, <2>10, <2>15, <2>16, <2>17, ChunkAt
<1>20. CASE x.at = "hash" /\ pos = Len(m) /\ b = HASH /\ z = PlaceOf(i, "end", pos, 0, 0)
  <2>1. st = "inbetween" /\ e = 2
    BY <1>4, <1>6, <1>11, <1>20 DEF AtBegin, InChunks
  <2>2. AcceptV11(r, b) = At(q, "inend", 3)
    BY <1>10, <1>20, <2>1, AcceptCases
  <2>3. AcceptV11(r, b) = ReaderOf(Append(p, d), "inend", 3, sc)
    BY <1>9, <2>2, ReaderAtOther
  <2>4. z.msg = i /\ z.at = "end" /\ z.pos = pos
    BY <1>20 DEF PlaceOf
  <2>5. InChunks(m, z, d, "inend", 3, sc) /\ ~AtBegin(z)
    BY <1>6, <1>20, <2>4 DEF InChunks, AtBegin
  <2>6. QED
    BY <1>8, <1>13, <2>3, <2>4, <2>5
<1>21. CASE x.at = "end" /\ b = LF /\ z = Begin(o, i + 1)
  <2>1. st = "inend" /\ e = 3 /\ pos = Len(m)
    BY <1>4, <1>11, <1>21 DEF AtBegin, InChunks
  <2>2. AcceptV11(r, b) = EndChunks(q)
    BY <1>10, <1>21, <2>1, AcceptCases
  <2>3. Holds(d, m)
    BY <1>6, <1>8, <2>1, SubSeqFull
  <2>4. PICK f \in Message : /\ EndChunks(ReaderOf(Append(p, d), st, e, sc)) = ReaderOf(Append(p, f), "idle", 0, sc)
                             /\ f.ready /\ Text(f) = m
    BY <1>6, <1>7, <2>3, ChunksEnded
  <2>5. ReaderAt(s, R, Begin(o, i + 1), ReaderOf(Append(p, f), "idle", 0, sc))
    BY <1>1, <1>3, <1>5, <2>4, NextAt
  <2>6. QED
    BY <1>9, <1>21, <2>2, <2>4, <2>5
<1>22. QED
  BY <1>2, <1>3, <1>4, <1>14, <1>15, <1>16, <1>17, <1>18, <1>19, <1>20, <1>21 DEF TakesChunk

-----------------------------------------------------------------------------
(* What the reader has.                                                    *)

\* The first and the last of a sequence and one more.
LEMMA AppendEnds ==
    ASSUME NEW S, NEW p \in Seq(S), NEW c
    PROVE  /\ Append(p, c) # <<>> /\ Len(p) \in Nat
           /\ Head(Append(p, c)) = IF p = <<>> THEN c ELSE p[1]
           /\ p # <<>> => 1 \in 1 .. Len(p) /\ Head(p) = p[1] /\ Last(p) = p[Len(p)] /\ Len(p) \in 1 .. Len(p)
<1>1. Len(p) \in Nat
  BY LenProperties
<1>2. Len(Append(p, c)) = Len(p) + 1 /\ Append(p, c)[Len(p) + 1] = c
      /\ \A i \in 1 .. Len(p) : Append(p, c)[i] = p[i]
  BY <1>1
<1>3. Append(p, c) # <<>>
  <2>1. Len(Append(p, c)) # 0
    BY <1>1, <1>2
  <2>2. Len(<<>>) = 0
    OBVIOUS
  <2>3. QED
    BY <2>1, <2>2, Zenon
<1>4. p # <<>> => Len(p) > 0
  BY EmptySeq, <1>1
<1>5. Head(Append(p, c)) = IF p = <<>> THEN c ELSE Head(p)
  BY HeadTailAppend
<1>6. p # <<>> => 1 \in 1 .. Len(p) /\ Len(p) \in 1 .. Len(p)
  BY <1>1, <1>4
<1>7. p # <<>> => Head(p) = p[1] /\ Last(p) = p[Len(p)]
  BY DEF Last
<1>8. QED
  BY <1>3, <1>1, <1>5, <1>6, <1>7

\* The messages that wait are ready but the one that is read now, and the reader found
\* no fault.
LEMMA ReaderQueue ==
    ASSUME NEW s \in Seq(Payloads), NEW R, NEW x, NEW r, ReaderAt(s, R, x, r)
    PROVE  /\ R \in Nat /\ x \in Place /\ x.msg \in Nat /\ x.msg >= R + 1 /\ x.msg <= Len(s) + 1
           /\ r.msgQ \in Seq(Message) /\ r.res = "ok"
           /\ (r.msgQ # <<>> /\ Head(r.msgQ).ready) <=> x.msg > R + 1
           /\ r.msgQ # <<>> /\ LastMsg(r).ready => AtBegin(x) /\ Len(r.msgQ) = x.msg - R - 1
           /\ AtBegin(x) /\ x.msg > R + 1 => LastMsg(r).ready
           /\ ~AtBegin(x) => r.msgQ # <<>>
<1>1. PICK p : /\ Waits(p, s, R) /\ x \in Place /\ x.msg = R + Len(p) + 1
               /\ \/ AtBegin(x) /\ \E sc : r = ReaderOf(p, "idle", 0, sc)
                  \/ /\ ~AtBegin(x) /\ x.msg <= Len(s)
                     /\ \E c, st, e, sc : /\ r = ReaderOf(Append(p, c), st, e, sc)
                                          /\ HalfRead(s[x.msg], x, c, st, e, sc)
  BY DEF ReaderAt
<1>2. p \in Seq(Message) /\ R \in Nat /\ R + Len(p) <= Len(s) /\ \A i \in 1 .. Len(p) : p[i].ready
  BY <1>1 DEF Waits
<1>3. Len(p) \in Nat /\ Len(s) \in Nat /\ Len(s) + 1 \in Nat
  BY <1>2, LenProperties
<1>4. R \in Nat /\ x \in Place /\ x.msg \in Nat /\ x.msg >= R + 1 /\ x.msg <= Len(s) + 1
  BY <1>1, <1>2, <1>3
<1>5. p = <<>> <=> Len(p) = 0
  BY <1>2, EmptySeq
<1>6. CASE AtBegin(x) /\ \E sc : r = ReaderOf(p, "idle", 0, sc)
  <2>1. r.msgQ = p /\ r.res = "ok"
    BY <1>6 DEF ReaderOf
  <2>2. p # <<>> => Head(p).ready /\ Last(p).ready
    BY <1>2, AppendEnds
  <2>3. LastMsg(r) = Last(p)
    BY <2>1 DEF LastMsg
  <2>4. x.msg > R + 1 <=> p # <<>>
    BY <1>1, <1>2, <1>3, <1>5
  <2>5. Len(p) = x.msg - R - 1
    BY <1>1, <1>2, <1>3
  <2>6. QED
    BY <1>2, <1>4, <1>6, <2>1, <2>2, <2>3, <2>4, <2>5
<1>7. CASE ~AtBegin(x) /\ \E c, st, e, sc : /\ r = ReaderOf(Append(p, c), st, e, sc)
                                            /\ HalfRead(s[x.msg], x, c, st, e, sc)
  <2>1. PICK c, st, e, sc : r = ReaderOf(Append(p, c), st, e, sc) /\ HalfRead(s[x.msg], x, c, st, e, sc)
    BY <1>7
  <2>2. c \in Message /\ ~c.ready
    BY <2>1 DEF HalfRead, Holds
  <2>3. r.msgQ = Append(p, c) /\ r.res = "ok"
    BY <2>1 DEF ReaderOf
  <2>4. Append(p, c) # <<>> /\ Append(p, c) \in Seq(Message) /\ LastMsg(r) = c
    BY <1>2, <2>1, <2>2, MsgExchanged
  <2>5. Head(Append(p, c)) = IF p = <<>> THEN c ELSE p[1]
    BY <1>2, AppendEnds
  <2>6. p # <<>> => p[1].ready
    BY <1>2, AppendEnds
  <2>7. x.msg > R + 1 <=> p # <<>>
    BY <1>1, <1>2, <1>3, <1>5
  <2>8. QED
    BY <1>4, <1>7, <2>2, <2>3, <2>4, <2>5, <2>6, <2>7
<1>8. QED
  BY <1>1, <1>6, <1>7

\* The state of the reader and its buffers.
LEMMA ReaderTypes ==
    ASSUME NEW s \in Seq(Payloads), NEW R, NEW x, NEW r, ReaderAt(s, R, x, r)
    PROVE  /\ r.instate \in {"idle", "instart", "inmsg", "inbetween", "inend"}
           /\ r.inendpos \in 0 .. Max({Len(EOM) - 1, MaxStartChunk})
           /\ \A i \in DOMAIN r.msgQ : \A j \in DOMAIN r.msgQ[i].buffQ :
                LET b == r.msgQ[i].buffQ[j] IN b.bufflen <= Len(b.buff) /\ Len(b.buff) <= BuffSize
<1>1. r.msgQ \in Seq(Message)
  BY ReaderQueue
<1>2. ASSUME NEW i \in DOMAIN r.msgQ, NEW j \in DOMAIN r.msgQ[i].buffQ
      PROVE  r.msgQ[i].buffQ[j] \in Buffer
  <2>1. r.msgQ[i] \in Message
    BY <1>1, <1>2, LenProperties, ElementOfSeq
  <2>2. r.msgQ[i].buffQ \in Seq(Buffer)
    BY <2>1 DEF Message
  <2>3. QED
    BY <1>2, <2>2, LenProperties, ElementOfSeq
<1>3. PICK top \in Nat : top = Max({Len(EOM) - 1, MaxStartChunk}) /\ 5 <= top /\ MaxStartChunk <= top
  <2>1. Len(EOM) - 1 = 5 /\ MaxStartChunk \in Nat
    BY Sizes, FramingAssumption
  <2>2. PICK k \in Nat : k = MaxStartChunk
    BY <2>1
  <2>3. PICK bound \in Nat : 5 <= bound /\ k <= bound
    <3>1. 5 + k \in Nat /\ 5 <= 5 + k /\ k <= 5 + k
      OBVIOUS
    <3>2. QED
      BY <3>1
  <2>4. Max({5, k}) \in {5, k} /\ \A y \in {5, k} : y =< Max({5, k})
    <3>1. {5, k} \in SUBSET Nat /\ {5, k} # {} /\ \A y \in {5, k} : y =< bound
      BY <2>3
    <3>2. QED
      BY <3>1, MaxIsGreatest
  <2>5. QED
    BY <2>1, <2>2, <2>4
<1>4. r.instate \in {"idle", "instart", "inmsg", "inbetween", "inend"} /\ r.inendpos \in 0 .. top
  <2>1. PICK p, d, st, e, sc :
          /\ x \in Place /\ r.instate = st /\ r.inendpos = e
          /\ AtBegin(x) => st = "idle" /\ e = 0
          /\ ~AtBegin(x) => InText(s[x.msg], x, st, e) \/ InChunks(s[x.msg], x, d, st, e, sc)
    BY RoomMade
  <2>2. CASE AtBegin(x)
    BY <1>3, <2>1, <2>2
  <2>3. CASE InText(s[x.msg], x, st, e)
    <3>1. e \in 0 .. 5 /\ st \in {"inmsg", "inend"}
      BY <2>3 DEF InText, Matched
    <3>2. QED
      BY <1>3, <2>1, <3>1
  <2>4. CASE InChunks(s[x.msg], x, d, st, e, sc)
    <3>1. st \in {"instart", "inbetween", "inmsg", "inend"}
      BY <2>4 DEF InChunks
    <3>2. x.digits \in Nat /\ MaxStartChunk \in Nat
      BY <2>1, FramingAssumption DEF Place
    <3>3. e \in 0 .. 3 \/ (e = x.digits + 2 /\ e <= MaxStartChunk)
      BY <2>4 DEF InChunks
    <3>4. e \in 0 .. top
      BY <1>3, <3>2, <3>3
    <3>5. QED
      BY <2>1, <3>1, <3>4
  <2>5. QED
    BY <2>1, <2>2, <2>3, <2>4
<1>5. QED
  BY <1>2, <1>3, <1>4 DEF Buffer

\* The first message that is ready is handed on (Dispatch).
LEMMA ReaderTaken ==
    ASSUME NEW s \in Seq(Payloads), NEW R, NEW x, NEW r, ReaderAt(s, R, x, r),
           r.msgQ # <<>>, Head(r.msgQ).ready
    PROVE  /\ R + 1 <= Len(s) /\ Text(Head(r.msgQ)) = s[R + 1]
           /\ ReaderAt(s, R + 1, x, [r EXCEPT !.msgQ = Tail(r.msgQ)])
<1>1. PICK p : /\ Waits(p, s, R) /\ x \in Place /\ x.msg = R + Len(p) + 1
               /\ \/ AtBegin(x) /\ \E sc : r = ReaderOf(p, "idle", 0, sc)
                  \/ /\ ~AtBegin(x) /\ x.msg <= Len(s)
                     /\ \E c, st, e, sc : /\ r = ReaderOf(Append(p, c), st, e, sc)
                                          /\ HalfRead(s[x.msg], x, c, st, e, sc)
  BY DEF ReaderAt
<1>2. /\ p \in Seq(Message) /\ R \in Nat /\ R + Len(p) <= Len(s)
      /\ \A i \in 1 .. Len(p) : p[i].ready /\ Text(p[i]) = s[R + i]
  BY <1>1 DEF Waits
<1>3. Len(p) \in Nat /\ Len(s) \in Nat
  BY <1>2, LenProperties
<1>4. x.msg > R + 1
  BY ReaderQueue
<1>5. Len(p) > 0
  BY <1>1, <1>2, <1>3, <1>4
<1>6. p # <<>>
  BY <1>5, EmptySeq
<1>7. PICK t : t = Tail(p)
  OBVIOUS
<1>8. t \in Seq(Message) /\ Len(t) = Len(p) - 1 /\ \A i \in 1 .. Len(t) : t[i] = p[i + 1]
  BY <1>2, <1>6, <1>7, HeadTailProperties
<1>9. Waits(t, s, R + 1)
  <2>1. \A i \in 1 .. Len(t) : i + 1 \in 1 .. Len(p) /\ R + 1 + i = R + (i + 1)
    <3>1. PICK n \in Nat, k \in Nat : n = Len(t) /\ k = Len(p) /\ n = k - 1
      BY <1>3, <1>8, LenProperties
    <3>2. \A i \in 1 .. n : i + 1 \in 1 .. k /\ R + 1 + i = R + (i + 1)
      BY <1>2, <3>1
    <3>3. QED
      BY <3>1, <3>2
  <2>2. \A i \in 1 .. Len(t) : t[i].ready /\ Text(t[i]) = s[R + 1 + i]
    BY <1>2, <1>8, <2>1
  <2>3. R + 1 \in Nat /\ R + 1 + Len(t) <= Len(s)
    BY <1>2, <1>3, <1>8
  <2>4. QED
    BY <1>8, <2>2, <2>3 DEF Waits
<1>10. x.msg = R + 1 + Len(t) + 1 /\ R + 1 <= Len(s)
  BY <1>1, <1>2, <1>3, <1>5, <1>8
<1>11. Text(p[1]) = s[R + 1]
  BY <1>2, <1>3, <1>5
<1>12. CASE AtBegin(x) /\ \E sc : r = ReaderOf(p, "idle", 0, sc)
  <2>1. PICK sc : r = ReaderOf(p, "idle", 0, sc)
    BY <1>12
  <2>2. r.msgQ = p
    BY <2>1 DEF ReaderOf
  <2>3. Head(r.msgQ) = p[1]
    BY <1>2, <1>6, <2>2, AppendEnds
  <2>4. [r EXCEPT !.msgQ = t] = ReaderOf(t, "idle", 0, sc)
    BY <2>1 DEF ReaderOf
  <2>5. ReaderAt(s, R + 1, x, ReaderOf(t, "idle", 0, sc))
    BY <1>1, <1>9, <1>10, <1>12 DEF ReaderAt
  <2>6. QED
    BY <1>7, <1>10, <1>11, <2>2, <2>3, <2>4, <2>5
<1>13. CASE ~AtBegin(x) /\ \E c, st, e, sc : /\ r = ReaderOf(Append(p, c), st, e, sc)
                                             /\ HalfRead(s[x.msg], x, c, st, e, sc)
  <2>1. PICK c, st, e, sc : r = ReaderOf(Append(p, c), st, e, sc) /\ HalfRead(s[x.msg], x, c, st, e, sc)
    BY <1>13
  <2>2. r.msgQ = Append(p, c)
    BY <2>1 DEF ReaderOf
  <2>3. Head(Append(p, c)) = p[1]
    BY <1>2, <1>6, AppendEnds
  <2>4. Tail(Append(p, c)) = Append(t, c)
    BY <1>2, <1>6, <1>7, HeadTailAppend
  <2>5. PICK u : u = Append(t, c)
    OBVIOUS
  <2>6. [r EXCEPT !.msgQ = u] = ReaderOf(u, st, e, sc)
    BY <2>1 DEF ReaderOf
  <2>7. x.msg <= Len(s)
    BY <1>1, <1>13
  <2>8. ReaderAt(s, R + 1, x, ReaderOf(u, st, e, sc))
    BY <1>1, <1>9, <1>10, <1>13, <2>1, <2>5, <2>7 DEF ReaderAt
  <2>9. QED
    BY <1>10, <1>11, <2>2, <2>3, <2>4, <2>5, <2>6, <2>8, ZenonT(60)
<1>14. QED
  BY <1>1, <1>12, <1>13

\* The reader does not notice that another message is sent.
LEMMA ReaderStill ==
    ASSUME NEW s \in Seq(Payloads), NEW m \in Payloads, NEW R, NEW x, NEW r, ReaderAt(s, R, x, r)
    PROVE  ReaderAt(Append(s, m), R, x, r)
<1>1. PICK t : t = Append(s, m)
  OBVIOUS
<1>2. /\ t \in Seq(Payloads) /\ Len(t) = Len(s) + 1 /\ Len(s) \in Nat
      /\ \A i \in 1 .. Len(s) : t[i] = s[i]
  BY <1>1, AppendProperties, LenProperties
<1>3. PICK p : /\ Waits(p, s, R) /\ x \in Place /\ x.msg = R + Len(p) + 1
               /\ \/ AtBegin(x) /\ \E sc : r = ReaderOf(p, "idle", 0, sc)
                  \/ /\ ~AtBegin(x) /\ x.msg <= Len(s)
                     /\ \E c, st, e, sc : /\ r = ReaderOf(Append(p, c), st, e, sc)
                                          /\ HalfRead(s[x.msg], x, c, st, e, sc)
  BY DEF ReaderAt
<1>4. p \in Seq(Message) /\ R \in Nat /\ Len(p) \in Nat /\ R + Len(p) <= Len(s)
      /\ \A i \in 1 .. Len(p) : p[i].ready /\ Text(p[i]) = s[R + i]
  BY <1>3, LenProperties DEF Waits
<1>5. Waits(p, t, R)
  <2>1. \A i \in 1 .. Len(p) : R + i \in 1 .. Len(s)
    BY <1>2, <1>4
  <2>2. \A i \in 1 .. Len(p) : p[i].ready /\ Text(p[i]) = t[R + i]
    BY <1>2, <1>4, <2>1
  <2>3. QED
    BY <1>2, <1>4, <2>2 DEF Waits
<1>6. CASE AtBegin(x) /\ \E sc : r = ReaderOf(p, "idle", 0, sc)
  BY <1>1, <1>3, <1>5, <1>6 DEF ReaderAt
<1>7. CASE /\ ~AtBegin(x) /\ x.msg <= Len(s)
           /\ \E c, st, e, sc : /\ r = ReaderOf(Append(p, c), st, e, sc)
                                /\ HalfRead(s[x.msg], x, c, st, e, sc)
  <2>1. x.msg \in 1 .. Len(s) /\ x.msg <= Len(t)
    BY <1>2, <1>3, <1>4, <1>7
  <2>2. t[x.msg] = s[x.msg]
    BY <1>2, <2>1
  <2>3. QED
    BY <1>1, <1>3, <1>5, <1>7, <2>1, <2>2 DEF ReaderAt
<1>8. QED
  BY <1>3, <1>6, <1>7

\* A byte takes the reader on in its message, or to where the next one begins.
LEMMA TakesNext ==
    ASSUME NEW s, NEW o \in Nat, NEW x, NEW b, NEW z, Takes(s, o, x, b, z)
    PROVE  (z.msg = x.msg /\ ~AtBegin(z)) \/ (z.msg = x.msg + 1 /\ AtBegin(z))
<1>1. PICK i \in Nat, pos \in Nat : i = x.msg /\ pos = x.pos
  BY DEF Takes, Place
<1>2. Begin(o, i + 1).msg = i + 1 /\ AtBegin(Begin(o, i + 1))
  <2>1. i + 1 \in Nat
    OBVIOUS
  <2>2. QED
    BY <2>1, BeginParts DEF AtBegin
<1>3. pos + 1 # 0
  OBVIOUS
<1>4. ASSUME NEW size, NEW digits,
             \/ z = PlaceOf(i, "text", pos + 1, size, digits) \/ z = PlaceOf(i, "gap", pos + 1, size, digits)
             \/ \E at \in {"newline", "hash", "size", "data", "end"} : \E k : z = PlaceOf(i, at, k, size, digits)
      PROVE  z.msg = i /\ ~AtBegin(z)
  BY <1>3, <1>4 DEF PlaceOf, AtBegin
<1>5. CASE TakesText(s, o, x, b, z)
  BY <1>1, <1>2, <1>4, <1>5 DEF TakesText
<1>6. CASE TakesChunk(s, o, x, b, z)
  BY <1>1, <1>2, <1>4, <1>6, ZenonT(60) DEF TakesChunk
<1>7. QED
  BY <1>5, <1>6 DEF Takes

-----------------------------------------------------------------------------
(* A session.                                                              *)

\* When the messages are s: the bytes u on the way lead from where the reader r is,
\* which handed R messages on, to where the buffers q begin that wait, and these lead
\* behind the last message.
StreamAt(s, o, fr11, u, q, R, r) ==
    \E x, y : /\ Leads(s, o, u, x, y)
              /\ OutLeads(s, o, fr11, q, y, Begin(o, Len(s) + 1))
              /\ ReaderAt(s, R, x, r)

IsFirstReady(r) == r.msgQ # <<>> /\ Head(r.msgQ).ready

\* Buffers of another message are queued (Send).
LEMMA StreamSent ==
    ASSUME NEW s \in Seq(Payloads), NEW m \in Payloads, NEW o, NEW fr11, NEW u, NEW q, NEW R, NEW r,
           StreamAt(s, o, fr11, u, q, R, r), NEW t, t = Append(s, m), NEW v,
           OutLeads(t, o, fr11, v, Begin(o, Len(s) + 1), Begin(o, Len(t) + 1))
    PROVE  StreamAt(t, o, fr11, u, q \o v, R, r)
<1>1. PICK x, y : /\ Leads(s, o, u, x, y) /\ ReaderAt(s, R, x, r)
                  /\ OutLeads(s, o, fr11, q, y, Begin(o, Len(s) + 1))
  BY DEF StreamAt
<1>2. Leads(t, o, u, x, y) /\ ReaderAt(t, R, x, r)
  BY <1>1, LeadsStill, ReaderStill
<1>3. OutLeads(t, o, fr11, q, y, Begin(o, Len(s) + 1))
  BY <1>1, OutStill
<1>4. OutLeads(t, o, fr11, q \o v, y, Begin(o, Len(t) + 1))
  BY <1>3, ChainOn DEF OutLeads
<1>5. QED
  BY <1>2, <1>4 DEF StreamAt

\* An empty queue leads nowhere.
LEMMA OutNone ==
    ASSUME NEW s, NEW o, NEW fr11, NEW x \in Place, NEW z
    PROVE  OutLeads(s, o, fr11, <<>>, x, z) <=> z = x
BY ChainNone DEF OutLeads

\* Another message is written at once (Connect, SendForeign).
LEMMA StreamWritten ==
    ASSUME NEW s \in Seq(Payloads), NEW m \in Payloads, NEW o \in Nat, NEW fr11, NEW u, NEW R, NEW r,
           StreamAt(s, o, fr11, u, <<>>, R, r), NEW t, t = Append(s, m), NEW v,
           Leads(t, o, v, Begin(o, Len(s) + 1), Begin(o, Len(t) + 1))
    PROVE  StreamAt(t, o, fr11, u \o v, <<>>, R, r)
<1>1. PICK x, y : /\ Leads(s, o, u, x, y) /\ ReaderAt(s, R, x, r)
                  /\ OutLeads(s, o, fr11, <<>>, y, Begin(o, Len(s) + 1))
  BY DEF StreamAt
<1>2. y \in Place
  BY <1>1, LeadsType
<1>3. y = Begin(o, Len(s) + 1)
  BY <1>1, <1>2, OutNone
<1>4. Leads(t, o, u, x, y) /\ ReaderAt(t, R, x, r)
  BY <1>1, LeadsStill, ReaderStill
<1>5. PICK z : z = Begin(o, Len(t) + 1)
  OBVIOUS
<1>6. Leads(t, o, u \o v, x, z)
  BY <1>3, <1>4, <1>5, LeadsOn
<1>7. z \in Place
  BY <1>6, LeadsType
<1>8. OutLeads(t, o, fr11, <<>>, z, z)
  BY <1>7, OutNone
<1>9. QED
  BY <1>4, <1>5, <1>6, <1>8 DEF StreamAt

\* The framing changes when nothing waits (Greet).
LEMMA StreamGreeted ==
    ASSUME NEW s, NEW o, NEW fr11, NEW fr2, NEW u, NEW R, NEW r, StreamAt(s, o, fr11, u, <<>>, R, r)
    PROVE  StreamAt(s, o, fr2, u, <<>>, R, r)
<1>1. PICK x, y : /\ Leads(s, o, u, x, y) /\ ReaderAt(s, R, x, r)
                  /\ OutLeads(s, o, fr11, <<>>, y, Begin(o, Len(s) + 1))
  BY DEF StreamAt
<1>2. y \in Place
  BY <1>1, LeadsType
<1>3. OutLeads(s, o, fr2, <<>>, y, Begin(o, Len(s) + 1))
  BY <1>1, <1>2, OutNone
<1>4. QED
  BY <1>1, <1>3 DEF StreamAt

\* The first buffer is written (WriteBuff).
LEMMA StreamMoved ==
    ASSUME NEW s, NEW o, NEW fr11, NEW u, NEW q, q # <<>>, NEW R, NEW r, StreamAt(s, o, fr11, u, q, R, r)
    PROVE  /\ Head(q) \in OutBuffer(fr11) /\ Bytes(fr11, Head(q)) \in Seq(Byte)
           /\ StreamAt(s, o, fr11, u \o Bytes(fr11, Head(q)), Tail(q), R, r)
<1>1. PICK x, y : /\ Leads(s, o, u, x, y) /\ ReaderAt(s, R, x, r)
                  /\ OutLeads(s, o, fr11, q, y, Begin(o, Len(s) + 1))
  BY DEF StreamAt
<1>2. PICK z : /\ Head(q) \in OutBuffer(fr11)
               /\ Leads(s, o, Bytes(fr11, Head(q)), y, z)
               /\ OutLeads(s, o, fr11, Tail(q), z, Begin(o, Len(s) + 1))
  BY <1>1, OutHead
<1>3. Leads(s, o, u \o Bytes(fr11, Head(q)), x, z)
  BY <1>1, <1>2, LeadsOn
<1>4. Bytes(fr11, Head(q)) \in Seq(Byte)
  BY <1>2, LeadsType
<1>5. QED
  BY <1>1, <1>2, <1>3, <1>4 DEF StreamAt

\* A message is handed on (Dispatch).
LEMMA StreamTaken ==
    ASSUME NEW s \in Seq(Payloads), NEW o, NEW fr11, NEW u, NEW q, NEW R, NEW r, IsFirstReady(r),
           StreamAt(s, o, fr11, u, q, R, r)
    PROVE  /\ R + 1 <= Len(s) /\ Text(Head(r.msgQ)) = s[R + 1]
           /\ StreamAt(s, o, fr11, u, q, R + 1, [r EXCEPT !.msgQ = Tail(r.msgQ)])
<1>1. PICK x, y : /\ Leads(s, o, u, x, y) /\ ReaderAt(s, R, x, r)
                  /\ OutLeads(s, o, fr11, q, y, Begin(o, Len(s) + 1))
  BY DEF StreamAt
<1>2. r.msgQ # <<>> /\ Head(r.msgQ).ready
  BY DEF IsFirstReady
<1>3. /\ R + 1 <= Len(s) /\ Text(Head(r.msgQ)) = s[R + 1]
      /\ ReaderAt(s, R + 1, x, [r EXCEPT !.msgQ = Tail(r.msgQ)])
  BY <1>1, <1>2, ReaderTaken
<1>4. QED
  BY <1>1, <1>3 DEF StreamAt

\* The reader of its framing takes r to new by byte b: base:1.1 when the messages of
\* base:1.0 were handed on, base:1.0 when there are no others or when one of these is
\* being read.
Accepts(s, o, b, R, r, new) ==
    \/ R >= o /\ new = AcceptV11(r, b)
    \/ Len(s) <= o /\ new = AcceptV10(r, b)
    \/ R < o /\ ~IsFirstReady(r) /\ new = AcceptV10(r, b)

\* A byte is accepted (AcceptByte).
LEMMA StreamAccepted ==
    ASSUME NEW s \in Seq(Payloads), NEW o \in Nat, NEW fr11, NEW u, u # <<>>, NEW q, NEW R, NEW r,
           StreamAt(s, o, fr11, u, q, R, r), NEW new, Accepts(s, o, Head(u), R, r, new)
    PROVE  /\ StreamAt(s, o, fr11, Tail(u), q, R, new)
           /\ ~IsFirstReady(r) /\ LastMsg(new).ready => Len(new.msgQ) = 1
           /\ ~IsFirstReady(r) /\ IsFirstReady(new) => LastMsg(new).ready
<1>1. PICK x, y : /\ Leads(s, o, u, x, y) /\ ReaderAt(s, R, x, r)
                  /\ OutLeads(s, o, fr11, q, y, Begin(o, Len(s) + 1))
  BY DEF StreamAt
<1>2. PICK b : b = Head(u)
  OBVIOUS
<1>3. b \in Byte
  BY <1>1, <1>2, LeadsType, HeadTailProperties
<1>4. PICK z \in Place : Takes(s, o, x, b, z) /\ Leads(s, o, Tail(u), z, y)
  BY <1>1, <1>2, LeadsHead
<1>5. /\ R \in Nat /\ x.msg \in Nat /\ x.msg >= R + 1
      /\ ~IsFirstReady(r) => x.msg = R + 1
  <2>1. R \in Nat /\ x.msg \in Nat /\ x.msg >= R + 1 /\ (IsFirstReady(r) <=> x.msg > R + 1)
    BY <1>1, ReaderQueue DEF IsFirstReady
  <2>2. QED
    BY <2>1
<1>6. ASSUME TakesText(s, o, x, b, z) PROVE ReaderAt(s, R, z, new)
  <2>1. x.msg <= o
    BY <1>6 DEF TakesText
  <2>2. new = AcceptV10(r, b)
    BY <1>2, <1>5, <2>1 DEF Accepts
  <2>3. ReaderAt(s, R, z, new)
    BY <1>1, <1>6, <2>2, TextStep
  <2>4. QED
    BY <2>3, Zenon
<1>7. ASSUME TakesChunk(s, o, x, b, z) PROVE ReaderAt(s, R, z, new)
  <2>1. x.msg > o /\ x.msg \in 1 .. Len(s)
    BY <1>7 DEF TakesChunk
  <2>2. Len(s) \in Nat
    BY LenProperties
  <2>3. new = AcceptV11(r, b)
    BY <1>2, <1>5, <2>1, <2>2 DEF Accepts
  <2>4. ReaderAt(s, R, z, new)
    BY <1>1, <1>3, <1>7, <2>3, ChunkStep
  <2>5. QED
    BY <2>4
<1>8. ReaderAt(s, R, z, new)
  BY <1>4, <1>6, <1>7 DEF Takes
<1>9. StreamAt(s, o, fr11, Tail(u), q, R, new)
  BY <1>1, <1>4, <1>8 DEF StreamAt
<1>10. (z.msg = x.msg /\ ~AtBegin(z)) \/ (z.msg = x.msg + 1 /\ AtBegin(z))
  BY <1>4, TakesNext
<1>11. /\ IsFirstReady(new) <=> z.msg > R + 1
       /\ new.msgQ # <<>> /\ LastMsg(new).ready => AtBegin(z) /\ Len(new.msgQ) = z.msg - R - 1
       /\ AtBegin(z) /\ z.msg > R + 1 => LastMsg(new).ready
       /\ ~AtBegin(z) => new.msgQ # <<>>
  BY <1>8, ReaderQueue DEF IsFirstReady
<1>12. new.msgQ # <<>>
  BY <1>5, <1>10, <1>11 DEF IsFirstReady
<1>13. ASSUME ~IsFirstReady(r), LastMsg(new).ready
       PROVE  Len(new.msgQ) = 1
  <2>1. AtBegin(z) /\ Len(new.msgQ) = z.msg - R - 1
    BY <1>11, <1>12, <1>13
  <2>2. z.msg = x.msg + 1 /\ x.msg = R + 1 /\ R \in Nat
    BY <1>5, <1>10, <1>13, <2>1
  <2>3. QED
    BY <2>1, <2>2
<1>14. ASSUME ~IsFirstReady(r), IsFirstReady(new)
       PROVE  LastMsg(new).ready
  BY <1>5, <1>10, <1>11, <1>14
<1>15. QED
  BY <1>9, <1>13, <1>14

-----------------------------------------------------------------------------
(* The inductive invariant.                                                *)

\* The messages up to this one are framed as base:1.0.
OldFraming == IF agreed11 THEN Opening ELSE MaxMessages + 1

EndsInv ==
    /\ sender \in {"server", "manager", "foreign server", "foreign client"}
    /\ enabled11 \in BOOLEAN /\ agreed11 \in BOOLEAN /\ (agreed11 => enabled11)

\* A sender of this code is greeted when it has said what goes before, with nothing
\* left to write.
WriterInv ==
    /\ greeted \in BOOLEAN /\ framing11 = (greeted /\ agreed11) /\ buffstart = InitStart(framing11)
    /\ greeted /\ ~Foreign => Len(sent) >= Opening
    /\ Foreign \/ sent = <<>> => outQ = <<>>
    /\ sent \in Seq(Payloads) /\ Len(sent) <= MaxMessages
    /\ ByServer /\ Len(sent) > 1 => received # <<>>

\* Before its hello is handled, no byte behind the first message is accepted.
ReaderInv ==
    /\ received \in Seq(Payloads) /\ Len(received) <= Len(sent)
    /\ \A i \in 1 .. Len(received) : received[i] = sent[i]
    /\ protocol = IF Len(received) < Opening THEN "none" ELSE IF agreed11 THEN "11" ELSE "10"
    /\ wire \in Seq(Byte) /\ readbuff \in Seq(Byte) /\ Len(readbuff) <= ReadSize
    /\ indefer \in BOOLEAN /\ reading \in BOOLEAN
    /\ (indefer => ~reading) /\ (reading => ByServer)
    /\ enabled11 /\ protocol = "none" /\ IsFirstReady(rx) => ~Accepting

StreamInv ==
    StreamAt(sent, OldFraming, framing11, readbuff \o wire, outQ, Len(received), rx)

Inv == EndsInv /\ WriterInv /\ ReaderInv /\ StreamInv

\* The invariant in what the parts of it need of the others.
LEMMA Numbers ==
    ASSUME Inv
    PROVE  /\ Opening \in {1, 2} /\ (ByServer => Opening = 1) /\ (~ByServer => Opening = 2)
           /\ MaxMessages \in Nat /\ MaxMessages > 0
           /\ OldFraming \in Nat /\ Len(sent) \in Nat /\ Len(received) \in Nat
           /\ agreed11 => OldFraming = Opening
           /\ ~agreed11 => OldFraming = MaxMessages + 1
<1>1. Opening \in {1, 2} /\ (ByServer => Opening = 1) /\ (~ByServer => Opening = 2)
  BY DEF Opening
<1>2. MaxMessages \in Nat /\ MaxMessages > 0
  BY FramingAssumption
<1>3. Len(sent) \in Nat /\ Len(received) \in Nat
  BY LenProperties DEF Inv, WriterInv, ReaderInv
<1>4. QED
  BY <1>1, <1>2, <1>3 DEF OldFraming

\* How the next message is framed (ses_finish_msg).
LEMMA NextFraming ==
    ASSUME Inv, NEW m, MaySend(m) \/ (~ByServer /\ sent = <<>> /\ InBounds(m))
    PROVE  /\ Len(sent) + 1 <= MaxMessages
           /\ framing11 /\ Len(sent) >= Opening => Len(sent) + 1 > OldFraming
           /\ ~(framing11 /\ Len(sent) >= Opening) => Len(sent) + 1 <= OldFraming
           /\ ByServer /\ Len(sent) + 1 > 1 => received # <<>>
<1>1. /\ Opening \in {1, 2} /\ (ByServer => Opening = 1) /\ (~ByServer => Opening = 2)
      /\ MaxMessages \in Nat /\ OldFraming \in Nat /\ Len(sent) \in Nat
      /\ agreed11 => OldFraming = Opening
      /\ ~agreed11 => OldFraming = MaxMessages + 1
  BY Numbers
<1>2. Len(sent) < MaxMessages
  BY DEF MaySend, InBounds
<1>3. Len(sent) >= Opening => greeted /\ (ByServer => received # <<>>)
  <2>1. sent = <<>> => Len(sent) = 0
    OBVIOUS
  <2>2. QED
    BY <1>1, <2>1 DEF MaySend
<1>4. framing11 = (greeted /\ agreed11) /\ greeted \in BOOLEAN /\ agreed11 \in BOOLEAN
  BY DEF Inv, WriterInv, EndsInv
<1>5. framing11 /\ Len(sent) >= Opening => Len(sent) + 1 > OldFraming
  BY <1>1, <1>4
<1>6. ASSUME ~(framing11 /\ Len(sent) >= Opening) PROVE Len(sent) + 1 <= OldFraming
  <2>1. CASE ~agreed11
    BY <1>1, <1>2, <2>1
  <2>2. CASE agreed11
    <3>1. Len(sent) < Opening
      BY <1>1, <1>3, <1>4, <1>6, <2>2
    <3>2. QED
      BY <1>1, <2>2, <3>1
  <2>3. QED
    BY <2>1, <2>2
<1>7. QED
  BY <1>1, <1>2, <1>3, <1>5, <1>6

\* A message is sent: what the receiver knows holds still.
LEMMA SentKeeps ==
    ASSUME Inv, NEW m \in Payloads, sent' = Append(sent, m), UNCHANGED <<ends, reader>>,
           wire' \in Seq(Byte)
    PROVE  EndsInv' /\ ReaderInv'
<1>1. sent \in Seq(Payloads) /\ Len(sent) \in Nat /\ Len(received) \in Nat /\ Len(received) <= Len(sent)
  BY Numbers DEF Inv, WriterInv, ReaderInv
<1>2. /\ sender' = sender /\ enabled11' = enabled11 /\ agreed11' = agreed11
      /\ protocol' = protocol /\ rx' = rx /\ readbuff' = readbuff /\ indefer' = indefer
      /\ reading' = reading /\ received' = received
  BY DEF ends, reader
<1>3. EndsInv'
  BY <1>2 DEF Inv, EndsInv
<1>4. (ByServer <=> ByServer') /\ Opening' = Opening
  BY <1>2 DEF Opening, ByServer
<1>5. Len(received) <= Len(sent') /\ \A i \in 1 .. Len(received) : received[i] = sent'[i]
  <2>1. PICK t : t = Append(sent, m)
    OBVIOUS
  <2>2. Len(t) = Len(sent) + 1 /\ \A i \in 1 .. Len(sent) : t[i] = sent[i]
    BY <1>1, <2>1, AppendProperties
  <2>3. \A i \in 1 .. Len(received) : i \in 1 .. Len(sent)
    BY <1>1
  <2>4. \A i \in 1 .. Len(received) : received[i] = sent[i]
    BY DEF Inv, ReaderInv
  <2>5. Len(received) <= Len(t)
    BY <1>1, <2>2
  <2>6. \A i \in 1 .. Len(received) : received[i] = t[i]
    BY <2>2, <2>3, <2>4
  <2>7. QED
    BY <2>1, <2>5, <2>6
<1>6. ReaderInv'
  BY <1>2, <1>4, <1>5 DEF Inv, ReaderInv, IsFirstReady, Accepting
<1>7. QED
  BY <1>3, <1>6

\* The sender, whatever it sends: the rest of its invariant.
LEMMA WriterKeeps ==
    ASSUME Inv, NEW m \in Payloads, sent' = Append(sent, m), UNCHANGED <<ends, reader>>,
           UNCHANGED <<greeted, framing11>>, buffstart' = InitStart(framing11),
           MaySend(m) \/ (~ByServer /\ sent = <<>> /\ InBounds(m)), Foreign => outQ' = <<>>
    PROVE  WriterInv'
<1>1. sent \in Seq(Payloads) /\ Len(sent) \in Nat
  BY Numbers DEF Inv, WriterInv
<1>2. sent' \in Seq(Payloads) /\ Len(sent') = Len(sent) + 1 /\ sent' # <<>>
  BY <1>1, AppendProperties
<1>3. /\ Opening \in {1, 2} /\ MaxMessages \in Nat
      /\ Len(sent) + 1 <= MaxMessages /\ (ByServer /\ Len(sent) + 1 > 1 => received # <<>>)
  BY Numbers, NextFraming
<1>4. sender' = sender /\ agreed11' = agreed11 /\ received' = received
  BY DEF ends, reader
<1>5. (ByServer <=> ByServer') /\ Opening' = Opening /\ (Foreign <=> Foreign')
  BY <1>4 DEF Opening, ByServer, Foreign
<1>6. greeted /\ ~Foreign => Len(sent') >= Opening
  BY <1>1, <1>2, <1>3 DEF Inv, WriterInv
<1>7. QED
  BY <1>2, <1>3, <1>4, <1>5, <1>6 DEF Inv, WriterInv, InitStart

\* What is read and not accepted and what is written and not read are bytes.
LEMMA WireTypes ==
    ASSUME Inv
    PROVE  wire \in Seq(Byte) /\ readbuff \in Seq(Byte) /\ readbuff \o wire \in Seq(Byte)
BY ConcatProperties DEF Inv, ReaderInv

\* Messages of this code (Send).
LEMMA SendKeeps ==
    ASSUME Inv, NEW m \in Payloads, Send(m)
    PROVE  Inv'
<1>1. /\ ~Foreign /\ MaySend(m) /\ sent' = Append(sent, m) /\ UNCHANGED <<ends, reader>>
      /\ UNCHANGED <<greeted, framing11>> /\ buffstart' = InitStart(framing11) /\ wire' = wire
      /\ outQ' = outQ \o Buffers(IF framing11 THEN m ELSE m \o EOM)
  BY DEF Send
<1>2. wire \in Seq(Byte)
  BY WireTypes
<1>3. EndsInv' /\ ReaderInv'
  BY <1>1, <1>2, SentKeeps
<1>4. WriterInv'
  BY <1>1, WriterKeeps
<1>5. PICK o \in Nat : o = OldFraming
  BY Numbers
<1>6. PICK t : t = Append(sent, m)
  OBVIOUS
<1>7. sent \in Seq(Payloads) /\ Len(sent) \in Nat
  BY Numbers DEF Inv, WriterInv
<1>8. PICK i \in Nat : i = Len(sent) + 1
  BY <1>7
<1>9. t \in Seq(Payloads) /\ Len(t) = i /\ t[i] = m /\ i \in 1 .. Len(t)
  <2>1. t \in Seq(Payloads) /\ Len(t) = Len(sent) + 1 /\ t[Len(sent) + 1] = m
    BY <1>6, <1>7, AppendProperties
  <2>2. i \in 1 .. i
    BY <1>7, <1>8
  <2>3. QED
    BY <1>8, <2>1, <2>2
<1>10. framing11 \in BOOLEAN /\ buffstart = InitStart(framing11)
  BY DEF Inv, WriterInv, EndsInv
<1>11. framing11 => i > o
  <2>1. framing11 => Len(sent) >= Opening
    BY <1>1 DEF Inv, WriterInv, EndsInv
  <2>2. QED
    BY <1>1, <1>5, <1>8, <2>1, NextFraming
<1>12. ~framing11 => i <= o
  BY <1>1, <1>5, <1>8, NextFraming
<1>13. PICK b : b = Buffers(IF framing11 THEN m ELSE m \o EOM)
  OBVIOUS
<1>14. OutLeads(t, o, framing11, b, Begin(o, i), Begin(o, i + 1))
  <2>1. CASE framing11
    <3>1. framing11 = TRUE /\ i > o
      BY <1>10, <1>11, <2>1
    <3>2. OutLeads(t, o, TRUE, Buffers(t[i]), Begin(o, i), Begin(o, i + 1))
      BY <1>9, <1>10, <3>1, BuffersLead11
    <3>3. b = Buffers(t[i])
      BY <1>9, <1>13, <2>1
    <3>4. QED
      BY <3>1, <3>2, <3>3
  <2>2. CASE ~framing11
    <3>1. framing11 = FALSE /\ i <= o
      BY <1>10, <1>12, <2>2
    <3>2. OutLeads(t, o, FALSE, Buffers(t[i] \o EOM), Begin(o, i), Begin(o, i + 1))
      BY <1>9, <1>10, <3>1, BuffersLead10
    <3>3. b = Buffers(t[i] \o EOM)
      BY <1>9, <1>13, <2>2
    <3>4. QED
      BY <3>1, <3>2, <3>3
  <2>3. QED
    BY <2>1, <2>2
<1>15. StreamAt(sent, o, framing11, readbuff \o wire, outQ, Len(received), rx)
  BY <1>5 DEF Inv, StreamInv
<1>16. StreamAt(t, o, framing11, readbuff \o wire, outQ \o b, Len(received), rx)
  BY <1>6, <1>7, <1>8, <1>9, <1>14, <1>15, StreamSent
<1>17. OldFraming' = o
  BY <1>1, <1>5 DEF ends, OldFraming, Opening, ByServer
<1>18. StreamInv'
  BY <1>1, <1>6, <1>13, <1>16, <1>17 DEF StreamInv, reader
<1>19. QED
  BY <1>3, <1>4, <1>18 DEF Inv

\* What is written at once (Connect, SendForeign).
LEMMA WrittenKeeps ==
    ASSUME Inv, NEW m \in Payloads, sent' = Append(sent, m), UNCHANGED <<ends, reader>>,
           UNCHANGED <<greeted, framing11, buffstart, outQ>>, outQ = <<>>,
           MaySend(m) \/ (~ByServer /\ sent = <<>> /\ InBounds(m)),
           NEW v, wire' = wire \o v,
           \A s \in Seq(Payloads), o \in Nat, i \in Nat :
              /\ o = OldFraming /\ s = Append(sent, m) /\ i = Len(sent) + 1
              /\ i \in 1 .. Len(s) /\ s[i] = m
              => Leads(s, o, v, Begin(o, i), Begin(o, i + 1))
    PROVE  Inv'
<1>1. wire \in Seq(Byte) /\ readbuff \in Seq(Byte)
  BY WireTypes
<1>2. PICK o \in Nat : o = OldFraming
  BY Numbers
<1>3. PICK t : t = Append(sent, m)
  OBVIOUS
<1>4. sent \in Seq(Payloads) /\ Len(sent) \in Nat
  BY Numbers DEF Inv, WriterInv
<1>5. PICK i \in Nat : i = Len(sent) + 1
  BY <1>4
<1>6. t \in Seq(Payloads) /\ Len(t) = i /\ t[i] = m /\ i \in 1 .. Len(t)
  <2>1. t \in Seq(Payloads) /\ Len(t) = Len(sent) + 1 /\ t[Len(sent) + 1] = m
    BY <1>3, <1>4, AppendProperties
  <2>2. i \in 1 .. i
    BY <1>4, <1>5
  <2>3. QED
    BY <1>5, <2>1, <2>2
<1>7. Leads(t, o, v, Begin(o, i), Begin(o, i + 1))
  BY <1>2, <1>3, <1>5, <1>6
<1>8. v \in Seq(Byte)
  BY <1>7, LeadsType
<1>9. wire' \in Seq(Byte)
  BY <1>1, <1>8, ConcatProperties
<1>10. EndsInv' /\ ReaderInv'
  BY <1>9, SentKeeps
<1>11. WriterInv'
  BY WriterKeeps DEF Inv, WriterInv
<1>12. StreamAt(sent, o, framing11, readbuff \o wire, <<>>, Len(received), rx)
  BY <1>2 DEF Inv, StreamInv
<1>13. StreamAt(t, o, framing11, (readbuff \o wire) \o v, <<>>, Len(received), rx)
  BY <1>3, <1>4, <1>5, <1>6, <1>7, <1>12, StreamWritten
<1>14. (readbuff \o wire) \o v = readbuff \o wire'
  BY <1>1, <1>8, ConcatAssociative
<1>15. OldFraming' = o
  BY <1>2 DEF ends, OldFraming, Opening, ByServer
<1>16. StreamInv'
  BY <1>3, <1>13, <1>14, <1>15 DEF StreamInv, reader
<1>17. QED
  BY <1>10, <1>11, <1>16 DEF Inv

\* Nothing is on the way when all that were sent have ended; so it is in the beginning.
LEMMA NothingSent ==
    ASSUME Inv, sent = <<>>
    PROVE  wire = <<>> /\ outQ = <<>>
<1>1. PICK x, y : /\ Leads(sent, OldFraming, readbuff \o wire, x, y)
                  /\ ReaderAt(sent, Len(received), x, rx)
  BY DEF Inv, StreamInv, StreamAt
<1>2. x.msg \notin 1 .. Len(sent)
  BY DEF Inv
<1>3. readbuff \o wire = <<>>
  BY <1>1, <1>2, LeadsWithin
<1>4. QED
  BY <1>3, WireTypes, ConcatEqualIffEmpty DEF Inv, WriterInv

\* The ncx-connect of netconf-subsystem (Connect).
LEMMA ConnectKeeps ==
    ASSUME Inv, NEW m \in Payloads, Connect(m)
    PROVE  Inv'
<1>1. /\ ~ByServer /\ sent = <<>> /\ InBounds(m) /\ wire' = m \o EOM /\ sent' = <<m>>
      /\ UNCHANGED <<ends, reader>> /\ UNCHANGED <<greeted, framing11, buffstart, outQ>>
  BY DEF Connect
<1>2. wire = <<>> /\ outQ = <<>>
  BY <1>1, NothingSent
<1>3. PICK v : v = m \o EOM
  OBVIOUS
<1>4. v \in Seq(Byte)
  BY <1>3, PayloadType, MarkedParts
<1>5. wire' = wire \o v
  BY <1>1, <1>2, <1>3, <1>4, ConcatEmptySeq
<1>6. sent' = Append(sent, m)
  BY <1>1
<1>7. Len(sent) = 0 /\ Opening = 2
  BY <1>1 DEF Opening
<1>8. Len(sent) + 1 <= OldFraming
  <2>1. ~(framing11 /\ Len(sent) >= Opening)
    BY <1>7
  <2>2. QED
    BY <1>1, <2>1, NextFraming
<1>9. ASSUME NEW s \in Seq(Payloads), NEW o \in Nat, NEW i \in Nat,
             o = OldFraming, i = Len(sent) + 1, i \in 1 .. Len(s), s[i] = m
      PROVE  Leads(s, o, v, Begin(o, i), Begin(o, i + 1))
  BY <1>3, <1>8, <1>9, MarkedLeads
<1>10. QED
  BY <1>1, <1>2, <1>5, <1>6, <1>9, WrittenKeeps

\* Messages of a foreign sender (SendForeign).
LEMMA SendForeignKeeps ==
    ASSUME Inv, NEW m \in Payloads, NEW cut \in Cuts, SendForeign(m, cut)
    PROVE  Inv'
<1> DEFINE first == SubSeq(m, 1, Min({cut, Len(m)}))
           rest == SubSeq(m, cut + 1, Len(m))
           chunks == StartOfChunk(Len(first)) \o first
                     \o (IF rest = <<>> THEN <<>> ELSE StartOfChunk(Len(rest)) \o rest)
                     \o EndOfChunks
<1>1. PICK v : v = IF framing11 /\ Len(sent) >= Opening THEN chunks ELSE m \o EOM
  OBVIOUS
<1>2. wire' = wire \o v
  BY <1>1 DEF SendForeign
<1>3. /\ Foreign /\ MaySend(m) /\ sent' = Append(sent, m)
      /\ UNCHANGED <<ends, reader>> /\ UNCHANGED <<greeted, framing11, buffstart, outQ>>
  BY DEF SendForeign
<1>4. outQ = <<>>
  BY <1>3 DEF Inv, WriterInv
<1>5. cut \in Nat \ {0}
  BY FramingAssumption
<1>6. ASSUME NEW s \in Seq(Payloads), NEW o \in Nat, NEW i \in Nat,
             o = OldFraming, i = Len(sent) + 1, i \in 1 .. Len(s), s[i] = m
      PROVE  Leads(s, o, v, Begin(o, i), Begin(o, i + 1))
  <2>1. CASE framing11 /\ Len(sent) >= Opening
    <3>1. i > o
      BY <1>3, <1>6, <2>1, NextFraming
    <3>2. Leads(s, o, chunks, Begin(o, i), Begin(o, i + 1))
      BY <1>5, <1>6, <3>1, ForeignLeads
    <3>3. QED
      BY <1>1, <2>1, <3>2
  <2>2. CASE ~(framing11 /\ Len(sent) >= Opening)
    <3>1. i <= o
      BY <1>3, <1>6, <2>2, NextFraming
    <3>2. Leads(s, o, m \o EOM, Begin(o, i), Begin(o, i + 1))
      BY <1>6, <3>1, MarkedLeads
    <3>3. QED
      BY <1>1, <2>2, <3>2
  <2>3. QED
    BY <2>1, <2>2
<1> HIDE DEF first, rest, chunks
<1>7. QED
  BY <1>2, <1>3, <1>4, <1>6, WrittenKeeps

\* The hello of the receiver is handled (Greet).
LEMMA GreetKeeps ==
    ASSUME Inv, Greet
    PROVE  Inv'
<1>1. /\ Foreign \/ (Len(sent) >= Opening /\ outQ = <<>>)
      /\ greeted' = TRUE /\ framing11' = agreed11 /\ buffstart' = InitStart(agreed11)
      /\ outQ' = outQ /\ sent' = sent /\ wire' = wire /\ UNCHANGED <<ends, reader>>
  BY DEF Greet
<1>2. /\ sender' = sender /\ enabled11' = enabled11 /\ agreed11' = agreed11
      /\ protocol' = protocol /\ rx' = rx /\ readbuff' = readbuff /\ indefer' = indefer
      /\ reading' = reading /\ received' = received
  BY <1>1 DEF ends, reader
<1>3. EndsInv'
  BY <1>2 DEF Inv, EndsInv
<1>4. (ByServer <=> ByServer') /\ Opening' = Opening /\ (Foreign <=> Foreign')
  BY <1>2 DEF Opening, ByServer, Foreign
<1>5. ReaderInv'
  BY <1>1, <1>2, <1>4 DEF Inv, ReaderInv, IsFirstReady, Accepting
<1>6. outQ = <<>>
  BY <1>1 DEF Inv, WriterInv
<1>7. WriterInv'
  BY <1>1, <1>2, <1>4, <1>6 DEF Inv, WriterInv, EndsInv, InitStart
<1>8. StreamAt(sent, OldFraming, framing11, readbuff \o wire, <<>>, Len(received), rx)
  BY <1>6 DEF Inv, StreamInv
<1>9. StreamAt(sent, OldFraming, agreed11, readbuff \o wire, <<>>, Len(received), rx)
  BY <1>8, StreamGreeted
<1>10. OldFraming' = OldFraming
  BY <1>2, <1>4 DEF OldFraming
<1>11. StreamInv'
  BY <1>1, <1>2, <1>6, <1>9, <1>10 DEF StreamInv
<1>12. QED
  BY <1>3, <1>5, <1>7, <1>11 DEF Inv

\* A buffer is written (WriteBuff).
LEMMA WriteKeeps ==
    ASSUME Inv, WriteBuff
    PROVE  Inv'
<1>1. /\ outQ # <<>> /\ wire' = wire \o Framed(Head(outQ)) /\ outQ' = Tail(outQ)
      /\ greeted' = greeted /\ framing11' = framing11 /\ buffstart' = buffstart /\ sent' = sent
      /\ UNCHANGED <<ends, reader>>
  BY DEF WriteBuff
<1>2. /\ sender' = sender /\ enabled11' = enabled11 /\ agreed11' = agreed11
      /\ protocol' = protocol /\ rx' = rx /\ readbuff' = readbuff /\ indefer' = indefer
      /\ reading' = reading /\ received' = received
  BY <1>1 DEF ends, reader
<1>3. EndsInv'
  BY <1>2 DEF Inv, EndsInv
<1>4. (ByServer <=> ByServer') /\ Opening' = Opening /\ (Foreign <=> Foreign')
  BY <1>2 DEF Opening, ByServer, Foreign
<1>5. StreamAt(sent, OldFraming, framing11, readbuff \o wire, outQ, Len(received), rx)
  BY DEF Inv, StreamInv
<1>6. PICK v : v = Bytes(framing11, Head(outQ))
  OBVIOUS
<1>7. /\ Head(outQ) \in OutBuffer(framing11) /\ v \in Seq(Byte)
      /\ StreamAt(sent, OldFraming, framing11, (readbuff \o wire) \o v, Tail(outQ), Len(received), rx)
  BY <1>1, <1>5, <1>6, StreamMoved
<1>8. Framed(Head(outQ)) = v
  <2>1. framing11 \in BOOLEAN
    BY DEF Inv, WriterInv, EndsInv
  <2>2. QED
    BY <1>6, <1>7, <2>1, FramedBytes
<1>9. wire' = wire \o v
  BY <1>1, <1>8
<1>10. wire \in Seq(Byte) /\ readbuff \in Seq(Byte)
  BY WireTypes
<1>11. wire' \in Seq(Byte) /\ (readbuff \o wire) \o v = readbuff \o wire'
  BY <1>7, <1>9, <1>10, ConcatProperties, ConcatAssociative
<1>12. ReaderInv'
  BY <1>1, <1>2, <1>4, <1>11 DEF Inv, ReaderInv, IsFirstReady, Accepting
<1>13. ~Foreign /\ sent # <<>>
  BY <1>1 DEF Inv, WriterInv
<1>14. WriterInv'
  BY <1>1, <1>2, <1>4, <1>13 DEF Inv, WriterInv, InitStart
<1>15. OldFraming' = OldFraming
  BY <1>2, <1>4 DEF OldFraming
<1>16. StreamInv'
  BY <1>1, <1>2, <1>7, <1>11, <1>15 DEF StreamInv
<1>17. QED
  BY <1>3, <1>12, <1>14, <1>16 DEF Inv

\* The receiver does not change the sender.
LEMMA ReceiverKeeps ==
    ASSUME Inv, UNCHANGED <<ends, writer>>, received # <<>> => received' # <<>>
    PROVE  /\ EndsInv' /\ WriterInv' /\ Opening' = Opening /\ OldFraming' = OldFraming
           /\ sent' = sent /\ framing11' = framing11 /\ outQ' = outQ
           /\ enabled11' = enabled11 /\ agreed11' = agreed11 /\ (ByServer' <=> ByServer)
<1>1. /\ sender' = sender /\ enabled11' = enabled11 /\ agreed11' = agreed11
      /\ greeted' = greeted /\ framing11' = framing11 /\ buffstart' = buffstart
      /\ outQ' = outQ /\ sent' = sent
  BY DEF ends, writer
<1>2. EndsInv'
  BY <1>1 DEF Inv, EndsInv
<1>3. (ByServer <=> ByServer') /\ Opening' = Opening /\ (Foreign <=> Foreign')
  BY <1>1 DEF Opening, ByServer, Foreign
<1>4. OldFraming' = OldFraming
  BY <1>1, <1>3 DEF OldFraming
<1>5. WriterInv'
  BY <1>1, <1>3 DEF Inv, WriterInv, InitStart
<1>6. QED
  BY <1>1, <1>2, <1>3, <1>4, <1>5

\* Until the hello is handled a reader that has a message reads nothing more, and if
\* it goes on reading there is nothing.
LEMMA ReadWaits ==
    ASSUME Inv, MayRead, enabled11, protocol = "none"
    PROVE  ~IsFirstReady(rx)
<1> SUFFICES ASSUME IsFirstReady(rx)
             PROVE  FALSE
  OBVIOUS
<1>1. reading /\ wire # <<>>
  BY DEF MayRead, IsReady, IsFirstReady
<1>2. ByServer
  BY <1>1 DEF Inv, ReaderInv
<1>3. Opening = 1 /\ Len(received) \in Nat /\ Len(sent) \in Nat
  BY <1>2, Numbers
<1>4. Len(received) = 0
  <2>1. Len(received) < Opening
    BY DEF Inv, ReaderInv
  <2>2. QED
    BY <1>3, <2>1
<1>5. received = <<>>
  BY <1>4, EmptySeq DEF Inv, ReaderInv
<1>6. Len(sent) <= 1
  BY <1>2, <1>3, <1>5 DEF Inv, WriterInv
<1>7. PICK x, y : /\ Leads(sent, OldFraming, readbuff \o wire, x, y)
                  /\ ReaderAt(sent, Len(received), x, rx)
  BY DEF Inv, StreamInv, StreamAt
<1>8. x.msg > 1 /\ x.msg \in Nat
  <2>1. sent \in Seq(Payloads)
    BY DEF Inv, WriterInv
  <2>2. x.msg \in Nat /\ x.msg > Len(received) + 1
    BY <1>7, <2>1, ReaderQueue DEF IsFirstReady
  <2>3. QED
    BY <1>4, <2>2
<1>9. x.msg \notin 1 .. Len(sent)
  BY <1>3, <1>6, <1>8
<1>10. readbuff \o wire = <<>>
  BY <1>7, <1>9, LeadsWithin
<1>11. QED
  BY <1>1, <1>10, WireTypes, ConcatEqualIffEmpty

\* Bytes are read (Read).
LEMMA ReadKeeps ==
    ASSUME Inv, NEW size \in 1 .. ReadSize, Read(size)
    PROVE  Inv'
<1>1. /\ MayRead /\ ~indefer /\ size <= Len(wire) /\ readbuff' = SubSeq(wire, 1, size)
      /\ wire' = SubSeq(wire, size + 1, Len(wire)) /\ reading' = (ToManager /\ size = ReadSize)
      /\ protocol' = protocol /\ rx' = rx /\ indefer' = indefer /\ received' = received
      /\ UNCHANGED <<ends, writer>>
  BY DEF Read
<1>2. /\ EndsInv' /\ WriterInv' /\ Opening' = Opening /\ OldFraming' = OldFraming
      /\ sent' = sent /\ framing11' = framing11 /\ outQ' = outQ
      /\ enabled11' = enabled11 /\ agreed11' = agreed11 /\ (ByServer' <=> ByServer)
  BY <1>1, ReceiverKeeps
<1>3. readbuff = <<>>
  BY <1>1 DEF MayRead, Accepting
<1>4. wire \in Seq(Byte) /\ readbuff \o wire = wire
  BY <1>3, WireTypes, ConcatEmptySeq
<1>5. PICK n \in Nat, k \in Nat : n = Len(wire) /\ k = size /\ 1 <= k /\ k <= n /\ k <= ReadSize
  <2>1. ReadSize \in Nat
    BY FramingAssumption
  <2>2. QED
    BY <1>1, <1>4, <2>1, LenProperties
<1>6. /\ readbuff' \in Seq(Byte) /\ Len(readbuff') = k
      /\ wire' \in Seq(Byte)
  <2>1. \A i \in 1 .. n : wire[i] \in Byte
    BY <1>4, <1>5, ElementOfSeq
  <2>2. (\A i \in 1 .. k : wire[i] \in Byte) /\ \A i \in k + 1 .. n : wire[i] \in Byte
    BY <1>5, <2>1
  <2>3. SubSeq(wire, 1, k) \in Seq(Byte) /\ Len(SubSeq(wire, 1, k)) = IF 1 <= k THEN k - 1 + 1 ELSE 0
    BY <2>2, SubSeqProperties
  <2>4. SubSeq(wire, k + 1, n) \in Seq(Byte)
    BY <2>2, SubSeqProperties
  <2>5. QED
    BY <1>1, <1>5, <2>3, <2>4
<1>7. readbuff' \o wire' = wire
  <2>1. /\ 1 \in 1 .. Len(wire) + 1 /\ k \in 1 - 1 .. Len(wire) /\ n \in k .. Len(wire)
    BY <1>5
  <2>2. SubSeq(wire, 1, k) \o SubSeq(wire, k + 1, n) = SubSeq(wire, 1, n)
    BY <1>4, <2>1, ConcatAdjacentSubSeq
  <2>3. SubSeq(wire, 1, n) = wire
    BY <1>4, <1>5, SubSeqFull
  <2>4. QED
    BY <1>1, <1>5, <2>2, <2>3
<1>8. enabled11 /\ protocol = "none" => ~IsFirstReady(rx)
  BY <1>1, ReadWaits
<1>9. ReaderInv'
  BY <1>1, <1>2, <1>5, <1>6, <1>8 DEF Inv, ReaderInv, IsFirstReady, ToManager
<1>10. StreamInv'
  BY <1>1, <1>2, <1>4, <1>7 DEF Inv, StreamInv
<1>11. QED
  BY <1>2, <1>9, <1>10 DEF Inv

\* What was deferred is taken (TakeDeferred), or there is nothing to read (NothingRead).
LEMMA TakeKeeps ==
    ASSUME Inv, TakeDeferred \/ NothingRead
    PROVE  Inv'
<1>1. /\ reading' = FALSE /\ protocol' = protocol /\ rx' = rx /\ readbuff' = readbuff /\ wire' = wire
      /\ received' = received /\ UNCHANGED <<ends, writer>>
  BY DEF TakeDeferred, NothingRead
<1>2. /\ EndsInv' /\ WriterInv' /\ Opening' = Opening /\ OldFraming' = OldFraming
      /\ sent' = sent /\ framing11' = framing11 /\ outQ' = outQ
      /\ enabled11' = enabled11 /\ agreed11' = agreed11 /\ (ByServer' <=> ByServer)
  BY <1>1, ReceiverKeeps
<1>3. indefer' \in BOOLEAN
  BY DEF TakeDeferred, NothingRead, Inv, ReaderInv
<1>4. enabled11 /\ protocol = "none" /\ IsFirstReady(rx) => ~Accepting'
  <2>1. CASE TakeDeferred
    BY <2>1, ReadWaits DEF TakeDeferred
  <2>2. CASE NothingRead
    BY <2>2 DEF NothingRead, Inv, ReaderInv, Accepting
  <2>3. QED
    BY <2>1, <2>2
<1>5. ReaderInv'
  BY <1>1, <1>2, <1>3, <1>4 DEF Inv, ReaderInv, IsFirstReady
<1>6. StreamInv'
  BY <1>1, <1>2 DEF Inv, StreamInv
<1>7. QED
  BY <1>2, <1>5, <1>6 DEF Inv

\* The first of two sequences, and both.
LEMMA HeadOfBoth ==
    ASSUME NEW a \in Seq(Byte), NEW b \in Seq(Byte), a # <<>>
    PROVE  /\ a \o b # <<>> /\ Head(a \o b) = Head(a) /\ Tail(a \o b) = Tail(a) \o b
           /\ Tail(a) \in Seq(Byte) /\ Len(Tail(a)) + 1 = Len(a) /\ Len(a) \in Nat
<1>1. a \o b # <<>>
  BY ConcatEqualIffEmpty
<1>2. PICK h, t : h = Head(a) /\ t = Tail(a)
  OBVIOUS
<1>3. PICK n \in Nat, k \in Nat : n = Len(a) /\ k = Len(b) /\ n > 0
  BY EmptySeq, LenProperties
<1>4. t \in Seq(Byte) /\ Len(t) = n - 1 /\ \A i \in 1 .. Len(t) : t[i] = a[i + 1]
  BY <1>2, <1>3, HeadTailProperties
<1>5. PICK c \in Seq(Byte) : /\ c = a \o b /\ Len(c) = n + k
                             /\ \A i \in 1 .. n + k : c[i] = IF i <= n THEN a[i] ELSE b[i - n]
  <2>1. /\ a \o b \in Seq(Byte) /\ Len(a \o b) = Len(a) + Len(b)
        /\ \A i \in 1 .. Len(a) + Len(b) : (a \o b)[i] = IF i <= Len(a) THEN a[i] ELSE b[i - Len(a)]
    BY ConcatProperties
  <2>2. /\ a \o b \in Seq(Byte) /\ Len(a \o b) = n + k
        /\ \A i \in 1 .. n + k : (a \o b)[i] = IF i <= n THEN a[i] ELSE b[i - n]
    BY <1>3, <2>1
  <2>3. QED
    BY <2>2, Zenon
<1>6. Tail(c) \in Seq(Byte) /\ Len(Tail(c)) = n + k - 1 /\ \A i \in 1 .. Len(Tail(c)) : Tail(c)[i] = c[i + 1]
  BY <1>1, <1>5, HeadTailProperties
<1>7. PICK d \in Seq(Byte) : d = Tail(c) /\ Len(d) = n + k - 1 /\ \A i \in 1 .. n + k - 1 : d[i] = c[i + 1]
  BY <1>6, Zenon
<1>8. PICK e \in Seq(Byte) : /\ e = t \o b /\ Len(e) = n - 1 + k
                             /\ \A i \in 1 .. n - 1 + k : e[i] = IF i <= n - 1 THEN t[i] ELSE b[i - (n - 1)]
  <2>1. /\ t \o b \in Seq(Byte) /\ Len(t \o b) = Len(t) + Len(b)
        /\ \A i \in 1 .. Len(t) + Len(b) : (t \o b)[i] = IF i <= Len(t) THEN t[i] ELSE b[i - Len(t)]
    BY <1>4, ConcatProperties
  <2>2. /\ t \o b \in Seq(Byte) /\ Len(t \o b) = n - 1 + k
        /\ \A i \in 1 .. n - 1 + k : (t \o b)[i] = IF i <= n - 1 THEN t[i] ELSE b[i - (n - 1)]
    BY <1>3, <1>4, <2>1
  <2>3. QED
    BY <2>2, Zenon
<1>9. ASSUME NEW i \in 1 .. n + k - 1
      PROVE  d[i] = e[i]
  <2>1. i \in Nat /\ i + 1 \in 1 .. n + k /\ i \in 1 .. n - 1 + k /\ i + 1 - n = i - (n - 1)
    OBVIOUS
  <2>2. d[i] = IF i + 1 <= n THEN a[i + 1] ELSE b[i - (n - 1)]
    BY <1>5, <1>7, <2>1, SMTT(30)
  <2>3. e[i] = IF i <= n - 1 THEN t[i] ELSE b[i - (n - 1)]
    BY <1>8, <2>1
  <2>4. i <= n - 1 => i \in 1 .. Len(t) /\ t[i] = a[i + 1]
    BY <1>3, <1>4, <2>1
  <2>5. i + 1 <= n <=> i <= n - 1
    BY <2>1
  <2>6. QED
    BY <2>2, <2>3, <2>4, <2>5
<1>10. d = e
  <2>1. Len(d) = Len(e) /\ \A i \in 1 .. Len(d) : d[i] = e[i]
    BY <1>3, <1>7, <1>8, <1>9, SMTT(30)
  <2>2. QED
    BY <2>1, SeqEqual
<1>11. Head(c) = Head(a)
  <2>1. 1 \in 1 .. n + k /\ 1 <= n
    BY <1>3
  <2>2. c[1] = a[1]
    BY <1>5, <2>1
  <2>3. Head(c) = c[1] /\ Head(a) = a[1]
    BY <1>1, <1>5
  <2>4. QED
    BY <2>2, <2>3
<1>12. n - 1 + 1 = n
  OBVIOUS
<1>13. QED
  BY <1>1, <1>2, <1>3, <1>4, <1>5, <1>7, <1>8, <1>10, <1>11, <1>12

\* Which reader the byte at hand is for, and what it leads to (AcceptByte).
LEMMA AcceptLeads ==
    ASSUME Inv, Accepting, NEW new,
           new = IF protocol = "11" THEN AcceptV11(rx, Head(readbuff)) ELSE AcceptV10(rx, Head(readbuff))
    PROVE  /\ StreamAt(sent, OldFraming, framing11, Tail(readbuff) \o wire, outQ, Len(received), new)
           /\ ~IsFirstReady(rx) /\ LastMsg(new).ready => Len(new.msgQ) = 1
           /\ ~IsFirstReady(rx) /\ IsFirstReady(new) => LastMsg(new).ready
<1>1. PICK u : u = readbuff \o wire
  OBVIOUS
<1>2. u # <<>> /\ Head(u) = Head(readbuff) /\ Tail(u) = Tail(readbuff) \o wire
  BY <1>1, WireTypes, HeadOfBoth DEF Accepting
<1>3. PICK o \in Nat, R \in Nat : o = OldFraming /\ R = Len(received)
  BY Numbers
<1>4. StreamAt(sent, o, framing11, u, outQ, R, rx)
  BY <1>1, <1>3 DEF Inv, StreamInv
<1>5. \/ R >= o /\ new = AcceptV11(rx, Head(u))
      \/ Len(sent) <= o /\ new = AcceptV10(rx, Head(u))
      \/ R < o /\ ~IsFirstReady(rx) /\ new = AcceptV10(rx, Head(u))
  <2>1. /\ protocol = IF R < Opening THEN "none" ELSE IF agreed11 THEN "11" ELSE "10"
        /\ Len(sent) <= MaxMessages /\ (agreed11 => enabled11)
        /\ enabled11 /\ protocol = "none" => ~IsFirstReady(rx)
    BY <1>3 DEF Inv, ReaderInv, WriterInv, EndsInv
  <2>2. /\ Opening \in Nat /\ MaxMessages \in Nat /\ Len(sent) \in Nat
        /\ agreed11 => o = Opening
        /\ ~agreed11 => o = MaxMessages + 1
    BY <1>3, Numbers
  <2>3. CASE ~agreed11
    <3>1. Len(sent) <= o
      BY <2>1, <2>2, <2>3
    <3>2. protocol # "11"
      BY <2>1, <2>3
    <3>3. QED
      BY <1>2, <3>1, <3>2
  <2>4. CASE agreed11 /\ R < Opening
    <3>1. protocol = "none" /\ ~IsFirstReady(rx) /\ R < o
      BY <2>1, <2>2, <2>4
    <3>2. QED
      BY <1>2, <3>1
  <2>5. CASE agreed11 /\ ~(R < Opening)
    <3>1. protocol = "11" /\ R >= o
      BY <1>3, <2>1, <2>2, <2>5
    <3>2. QED
      BY <1>2, <3>1
  <2>6. QED
    BY <2>3, <2>4, <2>5
<1>6. sent \in Seq(Payloads)
  BY DEF Inv, WriterInv
<1>7. /\ StreamAt(sent, o, framing11, Tail(u), outQ, R, new)
      /\ ~IsFirstReady(rx) /\ LastMsg(new).ready => Len(new.msgQ) = 1
      /\ ~IsFirstReady(rx) /\ IsFirstReady(new) => LastMsg(new).ready
  <2>1. Accepts(sent, o, Head(u), R, rx, new)
    BY <1>5 DEF Accepts
  <2>2. QED
    BY <1>2, <1>4, <1>6, <2>1, StreamAccepted, Zenon
<1>8. QED
  BY <1>2, <1>3, <1>7

\* A byte is accepted (AcceptByte).
LEMMA AcceptKeeps ==
    ASSUME Inv, AcceptByte
    PROVE  Inv'
<1>1. /\ Accepting /\ readbuff' = Tail(readbuff) /\ wire' = wire
      /\ reading' = (reading /\ ~indefer') /\ protocol' = protocol /\ received' = received
      /\ UNCHANGED <<ends, writer>>
  BY DEF AcceptByte
<1>2. PICK new :
          /\ new = IF protocol = "11" THEN AcceptV11(rx, Head(readbuff)) ELSE AcceptV10(rx, Head(readbuff))
          /\ rx' = IF AtHello(new) /\ Len(new.msgQ) # 1 THEN [new EXCEPT !.res = "assertion"] ELSE new
          /\ indefer' = (AtHello(new) /\ Len(readbuff) > 1)
  BY DEF AcceptByte
<1>3. /\ StreamAt(sent, OldFraming, framing11, Tail(readbuff) \o wire, outQ, Len(received), new)
      /\ ~IsFirstReady(rx) /\ LastMsg(new).ready => Len(new.msgQ) = 1
      /\ ~IsFirstReady(rx) /\ IsFirstReady(new) => LastMsg(new).ready
  BY <1>1, <1>2, AcceptLeads
<1>4. enabled11 /\ protocol = "none" => ~IsFirstReady(rx)
  BY <1>1 DEF Inv, ReaderInv
<1>5. rx' = new
  BY <1>2, <1>3, <1>4 DEF AtHello
<1>6. /\ EndsInv' /\ WriterInv' /\ Opening' = Opening /\ OldFraming' = OldFraming
      /\ sent' = sent /\ framing11' = framing11 /\ outQ' = outQ
      /\ enabled11' = enabled11 /\ agreed11' = agreed11 /\ (ByServer' <=> ByServer)
  BY <1>1, ReceiverKeeps
<1>7. StreamInv'
  BY <1>1, <1>3, <1>5, <1>6 DEF StreamInv
<1>8. readbuff' \in Seq(Byte) /\ Len(readbuff') + 1 = Len(readbuff) /\ Len(readbuff) \in Nat
      /\ Len(readbuff') \in Nat
  <2>1. /\ Tail(readbuff) \in Seq(Byte) /\ Len(Tail(readbuff)) + 1 = Len(readbuff)
        /\ Len(readbuff) \in Nat
    BY <1>1, WireTypes, HeadOfBoth DEF Accepting
  <2>2. QED
    BY <1>1, <2>1, LenProperties
<1>9. Len(readbuff') <= ReadSize
  <2>1. Len(readbuff) <= ReadSize /\ ReadSize \in Nat
    BY FramingAssumption DEF Inv, ReaderInv
  <2>2. QED
    BY <1>8, <2>1
<1>10. indefer' \in BOOLEAN /\ reading' \in BOOLEAN /\ (indefer' => ~reading') /\ (reading' => reading)
  <2>1. reading \in BOOLEAN /\ indefer' \in BOOLEAN
    BY <1>2 DEF Inv, ReaderInv
  <2>2. QED
    BY <1>1, <2>1
<1>11. ASSUME enabled11, protocol = "none", IsFirstReady(new)
       PROVE  ~Accepting'
  <2>1. AtHello(new)
    BY <1>3, <1>4, <1>11 DEF AtHello
  <2>2. Len(readbuff) > 1 => indefer'
    BY <1>2, <2>1
  <2>3. ~(Len(readbuff) > 1) => Len(readbuff') = 0
    BY <1>8
  <2>4. ~(Len(readbuff) > 1) => readbuff' = <<>>
    BY <1>8, <2>3, EmptySeq
  <2>5. QED
    BY <2>2, <2>4 DEF Accepting
<1>12. ReaderInv'
  BY <1>1, <1>5, <1>6, <1>8, <1>9, <1>10, <1>11, WireTypes DEF Inv, ReaderInv, IsFirstReady
<1>13. QED
  BY <1>6, <1>7, <1>12 DEF Inv

\* A message is handed on (Dispatch): it is the next one.
LEMMA DispatchNext ==
    ASSUME Inv, Dispatch
    PROVE  /\ IsFirstReady(rx) /\ Len(received) + 1 <= Len(sent) /\ Len(received) \in Nat
           /\ received' = Append(received, sent[Len(received) + 1])
           /\ sent[Len(received) + 1] \in Payloads
           /\ StreamAt(sent, OldFraming, framing11, readbuff \o wire, outQ, Len(received) + 1, rx')
<1>1. /\ received' = Append(received, Text(Head(rx.msgQ))) /\ IsFirstReady(rx)
      /\ rx' = [rx EXCEPT !.msgQ = Tail(@)]
  BY DEF Dispatch, IsReady, IsFirstReady
<1>2. sent \in Seq(Payloads) /\ Len(sent) \in Nat /\ Len(received) \in Nat
  BY Numbers DEF Inv, WriterInv
<1>3. StreamAt(sent, OldFraming, framing11, readbuff \o wire, outQ, Len(received), rx)
  BY DEF Inv, StreamInv
<1>4. /\ Len(received) + 1 <= Len(sent) /\ Text(Head(rx.msgQ)) = sent[Len(received) + 1]
      /\ StreamAt(sent, OldFraming, framing11, readbuff \o wire, outQ, Len(received) + 1,
                  [rx EXCEPT !.msgQ = Tail(rx.msgQ)])
  BY <1>1, <1>2, <1>3, StreamTaken
<1>5. Len(received) + 1 \in 1 .. Len(sent)
  BY <1>2, <1>4
<1>6. sent[Len(received) + 1] \in Payloads
  BY <1>2, <1>5, ElementOfSeq
<1>7. QED
  BY <1>1, <1>2, <1>4, <1>6

\* Handing a message to the XML reader keeps the invariant: the message is the next
\* one that was sent, and the hello changes the protocol of the reader.
LEMMA DispatchKeeps ==
    ASSUME Inv, Dispatch
    PROVE  Inv'
<1>1. /\ protocol' = IF Len(received') # Opening THEN protocol ELSE IF agreed11 THEN "11" ELSE "10"
      /\ readbuff' = readbuff /\ wire' = wire /\ indefer' = indefer /\ reading' = reading
      /\ ~Accepting /\ UNCHANGED <<ends, writer>>
  BY DEF Dispatch
<1>2. PICK R \in Nat, m \in Payloads :
          /\ R = Len(received) /\ R + 1 <= Len(sent) /\ m = sent[R + 1] /\ received' = Append(received, m)
          /\ StreamAt(sent, OldFraming, framing11, readbuff \o wire, outQ, R + 1, rx')
  BY DispatchNext
<1>3. received \in Seq(Payloads) /\ \A i \in 1 .. Len(received) : received[i] = sent[i]
  BY DEF Inv, ReaderInv
<1>4. /\ received' \in Seq(Payloads) /\ Len(received') = R + 1 /\ received' # <<>>
      /\ \A i \in 1 .. R : received'[i] = sent[i] /\ received'[R + 1] = m
  <2>1. PICK t : t = Append(received, m)
    OBVIOUS
  <2>2. /\ t \in Seq(Payloads) /\ Len(t) = Len(received) + 1 /\ t # <<>>
        /\ \A i \in 1 .. Len(received) : t[i] = received[i]
        /\ t[Len(received) + 1] = m
    BY <1>3, <2>1, AppendProperties
  <2>3. \A i \in 1 .. R : t[i] = sent[i]
    BY <1>2, <1>3, <2>2
  <2>4. QED
    BY <1>2, <2>1, <2>2, <2>3
<1>5. /\ EndsInv' /\ WriterInv' /\ Opening' = Opening /\ OldFraming' = OldFraming
      /\ sent' = sent /\ framing11' = framing11 /\ outQ' = outQ
      /\ enabled11' = enabled11 /\ agreed11' = agreed11 /\ (ByServer' <=> ByServer)
  BY <1>1, <1>4, ReceiverKeeps
<1>6. StreamInv'
  BY <1>1, <1>2, <1>4, <1>5 DEF StreamInv
<1>7. \A i \in 1 .. R + 1 : received'[i] = sent[i]
  <2>1. \A i \in 1 .. R + 1 : i \in 1 .. R \/ i = R + 1
    OBVIOUS
  <2>2. received'[R + 1] = sent[R + 1]
    BY <1>2, <1>3, AppendProperties
  <2>3. QED
    BY <1>4, <2>1, <2>2
<1>8. protocol' = IF Len(received') < Opening THEN "none" ELSE IF agreed11 THEN "11" ELSE "10"
  <2>1. protocol = IF R < Opening THEN "none" ELSE IF agreed11 THEN "11" ELSE "10"
    BY <1>2 DEF Inv, ReaderInv
  <2>2. Opening \in {1, 2}
    BY Numbers
  <2>3. QED
    BY <1>1, <1>4, <2>1, <2>2
<1>9. ReaderInv'
  BY <1>1, <1>2, <1>4, <1>5, <1>7, <1>8 DEF Inv, ReaderInv, Accepting
<1>10. QED
  BY <1>5, <1>6, <1>9 DEF Inv

\* In the beginning nothing was sent, and the reader is before the first message.
LEMMA InitInv ==
    ASSUME Init
    PROVE  Inv
<1>1. /\ sent = <<>> /\ received = <<>> /\ wire = <<>> /\ readbuff = <<>> /\ outQ = <<>>
      /\ greeted = FALSE /\ framing11 = FALSE /\ buffstart = 0 /\ protocol = "none"
      /\ indefer = FALSE /\ reading = FALSE /\ rx = ReaderOf(<<>>, "idle", 0, <<>>)
  BY DEF Init, ReaderOf
<1>2. EndsInv
  <2>1. enabled11 \in BOOLEAN /\ (agreed11 = FALSE \/ agreed11 = enabled11)
    BY DEF Init
  <2>2. sender \in {"server", "manager", "foreign server", "foreign client"}
    BY DEF Init
  <2>3. agreed11 \in BOOLEAN /\ (agreed11 => enabled11)
    <3>1. CASE enabled11 = TRUE
      BY <2>1, <3>1
    <3>2. CASE enabled11 = FALSE
      BY <2>1, <3>2
    <3>3. QED
      BY <2>1, <3>1, <3>2
  <2>4. QED
    BY <2>1, <2>2, <2>3 DEF EndsInv
<1>3. Len(<<>>) = 0 /\ <<>> \in Seq(Payloads) /\ <<>> \in Seq(Byte) /\ <<>> \in Seq(Message)
  BY EmptySeq
<1>4. MaxMessages \in Nat /\ ReadSize \in Nat /\ Opening \in {1, 2}
  BY FramingAssumption DEF Opening
<1>5. WriterInv
  <2>1. greeted \in BOOLEAN /\ framing11 = (greeted /\ agreed11)
    BY <1>1, Zenon
  <2>2. buffstart = InitStart(framing11)
    BY <1>1, Zenon DEF InitStart
  <2>3. Len(sent) = 0 /\ sent \in Seq(Payloads)
    BY <1>1, <1>3, Zenon
  <2>4. Len(sent) <= MaxMessages /\ ~(Len(sent) > 1)
    BY <1>4, <2>3
  <2>5. QED
    BY <1>1, <2>1, <2>2, <2>3, <2>4, Zenon DEF WriterInv
<1>6. ReaderInv
  <2>1. Len(received) = 0 /\ Len(readbuff) = 0 /\ Len(sent) = 0 /\ received \in Seq(Payloads)
        /\ wire \in Seq(Byte) /\ readbuff \in Seq(Byte)
    BY <1>1, <1>3, Zenon
  <2>2. /\ Len(received) < Opening /\ Len(readbuff) <= ReadSize /\ Len(received) <= Len(sent)
        /\ \A i \in 1 .. Len(received) : received[i] = sent[i]
    BY <1>4, <2>1
  <2>3. ~Accepting
    BY <1>1, Zenon DEF Accepting
  <2>4. QED
    BY <1>1, <2>1, <2>2, <2>3, Zenon DEF ReaderInv
<1>7. PICK o \in Nat : o = OldFraming
  BY <1>4 DEF OldFraming
<1>8. PICK x : x = Begin(o, 1)
  OBVIOUS
<1>9. x \in Place /\ x.msg = 1 /\ AtBegin(x)
  BY <1>8, BeginParts DEF AtBegin
<1>10. ReaderAt(<<>>, 0, x, ReaderOf(<<>>, "idle", 0, <<>>))
  <2>1. Waits(<<>>, <<>>, 0)
    BY <1>3 DEF Waits
  <2>2. x.msg = 0 + Len(<<>>) + 1
    BY <1>3, <1>9
  <2>3. QED
    BY <1>9, <2>1, <2>2 DEF ReaderAt
<1>11. Leads(<<>>, o, <<>>, x, x) /\ OutLeads(<<>>, o, FALSE, <<>>, x, x)
  BY <1>9, LeadsNone, OutNone
<1>12. Begin(o, Len(<<>>) + 1) = x
  BY <1>3, <1>8
<1>13. StreamAt(<<>>, o, FALSE, <<>>, <<>>, 0, ReaderOf(<<>>, "idle", 0, <<>>))
  BY <1>10, <1>11, <1>12 DEF StreamAt
<1>14. readbuff \o wire = <<>>
  BY <1>1, <1>3, ConcatEmptySeq
<1>15. StreamInv
  BY <1>1, <1>3, <1>7, <1>13, <1>14 DEF StreamInv
<1>16. QED
  BY <1>2, <1>5, <1>6, <1>15 DEF Inv

\* Every step keeps the invariant.
LEMMA NextInv ==
    ASSUME Inv, [Next]_vars
    PROVE  Inv'
<1>1. CASE \E m \in Payloads : Connect(m)
  BY <1>1, ConnectKeeps
<1>2. CASE \E m \in Payloads : Send(m)
  BY <1>2, SendKeeps
<1>3. CASE \E m \in Payloads : \E cut \in Cuts : SendForeign(m, cut)
  BY <1>3, SendForeignKeeps
<1>4. CASE Greet
  BY <1>4, GreetKeeps
<1>5. CASE WriteBuff
  BY <1>5, WriteKeeps
<1>6. CASE \E size \in 1 .. ReadSize : Read(size)
  BY <1>6, ReadKeeps
<1>7. CASE TakeDeferred \/ NothingRead
  BY <1>7, TakeKeeps
<1>8. CASE AcceptByte
  BY <1>8, AcceptKeeps
<1>9. CASE Dispatch
  BY <1>9, DispatchKeeps
<1>10. CASE UNCHANGED vars
  <2>1. UNCHANGED <<ends, writer, wire, reader>>
    BY <1>10 DEF vars
  <2>2. /\ received' = received /\ protocol' = protocol /\ rx' = rx /\ readbuff' = readbuff
        /\ indefer' = indefer /\ reading' = reading /\ wire' = wire /\ UNCHANGED <<ends, writer>>
    BY <2>1 DEF reader
  <2>3. /\ EndsInv' /\ WriterInv' /\ Opening' = Opening /\ OldFraming' = OldFraming
        /\ sent' = sent /\ framing11' = framing11 /\ outQ' = outQ
        /\ enabled11' = enabled11 /\ agreed11' = agreed11 /\ (ByServer' <=> ByServer)
    BY <2>2, ReceiverKeeps
  <2>4. ReaderInv'
    BY <2>2, <2>3 DEF Inv, ReaderInv, IsFirstReady, Accepting
  <2>5. StreamInv'
    BY <2>2, <2>3 DEF Inv, StreamInv
  <2>6. QED
    BY <2>3, <2>4, <2>5 DEF Inv
<1>11. QED
  BY <1>1, <1>2, <1>3, <1>4, <1>5, <1>6, <1>7, <1>8, <1>9, <1>10 DEF Next, Sender, Receiver

\* The invariant holds in every state.
THEOREM Invariance == Spec => []Inv
<1>1. Init => Inv
  BY InitInv
<1>2. Inv /\ [Next]_vars => Inv'
  BY NextInv
<1>3. QED
  BY <1>1, <1>2, PTL DEF Spec

-----------------------------------------------------------------------------
(* The properties.                                                         *)

\* The invariant has the types in it.
LEMMA InvType ==
    ASSUME Inv
    PROVE  TypeOK
<1>1. PICK x, y : /\ OutLeads(sent, OldFraming, framing11, outQ, y, Begin(OldFraming, Len(sent) + 1))
                  /\ ReaderAt(sent, Len(received), x, rx)
  BY DEF Inv, StreamInv, StreamAt
<1>2. sent \in Seq(Payloads)
  BY DEF Inv, WriterInv
<1>3. outQ \in Seq(OutBuffer(framing11))
  BY <1>1, ChainType DEF OutLeads
<1>4. ASSUME NEW i \in DOMAIN outQ
      PROVE  /\ outQ[i].text # <<>>
             /\ (IF framing11 THEN StartPad + EndPad ELSE 0) + Len(outQ[i].text) <= BuffSize
             /\ framing11 => Len(StartOfChunk(Len(outQ[i].text))) <= StartPad
  <2>1. PICK b \in OutBuffer(framing11) : b = outQ[i]
    BY <1>3, LenProperties, ElementOfSeq
  <2>2. /\ b.text \in Seq(Byte) /\ b.text # <<>>
        /\ (IF framing11 THEN StartPad + EndPad ELSE 0) + Len(b.text) <= BuffSize
    BY <2>1 DEF OutBuffer
  <2>3. PICK n \in Nat : n = Len(b.text) /\ n > 0
    BY <2>2, EmptySeq
  <2>4. StartPad \in Nat /\ EndPad \in Nat /\ BuffSize \in Nat
    BY FramingAssumption
  <2>5. n \in 1 .. BuffSize
    <3>1. PICK pads \in Nat, size \in Nat :
            pads = (IF framing11 THEN StartPad + EndPad ELSE 0) /\ size = BuffSize
      BY <2>4
    <3>2. pads + n <= size
      BY <2>2, <2>3, <3>1
    <3>3. n >= 1 /\ n <= size
      BY <2>3, <3>2
    <3>4. QED
      BY <3>1, <3>3
  <2>6. Len(StartOfChunk(n)) <= StartPad
    BY <2>5, FramingAssumption
  <2>7. QED
    BY <2>1, <2>2, <2>3, <2>6
<1>5. /\ rx.instate \in {"idle", "instart", "inmsg", "inbetween", "inend"}
      /\ rx.inendpos \in 0 .. Max({Len(EOM) - 1, MaxStartChunk})
      /\ \A i \in DOMAIN rx.msgQ : \A j \in DOMAIN rx.msgQ[i].buffQ :
            LET b == rx.msgQ[i].buffQ[j] IN b.bufflen <= Len(b.buff) /\ Len(b.buff) <= BuffSize
  BY <1>1, <1>2, ReaderTypes
<1>6. {enabled11, agreed11, greeted, framing11, indefer, reading} \subseteq BOOLEAN
  BY DEF Inv, EndsInv, WriterInv, ReaderInv
<1>7. buffstart \in {0, StartPad} /\ protocol \in {"none", "10", "11"}
  BY DEF Inv, WriterInv, ReaderInv, InitStart
<1>8. /\ sender \in {"server", "manager", "foreign server", "foreign client"}
      /\ wire \in Seq(0 .. 255) /\ readbuff \in Seq(0 .. 255) /\ Len(readbuff) <= ReadSize
  BY DEF Inv, EndsInv, ReaderInv, Byte
<1>9. QED
  BY <1>2, <1>4, <1>5, <1>6, <1>7, <1>8 DEF TypeOK

\* The reader found no fault.
LEMMA InvValid ==
    ASSUME Inv
    PROVE  FramingIsValid
<1>1. PICK x : ReaderAt(sent, Len(received), x, rx)
  BY DEF Inv, StreamInv, StreamAt
<1>2. sent \in Seq(Payloads)
  BY DEF Inv, WriterInv
<1>3. rx.res = "ok"
  BY <1>1, <1>2, ReaderQueue
<1>4. QED
  BY <1>3 DEF FramingIsValid

\* The variables have their types, no buffer holds more than its size, and there is room
\* for the framing of what is queued.
THEOREM TypeCorrect == Spec => []TypeOK
<1>1. Inv => TypeOK
  BY InvType
<1>2. QED
  BY <1>1, Invariance, PTL

\* What this code or a correct peer sends is never refused by the reader, whatever pieces
\* it arrives in, and the assertion at the hello holds.
THEOREM FramingHolds == Spec => []FramingIsValid
<1>1. Inv => FramingIsValid
  BY InvValid
<1>2. QED
  BY <1>1, Invariance, PTL

\* A session implements the stream of messages: sending adds one, and a message handed to
\* the XML reader is the next one sent, byte by byte.
THEOREM FramesArrive == Spec => FramesKept
<1>1. Init => Stream!Init
  BY DEF Init, Stream!Init
<1>2. Inv /\ [Next]_vars => [Stream!Next]_(Stream!vars)
  <2> SUFFICES ASSUME Inv, [Next]_vars
               PROVE  [Stream!Next]_(Stream!vars)
    OBVIOUS
  <2>1. ASSUME NEW m \in Payloads, Connect(m) \/ Send(m) \/ \E cut \in Cuts : SendForeign(m, cut)
        PROVE  Stream!Send
    <3>1. sent' = Append(sent, m)
      <4>1. CASE Connect(m)
        BY <4>1 DEF Connect
      <4>2. CASE Send(m) \/ \E cut \in Cuts : SendForeign(m, cut)
        BY <4>2, Zenon DEF Send, SendForeign
      <4>3. QED
        BY <2>1, <4>1, <4>2
    <3>2. received' = received
      BY <2>1 DEF Connect, Send, SendForeign, reader
    <3>3. QED
      BY <3>1, <3>2 DEF Stream!Send
  <2>2. CASE Dispatch
    <3>1. /\ received' = Append(received, sent[Len(received) + 1])
          /\ Len(received) + 1 <= Len(sent) /\ Len(received) \in Nat
      BY <2>2, DispatchNext
    <3>2. sent' = sent
      BY <2>2 DEF Dispatch, writer
    <3>3. Len(received) < Len(sent)
      BY <3>1, Numbers
    <3>4. QED
      BY <3>1, <3>2, <3>3 DEF Stream!Next, Stream!Receive
  <2>3. CASE \/ Greet \/ WriteBuff \/ TakeDeferred \/ NothingRead \/ AcceptByte \/ UNCHANGED vars
             \/ \E size \in 1 .. ReadSize : Read(size)
    <3>1. sent' = sent
      BY <2>3 DEF Greet, WriteBuff, TakeDeferred, NothingRead, AcceptByte, Read, vars, writer
    <3>2. received' = received
      BY <2>3 DEF Greet, WriteBuff, TakeDeferred, NothingRead, AcceptByte, Read, vars, reader
    <3>3. QED
      BY <3>1, <3>2 DEF Stream!vars
  <2>4. QED
    BY <2>1, <2>2, <2>3 DEF Next, Sender, Receiver, Stream!Next
<1>3. QED
  BY <1>1, <1>2, Invariance, PTL DEF Spec, FramesKept, Stream!Spec
=============================================================================
