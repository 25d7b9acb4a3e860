------------------------- MODULE EnumWrappersProofs -------------------------
(***************************************************************************)
(* Proofs about the names the generator makes up, for any bindings.  The   *)
(* loop that names the variants keeps two facts: every variant so far is   *)
(* its base with a number below the count of that base, and no two of one  *)
(* base are alike.  The passes over the bindings keep a third: what was    *)
(* collected, and then named, are the values known of the enumeration.  The*)
(* rest is what numerals are, that different numbers are written apart, and*)
(* what appending them and trimming a prefix can and cannot do.            *)
(***************************************************************************)
EXTENDS EnumWrappers, TLAPS, FiniteSetTheorems, SequenceTheorems,
  WellFoundedInduction

(* A set of natural numbers has a least element.                            *)
LEMMA Least ==
  ASSUME NEW T, T \subseteq Nat, T # {}
  PROVE  \E x \in T : \A y \in T : x <= y
<1> DEFINE R == OpToRel(<, Nat)
<1>1. \A x, y \in Nat : y < x => <<y, x>> \in R
  BY DEF OpToRel
<1>2. IsWellFoundedOn(R, Nat)
  BY NatLessThanWellFounded, Zenon
<1> HIDE DEF R
<1>3. PICK x \in T : \A y \in T : ~ (<<y, x>> \in R)
  BY <1>2, WFMin
<1>4. ASSUME NEW y \in T PROVE x <= y
  <2>1. x \in Nat /\ y \in Nat /\ ~ (<<y, x>> \in R)
    BY <1>3
  <2>2. ~ (y < x)
    BY <1>1, <2>1
  <2>3. QED  BY <2>1, <2>2
<1>5. QED  BY <1>4

(* Flattening sequences gives a sequence of what is in them.                *)
LEMMA Flattened ==
  ASSUME NEW S, NEW seqs \in Seq(Seq(S))
  PROVE  FlattenSeq(seqs) \in Seq(S)
<1> DEFINE n == Len(seqs)
           Upto(f, m) ==
             [i \in 1 .. m |-> IF i = 1 THEN seqs[i] ELSE f[i - 1] \o seqs[i]]
           flat == CHOOSE f : f = Upto(f, n)
<1>1. FlattenSeq(seqs) = IF n = 0 THEN seqs ELSE flat[n]
  BY DEF FlattenSeq
<1>2. n \in Nat /\ \A i \in 1 .. n : seqs[i] \in Seq(S)
  OBVIOUS
<1>3. \E f : f = Upto(f, n)
  <2> DEFINE Bad == {m \in 0 .. n : ~ \E f : f = Upto(f, m)}
  <2>0. Bad \subseteq 0 .. n /\ \A m \in 0 .. n : m \notin Bad <=> \E f : f = Upto(f, m)
    OBVIOUS
  <2> HIDE DEF Bad
  <2>1. ASSUME Bad # {} PROVE FALSE
    <3>1. PICK m \in Bad : \A k \in Bad : m <= k
      <4>1. Bad \subseteq Nat
        BY <1>2, <2>0
      <4>2. QED  BY <2>1, <4>1, Least
    <3>2. m # 0
      <4>1. \E f : f = Upto(f, 0)
        <5>1. \A f : Upto(f, 0) = <<>>
          OBVIOUS
        <5>2. QED  BY <5>1
      <4>2. QED  BY <1>2, <2>0, <4>1
    <3>3. m - 1 \in 0 .. n /\ m - 1 \notin Bad
      BY <1>2, <2>0, <3>1, <3>2
    <3>4. PICK f : f = Upto(f, m - 1)
      BY <2>0, <3>3
    <3> DEFINE g == [i \in 1 .. m |-> IF i < m THEN f[i] ELSE
                                      IF i = 1 THEN seqs[i] ELSE f[i - 1] \o seqs[i]]
    <3>5. ASSUME NEW i \in 1 .. m
          PROVE  g[i] = IF i = 1 THEN seqs[i] ELSE g[i - 1] \o seqs[i]
      <4>1. m \in Nat
        BY <1>2, <2>0, <3>1
      <4>2. CASE i = m
        BY <4>1, <4>2
      <4>3. CASE i # m
        <5>1. i \in 1 .. m - 1 /\ g[i] = f[i] /\ (i # 1 => i - 1 \in 1 .. m /\ g[i - 1] = f[i - 1])
          BY <4>1, <4>3
        <5>2. f[i] = Upto(f, m - 1)[i]
          BY <3>4
        <5>3. f[i] = IF i = 1 THEN seqs[i] ELSE f[i - 1] \o seqs[i]
          BY <5>1, <5>2
        <5>4. QED  BY <5>1, <5>3
      <4>4. QED  BY <4>2, <4>3
    <3> HIDE DEF g
    <3>6. g = Upto(g, m)
      BY <3>5 DEF g
    <3>7. QED  BY <2>0, <3>1, <3>6
  <2>2. n \in 0 .. n /\ n \notin Bad
    BY <1>2, <2>1
  <2> HIDE DEF n, Upto
  <2>3. QED  BY <2>0, <2>2
<1>4. flat = Upto(flat, n)
  <2> HIDE DEF Upto, n
  <2>1. QED  BY <1>3
<1> HIDE DEF flat
<1>5. \A i \in 1 .. n : flat[i] \in Seq(S)
  <2> DEFINE Bad == {i \in 1 .. n : flat[i] \notin Seq(S)}
  <2>0. Bad \subseteq 1 .. n /\ \A m \in 1 .. n : m \notin Bad <=> flat[m] \in Seq(S)
    OBVIOUS
  <2> HIDE DEF Bad
  <2>1. ASSUME Bad # {} PROVE FALSE
    <3>1. PICK m \in Bad : \A k \in Bad : m <= k
      <4>1. Bad \subseteq Nat
        BY <1>2, <2>0
      <4>2. QED  BY <2>1, <4>1, Least
    <3>2. flat[m] = IF m = 1 THEN seqs[m] ELSE flat[m - 1] \o seqs[m]
      BY <1>2, <1>4, <2>0, <3>1
    <3>3. m # 1 => m - 1 \in 1 .. n /\ m - 1 \notin Bad
      BY <1>2, <2>0, <3>1
    <3>4. flat[m] \in Seq(S)
      <4>1. CASE m = 1
        BY <1>2, <2>0, <3>1, <3>2, <4>1
      <4>2. CASE m # 1
        <5>1. flat[m - 1] \in Seq(S) /\ seqs[m] \in Seq(S)
          BY <1>2, <2>0, <3>1, <3>3, <4>2
        <5>2. flat[m] = flat[m - 1] \o seqs[m]
          BY <3>2, <4>2
        <5> HIDE DEF n
        <5>3. QED  BY <5>1, <5>2
      <4>3. QED  BY <4>1, <4>2
    <3>5. QED  BY <2>0, <3>1, <3>4
  <2>2. QED  BY <2>0, <2>1
<1>6. QED  BY <1>1, <1>2, <1>5

-----------------------------------------------------------------------------
(* Appending a symbol to a name makes a longer one, and only the last symbol*)
(* can make it the built-in one.                                            *)
LEMMA Appended ==
  ASSUME NEW b \in Names, NEW d \in Symbols
  PROVE  /\ Append(b, d) \in Names
         /\ Append(b, d) # b
         /\ d # "unknown" => Append(b, d) # <<"unknown">>
<1>1. b \in Seq(Symbols)
  BY DEF Names
<1>2. /\ Append(b, d) \in Seq(Symbols) /\ Len(Append(b, d)) = Len(b) + 1
      /\ Append(b, d)[Len(b) + 1] = d
  BY <1>1, AppendProperties, Zenon
<1>3. Len(b) \in Nat
  BY <1>1, LenProperties, Zenon
<1>4. Append(b, d) # b
  <2>1. Len(Append(b, d)) # Len(b)
    BY <1>2, <1>3
  <2>2. QED  BY <2>1, Zenon
<1>5. ASSUME Append(b, d) = <<"unknown">> PROVE d = "unknown"
  <2>1. Len(<<"unknown">>) = 1 /\ <<"unknown">>[1] = "unknown"
    OBVIOUS
  <2>2. Len(b) + 1 = 1
    BY <1>2, <1>5, <2>1, Zenon
  <2>3. QED  BY <1>2, <1>5, <2>1, <2>2, Zenon
<1>6. QED  BY <1>2, <1>4, <1>5, Zenon DEF Names

(* The digits differ from each other and from the built-in name.            *)
Digits == ToSet(Digit)
LEMMA DigitFacts ==
  /\ \A i \in 1 .. 10 : Digit[i] \in Digits
  /\ Digits \subseteq Symbols /\ "unknown" \notin Digits
  /\ \A i, j \in 1 .. 10 : Digit[i] = Digit[j] => i = j
<1>1. DOMAIN Digit = 1 .. 10
  BY DEF Digit
<1>2. /\ Digit[1] = "0" /\ Digit[2] = "1" /\ Digit[3] = "2" /\ Digit[4] = "3"
      /\ Digit[5] = "4" /\ Digit[6] = "5" /\ Digit[7] = "6" /\ Digit[8] = "7"
      /\ Digit[9] = "8" /\ Digit[10] = "9"
  BY DEF Digit
<1>3. Digits = {Digit[i] : i \in 1 .. 10}
  BY <1>1, Zenon DEF Digits, ToSet
<1>4. ASSUME NEW i \in 1 .. 10 PROVE Digit[i] # "unknown"
  <2>1. /\ "0" # "unknown" /\ "1" # "unknown" /\ "2" # "unknown" /\ "3" # "unknown"
        /\ "4" # "unknown" /\ "5" # "unknown" /\ "6" # "unknown" /\ "7" # "unknown"
        /\ "8" # "unknown" /\ "9" # "unknown"
    OBVIOUS
  <2>2. i = 1 \/ i = 2 \/ i = 3 \/ i = 4 \/ i = 5 \/ i = 6 \/ i = 7 \/ i = 8 \/ i = 9 \/ i = 10
    OBVIOUS
  <2>3. QED  BY <1>2, <2>1, <2>2, Zenon
<1>5. \A i, j \in 1 .. 10 : Digit[i] = Digit[j] => i = j
  BY DEF Digit
<1>6. QED  BY <1>3, <1>4, <1>5, SymbolsAssumption

(* A number is its last digit after those of a tenth of it.                 *)
LEMMA Tenth ==
  ASSUME NEW n \in Nat
  PROVE  /\ n \div 10 \in Nat /\ (n % 10) \in 0 .. 9 /\ n = 10 * (n \div 10) + (n % 10)
         /\ n >= 10 => n \div 10 < n /\ n \div 10 # 0
OBVIOUS

(* The numerals are there: the definition has a solution on any beginning   *)
(* of the numbers, any two solutions agree, and together they make one.     *)
Solves(f, m) ==
  f = [n \in 0 .. m |->
         IF n < 10 THEN <<Digit[n + 1]>> ELSE Append(f[n \div 10], Digit[(n % 10) + 1])]

(* By the least number on which they do not.                                *)
LEMMA SolutionsAgree ==
  ASSUME NEW f, NEW g, NEW l \in Nat, NEW m \in Nat, Solves(f, l), Solves(g, m),
         NEW n \in Nat, n <= l, n <= m
  PROVE  f[n] = g[n]
<1> DEFINE Bad == {k \in 0 .. n : f[k] # g[k]}
<1>1. Bad \subseteq Nat /\ \A k \in 0 .. n : k \notin Bad <=> f[k] = g[k]
  OBVIOUS
<1> HIDE DEF Bad
<1>2. ASSUME Bad # {} PROVE FALSE
  <2>1. PICK k \in Bad : \A j \in Bad : k <= j
    BY <1>1, <1>2, Least
  <2>2. k \in 0 .. n /\ k \in 0 .. l /\ k \in 0 .. m /\ k \in Nat
    BY <2>1 DEF Bad
  <2>3. /\ f[k] = IF k < 10 THEN <<Digit[k + 1]>> ELSE Append(f[k \div 10], Digit[(k % 10) + 1])
        /\ g[k] = IF k < 10 THEN <<Digit[k + 1]>> ELSE Append(g[k \div 10], Digit[(k % 10) + 1])
    BY <2>2, Zenon DEF Solves
  <2>4. CASE k < 10
    BY <1>1, <2>1, <2>2, <2>3, <2>4
  <2>5. CASE ~ (k < 10)
    <3>1. k \div 10 \in 0 .. n /\ k \div 10 < k
      BY <2>2, <2>5, Tenth
    <3>2. k \div 10 \notin Bad
      BY <2>1, <2>2, <3>1
    <3>3. f[k \div 10] = g[k \div 10]
      BY <1>1, <3>1, <3>2
    <3>4. QED  BY <1>1, <2>1, <2>2, <2>3, <2>5, <3>3
  <2>6. QED  BY <2>4, <2>5
<1>3. QED  BY <1>1, <1>2

(* By the least number that has none.                                       *)
LEMMA SolutionsExist == \A m \in Nat : \E f : Solves(f, m)
<1> DEFINE Bad == {m \in Nat : ~ \E f : Solves(f, m)}
<1>1. Bad \subseteq Nat /\ \A m \in Nat : m \notin Bad <=> \E f : Solves(f, m)
  OBVIOUS
<1> HIDE DEF Bad
<1>2. ASSUME Bad # {} PROVE FALSE
  <2>1. PICK m \in Bad : \A k \in Bad : m <= k
    BY <1>1, <1>2, Least
  <2>2. m \in Nat
    BY <1>1, <2>1
  <2>3. PICK f : m # 0 => Solves(f, m - 1)
    <3>1. CASE m = 0
      BY <3>1
    <3>2. CASE m # 0
      <4>1. m - 1 \in Nat /\ m - 1 \notin Bad
        BY <2>1, <2>2, <3>2
      <4>2. QED  BY <1>1, <4>1
    <3>3. QED  BY <3>1, <3>2
  <2> DEFINE g == [n \in 0 .. m |->
                     IF n < m THEN f[n] ELSE IF n < 10 THEN <<Digit[n + 1]>>
                     ELSE Append(f[n \div 10], Digit[(n % 10) + 1])]
  <2>4. ASSUME NEW n \in 0 .. m
        PROVE  g[n] = IF n < 10 THEN <<Digit[n + 1]>>
                      ELSE Append(g[n \div 10], Digit[(n % 10) + 1])
    <3>1. n \in Nat /\ (n >= 10 => n \div 10 \in 0 .. m /\ n \div 10 < n /\ n \div 10 < m)
      BY <2>2, Tenth
    <3>2. n >= 10 => g[n \div 10] = f[n \div 10]
      BY <2>2, <3>1
    <3>3. CASE n = m
      <4>1. g[n] = IF n < 10 THEN <<Digit[n + 1]>> ELSE Append(f[n \div 10], Digit[(n % 10) + 1])
        BY <2>2, <3>3
      <4> HIDE DEF g
      <4>2. QED  BY <3>1, <3>2, <4>1
    <3>4. CASE n # m
      <4>1. n \in 0 .. m - 1 /\ n < m /\ m # 0
        BY <2>2, <3>4
      <4>2. f[n] = IF n < 10 THEN <<Digit[n + 1]>> ELSE Append(f[n \div 10], Digit[(n % 10) + 1])
        BY <2>3, <4>1, Zenon DEF Solves
      <4>3. g[n] = f[n]
        BY <4>1
      <4> HIDE DEF g
      <4>4. QED  BY <3>1, <3>2, <4>2, <4>3
    <3>5. QED  BY <3>3, <3>4
  <2> HIDE DEF g
  <2>5. Solves(g, m)
    BY <2>4, Zenon DEF g, Solves
  <2>6. QED  BY <1>1, <2>1, <2>2, <2>5
<1>3. QED  BY <1>1, <1>2

(* The numerals satisfy their definition.                                   *)
LEMMA NumeralIs ==
  \A n \in Nat :
    Numeral[n] = IF n < 10 THEN <<Digit[n + 1]>>
                 ELSE Append(Numeral[n \div 10], Digit[(n % 10) + 1])
<1> DEFINE sol(m) == CHOOSE f : Solves(f, m)
           g == [n \in Nat |-> sol(n)[n]]
           Total(h) == [n \in Nat |->
             IF n < 10 THEN <<Digit[n + 1]>> ELSE Append(h[n \div 10], Digit[(n % 10) + 1])]
<1>1. \A m \in Nat : Solves(sol(m), m)
  BY SolutionsExist, Zenon
<1> HIDE DEF sol
<1>2. ASSUME NEW n \in Nat
      PROVE  g[n] = IF n < 10 THEN <<Digit[n + 1]>>
                    ELSE Append(g[n \div 10], Digit[(n % 10) + 1])
  <2>1. n \in 0 .. n /\ (n >= 10 => n \div 10 \in Nat /\ n \div 10 <= n)
    BY Tenth
  <2>2. sol(n)[n] = IF n < 10 THEN <<Digit[n + 1]>>
                    ELSE Append(sol(n)[n \div 10], Digit[(n % 10) + 1])
    BY <1>1, <2>1, Zenon DEF Solves
  <2>3. n >= 10 => sol(n)[n \div 10] = sol(n \div 10)[n \div 10]
    <3>1. SUFFICES ASSUME n >= 10, NEW t \in Nat, t = n \div 10
                   PROVE  sol(n)[t] = sol(t)[t]
      BY <2>1
    <3>2. Solves(sol(n), n) /\ Solves(sol(t), t) /\ t <= n /\ t <= t
      BY <1>1, <2>1, <3>1
    <3>3. QED  BY <3>2, SolutionsAgree
  <2>4. g[n] = sol(n)[n] /\ (n >= 10 => g[n \div 10] = sol(n \div 10)[n \div 10])
    BY <2>1
  <2> HIDE DEF g
  <2>5. n < 10 \/ n >= 10
    OBVIOUS
  <2>6. QED  BY <2>2, <2>3, <2>4, <2>5
<1>3. g = Total(g)
  <2>1. \A n \in Nat : g[n] = Total(g)[n]
    <3> HIDE DEF g
    <3>1. QED  BY <1>2
  <2>2. QED  BY <2>1, Zenon
<1>4. Numeral = CHOOSE h : h = Total(h)
  BY DEF Numeral
<1>5. Numeral = Total(Numeral)
  <2> HIDE DEF Total, g
  <2>1. QED  BY <1>3, <1>4, Zenon
<1>6. ASSUME NEW n \in Nat PROVE Numeral[n] = Total(Numeral)[n]
  <2> HIDE DEF Total
  <2>1. QED  BY <1>5, Zenon
<1>7. QED  BY <1>6, Zenon

(* The definition, case by case.                                            *)
LEMMA NumeralCases ==
  ASSUME NEW n \in Nat
  PROVE  /\ n < 10 => /\ n + 1 \in 1 .. 10 /\ Digit[n + 1] \in Digits
                       /\ Numeral[n] = <<Digit[n + 1]>>
         /\ ~ (n < 10) => /\ (n % 10) + 1 \in 1 .. 10 /\ Digit[(n % 10) + 1] \in Digits
                           /\ n \div 10 \in Nat /\ n \div 10 < n
                           /\ Numeral[n] = Append(Numeral[n \div 10], Digit[(n % 10) + 1])
<1>1. /\ n < 10 => n + 1 \in 1 .. 10
      /\ ~ (n < 10) => (n % 10) + 1 \in 1 .. 10 /\ n \div 10 \in Nat /\ n \div 10 < n
  BY Tenth
<1>2. QED  BY <1>1, NumeralIs, DigitFacts, Zenon

(* A numeral is digits, and not none.                                       *)
LEMMA NumeralType == \A n \in Nat : Numeral[n] \in Seq(Digits) /\ Len(Numeral[n]) >= 1
<1> DEFINE Fine(n) == Numeral[n] \in Seq(Digits) /\ Len(Numeral[n]) >= 1
           Bad == {n \in Nat : ~ Fine(n)}
<1>1. Bad \subseteq Nat /\ \A n \in Nat : n \notin Bad <=> Fine(n)
  OBVIOUS
<1> HIDE DEF Bad
<1>2. ASSUME Bad # {} PROVE FALSE
  <2>1. PICK n \in Bad : \A k \in Bad : n <= k
    BY <1>1, <1>2, Least
  <2>2. n \in Nat
    BY <1>1, <2>1
  <2>3. CASE n < 10
    <3>1. Numeral[n] = <<Digit[n + 1]>> /\ Digit[n + 1] \in Digits
      BY <2>2, <2>3, NumeralCases, Zenon
    <3>2. Fine(n)
      BY <3>1
    <3>3. QED  BY <1>1, <2>1, <2>2, <3>2
  <2>4. CASE ~ (n < 10)
    <3>1. PICK t \in Nat, d \in Digits :
            t < n /\ t = n \div 10 /\ Numeral[n] = Append(Numeral[t], d)
      <4>1. QED  BY <2>2, <2>4, NumeralCases, Zenon
    <3>2. Fine(t)
      BY <1>1, <2>1, <2>2, <3>1
    <3>3. Fine(n)
      BY <3>1, <3>2
    <3>4. QED  BY <1>1, <2>1, <2>2, <3>3
  <2>5. QED  BY <2>3, <2>4
<1>3. QED  BY <1>1, <1>2

(* No two numbers are written alike.                                        *)
LEMMA NumeralInjective ==
  ASSUME NEW m \in Nat, NEW n \in Nat, Numeral[m] = Numeral[n] PROVE m = n
<1> DEFINE Unique(k) == \A l \in Nat : Numeral[k] = Numeral[l] => k = l
           Bad == {k \in Nat : ~ Unique(k)}
<1>1. Bad \subseteq Nat /\ \A k \in Nat : k \notin Bad <=> Unique(k)
  OBVIOUS
<1> HIDE DEF Bad
<1>2. \A k \in Nat : k < 10 => Len(Numeral[k]) = 1 /\ Numeral[k][1] = Digit[k + 1]
  <2>1. \A k \in Nat : k < 10 => Numeral[k] = <<Digit[k + 1]>>
    BY NumeralCases, Zenon
  <2>2. \A d : Len(<<d>>) = 1 /\ <<d>>[1] = d
    OBVIOUS
  <2>3. QED  BY <2>1, <2>2, Zenon
<1>3. ASSUME NEW k \in Nat, ~ (k < 10)
      PROVE  /\ Numeral[k] = Append(Numeral[k \div 10], Digit[(k % 10) + 1])
             /\ Numeral[k \div 10] \in Seq(Digits) /\ Digit[(k % 10) + 1] \in Digits
             /\ k \div 10 \in Nat /\ k \div 10 < k /\ (k % 10) + 1 \in 1 .. 10
             /\ Len(Numeral[k]) > 1
  <2>1. k \div 10 \in Nat /\ k \div 10 < k /\ (k % 10) + 1 \in 1 .. 10
    BY <1>3, NumeralCases, Zenon
  <2>2. Numeral[k] = Append(Numeral[k \div 10], Digit[(k % 10) + 1])
    BY <1>3, NumeralCases, Zenon
  <2>3. /\ Numeral[k \div 10] \in Seq(Digits) /\ Len(Numeral[k \div 10]) >= 1
        /\ Digit[(k % 10) + 1] \in Digits
    BY <1>3, <2>1, NumeralType, NumeralCases, Zenon
  <2>4. \A s \in Seq(Digits), d \in Digits : Len(s) >= 1 => Len(Append(s, d)) > 1
    OBVIOUS
  <2>5. QED  BY <2>1, <2>2, <2>3, <2>4, Zenon
<1>4. ASSUME Bad # {} PROVE FALSE
  <2>1. PICK k \in Bad : \A j \in Bad : k <= j
    BY <1>1, <1>4, Least
  <2>2. PICK l \in Nat : Numeral[k] = Numeral[l] /\ k # l
    BY <1>1, <2>1
  <2>3. k \in Nat
    BY <1>1, <2>1
  <2>4. CASE k < 10 /\ l < 10
    <3>1. Digit[k + 1] = Digit[l + 1]
      BY <1>2, <2>2, <2>3, <2>4
    <3>2. k + 1 \in 1 .. 10 /\ l + 1 \in 1 .. 10
      BY <2>3, <2>4
    <3>3. k + 1 = l + 1
      BY <3>1, <3>2, DigitFacts
    <3>4. QED  BY <2>2, <2>3, <3>3
  <2>5. CASE ~ (k < 10) /\ ~ (l < 10)
    <3>1. /\ Append(Numeral[k \div 10], Digit[(k % 10) + 1]) =
             Append(Numeral[l \div 10], Digit[(l % 10) + 1])
      BY <1>3, <2>2, <2>3, <2>5
    <3>2. Numeral[k \div 10] = Numeral[l \div 10] /\ Digit[(k % 10) + 1] = Digit[(l % 10) + 1]
      <4>1. \A s, t \in Seq(Digits), d, e \in Digits : Append(s, d) = Append(t, e) => s = t /\ d = e
        BY AppendInjective
      <4>2. /\ Numeral[k \div 10] \in Seq(Digits) /\ Digit[(k % 10) + 1] \in Digits
            /\ Numeral[l \div 10] \in Seq(Digits) /\ Digit[(l % 10) + 1] \in Digits
        BY <1>3, <2>3, <2>5, Zenon
      <4> DEFINE x == Numeral[k \div 10]
                 y == Numeral[l \div 10]
                 d == Digit[(k % 10) + 1]
                 e == Digit[(l % 10) + 1]
      <4>3. x \in Seq(Digits) /\ y \in Seq(Digits) /\ d \in Digits /\ e \in Digits
        BY <4>2
      <4>4. Append(x, d) = Append(y, e)
        BY <3>1
      <4>5. x = y /\ d = e
        <5> HIDE DEF x, y, d, e
        <5>1. QED  BY <4>1, <4>3, <4>4
      <4>6. QED  BY <4>5
    <3>3. k \div 10 = l \div 10
      <4>1. PICK a \in Nat : a = k \div 10 /\ a < k
        BY <1>3, <2>3, <2>5
      <4>2. a \notin Bad
        BY <2>1, <2>3, <4>1
      <4>3. Unique(a)
        BY <1>1, <4>2
      <4>4. l \div 10 \in Nat
        BY <1>3, <2>5
      <4>5. QED  BY <3>2, <4>1, <4>3, <4>4
    <3>4. (k % 10) + 1 = (l % 10) + 1
      BY <1>3, <2>3, <2>5, <3>2, DigitFacts
    <3>5. /\ k = 10 * (k \div 10) + (k % 10) /\ l = 10 * (l \div 10) + (l % 10)
          /\ k % 10 \in 0 .. 9 /\ l % 10 \in 0 .. 9
      BY <2>3, Tenth
    <3>6. k % 10 = l % 10
      BY <3>4, <3>5
    <3>7. QED  BY <2>2, <3>3, <3>5, <3>6, Zenon
  <2>6. CASE (k < 10) # (l < 10)
    <3>1. Len(Numeral[k]) = Len(Numeral[l])
      BY <2>2
    <3>2. CASE k < 10 /\ ~ (l < 10)
      <4>1. Len(Numeral[k]) = 1 /\ Len(Numeral[l]) > 1
        BY <1>2, <1>3, <2>3, <3>2, Zenon
      <4>2. QED  BY <3>1, <4>1
    <3>3. CASE ~ (k < 10) /\ l < 10
      <4>1. Len(Numeral[k]) > 1 /\ Len(Numeral[l]) = 1
        BY <1>2, <1>3, <2>3, <3>3, Zenon
      <4>2. QED  BY <3>1, <4>1
    <3>4. QED  BY <2>6, <3>2, <3>3
  <2>7. QED  BY <2>4, <2>5, <2>6
<1>5. QED  BY <1>1, <1>4

(* The number of a variant, which is empty for the first of a name.         *)
Number(k) == IF k > 0 THEN Numeral[k + 1] ELSE <<>>

(* A variant is its base and its number, which are digits.                  *)
LEMMA NumberFacts ==
  ASSUME NEW k \in Nat
  PROVE  /\ Number(k) \in Seq(Digits)
         /\ \A b \in Names : NumberedVariant(b, k) = b \o Number(k)
         /\ \A j \in Nat : Number(j) = Number(k) => j = k
<1>1. \A j \in Nat : /\ Number(j) \in Seq(Digits)
                     /\ j > 0 => Number(j) = Numeral[j + 1] /\ Len(Number(j)) >= 1
                     /\ j = 0 => Number(j) = <<>> /\ Len(Number(j)) = 0
  BY NumeralType DEF Number
<1>2. \A b \in Names : NumberedVariant(b, k) = b \o Number(k)
  <2>1. \A b \in Names : b \o <<>> = b
    BY DEF Names
  <2>2. QED  BY <2>1 DEF NumberedVariant, Number
<1>3. ASSUME NEW j \in Nat, Number(j) = Number(k) PROVE j = k
  <2>1. CASE j > 0 /\ k > 0
    <3>0. j + 1 \in Nat /\ k + 1 \in Nat
      OBVIOUS
    <3>1. Numeral[j + 1] = Numeral[k + 1] /\ j + 1 \in Nat /\ k + 1 \in Nat
      BY <1>3, <2>1, <3>0, Zenon DEF Number
    <3>2. j + 1 = k + 1
      BY <3>1, NumeralInjective
    <3>3. QED  BY <3>2
  <2>2. CASE j = 0 \/ k = 0
    <3>1. Len(Number(j)) = Len(Number(k))
      BY <1>3, Zenon
    <3>2. /\ j > 0 => Len(Number(j)) >= 1
          /\ j = 0 => Len(Number(j)) = 0
          /\ k > 0 => Len(Number(k)) >= 1
          /\ k = 0 => Len(Number(k)) = 0
      BY <1>1, Zenon
    <3>3. QED  BY <2>2, <3>1, <3>2
  <2>3. QED  BY <2>1, <2>2
<1>4. QED  BY <1>1, <1>2, <1>3

(* Digits after a name make a name, and not the built-in one.               *)
LEMMA WithDigits ==
  ASSUME NEW b \in Names, NEW s \in Seq(Digits)
  PROVE  /\ b \o s \in Names
         /\ b # <<"unknown">> => b \o s # <<"unknown">>
         /\ \A t \in Seq(Digits) : b \o s = b \o t => s = t
<1>1. b \in Seq(Symbols) /\ s \in Seq(Symbols) /\ \A t \in Seq(Digits) : t \in Seq(Symbols)
  BY DigitFacts DEF Names
<1>2. b \o s \in Names
  BY <1>1 DEF Names
<1>3. ASSUME NEW t \in Seq(Digits), b \o s = b \o t PROVE s = t
  <2>1. /\ Len(b \o s) = Len(b) + Len(s) /\ \A k \in 1 .. Len(s) : (b \o s)[Len(b) + k] = s[k]
        /\ Len(b \o t) = Len(b) + Len(t) /\ \A k \in 1 .. Len(t) : (b \o t)[Len(b) + k] = t[k]
        /\ Len(b) \in Nat /\ Len(s) \in Nat /\ Len(t) \in Nat
    BY <1>1
  <2>2. Len(s) = Len(t)
    <3>1. Len(b \o s) = Len(b \o t)
      BY <1>3, Zenon
    <3>2. QED  BY <2>1, <3>1
  <2>3. \A k \in 1 .. Len(s) : s[k] = t[k]
    BY <1>3, <2>1, <2>2, Zenon
  <2>4. QED  BY <2>2, <2>3, SeqEqual
<1>4. ASSUME b # <<"unknown">>, b \o s = <<"unknown">> PROVE FALSE
  <2>1. Len(b \o s) = 1 /\ (b \o s)[1] = "unknown"
    BY <1>4
  <2>2. CASE Len(s) = 0
    <3>1. b \o s = b
      BY <1>1, <2>2
    <3>2. QED  BY <1>4, <3>1
  <2>3. CASE Len(s) # 0
    <3>1. Len(b) = 0 /\ Len(s) = 1
      <4>1. Len(b \o s) = Len(b) + Len(s)
        BY <1>1, ConcatProperties, Zenon
      <4>2. 1 = Len(b) + Len(s) /\ Len(s) # 0
        BY <2>1, <2>3, <4>1, Zenon
      <4>3. Len(b) \in Nat /\ Len(s) \in Nat
        BY <1>1
      <4>4. \A x, y \in Nat : 1 = x + y /\ y # 0 => x = 0 /\ y = 1
        OBVIOUS
      <4>5. QED  BY <4>2, <4>3, <4>4, Zenon
    <3>2. s[1] \in Digits /\ (b \o s)[1] = s[1]
      <4>1. b = <<>>
        BY <1>1, <3>1
      <4>2. b \o s = s
        BY <1>1, <4>1
      <4>3. 1 \in 1 .. Len(s)
        BY <3>1
      <4>4. QED  BY <4>2, <4>3, ElementOfSeq, Zenon
    <3>3. QED  BY <2>1, <3>1, <3>2, DigitFacts, Zenon
  <2>4. QED  BY <2>2, <2>3
<1>5. QED  BY <1>2, <1>3, <1>4

(* Two names that digits make equal differ by digits.                       *)
LEMMA DigitsBetween ==
  ASSUME NEW b \in Names, NEW c \in Names, NEW s \in Seq(Digits), NEW t \in Seq(Digits),
         b \o s = c \o t, b # c, Len(b) <= Len(c)
  PROVE  DigitsAfter(b, c)
<1>1. b \in Seq(Symbols) /\ c \in Seq(Symbols) /\ s \in Seq(Symbols) /\ t \in Seq(Symbols)
  BY DigitFacts DEF Names
<1>2. /\ Len(b) \in Nat /\ Len(c) \in Nat /\ Len(s) \in Nat /\ Len(t) \in Nat
      /\ Len(b \o s) = Len(b) + Len(s) /\ Len(c \o t) = Len(c) + Len(t)
      /\ \A k \in 1 .. Len(b) : (b \o s)[k] = b[k]
      /\ \A k \in 1 .. Len(c) : (c \o t)[k] = c[k]
      /\ \A k \in 1 .. Len(s) : (b \o s)[Len(b) + k] = s[k]
  <2>1. \A x, y \in Seq(Symbols) :
          /\ Len(x) \in Nat /\ Len(x \o y) = Len(x) + Len(y)
          /\ \A k \in 1 .. Len(x) : (x \o y)[k] = x[k]
          /\ \A k \in 1 .. Len(y) : (x \o y)[Len(x) + k] = y[k]
    OBVIOUS
  <2>2. QED  BY <1>1, <2>1, Zenon
<1>3. Len(b) + Len(s) = Len(c) + Len(t)
  BY <1>2, Zenon
<1>4. \A k \in 1 .. Len(b) : b[k] = c[k]
  <2>1. \A k \in 1 .. Len(b) : k \in 1 .. Len(c)
    BY <1>2
  <2>2. QED  BY <1>2, <2>1, Zenon
<1>5. ASSUME NEW k \in Len(b) + 1 .. Len(c) PROVE c[k] \in Digits
  <2>1. PICK j \in 1 .. Len(s) : k = Len(b) + j
    <3>1. k - Len(b) \in 1 .. Len(s) /\ k = Len(b) + (k - Len(b))
      BY <1>2, <1>3
    <3>2. QED  BY <3>1
  <2>2. k \in 1 .. Len(c)
    BY <1>2
  <2>3. c[k] = s[j]
    BY <1>2, <2>1, <2>2, Zenon
  <2>4. QED  BY <2>3
<1>6. IsPrefix(b, c)
  <2>1. SubSeq(b, 1, Len(b)) = SubSeq(c, 1, Len(b))
    BY <1>1, <1>2, <1>4
  <2>2. QED  BY <2>1 DEF IsPrefix
<1>7. QED  BY <1>5, <1>6 DEF DigitsAfter, Digits

(* Names numbered alike are one name with one number, or differ by digits.  *)
LEMMA NumberingClash ==
  ASSUME NEW b \in Names, NEW c \in Names, NEW j \in Nat, NEW k \in Nat,
         NumberedVariant(b, j) = NumberedVariant(c, k)
  PROVE  /\ b = c => j = k
         /\ b # c => DigitsAfter(b, c) \/ DigitsAfter(c, b)
<1>1. b \o Number(j) = c \o Number(k) /\ Number(j) \in Seq(Digits) /\ Number(k) \in Seq(Digits)
  BY NumberFacts
<1>2. b = c => j = k
  BY <1>1, WithDigits, NumberFacts
<1>3. ASSUME b # c PROVE DigitsAfter(b, c) \/ DigitsAfter(c, b)
  <2>1. Len(b) <= Len(c) \/ Len(c) <= Len(b)
    BY DEF Names
  <2>2. QED  BY <1>1, <1>3, <2>1, DigitsBetween
<1>4. QED  BY <1>2, <1>3

(* What is numbered is a name, and not the built-in one.                    *)
LEMMA NumberingType ==
  ASSUME NEW b \in Names, NEW k \in Nat
  PROVE  /\ NumberedVariant(b, k) \in Names
         /\ b # <<"unknown">> => NumberedVariant(b, k) # <<"unknown">>
<1>1. NumberedVariant(b, k) = b \o Number(k) /\ Number(k) \in Seq(Digits)
  BY NumberFacts
<1>2. QED  BY <1>1, WithDigits, Zenon

(* The base of a variant is a name, and never the built-in one.             *)
LEMMA BaseFacts ==
  ASSUME taken \in Seq([suffix : Seq(Names), value : Raws]),
         NEW i \in DOMAIN taken
  PROVE  BaseName(taken[i]) \in Names /\ BaseName(taken[i]) # <<"unknown">>
<1> DEFINE values == [j \in DOMAIN taken |-> taken[j].suffix]
           n == CommonTokenPrefixLen(values)
           tokens == TrimTokenPrefix(taken[i].suffix, n)
           pascal == ToPascalCase(tokens)
           name == SanitizeVariant(pascal)
<1>0. /\ 1 \in DOMAIN taken
      /\ \A j \in DOMAIN taken : taken[j].suffix \in Seq(Names)
  <2>1. DOMAIN taken = 1 .. Len(taken) /\ Len(taken) \in Nat
    BY LenProperties, Zenon
  <2>2. \A j \in DOMAIN taken : taken[j] \in [suffix : Seq(Names), value : Raws]
    BY <2>1, ElementOfSeq, Zenon
  <2>3. QED  BY <2>1, <2>2
<1>1. n \in Nat
  <2>1. values[1] = taken[1].suffix
    BY <1>0
  <2>2. values[1] \in Seq(Names)
    BY <1>0, <2>1
  <2> HIDE DEF values
  <2> DEFINE agreeing == {m \in 1 .. Len(values[1]) :
                            \A v \in ToSet(values) : IsPrefix(SubSeq(values[1], 1, m), v)}
  <2>3. n = Cardinality(agreeing)
    BY DEF CommonTokenPrefixLen
  <2>4. agreeing \subseteq 1 .. Len(values[1])
    OBVIOUS
  <2> HIDE DEF agreeing, n
  <2>5. IsFiniteSet(1 .. Len(values[1]))
    BY <2>2, FS_Interval
  <2>6. IsFiniteSet(agreeing)
    BY <2>4, <2>5, FS_Subset
  <2>7. QED  BY <2>3, <2>6, FS_CardinalityType
<1> HIDE DEF n
<1>2. tokens \in Seq(Names)
  <2>1. taken[i].suffix \in Seq(Names)
    BY <1>0
  <2>2. ASSUME NEW s \in Seq(Names) PROVE TrimTokenPrefix(s, n) \in Seq(Names)
    BY <1>1 DEF TrimTokenPrefix
  <2>3. QED  BY <2>1, <2>2
<1> HIDE DEF tokens
<1>3. pascal \in Names
  BY <1>2, Flattened DEF ToPascalCase, Names
<1> HIDE DEF pascal
<1>4. name \in Names /\ name # <<"unknown">>
  <2>1. CASE pascal \in Reserved
    <3>1. name = Append(pascal, "value")
      BY <2>1, Zenon DEF SanitizeVariant
    <3>2. "value" \in Symbols /\ "value" # "unknown"
      BY SymbolsAssumption
    <3>3. QED  BY <1>3, <3>1, <3>2, Appended, Zenon
  <2>2. CASE pascal \notin Reserved
    BY <1>3, <2>2, ReservedAssumption DEF SanitizeVariant
  <2>3. QED  BY <2>1, <2>2
<1>5. BaseName(taken[i]) = IF name = <<>> THEN <<"value">> ELSE name
  BY DEF BaseName, pascal, tokens, n
<1> HIDE DEF name
<1>6. <<"value">> \in Names /\ <<"value">> # <<"unknown">>
  <2>1. <<>> \in Names /\ <<"value">> = Append(<<>>, "value")
    BY DEF Names
  <2>2. "value" \in Symbols /\ "value" # "unknown"
    BY SymbolsAssumption
  <2>3. QED  BY <2>1, <2>2, Appended, Zenon
<1>7. QED  BY <1>4, <1>5, <1>6
-----------------------------------------------------------------------------
(* Types of what the actions put together.                                  *)
ConstantType == [name : Seq(Names), value : Raws]
TakenType == [suffix : Seq(Names), value : Raws]

LEMMA AliasType ==
  ASSUME TypeOK, next <= Len(bindings.aliases)
  PROVE  Alias.name \in Seq(Names) /\ ToPascalCase(Alias.name) \in Names
<1>1. bindings.aliases \in Seq([name : Seq(Names) \ {<<>>}, raw : STRING])
  BY DEF TypeOK, Bindings
<1>2. next \in 1 .. Len(bindings.aliases)
  BY <1>1 DEF TypeOK
<1>3. Alias \in [name : Seq(Names) \ {<<>>}, raw : STRING]
  BY <1>1, <1>2, ElementOfSeq, Zenon DEF Alias
<1>4. Alias.name \in Seq(Names)
  BY <1>3
<1>5. QED  BY <1>4, Flattened, Zenon DEF ToPascalCase, Names

LEMMA SuffixType ==
  ASSUME NEW c \in ConstantType, NEW a \in Seq(Names)
  PROVE  [suffix |-> Suffix(c, a), value |-> c.value] \in TakenType
<1> DEFINE copies == {n \in 1 .. Len(c.name) :
                        IsPrefix(FlattenSeq([k \in 1 .. n |-> Marker(a)]), c.name)}
<1>1. c.name \in Seq(Names) /\ c.value \in Raws
  BY DEF ConstantType
<1>2. Copies(c, a) \in Nat
  <2>1. Copies(c, a) = Cardinality(copies) /\ copies \subseteq 1 .. Len(c.name)
    BY DEF Copies
  <2> HIDE DEF copies
  <2>2. IsFiniteSet(1 .. Len(c.name))
    BY <1>1, FS_Interval
  <2>3. IsFiniteSet(copies)
    BY <2>1, <2>2, FS_Subset
  <2>4. QED  BY <2>1, <2>3, FS_CardinalityType
<1>3. Len(Marker(a)) \in Nat
  BY DEF Marker
<1>4. Copies(c, a) * Len(Marker(a)) \in Nat
  BY <1>2, <1>3
<1>5. \A x \in Nat : SubSeq(c.name, x + 1, Len(c.name)) \in Seq(Names)
  BY <1>1
<1>6. Suffix(c, a) \in Seq(Names)
  BY <1>4, <1>5, Zenon DEF Suffix
<1>7. QED  BY <1>1, <1>6 DEF TakenType

(* What the loop over the collected constants adds.                         *)
LEMMA Named ==
  ASSUME TypeOK, NameVariant
  PROVE  \E base \in Names, k \in Nat :
           /\ base # <<"unknown">> /\ k = Used(base)
           /\ NumberedVariant(base, k) \in Names
           /\ \E v \in Raws :
                arms' = Append(arms, [base |-> base, variant |-> NumberedVariant(base, k),
                                      value |-> v])
           /\ used' = [name \in DOMAIN used \cup {base} |->
                         IF name = base THEN k + 1 ELSE used[name]]
<1> DEFINE i == Len(arms) + 1
           base == BaseName(taken[i])
<1>1. arms \in Seq(ArmType) /\ taken \in Seq(TakenType) /\ Len(arms) < Len(taken)
  BY DEF TypeOK, NameVariant, TakenType
<1>2. i \in 1 .. Len(taken)
  BY <1>1
<1>3. i \in DOMAIN taken /\ taken[i].value \in Raws
  <2>1. DOMAIN taken = 1 .. Len(taken) /\ taken[i] \in TakenType
    BY <1>1, <1>2, ElementOfSeq, LenProperties, Zenon
  <2>2. QED  BY <1>2, <2>1 DEF TakenType
<1>4. base \in Names /\ base # <<"unknown">>
  BY <1>3, BaseFacts DEF TypeOK
<1>5. /\ arms' = Append(arms, [base |-> base, variant |-> NumberedVariant(base, Used(base)),
                               value |-> taken[i].value])
      /\ used' = [name \in DOMAIN used \cup {base} |->
                    IF name = base THEN Used(base) + 1 ELSE used[name]]
  BY Zenon DEF NameVariant
<1> HIDE DEF base, i
<1>6. Used(base) \in Nat
  BY <1>4 DEF Used, TypeOK
<1>7. NumberedVariant(base, Used(base)) \in Names
  BY <1>4, <1>6, NumberingType
<1>8. QED  BY <1>3, <1>4, <1>5, <1>6, <1>7, Zenon

LEMMA TypeInit == Init => TypeOK
<1>1. SUFFICES ASSUME Init PROVE TypeOK
  OBVIOUS
<1>2. Bindings(bindings)
  BY <1>1, InputsAssumption DEF Init
<1>3. QED  BY <1>1, <1>2 DEF Init, TypeOK

LEMMA TypeStep == TypeOK /\ [Next]_vars => TypeOK'
<1>1. SUFFICES ASSUME TypeOK, [Next]_vars PROVE TypeOK'
  OBVIOUS
<1>2. CASE Skip
  BY <1>1, <1>2 DEF TypeOK, Skip, Bindings
<1>3. CASE BeginEnum
  BY <1>1, <1>3 DEF TypeOK, BeginEnum, Bindings
<1>4. CASE Collect
  <2>1. bindings.constants \in Seq(ConstantType)
    BY <1>1 DEF TypeOK, Bindings, ConstantType
  <2>2. line \in 1 .. Len(bindings.constants)
    BY <1>1, <1>4, <2>1 DEF TypeOK, Collect
  <2>3. bindings.constants[line] \in ConstantType
    BY <2>1, <2>2, ElementOfSeq
  <2>4. Alias.name \in Seq(Names)
    <3>1. next <= Len(bindings.aliases)
      BY <1>1, <1>4 DEF TypeOK, Collect
    <3>2. QED  BY <1>1, <3>1, AliasType
  <2> DEFINE found == [suffix |-> Suffix(bindings.constants[line], Alias.name),
                       value |-> bindings.constants[line].value]
  <2>5. found \in TakenType
    BY <2>3, <2>4, SuffixType
  <2>6. taken' = taken \/ taken' = Append(taken, found)
    BY <1>4 DEF Collect
  <2> HIDE DEF found
  <2>7. taken' \in Seq(TakenType)
    <3>1. taken \in Seq(TakenType)
      BY <1>1 DEF TypeOK, TakenType
    <3>2. Append(taken, found) \in Seq(TakenType)
      BY <2>5, <3>1
    <3>3. QED  BY <2>6, <3>1, <3>2, Zenon
  <2>8. line' \in Nat \ {0}
    BY <1>1, <1>4 DEF TypeOK, Collect
  <2>9. QED
    BY <1>1, <1>4, <2>7, <2>8, Zenon DEF TypeOK, Collect, TakenType
<1>5. CASE EndCollect
  BY <1>1, <1>5 DEF TypeOK, EndCollect, Bindings
<1>6. CASE NameVariant
  <2>1. PICK base \in Names, k \in Nat :
          /\ NumberedVariant(base, k) \in Names
          /\ \E v \in Raws :
               arms' = Append(arms, [base |-> base, variant |-> NumberedVariant(base, k),
                                     value |-> v])
          /\ used' = [name \in DOMAIN used \cup {base} |->
                        IF name = base THEN k + 1 ELSE used[name]]
    BY <1>1, <1>6, Named, Zenon
  <2>2. arms' \in Seq(ArmType)
    BY <1>1, <2>1 DEF TypeOK, ArmType
  <2>3. \A name \in DOMAIN used' : name \in Names /\ used'[name] \in Nat \ {0}
    BY <1>1, <2>1 DEF TypeOK
  <2>4. QED
    BY <1>1, <1>6, <2>2, <2>3, Zenon DEF TypeOK, NameVariant
<1>7. CASE WriteEnum
  <2> DEFINE w == [alias |-> next, name |-> ToPascalCase(Alias.name), arms |-> arms]
  <2>1. w \in [alias : Nat, name : Names, arms : Seq(ArmType)]
    <3>1. ToPascalCase(Alias.name) \in Names
      <4>1. next <= Len(bindings.aliases)
        BY <1>1, <1>7 DEF TypeOK, WriteEnum
      <4>2. QED  BY <1>1, <4>1, AliasType
    <3>2. next \in Nat /\ arms \in Seq(ArmType)
      BY <1>1 DEF TypeOK
    <3>3. QED  BY <3>1, <3>2
  <2>2. enums' = Append(enums, w) /\ next' = next + 1 /\ pass' = "enums"
    BY <1>7 DEF WriteEnum
  <2> HIDE DEF w
  <2>3. enums' \in Seq([alias : Nat, name : Names, arms : Seq(ArmType)])
    BY <1>1, <2>1, <2>2 DEF TypeOK
  <2>4. next' \in Nat \ {0} /\ pass' \in {"enums", "collecting", "naming", "structs", "done"}
    BY <1>1, <2>2 DEF TypeOK
  <2>5. QED  BY <1>1, <1>7, <2>3, <2>4, Zenon DEF TypeOK, WriteEnum
<1>8. CASE BeginStructs
  BY <1>1, <1>8 DEF TypeOK, BeginStructs, Bindings
<1>9. CASE WriteStruct
  <2> DEFINE name == ToPascalCase(Alias.name)
  <2>1. name \in Names
    <3>1. next <= Len(bindings.aliases)
      BY <1>9 DEF WriteStruct
    <3>2. QED  BY <1>1, <3>1, AliasType
  <2>2. (structs' = structs \/ structs' = Append(structs, name)) /\ next' = next + 1
    BY <1>9 DEF WriteStruct
  <2> HIDE DEF name
  <2>3. structs' \in Seq(Names) /\ next' \in Nat \ {0}
    <3>1. structs \in Seq(Names) /\ next \in Nat
      BY <1>1 DEF TypeOK
    <3>2. Append(structs, name) \in Seq(Names)
      BY <2>1, <3>1
    <3>3. structs' \in Seq(Names)
      BY <2>2, <3>1, <3>2, Zenon
    <3>4. QED  BY <2>2, <3>1, <3>3
  <2>4. QED  BY <1>1, <1>9, <2>3, Zenon DEF TypeOK, WriteStruct
<1>10. CASE Finish
  BY <1>1, <1>10 DEF TypeOK, Finish, Bindings
<1>11. CASE UNCHANGED vars
  BY <1>1, <1>11 DEF TypeOK, vars, Bindings
<1>12. QED
  BY <1>1, <1>2, <1>3, <1>4, <1>5, <1>6, <1>7, <1>8, <1>9, <1>10, <1>11 DEF Next

-----------------------------------------------------------------------------
(* The loop keeps: a variant is its base with a number below the count of   *)
(* that base, its base is not the built-in name, and two variants of one    *)
(* base differ.                                                             *)
Numbered ==
  \A i \in DOMAIN arms :
    /\ arms[i].base # <<"unknown">> /\ arms[i].base \in DOMAIN used
    /\ \E k \in 0 .. used[arms[i].base] - 1 :
         arms[i].variant = NumberedVariant(arms[i].base, k)

SameBaseApart ==
  \A i, j \in DOMAIN arms :
    i # j /\ arms[i].base = arms[j].base => arms[i].variant # arms[j].variant

(* The enums so far are of aliases before the next.                         *)
AliasesBefore ==
  pass \in {"enums", "collecting", "naming"} =>
    \A i \in DOMAIN enums : enums[i].alias < next

IInv == TypeOK /\ Numbered /\ SameBaseApart /\ AliasesBefore /\ OnlyNamesakesClash

(* Numbered and apart, the variants clash as the property allows only.      *)
LEMMA ArmsClash ==
  ASSUME TypeOK, Numbered, SameBaseApart
  PROVE  NamesakesOnly(arms)
<1>1. SUFFICES ASSUME NEW i \in DOMAIN arms
               PROVE  /\ arms[i].variant # <<"unknown">>
                      /\ \A j \in DOMAIN arms \ {i} :
                           arms[i].variant = arms[j].variant =>
                             \/ DigitsAfter(arms[i].base, arms[j].base)
                             \/ DigitsAfter(arms[j].base, arms[i].base)
  BY Zenon DEF NamesakesOnly
<1>2. ASSUME NEW j \in DOMAIN arms
      PROVE  /\ arms[j].base \in Names
             /\ \E k \in Nat : arms[j].variant = NumberedVariant(arms[j].base, k)
  <2>1. arms[j].base \in Names
    <3>1. arms \in Seq(ArmType)
      BY DEF TypeOK
    <3>2. arms[j] \in ArmType
      BY <1>2, <3>1, ElementOfSeq, LenProperties, Zenon
    <3>3. QED  BY <3>2 DEF ArmType
  <2>2. used[arms[j].base] \in Nat
    BY <1>2 DEF Numbered, TypeOK
  <2>3. PICK k \in 0 .. used[arms[j].base] - 1 : arms[j].variant = NumberedVariant(arms[j].base, k)
    BY <1>2 DEF Numbered
  <2>4. k \in Nat
    BY <2>2, <2>3
  <2>5. QED  BY <2>1, <2>3, <2>4
<1>3. PICK k \in Nat : arms[i].variant = NumberedVariant(arms[i].base, k)
  BY <1>2
<1>4. arms[i].variant # <<"unknown">>
  BY <1>2, <1>3, NumberingType DEF Numbered
<1>5. ASSUME NEW j \in DOMAIN arms \ {i}, arms[i].variant = arms[j].variant
      PROVE  \/ DigitsAfter(arms[i].base, arms[j].base)
             \/ DigitsAfter(arms[j].base, arms[i].base)
  <2>1. PICK l \in Nat : arms[j].variant = NumberedVariant(arms[j].base, l)
    BY <1>2
  <2>2. arms[i].base # arms[j].base
    BY <1>5 DEF SameBaseApart
  <2>3. arms[i].base \in Names /\ arms[j].base \in Names
    BY <1>2
  <2>4. NumberedVariant(arms[i].base, k) = NumberedVariant(arms[j].base, l)
    BY <1>3, <1>5, <2>1
  <2>5. QED  BY <2>2, <2>3, <2>4, NumberingClash
<1>6. QED  BY <1>4, <1>5

LEMMA NamingStep ==
  ASSUME IInv, NameVariant
  PROVE  Numbered' /\ SameBaseApart'
<1>1. PICK base \in Names, k \in Nat, v \in Raws :
        /\ base # <<"unknown">> /\ k = Used(base)
        /\ arms' = Append(arms, [base |-> base, variant |-> NumberedVariant(base, k), value |-> v])
        /\ used' = [name \in DOMAIN used \cup {base} |->
                      IF name = base THEN k + 1 ELSE used[name]]
  BY Named, Zenon DEF IInv
<1> DEFINE n == Len(arms) + 1
<1>2. /\ DOMAIN arms = 1 .. n - 1 /\ DOMAIN arms' = 1 .. n /\ n \in Nat
      /\ \A i \in DOMAIN arms : arms'[i] = arms[i]
      /\ arms'[n].base = base /\ arms'[n].variant = NumberedVariant(base, k)
  BY <1>1 DEF IInv, TypeOK
<1> HIDE DEF n
<1>3. \A i \in DOMAIN arms : i \in DOMAIN arms' /\ i # n
  BY <1>2
<1>4. \A i \in DOMAIN arms' : i \in DOMAIN arms \/ i = n
  BY <1>2
<1>5. \A name \in DOMAIN used : used[name] \in Nat
  <2>1. \A name \in DOMAIN used : used[name] \in Nat \ {0}
    BY Zenon DEF IInv, TypeOK
  <2>2. QED  BY <2>1
<1>6. \A name \in DOMAIN used :
        name \in DOMAIN used' /\ used'[name] \in Nat /\ used[name] <= used'[name]
  <2>1. ASSUME NEW name \in DOMAIN used, name = base
        PROVE  used'[name] = used[name] + 1
    BY <1>1, <2>1 DEF Used
  <2>2. ASSUME NEW name \in DOMAIN used, name # base
        PROVE  used'[name] = used[name]
    BY <1>1, <2>2
  <2>3. \A name \in DOMAIN used : name \in DOMAIN used'
    BY <1>1
  <2>4. ASSUME NEW name \in DOMAIN used
        PROVE  used'[name] \in Nat /\ used[name] <= used'[name]
    <3>1. used[name] \in Nat
      BY <1>5
    <3>2. used'[name] = used[name] + 1 \/ used'[name] = used[name]
      BY <2>1, <2>2, Zenon
    <3>3. QED  BY <3>1, <3>2
  <2>5. QED  BY <2>3, <2>4, Zenon
<1>7. Numbered'
  <2>1. ASSUME NEW i \in DOMAIN arms'
        PROVE  /\ arms'[i].base # <<"unknown">> /\ arms'[i].base \in DOMAIN used'
               /\ \E m \in 0 .. used'[arms'[i].base] - 1 :
                    arms'[i].variant = NumberedVariant(arms'[i].base, m)
    <3>1. CASE i = n
      <4>1. base \in DOMAIN used' /\ used'[base] = k + 1
        BY <1>1
      <4>2. k \in 0 .. used'[base] - 1
        BY <1>1, <4>1
      <4>3. QED  BY <1>1, <1>2, <3>1, <4>1, <4>2
    <3>2. CASE i \in DOMAIN arms
      <4>1. /\ arms[i].base # <<"unknown">> /\ arms[i].base \in DOMAIN used
            /\ arms'[i] = arms[i]
        BY <1>2, <3>2 DEF IInv, Numbered
      <4>2. PICK m \in 0 .. used[arms[i].base] - 1 :
              arms[i].variant = NumberedVariant(arms[i].base, m)
        BY <3>2 DEF IInv, Numbered
      <4>3. arms[i].base \in DOMAIN used' /\ used'[arms[i].base] \in Nat
            /\ used[arms[i].base] <= used'[arms[i].base]
        BY <1>6, <4>1, Zenon
      <4>4. m \in 0 .. used'[arms[i].base] - 1
        BY <1>5, <4>1, <4>2, <4>3
      <4>5. QED  BY <4>1, <4>2, <4>3, <4>4
    <3>3. QED  BY <1>4, <2>1, <3>1, <3>2
  <2>2. QED  BY <2>1, Zenon DEF Numbered
<1>8. ASSUME NEW i \in DOMAIN arms, arms[i].base = base
      PROVE  arms[i].variant # NumberedVariant(base, k)
  <2>1. base \in DOMAIN used /\ k = used[base]
    BY <1>1, <1>8 DEF IInv, Numbered, Used
  <2>2. PICK m \in 0 .. k - 1 : arms[i].variant = NumberedVariant(base, m)
    BY <1>8, <2>1 DEF IInv, Numbered
  <2>3. m \in Nat /\ m # k
    BY <1>1, <2>2
  <2>4. QED  BY <1>1, <2>2, <2>3, NumberingClash
<1>9. SameBaseApart'
  <2>1. ASSUME NEW i \in DOMAIN arms', NEW j \in DOMAIN arms', i # j,
               arms'[i].base = arms'[j].base
        PROVE  arms'[i].variant # arms'[j].variant
    <3>1. CASE i \in DOMAIN arms /\ j \in DOMAIN arms
      BY <1>2, <2>1, <3>1 DEF IInv, SameBaseApart
    <3>2. CASE i = n /\ j \in DOMAIN arms
      BY <1>2, <1>8, <2>1, <3>2
    <3>3. CASE j = n /\ i \in DOMAIN arms
      BY <1>2, <1>8, <2>1, <3>3
    <3>4. QED  BY <1>4, <2>1, <3>1, <3>2, <3>3
  <2>2. QED  BY <2>1, Zenon DEF SameBaseApart
<1>10. QED  BY <1>7, <1>9

LEMMA IInvInit == Init => IInv
<1>1. SUFFICES ASSUME Init PROVE IInv
  OBVIOUS
<1>2. TypeOK
  BY <1>1, TypeInit
<1>3. arms = <<>> /\ enums = <<>> /\ structs = <<>>
  BY <1>1 DEF Init
<1>4. ToSet(<<>>) = {}
  BY DEF ToSet
<1>5. QED
  BY <1>2, <1>3, <1>4
     DEF IInv, Numbered, SameBaseApart, AliasesBefore, OnlyNamesakesClash, NamesakesOnly

LEMMA IInvStep == IInv /\ [Next]_vars => IInv'
<1>1. SUFFICES ASSUME IInv, [Next]_vars PROVE IInv'
  OBVIOUS
<1> DEFINE Written == \A w \in ToSet(enums) : NamesakesOnly(w.arms)
           Single == \A i, j \in DOMAIN enums : i # j => enums[i].alias # enums[j].alias
           Distinct == \A i, j \in DOMAIN structs : i # j => structs[i] # structs[j]
<1>2. TypeOK' /\ Written /\ Single /\ Distinct
  BY <1>1, TypeStep DEF IInv, OnlyNamesakesClash
<1>3. (Numbered /\ SameBaseApart)'
  <2>1. CASE NameVariant
    BY <1>1, <2>1, NamingStep
  <2>2. CASE BeginEnum
    BY <2>2 DEF BeginEnum, Numbered, SameBaseApart
  <2>3. CASE UNCHANGED <<arms, used>>
    BY <1>1, <2>3 DEF IInv, Numbered, SameBaseApart
  <2>4. QED
    BY <1>1, <2>1, <2>2, <2>3
    DEF Next, Skip, Collect, EndCollect, WriteEnum, BeginStructs, WriteStruct, Finish, vars
<1>4. NamesakesOnly(arms)'
  <2>1. (TypeOK /\ Numbered /\ SameBaseApart => NamesakesOnly(arms))'
    BY ArmsClash, PTL
  <2>2. QED  BY <1>2, <1>3, <2>1
<1>5. Written'
  <2>1. CASE WriteEnum
    <3> DEFINE w == [alias |-> next, name |-> ToPascalCase(Alias.name), arms |-> arms]
    <3>1. enums' = Append(enums, w) /\ w.arms = arms
      BY <2>1 DEF WriteEnum
    <3> HIDE DEF w
    <3>2. enums \in Seq([alias : Nat, name : Names, arms : Seq(ArmType)])
      BY <1>1 DEF IInv, TypeOK
    <3>3. ASSUME NEW x \in ToSet(enums') PROVE x \in ToSet(enums) \/ x = w
      BY <3>1, <3>2, <3>3 DEF ToSet
    <3>4. NamesakesOnly(arms)
      BY <1>1 DEF IInv, OnlyNamesakesClash
    <3>5. QED  BY <1>2, <3>1, <3>3, <3>4
  <2>2. CASE UNCHANGED enums
    BY <1>2, <2>2
  <2>3. QED
    BY <1>1, <2>1, <2>2
    DEF Next, Skip, BeginEnum, Collect, EndCollect, NameVariant, BeginStructs, WriteStruct,
        Finish, vars
<1>6. Distinct'
  <2>1. CASE WriteStruct
    <3> DEFINE name == ToPascalCase(Alias.name)
    <3>1. structs' = structs \/ (structs' = Append(structs, name) /\ name \notin ToSet(structs))
      BY <2>1 DEF WriteStruct, Wanted
    <3> HIDE DEF name
    <3>2. structs \in Seq(Names)
      BY <1>1 DEF IInv, TypeOK
    <3>3. \A i \in DOMAIN structs : structs[i] \in ToSet(structs)
      BY DEF ToSet
    <3>4. QED  BY <1>2, <3>1, <3>2, <3>3
  <2>2. CASE UNCHANGED structs
    BY <1>2, <2>2
  <2>3. QED
    BY <1>1, <2>1, <2>2
    DEF Next, Skip, BeginEnum, Collect, EndCollect, NameVariant, WriteEnum, BeginStructs,
        Finish, vars
<1>7. AliasesBefore' /\ Single'
  <2>1. CASE WriteEnum
    <3> DEFINE w == [alias |-> next, name |-> ToPascalCase(Alias.name), arms |-> arms]
    <3>1. enums' = Append(enums, w) /\ w.alias = next /\ next' = next + 1 /\ pass = "naming"
      BY <2>1 DEF WriteEnum
    <3> HIDE DEF w
    <3>2. enums \in Seq([alias : Nat, name : Names, arms : Seq(ArmType)]) /\ next \in Nat
      BY <1>1 DEF IInv, TypeOK
    <3>3. \A i \in DOMAIN enums : enums[i].alias \in Nat /\ enums[i].alias < next
      <4>1. \A i \in DOMAIN enums : enums[i].alias < next
        BY <1>1, <3>1 DEF IInv, AliasesBefore
      <4>2. \A i \in DOMAIN enums : enums[i] \in [alias : Nat, name : Names, arms : Seq(ArmType)]
        BY <3>2, ElementOfSeq, LenProperties, Zenon
      <4>3. QED  BY <4>1, <4>2
    <3> DEFINE n == Len(enums) + 1
    <3>4. /\ DOMAIN enums' = DOMAIN enums \cup {n} /\ enums'[n] = w
          /\ \A i \in DOMAIN enums : i # n /\ enums'[i] = enums[i]
      BY <3>1, <3>2
    <3> HIDE DEF n
    <3>5. AliasesBefore'
      BY <3>1, <3>2, <3>3, <3>4 DEF AliasesBefore
    <3>6. Single'
      BY <1>2, <3>1, <3>2, <3>3, <3>4
    <3>7. QED  BY <3>5, <3>6
  <2>2. CASE Skip \/ EndCollect
    <3>1. /\ enums' = enums /\ pass \in {"enums", "collecting"}
          /\ next \in Nat /\ next' \in {next, next + 1}
      BY <1>1, <2>2 DEF Skip, EndCollect, IInv, TypeOK
    <3>2. \A i \in DOMAIN enums : enums[i].alias \in Nat /\ enums[i].alias < next
      <4>1. enums \in Seq([alias : Nat, name : Names, arms : Seq(ArmType)])
        BY <1>1 DEF IInv, TypeOK
      <4>2. \A i \in DOMAIN enums : enums[i].alias < next
        BY <1>1, <3>1 DEF IInv, AliasesBefore
      <4>3. \A i \in DOMAIN enums : enums[i] \in [alias : Nat, name : Names, arms : Seq(ArmType)]
        BY <4>1, ElementOfSeq, LenProperties, Zenon
      <4>4. QED  BY <4>2, <4>3
    <3>3. AliasesBefore'
      BY <3>1, <3>2 DEF AliasesBefore
    <3>4. QED  BY <1>2, <3>1, <3>3
  <2>3. CASE UNCHANGED <<next, enums>> /\ pass \in {"enums", "collecting", "naming"}
    BY <1>1, <1>2, <2>3 DEF IInv, AliasesBefore
  <2>4. CASE enums' = enums /\ pass' \in {"structs", "done"}
    BY <1>2, <2>4 DEF AliasesBefore
  <2>5. CASE UNCHANGED vars
    BY <1>1, <1>2, <2>5 DEF IInv, AliasesBefore, vars
  <2>6. QED
    BY <1>1, <2>1, <2>2, <2>3, <2>4, <2>5
    DEF Next, BeginEnum, Collect, NameVariant, BeginStructs, WriteStruct, Finish
<1> HIDE DEF Written, Single, Distinct
<1>8. OnlyNamesakesClash'
  BY <1>4, <1>5, <1>6, <1>7 DEF OnlyNamesakesClash, Written, Single, Distinct
<1>9. QED  BY <1>2, <1>3, <1>7, <1>8 DEF IInv

(* The generator keeps its invariant.                                       *)
THEOREM GeneratorInvariant == Spec => []IInv
  BY IInvInit, IInvStep, PTL DEF Spec

(* What the generator reads, collects and writes is of its type, for any    *)
(* bindings (generate_enum_wrappers, generate_struct_wrappers).             *)
THEOREM TypeCorrect == Spec => []TypeOK
<1>1. IInv => TypeOK
  BY DEF IInv
<1>2. QED  BY <1>1, GeneratorInvariant, PTL

(* Whatever the bindings are, and however many constants share a name:      *)
(* variants clash only if the base of one is that of the other with digits  *)
(* after it; none takes the name of the built-in one; enums clash only if   *)
(* different aliases read alike, and structures never.                      *)
THEOREM NamesakesOnlyClash == Spec => []OnlyNamesakesClash
<1>1. IInv => OnlyNamesakesClash
  BY DEF IInv
<1>2. QED  BY <1>1, GeneratorInvariant, PTL

(* Every raw value survives the round trip through a wrapper whose variants *)
(* differ.                                                                  *)
LEMMA RoundTrip ==
  ASSUME NEW w, w.arms \in Seq(ArmType), NamesakesOnly(w.arms), Apart(w), NEW raw \in Raws
  PROVE  AsRaw(w, FromRaw(w, raw)) = raw
<1> DEFINE M == Matches(w, raw)
<1>1. \A i \in DOMAIN w.arms : w.arms[i].variant # <<"unknown">>
  BY Zenon DEF NamesakesOnly
<1>2. CASE M = {}
  BY <1>1, <1>2 DEF FromRaw, AsRaw
<1>3. CASE M # {}
  <2>1. M \subseteq Nat /\ M \subseteq DOMAIN w.arms
    BY DEF Matches
  <2>2. Min(M) \in M
    <3>1. \E x \in M : \A y \in M : x <= y
      BY <1>3, <2>1, Least
    <3>2. Min(M) = CHOOSE x \in M : \A y \in M : x <= y
      BY DEF Min
    <3>3. QED  BY <3>1, <3>2
  <2>3. PICK m \in DOMAIN w.arms : m = Min(M) /\ w.arms[m].value = raw
    BY <2>1, <2>2 DEF Matches
  <2>4. FromRaw(w, raw).variant = w.arms[m].variant
    BY <1>3, <2>3 DEF FromRaw
  <2>5. \A i \in DOMAIN w.arms : w.arms[i].variant = w.arms[m].variant => i = m
    BY DEF Apart
  <2>6. QED  BY <2>3, <2>4, <2>5 DEF AsRaw
<1>4. QED  BY <1>2, <1>3

(* So it does for any bindings (the From conversions that are written).     *)
THEOREM RawValuesSurvive == Spec => []RawSurvives
<1>1. IInv => RawSurvives
  <2>1. SUFFICES ASSUME IInv, NEW w \in ToSet(enums), Apart(w), NEW raw \in Raws
                 PROVE  AsRaw(w, FromRaw(w, raw)) = raw
    BY Zenon DEF RawSurvives
  <2>2. w.arms \in Seq(ArmType)
    <3>1. enums \in Seq([alias : Nat, name : Names, arms : Seq(ArmType)])
      BY <2>1 DEF IInv, TypeOK
    <3>2. w \in [alias : Nat, name : Names, arms : Seq(ArmType)]
      <4>1. PICK i \in DOMAIN enums : w = enums[i]
        BY <2>1 DEF ToSet
      <4>2. i \in 1 .. Len(enums)
        BY <3>1, <4>1, LenProperties
      <4>3. QED  BY <3>1, <4>1, <4>2, ElementOfSeq
    <3>3. QED  BY <3>2
  <2>3. NamesakesOnly(w.arms)
    BY <2>1 DEF IInv, OnlyNamesakesClash
  <2>4. QED  BY <2>1, <2>2, <2>3, RoundTrip
<1>2. QED  BY <1>1, GeneratorInvariant, PTL

-----------------------------------------------------------------------------
(* That known values are named.  The passes over the bindings keep: what is *)
(* collected are the values of the constants read so far; what is named, in *)
(* order, what was collected; and the aliases before the next have their    *)
(* wrappers.                                                                *)
HasValue(s, v) == \E i \in DOMAIN s : s[i].value = v

ReadValue(v, n) ==
  \E i \in DOMAIN bindings.constants :
    /\ i < n
    /\ Belongs(bindings.constants[i], Alias.name)
    /\ bindings.constants[i].value = v

Wrapped(i) ==
  KnownValues(bindings.aliases[i].name) # {} => \E w \in ToSet(enums) : IsWrapperOf(w, i)

Collected ==
  /\ pass = "collecting" =>
       arms = <<>> /\ \A v : HasValue(taken, v) <=> ReadValue(v, line)
  /\ pass = "naming" => \A v : HasValue(taken, v) <=> v \in KnownValues(Alias.name)
  /\ pass \in {"collecting", "naming"} => Alias.name \in bindings.strings

ArmsFollow ==
  pass = "naming" =>
    /\ Len(arms) <= Len(taken)
    /\ \A i \in DOMAIN arms : arms[i].value = taken[i].value

AliasesDone ==
  /\ \A w \in ToSet(enums) :
       \E i \in DOMAIN bindings.aliases :
         bindings.aliases[i].name \in bindings.strings /\ IsWrapperOf(w, i)
  /\ \A i \in DOMAIN bindings.aliases :
       bindings.aliases[i].name \in bindings.strings
       /\ (pass \in {"structs", "done"} \/ i < next) =>
         Wrapped(i)

KInv == Collected /\ ArmsFollow /\ AliasesDone

LEMMA KnownIs ==
  \A alias, v :
    v \in KnownValues(alias) <=>
      \E i \in DOMAIN bindings.constants :
        Belongs(bindings.constants[i], alias) /\ bindings.constants[i].value = v
BY DEF KnownValues, ToSet

(* What is said of the wrappers stays true while they and the bindings stay.*)
LEMMA WrappersStay ==
  ASSUME UNCHANGED <<bindings, enums>>
  PROVE  \A i : /\ \A w : IsWrapperOf(w, i)' <=> IsWrapperOf(w, i)
                /\ Wrapped(i)' <=> Wrapped(i)
<1>1. \A alias : KnownValues(alias)' = KnownValues(alias)
  BY DEF KnownValues, Belongs
<1>2. \A w, i : IsWrapperOf(w, i)' <=> IsWrapperOf(w, i)
  BY <1>1 DEF IsWrapperOf
<1>3. QED  BY <1>1, <1>2 DEF Wrapped

LEMMA AppendedValue ==
  ASSUME NEW S, NEW s \in Seq(S), NEW x \in S, NEW v
  PROVE  HasValue(Append(s, x), v) <=> HasValue(s, v) \/ x.value = v
<1>1. /\ DOMAIN Append(s, x) = DOMAIN s \cup {Len(s) + 1}
      /\ Len(s) + 1 \in DOMAIN Append(s, x)
      /\ Append(s, x)[Len(s) + 1] = x
      /\ \A i \in DOMAIN s : Append(s, x)[i] = s[i]
  OBVIOUS
<1>2. QED  BY <1>1 DEF HasValue

LEMMA CollectStep ==
  ASSUME TypeOK, KInv, Collect PROVE KInv'
<1> DEFINE c == bindings.constants[line]
           found == [suffix |-> Suffix(c, Alias.name), value |-> c.value]
<1>1. /\ pass = "collecting" /\ pass' = "collecting" /\ line' = line + 1
      /\ taken' = IF Belongs(c, Alias.name) THEN Append(taken, found) ELSE taken
      /\ UNCHANGED <<bindings, next, arms, enums>>
  BY DEF Collect
<1>2. Alias' = Alias
  BY <1>1 DEF Alias
<1>3. line \in DOMAIN bindings.constants /\ c \in ConstantType
  <2>1. bindings.constants \in Seq(ConstantType) /\ line \in 1 .. Len(bindings.constants)
    BY DEF TypeOK, Bindings, ConstantType, Collect
  <2>2. QED  BY <2>1, ElementOfSeq, LenProperties, Zenon
<1>4. taken \in Seq(TakenType) /\ found \in TakenType /\ found.value = c.value
  <2>1. Alias.name \in Seq(Names)
    BY AliasType, <1>1 DEF TypeOK
  <2>2. QED  BY <1>3, <2>1, SuffixType DEF TypeOK, TakenType
<1>5. ASSUME NEW v
      PROVE  ReadValue(v, line)' <=>
               ReadValue(v, line) \/ (Belongs(c, Alias.name) /\ c.value = v)
  <2>1. \A i \in DOMAIN bindings.constants : i < line + 1 <=> i < line \/ i = line
    BY DEF TypeOK, Bindings
  <2>2. ReadValue(v, line)' <=>
          \E i \in DOMAIN bindings.constants :
            /\ i < line + 1
            /\ Belongs(bindings.constants[i], Alias.name)
            /\ bindings.constants[i].value = v
    BY <1>1, <1>2 DEF ReadValue, Belongs
  <2> HIDE DEF c
  <2>3. c = bindings.constants[line]
    BY DEF c
  <2>4. QED  BY <1>3, <2>1, <2>2, <2>3 DEF ReadValue
<1> HIDE DEF found, c
<1>6. ASSUME NEW v PROVE HasValue(taken, v)' <=> ReadValue(v, line)'
  <2>1. HasValue(taken, v) <=> ReadValue(v, line)
    BY <1>1 DEF KInv, Collected
  <2>2. HasValue(taken, v)' = HasValue(taken', v)
    BY DEF HasValue
  <2>3. CASE Belongs(c, Alias.name)
    <3>1. taken' = Append(taken, found)
      BY <1>1, <2>3
    <3>2. HasValue(taken', v) <=> HasValue(taken, v) \/ found.value = v
      BY <1>4, <3>1, AppendedValue
    <3>3. QED  BY <1>4, <1>5, <2>1, <2>2, <2>3, <3>2
  <2>4. CASE ~ Belongs(c, Alias.name)
    BY <1>1, <1>5, <2>1, <2>2, <2>4
  <2>5. QED  BY <2>3, <2>4
<1>7. Collected'
  BY <1>1, <1>2, <1>6 DEF KInv, Collected
<1>8. ArmsFollow' /\ AliasesDone'
  BY <1>1, WrappersStay DEF KInv, ArmsFollow, AliasesDone
<1>9. QED  BY <1>7, <1>8 DEF KInv

(* The wrappers that are written stay, and the pass goes on to the alias    *)
(* after one that needs none or has its own.                                *)
LEMMA NextAlias ==
  ASSUME TypeOK, KInv, UNCHANGED bindings, next' = next + 1, pass' = "enums",
         ToSet(enums) \subseteq ToSet(enums'),
         \A w \in ToSet(enums') :
           w \in ToSet(enums) \/ (Alias.name \in bindings.strings /\ IsWrapperOf(w, next)),
         next \in DOMAIN bindings.aliases,
         Alias.name \in bindings.strings =>
           KnownValues(Alias.name) = {} \/ \E w \in ToSet(enums') : IsWrapperOf(w, next)
  PROVE  AliasesDone'
<1>1. \A alias : KnownValues(alias)' = KnownValues(alias)
  BY DEF KnownValues, Belongs
<1>2. \A w, i : IsWrapperOf(w, i)' <=> IsWrapperOf(w, i)
  BY <1>1 DEF IsWrapperOf
<1>3. ASSUME NEW w \in ToSet(enums')
      PROVE  \E i \in DOMAIN bindings.aliases :
               bindings.aliases[i].name \in bindings.strings /\ IsWrapperOf(w, i)
  <2>1. CASE w \in ToSet(enums)
    BY <2>1 DEF KInv, AliasesDone
  <2>2. CASE Alias.name \in bindings.strings /\ IsWrapperOf(w, next)
    BY <2>2 DEF Alias
  <2>3. QED  BY <2>1, <2>2
<1>4. ASSUME NEW i \in DOMAIN bindings.aliases, i < next + 1,
             bindings.aliases[i].name \in bindings.strings
      PROVE  Wrapped(i)'
  <2>1. CASE i = next
    BY <1>1, <1>2, <1>4, <2>1 DEF Wrapped, Alias
  <2>2. CASE i < next
    <3>1. Wrapped(i)
      BY <1>4, <2>2 DEF KInv, AliasesDone
    <3>2. QED  BY <1>1, <1>2, <3>1 DEF Wrapped
  <2>3. i \in Nat /\ next \in Nat
    BY DEF TypeOK, Bindings
  <2>4. QED  BY <1>4, <2>1, <2>2, <2>3
<1>5. QED  BY <1>2, <1>3, <1>4 DEF AliasesDone

LEMMA SkipStep ==
  ASSUME TypeOK, KInv, Skip PROVE KInv'
<1>1. next \in DOMAIN bindings.aliases
  BY DEF TypeOK, Bindings, Skip
<1>2. AliasesDone'
  BY <1>1, NextAlias DEF Skip
<1>3. QED  BY <1>2 DEF KInv, Collected, ArmsFollow, Skip

LEMMA BeginEnumStep ==
  ASSUME TypeOK, KInv, BeginEnum PROVE KInv'
<1>1. ASSUME NEW v PROVE ~ HasValue(taken, v)' /\ ~ ReadValue(v, line)'
  <2>1. taken' = <<>> /\ line' = 1 /\ bindings' = bindings
    BY DEF BeginEnum
  <2>2. ~ HasValue(taken, v)'
    BY <2>1 DEF HasValue
  <2>3. \A i \in DOMAIN bindings.constants : ~ (i < 1)
    BY DEF TypeOK, Bindings
  <2>4. QED  BY <2>1, <2>2, <2>3 DEF ReadValue
<1>2. Collected'
  BY <1>1 DEF Collected, BeginEnum, Alias
<1>3. QED  BY <1>2, WrappersStay DEF KInv, ArmsFollow, AliasesDone, BeginEnum

LEMMA EndCollectStep ==
  ASSUME TypeOK, KInv, EndCollect PROVE KInv'
<1>1. ASSUME NEW v PROVE HasValue(taken, v) <=> v \in KnownValues(Alias.name)
  <2>1. HasValue(taken, v) <=> ReadValue(v, line)
    BY DEF KInv, Collected, EndCollect
  <2>2. \A i \in DOMAIN bindings.constants : i < line
    BY DEF TypeOK, Bindings, EndCollect
  <2>3. QED  BY <2>1, <2>2, KnownIs DEF ReadValue
<1>2. CASE taken = <<>>
  <2>1. KnownValues(Alias.name) = {}
    BY <1>1, <1>2 DEF HasValue
  <2>2. next \in DOMAIN bindings.aliases
    BY DEF TypeOK, Bindings, EndCollect
  <2>3. AliasesDone'
    BY <1>2, <2>1, <2>2, NextAlias DEF EndCollect
  <2>4. QED  BY <1>2, <2>3 DEF KInv, Collected, ArmsFollow, EndCollect
<1>3. CASE taken # <<>>
  <2>1. /\ pass = "collecting" /\ pass' = "naming"
        /\ UNCHANGED <<bindings, next, line, taken, used, arms, enums, structs>>
    BY <1>3 DEF EndCollect
  <2>2. arms' = <<>> /\ Alias' = Alias
    BY <2>1 DEF KInv, Collected, Alias
  <2>3. Collected'
    <3>1. \A v : v \in KnownValues(Alias.name)' <=> v \in KnownValues(Alias.name)
      BY <2>1 DEF KnownValues, Alias, Belongs
    <3>2. \A v : HasValue(taken, v)' <=> HasValue(taken, v)
      BY <2>1 DEF HasValue
    <3>3. QED  BY <1>1, <2>1, <2>2, <3>1, <3>2 DEF KInv, Collected
  <2>4. ArmsFollow'
    BY <2>1, <2>2 DEF ArmsFollow, TypeOK
  <2>5. AliasesDone'
    BY <2>1, WrappersStay DEF KInv, AliasesDone
  <2>6. QED  BY <2>3, <2>4, <2>5 DEF KInv
<1>4. QED  BY <1>2, <1>3

LEMMA NameVariantStep ==
  ASSUME TypeOK, KInv, NameVariant PROVE KInv'
<1> DEFINE n == Len(arms) + 1
           arm == [base |-> BaseName(taken[n]),
                   variant |-> NumberedVariant(BaseName(taken[n]), Used(BaseName(taken[n]))),
                   value |-> taken[n].value]
<1>1. /\ pass = "naming" /\ Len(arms) < Len(taken)
      /\ UNCHANGED <<bindings, pass, next, line, taken, enums, structs>>
      /\ arms' = Append(arms, arm) /\ arm.value = taken[n].value
  BY DEF NameVariant
<1> HIDE DEF arm
<1>2. arms \in Seq(ArmType) /\ Len(taken) \in Nat
  BY DEF TypeOK
<1>3. /\ Len(arms') = n /\ DOMAIN arms' = DOMAIN arms \cup {n}
      /\ arms'[n] = arm /\ \A i \in DOMAIN arms : arms'[i] = arms[i]
  BY <1>1, <1>2
<1>4. n <= Len(taken)
  BY <1>1, <1>2
<1> HIDE DEF n
<1>5. ArmsFollow'
  BY <1>1, <1>3, <1>4 DEF KInv, ArmsFollow
<1>6. Collected'
  <2>1. \A v : v \in KnownValues(Alias.name)' <=> v \in KnownValues(Alias.name)
    BY <1>1 DEF KnownValues, Alias, Belongs
  <2>2. \A v : HasValue(taken, v)' <=> HasValue(taken, v)
    BY <1>1 DEF HasValue
  <2>3. QED  BY <1>1, <2>1, <2>2 DEF KInv, Collected, Alias
<1>7. AliasesDone'
  BY <1>1, WrappersStay DEF KInv, AliasesDone
<1>8. QED  BY <1>5, <1>6, <1>7 DEF KInv

LEMMA WriteEnumStep ==
  ASSUME TypeOK, KInv, WriteEnum PROVE KInv'
<1> DEFINE w == [alias |-> next, name |-> ToPascalCase(Alias.name), arms |-> arms]
<1>1. /\ pass = "naming" /\ Len(arms) = Len(taken)
      /\ enums' = Append(enums, w) /\ pass' = "enums" /\ next' = next + 1
      /\ UNCHANGED bindings
  BY DEF WriteEnum
<1>2. \A v : HasValue(taken, v) <=> v \in KnownValues(Alias.name)
  BY <1>1 DEF KInv, Collected
<1>3. DOMAIN arms = DOMAIN taken /\ \A i \in DOMAIN arms : arms[i].value = taken[i].value
  BY <1>1 DEF KInv, ArmsFollow, TypeOK
<1>4. IsWrapperOf(w, next)
  BY <1>2, <1>3, Zenon DEF IsWrapperOf, HasValue, Alias
<1>5. Alias.name \in bindings.strings
  BY <1>1 DEF KInv, Collected
<1> HIDE DEF w
<1>6. ToSet(enums') = ToSet(enums) \cup {w}
  <2>1. enums \in Seq([alias : Nat, name : Names, arms : Seq(ArmType)])
    BY DEF TypeOK
  <2>2. /\ DOMAIN enums' = DOMAIN enums \cup {Len(enums) + 1}
        /\ enums'[Len(enums) + 1] = w /\ \A i \in DOMAIN enums : enums'[i] = enums[i]
    BY <1>1, <2>1
  <2>3. QED  BY <2>2 DEF ToSet
<1>7. next \in DOMAIN bindings.aliases
  BY <1>1 DEF TypeOK, Bindings
<1>8. AliasesDone'
  BY <1>1, <1>4, <1>5, <1>6, <1>7, NextAlias
<1>9. QED  BY <1>1, <1>8 DEF KInv, Collected, ArmsFollow

LEMMA KInvInit == Init => TypeOK /\ KInv
<1>1. SUFFICES ASSUME Init PROVE TypeOK /\ KInv
  OBVIOUS
<1>2. TypeOK /\ pass = "enums" /\ next = 1 /\ enums = <<>>
  BY <1>1, TypeInit DEF Init
<1>3. ToSet(enums) = {} /\ \A i \in DOMAIN bindings.aliases : ~ (i < next)
  BY <1>2 DEF ToSet, TypeOK, Bindings
<1>4. QED  BY <1>2, <1>3 DEF KInv, Collected, ArmsFollow, AliasesDone

LEMMA KInvStep == TypeOK /\ KInv /\ [Next]_vars => TypeOK' /\ KInv'
<1>1. SUFFICES ASSUME TypeOK, KInv, [Next]_vars PROVE KInv'
  BY TypeStep
<1>2. CASE BeginStructs
  <2>1. /\ pass' = "structs" /\ UNCHANGED <<bindings, enums>>
        /\ \A i \in DOMAIN bindings.aliases : i < next
    BY <1>1, <1>2 DEF BeginStructs, TypeOK, Bindings
  <2>2. AliasesDone'
    BY <1>1, <2>1, WrappersStay DEF KInv, AliasesDone
  <2>3. QED  BY <2>1, <2>2 DEF KInv, Collected, ArmsFollow
<1>3. CASE WriteStruct \/ Finish
  <2>1. /\ pass \in {"structs", "done"} /\ pass' \in {"structs", "done"}
        /\ UNCHANGED <<bindings, enums>>
    BY <1>3 DEF WriteStruct, Finish
  <2>2. AliasesDone'
    BY <1>1, <2>1, WrappersStay DEF KInv, AliasesDone
  <2>3. QED  BY <2>1, <2>2 DEF KInv, Collected, ArmsFollow
<1>4. CASE UNCHANGED vars
  <2>1. UNCHANGED <<bindings, pass, next, line, taken, arms, enums>>
    BY <1>4 DEF vars
  <2>2. AliasesDone' /\ ArmsFollow'
    BY <1>1, <2>1, WrappersStay DEF KInv, AliasesDone, ArmsFollow
  <2>3. Collected'
    <3>1. \A v : v \in KnownValues(Alias.name)' <=> v \in KnownValues(Alias.name)
      BY <2>1 DEF KnownValues, Alias, Belongs
    <3>2. \A v : (HasValue(taken, v)' <=> HasValue(taken, v))
                 /\ (ReadValue(v, line)' <=> ReadValue(v, line))
      BY <2>1 DEF HasValue, ReadValue, Alias, Belongs
    <3>3. QED  BY <1>1, <2>1, <3>1, <3>2 DEF KInv, Collected, Alias
  <2>4. QED  BY <2>2, <2>3 DEF KInv
<1>5. QED
  BY <1>1, <1>2, <1>3, <1>4, SkipStep, BeginEnumStep, CollectStep, EndCollectStep,
     NameVariantStep, WriteEnumStep
  DEF Next

(* No value gets lost between the two passes over the bindings: for any     *)
(* bindings, every wrapper names exactly the values known of its            *)
(* enumeration, and in the end every enumeration with a Strings function and*)
(* a known value has one (generate_enum_wrappers).                          *)
THEOREM KnownValuesAreNamed == Spec => []KnownValuesNamed
<1>1. TypeOK /\ KInv => KnownValuesNamed
  <2>1. SUFFICES ASSUME TypeOK, KInv PROVE KnownValuesNamed
    OBVIOUS
  <2>2. ASSUME pass \in {"structs", "done"}, NEW i \in DOMAIN bindings.aliases,
               bindings.aliases[i].name \in bindings.strings,
               KnownValues(bindings.aliases[i].name) # {}
        PROVE  \E w \in ToSet(enums) : IsWrapperOf(w, i)
    BY <2>1, <2>2 DEF KInv, AliasesDone, Wrapped
  <2>3. QED  BY <2>1, <2>2 DEF KInv, AliasesDone, KnownValuesNamed
<1>2. QED  BY <1>1, KInvInit, KInvStep, PTL DEF Spec

-----------------------------------------------------------------------------
(* What trimming the common prefix can merge.                               *)

(* A set of positions that has all before each of them is an interval.      *)
LEMMA DownwardClosed ==
  ASSUME NEW m \in Nat, NEW A, A \subseteq 1 .. m,
         \A a \in A : 1 .. a \subseteq A
  PROVE  Cardinality(A) \in 0 .. m /\ A = 1 .. Cardinality(A)
<1> DEFINE Bounds == {x \in Nat : \A a \in A : a <= x}
<1>1. PICK n \in Bounds : \A x \in Bounds : n <= x
  <2>1. m \in Bounds
    OBVIOUS
  <2>2. QED  BY <2>1, Least
<1>2. n \in Nat /\ n <= m /\ A \subseteq 1 .. n
  BY <1>1
<1>3. n # 0 => n \in A
  <2>1. SUFFICES ASSUME n # 0, n \notin A PROVE FALSE
    OBVIOUS
  <2>2. n - 1 \in Bounds
    BY <1>2, <2>1
  <2>3. QED  BY <1>1, <1>2, <2>2
<1>4. A = 1 .. n
  <2>1. CASE n = 0
    BY <1>2, <2>1
  <2>2. CASE n # 0
    BY <1>2, <1>3, <2>2
  <2>3. QED  BY <2>1, <2>2
<1>5. Cardinality(1 .. n) = n
  BY <1>2, FS_Interval
<1>6. QED  BY <1>2, <1>4, <1>5

(* The tokens counted are there in every value, and are the same in all.    *)
LEMMA PrefixIsCommon ==
  ASSUME NEW T, NEW values, 1 \in DOMAIN values,
         \A v \in ToSet(values) : v \in Seq(T)
  PROVE  /\ CommonTokenPrefixLen(values) \in Nat
         /\ \A v \in ToSet(values) :
              /\ CommonTokenPrefixLen(values) <= Len(v)
              /\ \A k \in 1 .. CommonTokenPrefixLen(values) : v[k] = values[1][k]
<1> DEFINE first == values[1]
           A == {n \in 1 .. Len(first) :
                   \A v \in ToSet(values) : IsPrefix(SubSeq(first, 1, n), v)}
           n == Cardinality(A)
<1>1. CommonTokenPrefixLen(values) = n
  BY DEF CommonTokenPrefixLen
<1>2. first \in Seq(T)
  BY DEF ToSet
<1> HIDE DEF first
<1>3. ASSUME NEW m \in 1 .. Len(first), NEW v \in ToSet(values)
      PROVE  IsPrefix(SubSeq(first, 1, m), v) <=>
               m <= Len(v) /\ \A k \in 1 .. m : v[k] = first[k]
  <2>1. v \in Seq(T)
    OBVIOUS
  <2>2. /\ SubSeq(first, 1, m) \in Seq(T) /\ Len(SubSeq(first, 1, m)) = m
        /\ \A k \in 1 .. m : SubSeq(first, 1, m)[k] = first[k]
    BY <1>2
  <2>3. SubSeq(SubSeq(first, 1, m), 1, m) = [k \in 1 .. m |-> first[k]]
    BY <1>2, <2>2
  <2>4. m <= Len(v) => SubSeq(v, 1, m) = [k \in 1 .. m |-> v[k]]
    BY <2>1
  <2>5. [k \in 1 .. m |-> first[k]] = [k \in 1 .. m |-> v[k]] <=>
          \A k \in 1 .. m : v[k] = first[k]
    <3>1. ASSUME [k \in 1 .. m |-> first[k]] = [k \in 1 .. m |-> v[k]], NEW k \in 1 .. m
          PROVE  v[k] = first[k]
      <4>1. [j \in 1 .. m |-> first[j]][k] = [j \in 1 .. m |-> v[j]][k]
        BY <3>1, Zenon
      <4>2. QED  BY <4>1
    <3>2. QED  BY <3>1
  <2>6. QED  BY <2>2, <2>3, <2>4, <2>5 DEF IsPrefix
<1>4. \A a \in A : 1 .. a \subseteq A
  <2>1. SUFFICES ASSUME NEW a \in A, NEW b \in 1 .. a, NEW v \in ToSet(values)
                 PROVE  b \in 1 .. Len(first) /\ IsPrefix(SubSeq(first, 1, b), v)
    OBVIOUS
  <2>2. Len(first) \in Nat /\ Len(v) \in Nat
    BY <1>2
  <2>3. a <= Len(v) /\ \A k \in 1 .. a : v[k] = first[k]
    BY <1>3
  <2>4. b \in 1 .. Len(first) /\ b <= Len(v) /\ \A k \in 1 .. b : v[k] = first[k]
    BY <2>2, <2>3
  <2>5. QED  BY <1>3, <2>4
<1>5. n \in 0 .. Len(first) /\ A = 1 .. n
  <2>1. Len(first) \in Nat /\ A \subseteq 1 .. Len(first)
    BY <1>2
  <2> HIDE DEF A
  <2>2. QED  BY <1>4, <2>1, DownwardClosed
<1>6. \A m \in A : \A v \in ToSet(values) : m <= Len(v) /\ \A k \in 1 .. m : v[k] = first[k]
  BY <1>3
<1> HIDE DEF A, n
<1>7. ASSUME NEW v \in ToSet(values)
      PROVE  n <= Len(v) /\ \A k \in 1 .. n : v[k] = first[k]
  <2>1. CASE n = 0
    BY <2>1
  <2>2. CASE n # 0
    <3>1. n \in A
      BY <1>5, <2>2
    <3>2. QED  BY <1>6, <3>1
  <2>3. QED  BY <2>1, <2>2
<1>8. n \in Nat
  BY <1>5
<1>9. QED  BY <1>1, <1>7, <1>8 DEF first

(* What is left of a sequence, and a sequence twice.                         *)
LEMMA TailOf ==
  ASSUME NEW T, NEW x \in Seq(T), NEW n \in Nat, n < Len(x)
  PROVE  /\ Len(SubSeq(x, n + 1, Len(x))) = Len(x) - n
         /\ \A k \in 1 .. Len(x) - n : SubSeq(x, n + 1, Len(x))[k] = x[n + k]
OBVIOUS

LEMMA Doubled ==
  ASSUME NEW T, NEW y \in Seq(T), NEW n \in Nat, Len(y) = n
  PROVE  /\ Len(y \o y) = n + n /\ y \o y \in Seq(T)
         /\ \A k \in 1 .. n : (y \o y)[k] = y[k] /\ (y \o y)[n + k] = y[k]
OBVIOUS

(* Two values collected for one enumeration differ after their common prefix*)
(* is trimmed as they did before, unless one is that prefix and the other   *)
(* the prefix twice (common_token_prefix_len, trim_token_prefix).           *)
THEOREM TrimmingKeepsApart ==
  ASSUME NEW T, NEW values, 1 \in DOMAIN values,
         \A u \in ToSet(values) : u \in Seq(T),
         NEW v \in ToSet(values), NEW w \in ToSet(values),
         TrimTokenPrefix(v, CommonTokenPrefixLen(values)) =
           TrimTokenPrefix(w, CommonTokenPrefixLen(values))
  PROVE  v = w \/ w = v \o v \/ v = w \o w
<1> DEFINE n == CommonTokenPrefixLen(values)
<1>1. /\ n \in Nat /\ n <= Len(v) /\ n <= Len(w)
      /\ \A k \in 1 .. n : v[k] = w[k]
  BY PrefixIsCommon
<1>2. v \in Seq(T) /\ w \in Seq(T)
  OBVIOUS
<1>3. TrimTokenPrefix(v, n) = TrimTokenPrefix(w, n)
  OBVIOUS
<1> HIDE DEF n
<1>4. ASSUME NEW x \in Seq(T), NEW y \in Seq(T), n < Len(x), Len(y) = n,
             \A k \in 1 .. n : x[k] = y[k], SubSeq(x, n + 1, Len(x)) = y
      PROVE  x = y \o y
  <2>0. /\ Len(SubSeq(x, n + 1, Len(x))) = Len(x) - n
        /\ \A k \in 1 .. Len(x) - n : SubSeq(x, n + 1, Len(x))[k] = x[n + k]
    <3>1. n \in Nat /\ n < Len(x)
      BY <1>1, <1>4, Zenon
    <3>2. QED  BY <3>1, TailOf, Zenon
  <2>1. Len(x) = n + n /\ \A k \in 1 .. n : x[n + k] = y[k]
    <3>1. Len(y) = Len(x) - n /\ \A k \in 1 .. Len(x) - n : y[k] = x[n + k]
      BY <1>4, <2>0, Zenon
    <3>2. Len(x) \in Nat /\ n \in Nat /\ n = Len(x) - n
      BY <1>1, <1>4, <3>1, LenProperties, Zenon
    <3>3. Len(x) = n + n
      BY <3>2
    <3>4. QED  BY <3>1, <3>2, <3>3, Zenon
  <2>2. /\ Len(y \o y) = n + n /\ y \o y \in Seq(T)
        /\ \A k \in 1 .. n : (y \o y)[k] = y[k] /\ (y \o y)[n + k] = y[k]
    <3>1. n \in Nat /\ Len(y) = n
      BY <1>1, <1>4, Zenon
    <3>2. QED  BY <3>1, Doubled, Zenon
  <2>3. ASSUME NEW k \in 1 .. n + n PROVE x[k] = (y \o y)[k]
    <3>1. CASE k <= n
      <4>1. k \in 1 .. n
        BY <1>1, <3>1
      <4>2. x[k] = y[k]
        BY <1>4, <4>1, Zenon
      <4>3. QED  BY <2>2, <4>1, <4>2, Zenon
    <3>2. CASE k > n
      <4>1. PICK j \in 1 .. n : k = n + j
        <5>1. k - n \in 1 .. n /\ k = n + (k - n)
          BY <1>1, <3>2
        <5>2. QED  BY <5>1
      <4>2. QED  BY <2>1, <2>2, <4>1, Zenon
    <3>3. k <= n \/ k > n
      <4>1. n \in Nat /\ k \in Nat
        BY <1>1
      <4>2. QED  BY <4>1
    <3>4. QED  BY <3>1, <3>2, <3>3, Zenon
  <2>4. QED  BY <2>1, <2>2, <2>3, SeqEqual
<1>5. CASE n < Len(v) /\ n < Len(w)
  <2>1. SubSeq(v, n + 1, Len(v)) = SubSeq(w, n + 1, Len(w))
    BY <1>3, <1>5 DEF TrimTokenPrefix
  <2>2. Len(v) = Len(w) /\ \A k \in 1 .. Len(v) - n : v[n + k] = w[n + k]
    <3>1. /\ Len(SubSeq(v, n + 1, Len(v))) = Len(v) - n
          /\ Len(SubSeq(w, n + 1, Len(w))) = Len(w) - n
          /\ \A k \in 1 .. Len(v) - n : SubSeq(v, n + 1, Len(v))[k] = v[n + k]
          /\ \A k \in 1 .. Len(w) - n : SubSeq(w, n + 1, Len(w))[k] = w[n + k]
      BY <1>1, <1>2, <1>5
    <3>2. Len(v) - n = Len(w) - n
      BY <2>1, <3>1, Zenon
    <3>3. Len(v) = Len(w)
      BY <1>1, <1>2, <3>2
    <3>4. QED  BY <2>1, <3>1, <3>3, Zenon
  <2>3. ASSUME NEW k \in 1 .. Len(v) PROVE v[k] = w[k]
    <3>1. CASE k <= n
      BY <1>1, <1>2, <3>1
    <3>2. CASE k > n
      <4>1. PICK j \in 1 .. Len(v) - n : k = n + j
        <5>1. k - n \in 1 .. Len(v) - n /\ k = n + (k - n)
          BY <1>1, <1>2, <3>2
        <5>2. QED  BY <5>1
      <4>2. QED  BY <2>2, <4>1
    <3>3. QED  BY <1>1, <1>2, <3>1, <3>2
  <2>4. QED  BY <1>2, <2>2, <2>3, SeqEqual
<1>6. CASE n < Len(v) /\ Len(w) = n
  <2>1. SubSeq(v, n + 1, Len(v)) = w
    BY <1>1, <1>3, <1>6 DEF TrimTokenPrefix
  <2>2. QED  BY <1>1, <1>2, <1>4, <1>6, <2>1, Zenon
<1>7. CASE Len(v) = n /\ n < Len(w)
  <2>1. SubSeq(w, n + 1, Len(w)) = v
    BY <1>1, <1>3, <1>7 DEF TrimTokenPrefix
  <2>2. \A k \in 1 .. n : w[k] = v[k]
    BY <1>1
  <2>3. QED  BY <1>2, <1>4, <1>7, <2>1, <2>2, Zenon
<1>8. CASE Len(v) = n /\ Len(w) = n
  BY <1>1, <1>2, <1>8, SeqEqual
<1>9. Len(v) \in Nat /\ Len(w) \in Nat
  BY <1>2
<1>10. QED  BY <1>1, <1>5, <1>6, <1>7, <1>8, <1>9
=============================================================================
